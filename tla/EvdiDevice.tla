----------------------------- MODULE EvdiDevice ----------------------------
(***************************************************************************)
(* What an evdi device promises a process that is its only client, in the  *)
(* terms of libevdi's documentation: the process connects, asks for an     *)
(* update, is told at once or by one update_ready event that it is ready,  *)
(* and grabs.  EvdiPainter implements it (EvdiPainterDevice), Kernelflut   *)
(* is written against it.                                                  *)
(***************************************************************************)
EXTENDS Naturals

VARIABLES
    link,       \* where the client is in its protocol
    inbox       \* update_ready events it has not read

Init == link = "closed" /\ inbox = 0

Connect == /\ link = "closed" /\ link' = "idle"
           /\ UNCHANGED inbox

Request(answer) ==
    /\ link = "idle" /\ answer \in {"ready", "waiting"}
    /\ link' = answer
    /\ UNCHANGED inbox

\* the driver's one answer to a request it did not answer at once
Notify == /\ link = "waiting" /\ inbox = 0
          /\ inbox' = 1
          /\ UNCHANGED link

Read == /\ link = "waiting" /\ inbox = 1
        /\ link' = "ready" /\ inbox' = 0

Grab == /\ link = "ready" /\ link' = "idle"
        /\ UNCHANGED inbox

Disconnect == /\ link \in {"idle", "waiting", "ready"} /\ link' = "left"
              /\ UNCHANGED inbox

\* the events nobody read are gone
Close == /\ link # "closed" /\ link' = "closed"
         /\ inbox' = 0

Next == \/ Connect \/ Notify \/ Read \/ Grab \/ Disconnect \/ Close
        \/ \E answer \in {"ready", "waiting"} : Request(answer)

Spec == Init /\ [][Next]_<<link, inbox>>

=============================================================================
