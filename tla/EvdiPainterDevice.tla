------------------------- MODULE EvdiPainterDevice -------------------------
(***************************************************************************)
(* EvdiPainter, seen by one client, implements EvdiDevice: whatever the    *)
(* compositor does between its steps, the client is ready only after one   *)
(* answer per request.  A grab takes effect when its ioctl returns.        *)
(***************************************************************************)
EXTENDS EvdiPainter

SoleClient == CHOOSE c \in Clients : TRUE

\* where the client is; it does not see that its grab has several steps
Link == IF client[SoleClient] = "grabbing" THEN "ready" ELSE client[SoleClient]

\* the answers in a queue of events
Answers(queue) == {i \in DOMAIN queue : queue[i] = UpdateReady}

Inbox == Cardinality(Answers(events[SoleClient]))

Device == INSTANCE EvdiDevice WITH link <- Link, inbox <- Inbox

\* The client of a device nobody else connects to is served as EvdiDevice says:
\* one answer per request, one grab per answer.
ImplementsDevice == Device!Spec

=============================================================================
