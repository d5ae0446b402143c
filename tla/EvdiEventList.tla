--------------------------- MODULE EvdiEventList ---------------------------
(***************************************************************************)
(* How the painter's events reach a client (evdi_painter.c): every sender  *)
(* appends to the event list of the client's drm_file with list_add_tail,  *)
(* and the client takes them off in drm_read.                              *)
(*                                                                         *)
(* drm_read holds DRM's event_lock; the senders do not.  Only update_ready *)
(* is sent with the painter locked.  Two senders can meet: a nonblocking   *)
(* commit ends in a worker without modeset locks, while a cursor change    *)
(* runs in its ioctl.  A step is one access to the pointers of the list.   *)
(***************************************************************************)
EXTENDS Naturals, Sequences, FiniteSets

CONSTANTS
    Files,          \* files of the device node; each is opened once
    NoFile,
    Senders,        \* threads that send: the commit's worker, the cursor's ioctl
    NoSender,
    Events,         \* bound: the events there are to send
    UpdateReadies,  \* those that are update_ready; the others are sent unlocked
    NoNode

ASSUME EventFilesAssumption == NoFile \notin Files /\ IsFiniteSet(Files)
ASSUME SendersAssumption == NoSender \notin Senders
ASSUME EventsAssumption == /\ UpdateReadies \subseteq Events /\ IsFiniteSet(Events)
                           /\ Events \cap Files = {}
                           /\ NoNode \notin Events \cup Files

\* A list_head: an event, or the head of a file's list.
Nodes == Files \cup Events

VARIABLES
    filp,           \* per file: "new", "open" or "closed"
    drm_filp,       \* the painter's client
    lock,           \* the sender that holds the painter's lock
    next, prev,     \* the lists
    pc,             \* per sender: where it is
    file, event, last,      \* per sender: its list, its event, the last it saw there
    first, before, after,   \* per file: what its drm_read is taking off
    freed,          \* events read, or dropped with their file
    sent,           \* history, per file: events appended, in order
    got,            \* history, per file: events its client read, in order
    raced,          \* history: files whose list two threads were changing at once
    faulty          \* history: events whose sender met no file, or a closed one

listVars   == <<next, prev>>
senderVars == <<pc, file, event, last>>
readerVars == <<first, before, after>>
history    == <<sent, got, raced, faulty>>
vars == <<filp, drm_filp, lock, listVars, senderVars, readerVars, freed, history>>

Init ==
    /\ filp = [f \in Files |-> "new"]
    /\ drm_filp = NoFile /\ lock = NoSender
    /\ next = [n \in Nodes |-> n] /\ prev = [n \in Nodes |-> n]
    /\ pc = [s \in Senders |-> "idle"]
    /\ file = [s \in Senders |-> NoFile]
    /\ event = [s \in Senders |-> NoNode] /\ last = [s \in Senders |-> NoNode]
    /\ first = [f \in Files |-> NoNode]
    /\ before = [f \in Files |-> NoNode] /\ after = [f \in Files |-> NoNode]
    /\ freed = {}
    /\ sent = [f \in Files |-> <<>>] /\ got = [f \in Files |-> <<>>]
    /\ raced = {} /\ faulty = {}

\* the events of a list, from its head on
Listed(f) ==
    LET step[i \in 0..Cardinality(Nodes)] == IF i = 0 THEN f ELSE next[step[i - 1]]
        ends == {i \in DOMAIN step \ {0} : step[i] = f}
        length == IF ends = {} THEN Cardinality(Nodes)
                  ELSE (CHOOSE i \in ends : \A j \in ends : i <= j) - 1
    IN  [i \in 1..length |-> step[i]]

\* threads that are changing the list of f
Appending(f) == {s \in Senders : file[s] = f /\ pc[s] \in {"head", "last"}}
Quiet(f) == Appending(f) = {} /\ first[f] = NoNode

\* one more thread starts to change the list of f
Enter(f) == raced' = IF Quiet(f) THEN raced ELSE raced \cup {f}

\* a pointer of n is written, if n is still there
Write(pointer, n, m) == [pointer EXCEPT ![n] = IF n \in freed THEN @ ELSE m]

-----------------------------------------------------------------------------
(* The files.  evdi_painter_connect and _disconnect run with the painter   *)
(* locked.                                                                 *)

Open(f) ==
    /\ filp[f] = "new"
    /\ filp' = [filp EXCEPT ![f] = "open"]
    /\ UNCHANGED <<drm_filp, lock, listVars, senderVars, readerVars, freed, history>>

Connect(f) ==
    /\ filp[f] = "open" /\ drm_filp # f /\ lock = NoSender
    /\ drm_filp' = f
    /\ UNCHANGED <<filp, lock, listVars, senderVars, readerVars, freed, history>>

Disconnect(f) ==
    /\ drm_filp = f /\ lock = NoSender
    /\ drm_filp' = NoFile
    /\ UNCHANGED <<filp, lock, listVars, senderVars, readerVars, freed, history>>

\* evdi_driver_preclose disconnects, DRM frees the events nobody read
Close(f) ==
    /\ filp[f] = "open" /\ first[f] = NoNode /\ lock = NoSender
    /\ filp' = [filp EXCEPT ![f] = "closed"]
    /\ drm_filp' = IF drm_filp = f THEN NoFile ELSE drm_filp
    /\ freed' = freed \cup {Listed(f)[i] : i \in DOMAIN Listed(f)}
    /\ UNCHANGED <<lock, listVars, senderVars, readerVars, history>>

-----------------------------------------------------------------------------
(* The senders.                                                            *)

Stop(s) == /\ pc' = [pc EXCEPT ![s] = "idle"]
           /\ file' = [file EXCEPT ![s] = NoFile]
           /\ event' = [event EXCEPT ![s] = NoNode]
           /\ last' = [last EXCEPT ![s] = NoNode]
           /\ lock' = IF lock = s THEN NoSender ELSE lock

\* the sender follows a pointer that is NULL, or to a file that is gone
Fault(s) == /\ faulty' = faulty \cup {event[s]}
            /\ Stop(s)
            /\ UNCHANGED <<listVars, sent, raced>>

Used(e) == \/ e \in freed \cup faulty \/ \E s \in Senders : event[s] = e
           \/ \E f \in Files : \E i \in DOMAIN sent[f] : sent[f][i] = e

\* Mutant of Prepare: update_ready is sent after the unlock.
PrepareUnlocked(s, e) ==
    /\ pc[s] = "idle" /\ ~ Used(e) /\ drm_filp # NoFile
    /\ e \in UpdateReadies => lock = NoSender
    /\ pc' = [pc EXCEPT ![s] = "file"]
    /\ event' = [event EXCEPT ![s] = e]
    /\ UNCHANGED <<filp, drm_filp, lock, listVars, file, last, readerVars, freed, history>>

\* evdi_painter_send_*: "if (painter->drm_filp)", and the event is made; for
\* update_ready (evdi_painter_send_update_ready_if_needed) the painter is locked
Prepare(s, e) ==
    /\ pc[s] = "idle" /\ ~ Used(e) /\ drm_filp # NoFile
    /\ e \in UpdateReadies => lock = NoSender
    /\ lock' = IF e \in UpdateReadies THEN s ELSE lock
    /\ pc' = [pc EXCEPT ![s] = "file"]
    /\ event' = [event EXCEPT ![s] = e]
    /\ UNCHANGED <<filp, drm_filp, listVars, file, last, readerVars, freed, history>>

\* evdi_painter_send_event(painter->drm_filp, ...) reads drm_filp again, and
\* list_add_tail the last event
TakeList(s) ==
    /\ pc[s] = "file"
    /\ IF drm_filp = NoFile
       THEN Fault(s)
       ELSE /\ file' = [file EXCEPT ![s] = drm_filp]
            /\ last' = [last EXCEPT ![s] = prev[drm_filp]]
            /\ pc' = [pc EXCEPT ![s] = "head"]
            /\ Enter(drm_filp)
            /\ UNCHANGED <<lock, listVars, event, sent, faulty>>
    /\ UNCHANGED <<filp, drm_filp, readerVars, freed, got>>

\* Mutant of LinkHead: the event does not point back.
LinkHeadOnly(s) ==
    /\ pc[s] = "head"
    /\ IF filp[file[s]] = "closed"
       THEN Fault(s)
       ELSE /\ prev' = [prev EXCEPT ![file[s]] = event[s]]
            /\ next' = [next EXCEPT ![event[s]] = file[s]]
            /\ pc' = [pc EXCEPT ![s] = "last"]
            /\ UNCHANGED <<lock, file, event, last, sent, raced, faulty>>
    /\ UNCHANGED <<filp, drm_filp, readerVars, freed, got>>

\* the head points to the event, the event to its neighbours
LinkHead(s) ==
    /\ pc[s] = "head"
    /\ IF filp[file[s]] = "closed"
       THEN Fault(s)
       ELSE /\ prev' = [prev EXCEPT ![file[s]] = event[s], ![event[s]] = last[s]]
            /\ next' = [next EXCEPT ![event[s]] = file[s]]
            /\ pc' = [pc EXCEPT ![s] = "last"]
            /\ UNCHANGED <<lock, file, event, last, sent, raced, faulty>>
    /\ UNCHANGED <<filp, drm_filp, readerVars, freed, got>>

\* Mutant of LinkLast: the last event does not point to the new one.
LinkLastForgotten(s) ==
    /\ pc[s] = "last"
    /\ IF filp[file[s]] = "closed"
       THEN Fault(s)
       ELSE /\ sent' = [sent EXCEPT ![file[s]] = Append(@, event[s])]
            /\ Stop(s)
            /\ UNCHANGED <<listVars, raced, faulty>>
    /\ UNCHANGED <<filp, drm_filp, readerVars, freed, got>>

\* the last event points to the new one, and the client is woken up
LinkLast(s) ==
    /\ pc[s] = "last"
    /\ IF filp[file[s]] = "closed"
       THEN Fault(s)
       ELSE /\ next' = Write(next, last[s], event[s])
            /\ sent' = [sent EXCEPT ![file[s]] = Append(@, event[s])]
            /\ Stop(s)
            /\ UNCHANGED <<prev, raced, faulty>>
    /\ UNCHANGED <<filp, drm_filp, readerVars, freed, got>>

SenderStep(s) == TakeList(s) \/ LinkHead(s) \/ LinkLast(s)

-----------------------------------------------------------------------------
(* drm_read.                                                               *)

\* Mutant of ReadFirst: the list may be empty.
ReadFirstBlindly(f) ==
    /\ filp[f] = "open" /\ first[f] = NoNode
    /\ first' = [first EXCEPT ![f] = next[f]]
    /\ Enter(f)
    /\ UNCHANGED <<filp, drm_filp, lock, listVars, senderVars, before, after, freed,
                   sent, got, faulty>>

\* list_first_entry, if the list is not empty
ReadFirst(f) ==
    /\ filp[f] = "open" /\ first[f] = NoNode /\ next[f] # f
    /\ first' = [first EXCEPT ![f] = next[f]]
    /\ Enter(f)
    /\ UNCHANGED <<filp, drm_filp, lock, listVars, senderVars, before, after, freed,
                   sent, got, faulty>>

\* list_del reads both neighbours and joins them: one way, ...
UnlinkBack(f) ==
    LET e == first[f]
    IN  /\ e # NoNode /\ after[f] = NoNode
        /\ before' = [before EXCEPT ![f] = prev[e]]
        /\ after' = [after EXCEPT ![f] = next[e]]
        /\ prev' = Write(prev, next[e], prev[e])
        /\ UNCHANGED <<filp, drm_filp, lock, next, senderVars, first, freed, history>>

\* ... then the other; the client has the event, and it is freed
UnlinkForth(f) ==
    /\ after[f] # NoNode
    /\ next' = Write(next, before[f], after[f])
    /\ got' = [got EXCEPT ![f] = Append(@, first[f])]
    /\ freed' = freed \cup {first[f]}
    /\ first' = [first EXCEPT ![f] = NoNode]
    /\ before' = [before EXCEPT ![f] = NoNode] /\ after' = [after EXCEPT ![f] = NoNode]
    /\ UNCHANGED <<filp, drm_filp, lock, prev, senderVars, sent, raced, faulty>>

ReaderStep(f) == ReadFirst(f) \/ UnlinkBack(f) \/ UnlinkForth(f)

Next ==
    \/ \E f \in Files : Open(f) \/ Connect(f) \/ Disconnect(f) \/ Close(f) \/ ReaderStep(f)
    \/ \E s \in Senders : SenderStep(s) \/ \E e \in Events : Prepare(s, e)

Spec == Init /\ [][Next]_vars

\* The kernel's threads go on, and a client goes on reading until it closes.
FairSpec == /\ Spec
            /\ \A s \in Senders : WF_vars(SenderStep(s))
            /\ \A f \in Files : WF_vars(ReaderStep(f))

-----------------------------------------------------------------------------

\* Every variable keeps its type.
TypeOK ==
    /\ filp \in [Files -> {"new", "open", "closed"}]
    /\ drm_filp \in Files \cup {NoFile} /\ lock \in Senders \cup {NoSender}
    /\ next \in [Nodes -> Nodes] /\ prev \in [Nodes -> Nodes]
    /\ pc \in [Senders -> {"idle", "file", "head", "last"}]
    /\ file \in [Senders -> Files \cup {NoFile}]
    /\ event \in [Senders -> Events \cup {NoNode}]
    /\ last \in [Senders -> Nodes \cup {NoNode}]
    /\ first \in [Files -> Events \cup {NoNode}]
    /\ before \in [Files -> Nodes \cup {NoNode}] /\ after \in [Files -> Nodes \cup {NoNode}]
    /\ freed \subseteq Events
    /\ sent \in [Files -> Seq(Events)] /\ got \in [Files -> Seq(Events)]
    /\ raced \subseteq Files /\ faulty \subseteq Events

\* As long as no two threads change a list at once, it is a queue: what was sent is
\* what was read followed by what is listed.  Even when they do, no event is read
\* twice, and none by another client.
ListIsQueue ==
    /\ \A f \in Files \ raced :
          Quiet(f) /\ filp[f] = "open" => sent[f] = got[f] \o Listed(f)
    /\ \A f, g \in Files : \A i \in DOMAIN got[f], j \in DOMAIN got[g] :
          got[f][i] = got[g][j] => f = g /\ i = j

\* update_ready is never sent to a client that has left: the painter's lock keeps
\* disconnect and close away from the sender.  (The senders of the other events
\* have only their unlocked test.)
UpdateReadyMeetsClient == faulty \cap UpdateReadies = {}

\* A client that goes on reading gets every event, unless two threads changed the
\* list at once.
EventsAreRead ==
    \A f \in Files, e \in Events :
        (\E i \in DOMAIN sent[f] : sent[f][i] = e) ~>
            \/ \E i \in DOMAIN got[f] : got[f][i] = e
            \/ f \in raced \/ filp[f] = "closed"

\* "This notification is sent when an update for a buffer, that had been earlier
\* requested is ready to be consumed": an update_ready that was sent is read or
\* listed, when nobody is changing the list.
UpdateReadyArrives ==
    \A f \in Files : Quiet(f) /\ filp[f] = "open" =>
        \A i \in DOMAIN sent[f] : sent[f][i] \in UpdateReadies =>
            \/ \E j \in DOMAIN got[f] : got[f][j] = sent[f][i]
            \/ \E j \in DOMAIN Listed(f) : Listed(f)[j] = sent[f][i]

=============================================================================
