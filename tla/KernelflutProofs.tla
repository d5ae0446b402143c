-------------------------- MODULE KernelflutProofs --------------------------
(***************************************************************************)
(* kernelflut releases what it acquired and keeps in step with the device, *)
(* for a pool of any size, updates of any number of rectangles, and        *)
(* whatever fails or interrupts it.  That it keeps to the protocol of      *)
(* EvdiDevice is proved as a refinement: every step of Kernelflut is one   *)
(* of EvdiDevice or changes nothing of the device.                         *)
(***************************************************************************)
EXTENDS Kernelflut, TLAPS

-----------------------------------------------------------------------------
(* The inductive invariant.                                                *)

Starting == {"pf_connect", "options", "find", "add", "find_added", "open"}
Asking == {"loop", "check", "wait", "read", "grab", "blit"}
Looping == Asking \cup {"shutdown"}

\* What main holds, by where it is.  A killed process still holds everything.
Holding ==
    /\ pc \in Starting \cup {"connect", "buffers", "epoll"} \cup Looping \cup {"exit", "killed"}
    /\ pc \in Starting \cup {"exit"} => ~ ehandle
    /\ pc \in Starting \cup {"connect", "exit"} =>
          ~ evdi_connected /\ ebufs = {} /\ link = "closed"
    /\ pc \notin Looping \cup {"killed"} => ~ epoll_fd

\* What main is going to return, and that it has closed the pool by then if
\* evdi_setup had succeeded; the trials of a performance test are never overrun.
Ending ==
    /\ pc \notin {"shutdown", "exit"} => err = "none" /\ pt_trial < PT_TRIALS
    /\ pc = "shutdown" => err \in Exceptions \cup {"ERR_EVDI_EPOLL"}
    /\ pc = "exit" => err \in Status
                      /\ (err \in {"none", "ERR_EVDI_EPOLL"} => conns = 0)

\* The device has a place in its protocol for each place in evdi_get, unless it
\* refused the connection; an answer in the inbox is one that main waits for.
Protocol ==
    /\ inbox = 1 => link = "waiting"
    /\ pc \in {"buffers", "epoll", "loop", "blit"} => link \in {"closed", "idle"}
    /\ pc = "grab" => link \in {"closed", "ready"}
    /\ pc = "wait" => link \in {"closed", "waiting"}
    /\ pc = "check" => link \in {"closed", "waiting", "ready"}
    /\ pc = "read" => link = "ready"

\* What update_ready_handler left is for this update, and is used up by it.
Answered ==
    /\ bufferToUpdate = fbid
    /\ pc \in {"add", "find_added", "open", "connect", "buffers", "epoll", "loop", "grab",
               "blit", "wait"} => ebuf_ready_fbid = NoFbid
    /\ pc = "read" => ebuf_ready_fbid = fbid
    /\ pc = "check" => ebuf_ready_fbid = IF link = "ready" THEN fbid ELSE NoFbid

IInv == TypeOK /\ Holding /\ Ending /\ Protocol /\ Answered

\* The abbreviations the actions are written with.
USE BoundsAssumption
    DEF Starting, Asking, Looping, Status, Exceptions, Fbids, FRAMEBUFFERS, NoFbid,
        mainVars, evdiVars, getVars, deviceVars, Exit, Shutdown, Cleanup,
        Device!Init, Device!Connect, Device!Read, Device!Notify

-----------------------------------------------------------------------------

LEMMA InitInv == Init => IInv
BY DEF Init, IInv, TypeOK, Holding, Ending, Protocol, Answered

\* The framebuffer to allocate is one that is not.
LEMMA NextBuffer ==
    ASSUME ebufs \in SUBSET Fbids, ebufs # Fbids
    PROVE  (CHOOSE i \in Fbids \ ebufs : \A j \in Fbids \ ebufs : i <= j) \in Fbids
<1>1. Fbids = {0, 1} /\ \E i \in Fbids : i \notin ebufs
  <2>1. Fbids = {0, 1}
    OBVIOUS
  <2>2. \E i \in Fbids : i \notin ebufs
    <3> HIDE DEF Fbids
    <3> QED BY Zenon
  <2> QED BY <2>1, <2>2
<1>2. CASE 0 \in Fbids \ ebufs
  <2>1. \A j \in Fbids \ ebufs : 0 <= j
    BY <1>1
  <2> QED BY <1>2, <2>1
<1>3. CASE 0 \notin Fbids \ ebufs
  <2>1. 1 \in Fbids \ ebufs /\ \A j \in Fbids \ ebufs : 1 <= j
    BY <1>1, <1>3
  <2> QED BY <2>1
<1> QED BY <1>2, <1>3

\* A startup step takes one resource more, or gives back what it has.
LEMMA SetupInv ==
    ASSUME IInv, SetupStep
    PROVE  IInv'
<1>0. TypeOK /\ Holding /\ Ending /\ Protocol /\ Answered
  BY DEF IInv
<1>1. CASE PfConnect
  <2>1. TypeOK'
    BY <1>0, <1>1 DEF PfConnect, TypeOK
  <2>2. Holding'
    BY <1>0, <1>1 DEF PfConnect, Holding
  <2>3. Ending'
    BY <1>0, <1>1 DEF PfConnect, Ending, TypeOK
  <2>4. Protocol'
    BY <1>0, <1>1 DEF PfConnect, Protocol, Holding, TypeOK
  <2>5. Answered'
    BY <1>0, <1>1 DEF PfConnect, Answered, Protocol, Holding, TypeOK
  <2> QED BY <2>1, <2>2, <2>3, <2>4, <2>5 DEF IInv
<1>2. CASE Options
  <2>1. TypeOK'
    BY <1>0, <1>2 DEF Options, TypeOK
  <2>2. Holding'
    BY <1>0, <1>2 DEF Options, Holding
  <2>3. Ending'
    BY <1>0, <1>2 DEF Options, Ending, TypeOK
  <2>4. Protocol'
    BY <1>0, <1>2 DEF Options, Protocol, Holding, TypeOK
  <2>5. Answered'
    BY <1>0, <1>2 DEF Options, Answered, Protocol, Holding, TypeOK
  <2> QED BY <2>1, <2>2, <2>3, <2>4, <2>5 DEF IInv
<1>3. CASE FindDevice
  <2>1. TypeOK'
    BY <1>0, <1>3 DEF FindDevice, TypeOK
  <2>2. Holding'
    BY <1>0, <1>3 DEF FindDevice, Holding
  <2>3. Ending'
    BY <1>0, <1>3 DEF FindDevice, Ending, TypeOK
  <2>4. Protocol'
    BY <1>0, <1>3 DEF FindDevice, Protocol, Holding, TypeOK
  <2>5. Answered'
    BY <1>0, <1>3 DEF FindDevice, Answered, Protocol, Holding, TypeOK
  <2> QED BY <2>1, <2>2, <2>3, <2>4, <2>5 DEF IInv
<1>4. CASE OpenDevice
  <2>1. TypeOK'
    BY <1>0, <1>4 DEF OpenDevice, TypeOK
  <2>2. Holding'
    BY <1>0, <1>4 DEF OpenDevice, Holding
  <2>3. Ending'
    BY <1>0, <1>4 DEF OpenDevice, Ending, TypeOK
  <2>4. Protocol'
    BY <1>0, <1>4 DEF OpenDevice, Protocol, Holding, TypeOK
  <2>5. Answered'
    BY <1>0, <1>4 DEF OpenDevice, Answered, Protocol, Holding, TypeOK
  <2> QED BY <2>1, <2>2, <2>3, <2>4, <2>5 DEF IInv
<1>5. CASE ConnectDevice
  <2>1. TypeOK'
    BY <1>0, <1>5 DEF ConnectDevice, TypeOK
  <2>2. Holding'
    BY <1>0, <1>5 DEF ConnectDevice, Holding
  <2>3. Ending'
    BY <1>0, <1>5 DEF ConnectDevice, Ending, TypeOK
  <2>4. Protocol'
    BY <1>0, <1>5 DEF ConnectDevice, Protocol, Holding, TypeOK
  <2>5. Answered'
    BY <1>0, <1>5 DEF ConnectDevice, Answered, Protocol, Holding, TypeOK
  <2> QED BY <2>1, <2>2, <2>3, <2>4, <2>5 DEF IInv
<1>6. CASE AllocBuffer
  <2>1. TypeOK'
    <3>1. CASE ebufs # Fbids /\ UNCHANGED pc
      <4>1. PICK id \in Fbids : /\ ebufs' = ebufs \cup {id}
                                /\ frameBuffers' = frameBuffers \cup {id}
                                /\ ebuf_registered' = ebuf_registered \cup {id}
        BY <1>0, <1>6, <3>1, NextBuffer DEF AllocBuffer, TypeOK
      <4>2. UNCHANGED <<err, conns, pt_trial, getVars, num_rects, deviceVars>>
        BY <1>6, <3>1 DEF AllocBuffer
      <4> QED BY <1>0, <4>1, <4>2 DEF TypeOK
    <3>2. CASE pc' = "exit"
      <4>1. frameBuffers \ ebuf_registered = {}
        BY <1>0 DEF TypeOK
      <4>2. Exit("ERR_ALLOC") /\ Cleanup /\ UNCHANGED <<conns, pt_trial, getVars, num_rects>>
        BY <1>6, <3>2 DEF AllocBuffer
      <4> QED BY <1>0, <4>1, <4>2 DEF TypeOK
    <3>3. CASE pc' = "epoll"
      BY <1>0, <1>6, <3>3 DEF AllocBuffer, TypeOK
    <3> QED BY <1>6, <3>1, <3>2, <3>3 DEF AllocBuffer
  <2>2. Holding'
    BY <1>0, <1>6 DEF AllocBuffer, Holding
  <2>3. Ending'
    BY <1>0, <1>6 DEF AllocBuffer, Ending, TypeOK
  <2>4. Protocol'
    BY <1>0, <1>6 DEF AllocBuffer, Protocol, Holding, TypeOK
  <2>5. Answered'
    BY <1>0, <1>6 DEF AllocBuffer, Answered, Protocol, Holding, TypeOK
  <2> QED BY <2>1, <2>2, <2>3, <2>4, <2>5 DEF IInv
<1>7. CASE SetupEpoll
  <2>1. TypeOK'
    <3>1. CASE pc' = "loop"
      BY <1>0, <1>7, <3>1 DEF SetupEpoll, TypeOK
    <3>2. CASE pc' = "exit"
      <4>1. frameBuffers \ ebuf_registered = {}
        BY <1>0 DEF TypeOK
      <4>2. Exit("ERR_IRRECOVERABLE") /\ Cleanup
            /\ UNCHANGED <<conns, pt_trial, getVars, num_rects>>
        BY <1>7, <3>2 DEF SetupEpoll
      <4> QED BY <1>0, <4>1, <4>2 DEF TypeOK
    <3> QED BY <1>7, <3>1, <3>2 DEF SetupEpoll
  <2>2. Holding'
    BY <1>0, <1>7 DEF SetupEpoll, Holding
  <2>3. Ending'
    BY <1>0, <1>7 DEF SetupEpoll, Ending, TypeOK
  <2>4. Protocol'
    BY <1>0, <1>7 DEF SetupEpoll, Protocol, Holding, TypeOK
  <2>5. Answered'
    BY <1>0, <1>7 DEF SetupEpoll, Answered, Protocol, Holding, TypeOK
  <2> QED BY <2>1, <2>2, <2>3, <2>4, <2>5 DEF IInv
<1> QED BY <1>1, <1>2, <1>3, <1>4, <1>5, <1>6, <1>7 DEF SetupStep

\* A step of the loop stays in step with the device; the last one releases all.
LEMMA LoopInv ==
    ASSUME IInv, LoopStep
    PROVE  IInv'
<1>0. TypeOK /\ Holding /\ Ending /\ Protocol /\ Answered
  BY DEF IInv
<1>1. CASE RequestUpdate
  <2>1. TypeOK'
    BY <1>0, <1>1 DEF RequestUpdate, TypeOK
  <2>2. Holding'
    BY <1>0, <1>1 DEF RequestUpdate, Holding
  <2>3. Ending'
    BY <1>0, <1>1 DEF RequestUpdate, Ending, TypeOK
  <2>4. Protocol'
    BY <1>0, <1>1 DEF RequestUpdate, Protocol, Holding, TypeOK
  <2>5. Answered'
    BY <1>0, <1>1 DEF RequestUpdate, Answered, Protocol, Holding, TypeOK
  <2> QED BY <2>1, <2>2, <2>3, <2>4, <2>5 DEF IInv
<1>2. CASE CheckReady
  <2>1. TypeOK'
    BY <1>0, <1>2 DEF CheckReady, TypeOK
  <2>2. Holding'
    BY <1>0, <1>2 DEF CheckReady, Holding
  <2>3. Ending'
    BY <1>0, <1>2 DEF CheckReady, Ending, TypeOK
  <2>4. Protocol'
    BY <1>0, <1>2 DEF CheckReady, Protocol, Answered, TypeOK
  <2>5. Answered'
    BY <1>0, <1>2 DEF CheckReady, Answered, Protocol, Holding, TypeOK
  <2> QED BY <2>1, <2>2, <2>3, <2>4, <2>5 DEF IInv
<1>3. CASE WaitInterrupted
  <2>1. TypeOK'
    BY <1>0, <1>3 DEF WaitInterrupted, TypeOK
  <2>2. Holding'
    BY <1>0, <1>3 DEF WaitInterrupted, Holding
  <2>3. Ending'
    BY <1>0, <1>3 DEF WaitInterrupted, Ending, TypeOK
  <2>4. Protocol'
    BY <1>0, <1>3 DEF WaitInterrupted, Protocol, Holding, TypeOK
  <2>5. Answered'
    BY <1>0, <1>3 DEF WaitInterrupted, Answered, Protocol, Holding, TypeOK
  <2> QED BY <2>1, <2>2, <2>3, <2>4, <2>5 DEF IInv
<1>4. CASE ReadEvents
  <2>1. TypeOK'
    BY <1>0, <1>4 DEF ReadEvents, TypeOK
  <2>2. Holding'
    BY <1>0, <1>4 DEF ReadEvents, Holding
  <2>3. Ending'
    BY <1>0, <1>4 DEF ReadEvents, Ending, TypeOK
  <2>4. Protocol'
    BY <1>0, <1>4 DEF ReadEvents, Protocol, Holding, TypeOK
  <2>5. Answered'
    BY <1>0, <1>4 DEF ReadEvents, Answered, Protocol, Holding, TypeOK
  <2> QED BY <2>1, <2>2, <2>3, <2>4, <2>5 DEF IInv
<1>5. CASE WaitReturns
  <2>1. TypeOK'
    BY <1>0, <1>5 DEF WaitReturns, TypeOK
  <2>2. Holding'
    BY <1>0, <1>5 DEF WaitReturns, Holding
  <2>3. Ending'
    BY <1>0, <1>5 DEF WaitReturns, Ending, TypeOK
  <2>4. Protocol'
    BY <1>0, <1>5 DEF WaitReturns, Protocol, Holding, TypeOK
  <2>5. Answered'
    BY <1>0, <1>5 DEF WaitReturns, Answered, Protocol, Holding, TypeOK
  <2> QED BY <2>1, <2>2, <2>3, <2>4, <2>5 DEF IInv
<1>6. CASE GrabPixels
  <2>1. TypeOK'
    BY <1>0, <1>6 DEF GrabPixels, TypeOK
  <2>2. Holding'
    BY <1>0, <1>6 DEF GrabPixels, Holding
  <2>3. Ending'
    BY <1>0, <1>6 DEF GrabPixels, Ending, TypeOK
  <2>4. Protocol'
    BY <1>0, <1>6 DEF GrabPixels, Protocol, Holding, TypeOK
  <2>5. Answered'
    BY <1>0, <1>6 DEF GrabPixels, Answered, Protocol, Holding, TypeOK
  <2> QED BY <2>1, <2>2, <2>3, <2>4, <2>5 DEF IInv
<1>7. CASE BlitDone
  <2>1. TypeOK'
    BY <1>0, <1>7 DEF BlitDone, TypeOK
  <2>2. Holding'
    BY <1>0, <1>7 DEF BlitDone, Holding
  <2>3. Ending'
    BY <1>0, <1>7 DEF BlitDone, Ending, TypeOK
  <2>4. Protocol'
    BY <1>0, <1>7 DEF BlitDone, Protocol, Holding, TypeOK
  <2>5. Answered'
    BY <1>0, <1>7 DEF BlitDone, Answered, Protocol, Holding, TypeOK
  <2> QED BY <2>1, <2>2, <2>3, <2>4, <2>5 DEF IInv
<1>8. CASE Blit
  <2>1. TypeOK'
    BY <1>0, <1>8 DEF Blit, Ending, TypeOK
  <2>2. Holding'
    BY <1>0, <1>8 DEF Blit, Holding
  <2>3. Ending'
    BY <1>0, <1>8 DEF Blit, Ending, TypeOK
  <2>4. Protocol'
    BY <1>0, <1>8 DEF Blit, Protocol, Holding, TypeOK
  <2>5. Answered'
    BY <1>0, <1>8 DEF Blit, Answered, Protocol, Holding, TypeOK
  <2> QED BY <2>1, <2>2, <2>3, <2>4, <2>5 DEF IInv
<1>9. CASE Return
  <2>1. TypeOK'
    BY <1>0, <1>9 DEF Return, TypeOK
  <2>2. Holding'
    BY <1>0, <1>9 DEF Return, Holding
  <2>3. Ending'
    BY <1>0, <1>9 DEF Return, Ending, TypeOK
  <2>4. Protocol'
    BY <1>0, <1>9 DEF Return, Protocol, Holding, TypeOK
  <2>5. Answered'
    BY <1>0, <1>9 DEF Return, Answered, Protocol, Holding, TypeOK
  <2> QED BY <2>1, <2>2, <2>3, <2>4, <2>5 DEF IInv
<1> QED BY <1>1, <1>2, <1>3, <1>4, <1>5, <1>6, <1>7, <1>8, <1>9 DEF LoopStep

\* What the surroundings do: fail, kill, interrupt, answer, start it again.
LEMMA SurroundingsInv ==
    ASSUME IInv, WaitFails \/ Killed \/ Interrupt \/ Notify \/ Rerun
    PROVE  IInv'
<1>0. TypeOK /\ Holding /\ Ending /\ Protocol /\ Answered
  BY DEF IInv
<1>1. CASE WaitFails
  <2>1. TypeOK'
    BY <1>0, <1>1 DEF WaitFails, TypeOK
  <2>2. Holding'
    BY <1>0, <1>1 DEF WaitFails, Holding
  <2>3. Ending'
    BY <1>0, <1>1 DEF WaitFails, Ending, TypeOK
  <2>4. Protocol'
    BY <1>0, <1>1 DEF WaitFails, Protocol, Holding, TypeOK
  <2>5. Answered'
    BY <1>0, <1>1 DEF WaitFails, Answered, Protocol, Holding, TypeOK
  <2> QED BY <2>1, <2>2, <2>3, <2>4, <2>5 DEF IInv
<1>2. CASE Killed
  <2>1. TypeOK'
    BY <1>0, <1>2 DEF Killed, TypeOK
  <2>2. Holding'
    BY <1>0, <1>2 DEF Killed, Holding
  <2>3. Ending'
    BY <1>0, <1>2 DEF Killed, Ending, TypeOK
  <2>4. Protocol'
    BY <1>0, <1>2 DEF Killed, Protocol, Holding, TypeOK
  <2>5. Answered'
    BY <1>0, <1>2 DEF Killed, Answered, Protocol, Holding, TypeOK
  <2> QED BY <2>1, <2>2, <2>3, <2>4, <2>5 DEF IInv
<1>3. CASE Interrupt
  <2>1. TypeOK'
    BY <1>0, <1>3 DEF Interrupt, TypeOK
  <2>2. Holding'
    BY <1>0, <1>3 DEF Interrupt, Holding
  <2>3. Ending'
    BY <1>0, <1>3 DEF Interrupt, Ending, TypeOK
  <2>4. Protocol'
    BY <1>0, <1>3 DEF Interrupt, Protocol, Holding, TypeOK
  <2>5. Answered'
    BY <1>0, <1>3 DEF Interrupt, Answered, Protocol, Holding, TypeOK
  <2> QED BY <2>1, <2>2, <2>3, <2>4, <2>5 DEF IInv
<1>4. CASE Notify
  <2>1. TypeOK'
    BY <1>0, <1>4 DEF Notify, TypeOK
  <2>2. Holding'
    BY <1>0, <1>4 DEF Notify, Holding
  <2>3. Ending'
    BY <1>0, <1>4 DEF Notify, Ending, TypeOK
  <2>4. Protocol'
    BY <1>0, <1>4 DEF Notify, Protocol, Holding, TypeOK
  <2>5. Answered'
    BY <1>0, <1>4 DEF Notify, Answered, Protocol, Holding, TypeOK
  <2> QED BY <2>1, <2>2, <2>3, <2>4, <2>5 DEF IInv
<1>5. CASE Rerun
  <2>1. TypeOK'
    BY <1>0, <1>5 DEF Rerun, TypeOK
  <2>2. Holding'
    BY <1>0, <1>5 DEF Rerun, Holding
  <2>3. Ending'
    BY <1>0, <1>5 DEF Rerun, Ending, TypeOK
  <2>4. Protocol'
    BY <1>0, <1>5 DEF Rerun, Protocol, Holding, TypeOK
  <2>5. Answered'
    BY <1>0, <1>5 DEF Rerun, Answered, Protocol, Holding, TypeOK
  <2> QED BY <2>1, <2>2, <2>3, <2>4, <2>5 DEF IInv
<1> QED BY <1>1, <1>2, <1>3, <1>4, <1>5

\* The invariant holds in every state, and so what follows from it.
LEMMA Invariance == Spec => []IInv
<1>1. IInv /\ [Next]_vars => IInv'
  <2> SUFFICES ASSUME IInv, [Next]_vars PROVE IInv'
    OBVIOUS
  <2>1. CASE Next
    BY <2>1, SetupInv, LoopInv, SurroundingsInv DEF Next
  <2>2. CASE UNCHANGED vars
    BY <2>2 DEF vars, IInv, TypeOK, Holding, Ending, Protocol, Answered
  <2> QED BY <2>1, <2>2
<1> QED BY InitInv, <1>1, PTL DEF Spec

-----------------------------------------------------------------------------

\* Every variable keeps its type, and libevdi's list of buffers is always what
\* evdi.c believes it to be, whichever allocation fails.
THEOREM Typing == Spec => []TypeOK
<1>1. IInv => TypeOK
  BY DEF IInv
<1> QED BY <1>1, Invariance, PTL

\* evdi_get and the device agree on whose turn it is, in each of the two buffers,
\* whatever update_ready_handler was told before.
THEOREM InStep == Spec => []GetInStep
<1>1. IInv => GetInStep
  BY DEF IInv, TypeOK, Protocol, Answered, GetInStep
<1> QED BY <1>1, Invariance, PTL

\* Whatever fails and whenever SIGINT comes: an exit leaves nothing of the display
\* behind, nor connections once evdi_setup succeeded.
THEOREM Released == Spec => []ReleasedAtExit
<1>1. IInv => ReleasedAtExit
  BY DEF IInv, TypeOK, Holding, Ending, ReleasedAtExit
<1> QED BY <1>1, Invariance, PTL

-----------------------------------------------------------------------------
(* The refinement.                                                         *)

DeviceStep == [Device!Next]_<<link, inbox>>

\* A step that leaves the device alone.
LEMMA DeviceSame == UNCHANGED <<link, inbox>> => DeviceStep
BY DEF DeviceStep

\* A step of startup connects, or closes what it had connected.
LEMMA SetupRefines ==
    ASSUME IInv, SetupStep
    PROVE  DeviceStep
<1>1. CASE ConnectDevice
  BY <1>1 DEF ConnectDevice, DeviceStep, Device!Next
<1>2. CASE AllocBuffer \/ SetupEpoll
  BY <1>2 DEF AllocBuffer, SetupEpoll, DeviceStep, Device!Next, Device!Close, IInv, TypeOK, Protocol
<1>3. CASE PfConnect \/ Options \/ FindDevice \/ OpenDevice
  BY <1>3 DEF PfConnect, Options, FindDevice, OpenDevice, DeviceStep
<1> QED BY <1>1, <1>2, <1>3 DEF SetupStep

\* kernelflut asks only when the device is idle, grabs only what is ready.
LEMMA LoopRefines ==
    ASSUME IInv, LoopStep
    PROVE  DeviceStep
<1>1. CASE RequestUpdate
  <2>1. link \in {"closed", "idle"}
    BY <1>1 DEF RequestUpdate, IInv, Protocol
  <2>2. \/ UNCHANGED <<link, inbox>>
        \/ \E answer \in {"ready", "waiting"} : Device!Request(answer)
    BY <1>1, <2>1 DEF RequestUpdate, Device!Request
  <2> QED BY <2>2 DEF DeviceStep, Device!Next
<1>2. CASE ReadEvents
  BY <1>2 DEF ReadEvents, DeviceStep, Device!Next
<1>3. CASE GrabPixels
  BY <1>3 DEF GrabPixels, DeviceStep, Device!Next, Device!Grab
<1>4. CASE Return
  BY <1>4 DEF Return, DeviceStep, Device!Next, Device!Close, IInv, TypeOK, Protocol
<1>5. CASE CheckReady \/ WaitInterrupted \/ WaitReturns \/ BlitDone \/ Blit
  BY <1>5 DEF CheckReady, WaitInterrupted, WaitReturns, BlitDone, Blit, DeviceStep
<1> QED BY <1>1, <1>2, <1>3, <1>4, <1>5 DEF LoopStep

\* The device may answer at any time; a killed process loses its connection.
LEMMA SurroundingsRefine ==
    ASSUME IInv, WaitFails \/ Killed \/ Interrupt \/ Notify \/ Rerun
    PROVE  DeviceStep
<1>1. CASE WaitFails \/ Killed \/ Interrupt
  BY <1>1 DEF WaitFails, Killed, Interrupt, DeviceStep
<1>2. CASE Notify
  BY <1>2 DEF Notify, DeviceStep, Device!Next
<1>3. CASE Rerun
  BY <1>3 DEF Rerun, DeviceStep, Device!Next, Device!Close, IInv, TypeOK, Protocol
<1> QED BY <1>1, <1>2, <1>3

\* Kernelflut implements its side of EvdiDevice: it connects once per run, has one
\* request at a time, reads one answer to it and grabs only then.
THEOREM DeviceUse == Spec => UsesDevice
<1>1. Init => Device!Init
  BY DEF Init
<1>2. IInv /\ [Next]_vars => DeviceStep
  <2> SUFFICES ASSUME IInv, [Next]_vars PROVE DeviceStep
    OBVIOUS
  <2>1. CASE Next
    BY <2>1, SetupRefines, LoopRefines, SurroundingsRefine DEF Next
  <2>2. CASE UNCHANGED vars
    BY <2>2, DeviceSame DEF vars
  <2> QED BY <2>1, <2>2
<1> QED BY <1>1, <1>2, Invariance, PTL DEF Spec, UsesDevice, Device!Spec, DeviceStep

=============================================================================
