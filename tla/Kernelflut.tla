---------------------------- MODULE Kernelflut -----------------------------
(***************************************************************************)
(* The kernelflut process (src/kernelflut.c, src/evdi.c) from its first    *)
(* connection to its exit: how it acquires and releases the pool of        *)
(* connections and the virtual display, how evdi_get waits for an update,  *)
(* and what SIGINT, failing calls and a lost server do to it.  libevdi's   *)
(* register of buffers is part of it; the device is seen as in EvdiDevice, *)
(* a call of pf_set_buf (module Pixelflut) is one step.                    *)
(***************************************************************************)
EXTENDS Integers, FiniteSets

CONSTANTS
    Pool,           \* -c: connections to the pixelflut server
    MaxRects,       \* bound: rectangles of an update (16)
    PT_TRIALS,      \* 5
    Env             \* what the surroundings may do, see EnvAssumption

ASSUME BoundsAssumption == Pool \in Nat \ {0} /\ MaxRects \in Nat /\ PT_TRIALS \in Nat \ {0}
\* "connect fails": the driver may refuse evdi_connect (out of memory);
\* "server goes": the server may close a connection, and dprintf raises SIGPIPE.
ASSUME EnvAssumption == Env \subseteq {"connect fails", "server goes"}

VARIABLES
    pc,                 \* where main is
    err,                \* what it is going to return
    doomed,             \* SIGINT has come
    pt_active, pt_trial,
    conns,              \* open connections
    ehandle, evdi_connected, epoll_fd,      \* evdi.c: what it holds
    ebufs,              \* framebuffers that are allocated
    ebuf_registered,
    frameBuffers,       \* libevdi: the list of registered buffers
    bufferToUpdate,     \* libevdi: the buffer of the last request
    fbid,               \* evdi_get: the buffer of this update
    ebuf_ready_fbid,
    num_rects,          \* rectangles of this update still to be sent
    link, inbox         \* the device, see EvdiDevice

mainVars == <<err, doomed, pt_active, pt_trial>>
evdiVars == <<ehandle, evdi_connected, epoll_fd, ebufs, ebuf_registered, frameBuffers>>
getVars == <<bufferToUpdate, fbid, ebuf_ready_fbid>>
deviceVars == <<link, inbox>>
vars == <<pc, mainVars, conns, evdiVars, getVars, num_rects, deviceVars>>

Device == INSTANCE EvdiDevice

FRAMEBUFFERS == 2
Fbids == 0 .. FRAMEBUFFERS - 1
NoFbid == -1

Init ==
    /\ pc = "pf_connect" /\ err = "none"
    /\ doomed = FALSE
    /\ pt_active \in BOOLEAN /\ pt_trial = 0
    /\ conns = 0
    /\ ehandle = FALSE /\ evdi_connected = FALSE /\ epoll_fd = FALSE
    /\ ebufs = {} /\ ebuf_registered = {} /\ frameBuffers = {}
    /\ bufferToUpdate = 0 /\ fbid = 0 /\ ebuf_ready_fbid = 0
    /\ num_rects = 0
    /\ Device!Init

Exit(status) == pc' = "exit" /\ err' = status

-----------------------------------------------------------------------------
(* Startup.                                                                *)

\* pf_connect resolves the host, then opens the pool one by one; a failure closes
\* those that are open
PfConnect ==
    /\ pc = "pf_connect"
    /\ \/ /\ conns = 0 /\ Exit("ERR_PF_GETHOST")
          /\ UNCHANGED conns
       \/ /\ conns < Pool /\ conns' = conns + 1
          /\ UNCHANGED <<pc, err>>
       \/ /\ conns < Pool /\ conns' = 0
          /\ Exit("ERR_PF_CONNECT")
       \/ /\ conns = Pool /\ pc' = "options"
          /\ UNCHANGED <<conns, err>>
    /\ UNCHANGED <<doomed, pt_active, pt_trial, evdiVars, getVars, num_rects, deviceVars>>

\* pf_asyncio, pf_increase_sndbuf: their errors leave the pool open
Options ==
    /\ pc = "options"
    /\ \/ pc' = "find" /\ UNCHANGED err
       \/ Exit("ERR_IRRECOVERABLE")
    /\ UNCHANGED <<doomed, pt_active, pt_trial, conns, evdiVars, getVars, num_rects,
                   deviceVars>>

\* evdi_setup: an evdi card is found, or one is added and then found
FindDevice ==
    /\ \/ pc = "find" /\ pc' \in {"open", "add"} /\ UNCHANGED err
       \/ pc = "add" /\ pc' = "find_added" /\ UNCHANGED err
       \/ pc = "add" /\ Exit("ERR_EVDI_ADD")
       \/ pc = "find_added" /\ pc' = "open" /\ UNCHANGED err
       \/ pc = "find_added" /\ Exit("ERR_EVDI_FIND")
    /\ ebuf_ready_fbid' = NoFbid
    /\ UNCHANGED <<doomed, pt_active, pt_trial, conns, evdiVars, bufferToUpdate, fbid, num_rects, deviceVars>>

OpenDevice ==
    /\ pc = "open"
    /\ \/ pc' = "connect" /\ ehandle' = TRUE /\ UNCHANGED err
       \/ Exit("ERR_EVDI_OPEN") /\ UNCHANGED ehandle
    /\ UNCHANGED <<doomed, pt_active, pt_trial, conns, evdi_connected, epoll_fd, ebufs,
                   ebuf_registered, frameBuffers, getVars, num_rects, deviceVars>>

\* evdi_connect returns nothing
ConnectDevice ==
    /\ pc = "connect"
    /\ \/ Device!Connect
       \/ "connect fails" \in Env /\ UNCHANGED deviceVars
    /\ evdi_connected' = TRUE
    /\ pc' = "buffers"
    /\ UNCHANGED <<mainVars, conns, ehandle, epoll_fd, ebufs, ebuf_registered, frameBuffers,
                   getVars, num_rects>>

\* Mutant of Cleanup: buffers are freed only if they are registered, and stay so.
CleanupKeepsRegistered ==
    /\ epoll_fd' = FALSE /\ ehandle' = FALSE /\ evdi_connected' = FALSE
    /\ frameBuffers' = frameBuffers \ ebuf_registered
    /\ UNCHANGED <<ebufs, ebuf_registered>>
    /\ link' = "closed" /\ inbox' = 0

\* evdi_cleanup: disconnecting and closing the handle end the device's protocol
Cleanup ==
    /\ epoll_fd' = FALSE /\ ehandle' = FALSE /\ evdi_connected' = FALSE
    /\ frameBuffers' = frameBuffers \ ebuf_registered
    /\ ebufs' = {} /\ ebuf_registered' = {}
    /\ link' = "closed" /\ inbox' = 0

\* Mutant of AllocBuffer: a failure leaves the cleanup to the caller.
AllocBufferLeavesAll ==
    /\ pc = "buffers"
    /\ \/ /\ ebufs # Fbids
          /\ LET id == CHOOSE i \in Fbids \ ebufs : \A j \in Fbids \ ebufs : i <= j
             IN  /\ ebufs' = ebufs \cup {id}
                 /\ frameBuffers' = frameBuffers \cup {id}
                 /\ ebuf_registered' = ebuf_registered \cup {id}
          /\ UNCHANGED <<pc, err, ehandle, evdi_connected, epoll_fd, deviceVars>>
       \/ /\ ebufs # Fbids
          /\ Exit("ERR_ALLOC") /\ UNCHANGED <<evdiVars, deviceVars>>
       \/ /\ ebufs = Fbids /\ pc' = "epoll"
          /\ UNCHANGED <<err, evdiVars, deviceVars>>
    /\ UNCHANGED <<doomed, pt_active, pt_trial, conns, getVars, num_rects>>

\* each framebuffer is allocated and registered with libevdi
AllocBuffer ==
    /\ pc = "buffers"
    /\ \/ /\ ebufs # Fbids
          /\ LET id == CHOOSE i \in Fbids \ ebufs : \A j \in Fbids \ ebufs : i <= j
             IN  /\ ebufs' = ebufs \cup {id}
                 /\ frameBuffers' = frameBuffers \cup {id}
                 /\ ebuf_registered' = ebuf_registered \cup {id}
          /\ UNCHANGED <<pc, err, ehandle, evdi_connected, epoll_fd, deviceVars>>
       \/ /\ ebufs # Fbids
          /\ Exit("ERR_ALLOC") /\ Cleanup
       \/ /\ ebufs = Fbids /\ pc' = "epoll"
          /\ UNCHANGED <<err, evdiVars, deviceVars>>
    /\ UNCHANGED <<doomed, pt_active, pt_trial, conns, getVars, num_rects>>

SetupEpoll ==
    /\ pc = "epoll"
    /\ \/ /\ epoll_fd' = TRUE /\ pc' = "loop"
          /\ UNCHANGED <<err, ehandle, evdi_connected, ebufs, ebuf_registered, frameBuffers,
                         deviceVars>>
       \/ Exit("ERR_IRRECOVERABLE") /\ Cleanup
    /\ UNCHANGED <<doomed, pt_active, pt_trial, conns, getVars, num_rects>>

-----------------------------------------------------------------------------
(* The loop.                                                               *)

Shutdown(status) == pc' = "shutdown" /\ err' = status

\* Mutant of RequestUpdate: only evdi_wait looks at doomed.
RequestUpdateUnheeding ==
    /\ pc = "loop"
    /\ fbid' = 1 - fbid /\ bufferToUpdate' = fbid'
    /\ \E answer \in {"ready", "waiting"} :
          /\ pc' = IF answer = "ready" THEN "grab" ELSE "check"
          /\ link' = IF link = "closed" THEN link ELSE answer
    /\ UNCHANGED <<mainVars, inbox, conns, evdiVars, ebuf_ready_fbid, num_rects>>

\* loop's test of doomed, then evdi_get asks for an update into the other
\* buffer.  An error of the ioctl counts as "not ready".
RequestUpdate ==
    /\ pc = "loop"
    /\ IF doomed
       THEN /\ Shutdown("EXCEPTION_INT")
            /\ UNCHANGED <<fbid, bufferToUpdate, deviceVars>>
       ELSE /\ fbid' = 1 - fbid /\ bufferToUpdate' = fbid'
            /\ \E answer \in {"ready", "waiting"} :
                  /\ pc' = IF answer = "ready" THEN "grab" ELSE "check"
                  /\ link' = IF link = "closed" THEN link ELSE answer
            /\ UNCHANGED <<err, inbox>>
    /\ UNCHANGED <<doomed, pt_active, pt_trial, conns, evdiVars, ebuf_ready_fbid, num_rects>>

\* Mutant of CheckReady: ebuf_ready_fbid is not reset.
CheckReadyKeepsIt ==
    /\ pc = "check"
    /\ pc' = IF ebuf_ready_fbid = fbid THEN "grab" ELSE "wait"
    /\ UNCHANGED <<mainVars, conns, evdiVars, bufferToUpdate, fbid, ebuf_ready_fbid, num_rects, deviceVars>>

\* `while (ebuf_ready_fbid != fbid)'
CheckReady ==
    /\ pc = "check"
    /\ IF ebuf_ready_fbid = fbid
       THEN pc' = "grab" /\ ebuf_ready_fbid' = NoFbid
       ELSE pc' = "wait" /\ UNCHANGED ebuf_ready_fbid
    /\ UNCHANGED <<mainVars, conns, evdiVars, bufferToUpdate, fbid, num_rects, deviceVars>>

\* evdi_wait and evdi_get look at doomed whenever epoll_wait comes back, at the
\* latest after a millisecond
WaitInterrupted ==
    /\ pc \in {"wait", "read"} /\ doomed
    /\ Shutdown("EXCEPTION_INT")
    /\ UNCHANGED <<doomed, pt_active, pt_trial, conns, evdiVars, getVars, num_rects,
                   deviceVars>>

\* Mutant of WaitFails: the loop tries again.
WaitFailsRetries ==
    /\ pc = "wait" /\ ~ doomed
    /\ pc' = "loop"
    /\ UNCHANGED <<mainVars, conns, evdiVars, getVars, num_rects, deviceVars>>

\* epoll_wait fails, be it that another signal interrupted it
WaitFails ==
    /\ pc = "wait" /\ ~ doomed
    /\ Shutdown("ERR_EVDI_EPOLL")
    /\ UNCHANGED <<doomed, pt_active, pt_trial, conns, evdiVars, getVars, num_rects,
                   deviceVars>>

\* Mutant of ReadEvents: the handler is told the buffer that comes next.
ReadEventsOther ==
    /\ pc = "wait" /\ ~ doomed
    /\ Device!Read
    /\ ebuf_ready_fbid' = 1 - bufferToUpdate
    /\ pc' = "read"
    /\ UNCHANGED <<mainVars, conns, evdiVars, bufferToUpdate, fbid, num_rects>>

\* evdi_handle_events: update_ready_handler is told the buffer of the last
\* request.  (Other events have no handler and change nothing.)
ReadEvents ==
    /\ pc = "wait" /\ ~ doomed
    /\ Device!Read
    /\ ebuf_ready_fbid' = bufferToUpdate
    /\ pc' = "read"
    /\ UNCHANGED <<mainVars, conns, evdiVars, bufferToUpdate, fbid, num_rects>>

WaitReturns ==
    /\ pc = "read" /\ ~ doomed
    /\ pc' = "check"
    /\ UNCHANGED <<mainVars, conns, evdiVars, getVars, num_rects, deviceVars>>

\* evdi_grab_pixels: no rectangles when the ioctl fails; the driver does not
\* check that it told the client to grab
GrabPixels ==
    /\ pc = "grab"
    /\ pc' = "blit"
    /\ link' = IF link = "ready" THEN "idle" ELSE link
    /\ \E n \in 0 .. MaxRects :
          /\ link = "closed" => n = 0
          /\ num_rects' = n
    /\ UNCHANGED <<mainVars, conns, evdiVars, getVars, inbox>>

\* the rectangles are done
BlitDone ==
    /\ pc = "blit" /\ num_rects = 0
    /\ pc' = "loop"
    /\ UNCHANGED <<mainVars, conns, evdiVars, getVars, num_rects, deviceVars>>

\* pf_set_buf for the next one; a performance test counts it as a trial
Blit ==
    /\ pc = "blit" /\ num_rects > 0
    /\ num_rects' = num_rects - 1
    /\ pt_trial' = IF pt_active THEN pt_trial + 1 ELSE pt_trial
    /\ IF pt_trial' = PT_TRIALS THEN Shutdown("EXCEPTION_PT_FINISHED") ELSE UNCHANGED <<pc, err>>
    /\ UNCHANGED <<doomed, pt_active, conns, evdiVars, getVars, deviceVars>>

\* SIGPIPE, which nobody handles
Killed ==
    /\ pc = "blit" /\ num_rects > 0 /\ "server goes" \in Env
    /\ pc' = "killed"
    /\ UNCHANGED <<mainVars, conns, evdiVars, getVars, num_rects, deviceVars>>

\* the end of main: pf_close, evdi_cleanup
Return ==
    /\ pc = "shutdown"
    /\ Exit(IF err \in {"EXCEPTION_PT_FINISHED", "EXCEPTION_INT"} THEN "none" ELSE err)
    /\ conns' = 0
    /\ Cleanup
    /\ UNCHANGED <<doomed, pt_active, pt_trial, getVars, num_rects>>

-----------------------------------------------------------------------------

\* SIGINT: the handler only sets doomed
Interrupt ==
    /\ pc \notin {"exit", "killed"} /\ ~ doomed
    /\ doomed' = TRUE
    /\ UNCHANGED <<pc, err, pt_active, pt_trial, conns, evdiVars, getVars, num_rects,
                   deviceVars>>

Notify == /\ Device!Notify
          /\ UNCHANGED <<pc, mainVars, conns, evdiVars, getVars, num_rects>>

\* the kernel closes what a process leaves open; kernelflut may be run again
Rerun == /\ pc \in {"exit", "killed"}
         /\ pc' = "pf_connect" /\ err' = "none"
         /\ doomed' = FALSE /\ pt_active' \in BOOLEAN /\ pt_trial' = 0
         /\ conns' = 0
         /\ ehandle' = FALSE /\ evdi_connected' = FALSE /\ epoll_fd' = FALSE
         /\ ebufs' = {} /\ ebuf_registered' = {} /\ frameBuffers' = {}
         /\ bufferToUpdate' = 0 /\ fbid' = 0 /\ ebuf_ready_fbid' = 0
         /\ num_rects' = 0
         /\ link' = "closed" /\ inbox' = 0

SetupStep == PfConnect \/ Options \/ FindDevice \/ OpenDevice \/ ConnectDevice \/ AllocBuffer
             \/ SetupEpoll
LoopStep == RequestUpdate \/ CheckReady \/ WaitInterrupted \/ ReadEvents
            \/ WaitReturns \/ GrabPixels \/ BlitDone \/ Blit \/ Return

Next == SetupStep \/ LoopStep \/ WaitFails \/ Killed \/ Interrupt \/ Notify \/ Rerun

Spec == Init /\ [][Next]_vars

\* The process runs; every step of it ends: opening the device gives up after
\* five seconds, epoll_wait returns after a millisecond, the server reads.
\* Nothing has to fail, and while nothing comes evdi_wait goes round and round.
FairSpec == Spec /\ WF_vars(SetupStep) /\ WF_vars(LoopStep)

-----------------------------------------------------------------------------

Status == {"none", "ERR_PF_GETHOST", "ERR_PF_CONNECT", "ERR_IRRECOVERABLE", "ERR_EVDI_ADD",
           "ERR_EVDI_FIND", "ERR_EVDI_OPEN", "ERR_ALLOC", "ERR_EVDI_EPOLL"}
Exceptions == {"EXCEPTION_INT", "EXCEPTION_PT_FINISHED"}

\* Every variable keeps its type; libevdi's list holds the buffers evdi.c
\* believes registered, so that none of libevdi's assertions fails.
TypeOK ==
    /\ err \in Status \cup Exceptions
    /\ conns \in 0 .. Pool /\ pt_trial \in 0 .. PT_TRIALS
    /\ ebufs \subseteq Fbids
    /\ ebuf_registered = ebufs /\ frameBuffers = ebuf_registered
    /\ bufferToUpdate \in Fbids /\ fbid \in Fbids
    /\ ebuf_ready_fbid \in Fbids \cup {NoFbid}
    /\ num_rects \in 0 .. MaxRects
    /\ link \in {"closed", "idle", "waiting", "ready"} /\ inbox \in 0 .. 1

\* kernelflut keeps to the device's protocol: one request at a time, and only
\* while connected (also after a run that was killed).
UsesDevice == Device!Spec

\* evdi_get and the device agree on whose turn it is: kernelflut grabs only what
\* the device says is ready, and does not wait for an answer it has had.  (There
\* is no device to be in step with when the driver has refused to connect.)
GetInStep ==
    link # "closed" => /\ pc = "grab" => link = "ready"
                       /\ pc = "wait" => link = "waiting"
                       /\ pc = "check" => (ebuf_ready_fbid = fbid <=> link = "ready")

\* evdi.h: cleanup "doesn't need to be called" after a failed setup and "MUST be
\* called before program exit" otherwise: whatever fails, and whenever SIGINT
\* comes, main leaves nothing of the display behind, nor connections once
\* evdi_setup succeeded.
ReleasedAtExit ==
    pc = "exit" =>
        /\ ~ ehandle /\ ~ evdi_connected /\ ~ epoll_fd
        /\ ebufs = {} /\ frameBuffers = {} /\ link = "closed"
        /\ err \in {"none", "ERR_EVDI_EPOLL"} => conns = 0

\* SIGINT ends the process, wherever it comes.
InterruptEnds == doomed ~> pc \in {"exit", "killed"}

\* An update the device has ready is grabbed, unless the process ends.
ReadyIsGrabbed == inbox = 1 \/ link = "ready" ~> link \in {"idle", "closed"} \/ pc = "killed"

=============================================================================
