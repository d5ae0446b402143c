-------------------------- MODULE EvdiDriverProofs --------------------------
(***************************************************************************)
(* For any number of cards, writers and files: nobody writes to the sysfs  *)
(* files of a module that is gone, and only the files that remove_all took *)
(* the card from under can meet a freed evdi_device, although nothing      *)
(* locks evdi_context and every probe may fail (IInv); a module that could *)
(* be unloaded has lost no thread and has no card up (Down).  As long as   *)
(* the threads come one at a time, evdi_context knows every card, and such *)
(* a module leaves no device (CInv).                                       *)
(***************************************************************************)
EXTENDS EvdiDriver, TLAPS

Adding   == {"add", "store", "mask", "read", "write"}
Removing == {"remove", "load", "unregister", "clear"}
Opened(f) == file[f] \in {"open", "ioctl"}

\* What a thread's place says: cards are left to add, and the module's own thread is
\* loading or exiting.
Places ==
    /\ \A t \in Threads : pc[t] \in Adding => left[t] > 0
    /\ pc["module"] \in Adding \cup {"init"} => module = "loading"
    /\ pc["module"] \in Removing \cup {"driver", "files"} => module = "exiting"

\* The module's own thread, too, works only while the module is there.
Present ==
    ~ botched => /\ sysfs => module # "out"
                 /\ \A t \in Threads : Working(t) => module # "out"

\* A file leads to an evdi_device, or its card was taken; none is open while the
\* module exits.
Led ==
    /\ \A d \in Devs : card[d] = "up" => "evdi" \in held[d]
    /\ \A d \in Devs : pdev[d] = "new" => card[d] = "none"
    /\ \A f \in Files : Opened(f) =>
          /\ dev[f] \in Devs /\ card[dev[f]] # "none"
          /\ "evdi" \in held[dev[f]] \/ f \in orphaned
    /\ module = "exiting" => \A f \in Files : ~ Opened(f)

IInv == TypeOK /\ Places /\ Present /\ Led /\ StaleOnlyOrphans

USE DEF Steps

LEMMA InitIInv == Init => IInv
<1> SUFFICES ASSUME Init PROVE IInv
  OBVIOUS
<1> USE DEF Init
<1>1. TypeOK
  <2>1. /\ pc \in [Threads -> {"idle"}] /\ left \in [Threads -> {0}]
        /\ seen \in [Threads -> {0}] /\ idx \in [Threads -> {0}]
        /\ got \in [Threads -> {NULL}] /\ target \in [Threads -> {NULL}]
    OBVIOUS
  <2>2. /\ pdev \in [Devs -> {"new"}] /\ id \in [Devs -> {0}] /\ card \in [Devs -> {"none"}]
        /\ held \in [Devs -> SUBSET Setup] /\ devices \in [Slots -> {NULL}]
    OBVIOUS
  <2>3. file \in [Files -> {"new"}] /\ dev \in [Files -> {NoDev}] /\ removes \in 0 .. MaxRemoves
    BY DriverBoundsAssumption
  <2> QED BY <2>1, <2>2, <2>3 DEF TypeOK
<1>2. Places
  BY DEF Places, Adding, Removing, Threads
<1>3. Present
  BY DEF Present, Working
<1>4. Led /\ StaleOnlyOrphans
  BY DEF Led, Opened, StaleOnlyOrphans
<1> QED BY <1>1, <1>2, <1>3, <1>4 DEF IInv

\* add_store
LEMMA AddStoreStep ==
    ASSUME IInv, NEW w \in Writers, NEW val \in Counts, AddStore(w, val)
    PROVE  IInv'
<1> USE DEF IInv, AddStore, context, cardVars, fileVars
<1>0. w \in Threads /\ w # "module" /\ val \in Nat
  BY WritersAssumption, DriverBoundsAssumption DEF Threads
<1>1. TypeOK'
  BY <1>0 DEF TypeOK, Goto, Enter
<1>2. Places'
  BY <1>0 DEF TypeOK, Places, Goto, Adding, Removing
<1>3. Present'
  BY <1>0 DEF TypeOK, Present, Goto, Working
<1>4. Led' /\ StaleOnlyOrphans'
  BY DEF Led, Opened, StaleOnlyOrphans
<1> QED BY <1>1, <1>2, <1>3, <1>4

\* platform_device_register_full stored what it returned
LEMMA StoreStep ==
    ASSUME IInv, NEW t \in Threads, Store(t)
    PROVE  IInv'
<1> USE DEF IInv, Store, context, cardVars, fileVars, threadVars, history, StoreDevice
<1>1. TypeOK'
  <2>1. devices' \in [Slots -> Devs \cup {NULL, ERR}]
    BY DEF TypeOK
  <2>2. pc' \in [Threads -> Steps]
    BY DEF TypeOK, Goto
  <2>3. UNCHANGED <<module, sysfs, driver, dev_count, cardVars, fileVars, left, seen, got, idx,
                    target, removes, history>>
    OBVIOUS
  <2> HIDE DEF Store
  <2> QED BY <2>1, <2>2, <2>3 DEF TypeOK
<1>2. Places'
  <2>1. pc' = [pc EXCEPT ![t] = "mask"]
    BY DEF Goto
  <2>2. pc[t] = "store" /\ UNCHANGED <<module, left>>
    OBVIOUS
  <2>3. \A u \in Threads : u # t => pc'[u] = pc[u]
    BY <2>1 DEF TypeOK
  <2>4. pc'[t] = "mask"
    BY <2>1 DEF TypeOK
  <2> HIDE DEF Store
  <2> QED BY <2>2, <2>3, <2>4 DEF Places, Adding, Removing, Threads
<1>3. Present'
  BY DEF TypeOK, Present, Goto, Oops, Working
<1>4. Led' /\ StaleOnlyOrphans'
  BY DEF Led, Opened, StaleOnlyOrphans, Goto, Oops
<1> QED BY <1>1, <1>2, <1>3, <1>4

\* dma_set_mask follows the pointer at dev_count
LEMMA SetMaskStep ==
    ASSUME IInv, NEW t \in Threads, SetMask(t)
    PROVE  IInv'
<1> USE DEF IInv, SetMask, context, cardVars, fileVars
<1>1. TypeOK'
  BY DEF TypeOK, Goto, Oops
<1>2. Places'
  <2>1. \E step \in {"read", "dead"} : pc' = [pc EXCEPT ![t] = step]
    BY DEF Goto, Oops
  <2>2. pc[t] = "mask" /\ UNCHANGED <<module, left>>
    OBVIOUS
  <2>3. pc'[t] \in {"read", "dead"} /\ \A u \in Threads : u # t => pc'[u] = pc[u]
    BY <2>1 DEF TypeOK
  <2> HIDE DEF SetMask
  <2> QED BY <2>2, <2>3 DEF Places, Adding, Removing, Threads
<1>3. Present'
  BY DEF TypeOK, Present, Goto, Oops, Working
<1>4. Led' /\ StaleOnlyOrphans'
  BY DEF Led, Opened, StaleOnlyOrphans, Goto, Oops
<1> QED BY <1>1, <1>2, <1>3, <1>4

\* dev_count is read ...
LEMMA ReadCountStep ==
    ASSUME IInv, NEW t \in Threads, ReadCount(t)
    PROVE  IInv'
<1> USE DEF IInv, ReadCount, context, cardVars, fileVars, threadVars, history
<1>1. TypeOK'
  BY DEF TypeOK, Goto, Enter, Oops
<1>2. Places'
  BY DEF TypeOK, Places, Goto, Oops, Adding, Removing
<1>3. Present'
  BY DEF TypeOK, Present, Goto, Oops, Working
<1>4. Led' /\ StaleOnlyOrphans'
  BY DEF Led, Opened, StaleOnlyOrphans, Goto, Oops
<1> QED BY <1>1, <1>2, <1>3, <1>4

\* ... and written
LEMMA WriteCountStep ==
    ASSUME IInv, NEW t \in Threads, WriteCount(t)
    PROVE  IInv'
<1> USE DEF IInv, WriteCount, context, cardVars, fileVars, threadVars, history
<1>1. TypeOK'
  <2>1. left[t] > 0
    BY DEF Places, Adding
  <2>2. left' \in [Threads -> Nat]
    BY <2>1 DEF TypeOK
  <2>3. dev_count' \in Nat /\ got' \in [Threads -> Devs \cup {NULL, ERR}] /\ seen' \in [Threads -> Nat]
    BY DEF TypeOK
  <2>4. pc' \in [Threads -> Steps]
    BY DEF TypeOK, Goto
  <2>5. module' \in {"out", "loading", "in", "exiting"}
    BY DEF TypeOK
  <2> QED BY <2>2, <2>3, <2>4, <2>5 DEF TypeOK
<1>2. Places'
  BY DEF TypeOK, Places, Goto, Oops, Adding, Removing
<1>3. Present'
  BY DEF TypeOK, Present, Goto, Oops, Working
<1>4. Led' /\ StaleOnlyOrphans'
  BY DEF Led, Opened, StaleOnlyOrphans, Goto, Oops
<1> QED BY <1>1, <1>2, <1>3, <1>4

\* remove_all_store
LEMMA RemoveAllStoreStep ==
    ASSUME IInv, NEW w \in Writers, RemoveAllStore(w)
    PROVE  IInv'
<1> USE DEF IInv, RemoveAllStore, context, cardVars, fileVars, threadVars, history
<1>0. w \in Threads /\ w # "module"
  BY WritersAssumption DEF Threads
<1>1. TypeOK'
  BY <1>0, DriverBoundsAssumption DEF TypeOK, Goto, Enter, Oops
<1>2. Places'
  BY <1>0 DEF TypeOK, Places, Goto, Oops, Adding, Removing
<1>3. Present'
  BY <1>0 DEF TypeOK, Present, Goto, Oops, Working
<1>4. Led' /\ StaleOnlyOrphans'
  BY DEF Led, Opened, StaleOnlyOrphans, Goto, Oops
<1> QED BY <1>1, <1>2, <1>3, <1>4

\* evdi_remove_all looks at a device
LEMMA RemoveNextStep ==
    ASSUME IInv, NEW t \in Threads, RemoveNext(t)
    PROVE  IInv'
<1> USE DEF IInv, RemoveNext, context, cardVars, fileVars, threadVars, history
<1>1. TypeOK'
  <2>1. idx' \in [Threads -> Nat]
    BY DEF TypeOK
  <2>2. pc' \in [Threads -> Steps]
    BY DEF TypeOK, Goto
  <2>3. UNCHANGED <<module, sysfs, driver, context, cardVars, fileVars, left, seen, got, target,
                    removes, history>>
    OBVIOUS
  <2> HIDE DEF RemoveNext
  <2> QED BY <2>1, <2>2, <2>3 DEF TypeOK
<1>2. Places'
  <2>1. pc' = pc \/ pc' = [pc EXCEPT ![t] = "load"]
    BY DEF Goto
  <2>2. pc[t] = "remove" /\ UNCHANGED <<module, left>>
    OBVIOUS
  <2>3. pc'[t] \in {"remove", "load"} /\ \A u \in Threads : u # t => pc'[u] = pc[u]
    BY <2>1, <2>2 DEF TypeOK
  <2> HIDE DEF RemoveNext
  <2> QED BY <2>2, <2>3 DEF Places, Adding, Removing, Threads
<1>3. Present'
  BY DEF TypeOK, Present, Goto, Oops, Working
<1>4. Led' /\ StaleOnlyOrphans'
  BY DEF Led, Opened, StaleOnlyOrphans, Goto, Oops
<1> QED BY <1>1, <1>2, <1>3, <1>4

\* ... and looks again
LEMMA LoadTargetStep ==
    ASSUME IInv, NEW t \in Threads, LoadTarget(t)
    PROVE  IInv'
<1> USE DEF IInv, LoadTarget, context, cardVars, fileVars, threadVars, history
<1>1. TypeOK'
  <2>1. DevicesAt(idx[t]) \subseteq Devs \cup {NULL, ERR}
    BY DEF TypeOK, DevicesAt
  <2>2. target' \in [Threads -> Devs \cup {NULL, ERR}] /\ pc' \in [Threads -> Steps]
    BY <2>1 DEF TypeOK, Goto
  <2> QED BY <2>2 DEF TypeOK
<1>2. Places'
  BY DEF TypeOK, Places, Goto, Adding, Removing
<1>3. Present'
  BY DEF TypeOK, Present, Goto, Working
<1>4. Led' /\ StaleOnlyOrphans'
  BY DEF Led, Opened, StaleOnlyOrphans, Goto
<1> QED BY <1>1, <1>2, <1>3, <1>4

\* the slot of a removed device is cleared
LEMMA ClearStep ==
    ASSUME IInv, NEW t \in Threads, Clear(t)
    PROVE  IInv'
<1> USE DEF IInv, Clear, context, cardVars, fileVars, threadVars, history, StoreDevice
<1>1. TypeOK'
  BY DEF TypeOK, Goto, Enter, Oops
<1>2. Places'
  BY DEF TypeOK, Places, Goto, Oops, Adding, Removing
<1>3. Present'
  BY DEF TypeOK, Present, Goto, Oops, Working
<1>4. Led' /\ StaleOnlyOrphans'
  BY DEF Led, Opened, StaleOnlyOrphans, Goto, Oops
<1> QED BY <1>1, <1>2, <1>3, <1>4

\* evdi_remove_all returns
LEMMA RemoveDoneStep ==
    ASSUME IInv, NEW t \in Threads, RemoveDone(t)
    PROVE  IInv'
<1> USE DEF IInv, RemoveDone, context, cardVars, fileVars, threadVars, history
<1>1. TypeOK'
  BY DEF TypeOK, Goto, Enter, Oops
<1>2. Places'
  BY DEF TypeOK, Places, Goto, Oops, Adding, Removing
<1>3. Present'
  BY DEF TypeOK, Present, Goto, Oops, Working
<1>4. Led' /\ StaleOnlyOrphans'
  BY DEF Led, Opened, StaleOnlyOrphans, Goto, Oops
<1> QED BY <1>1, <1>2, <1>3, <1>4

\* evdi_init makes the files
LEMMA InitFilesStep ==
    ASSUME IInv, InitFiles
    PROVE  IInv'
<1> USE DEF IInv, InitFiles, context, cardVars, fileVars, threadVars, history
<1>0. "module" \in Threads
  BY DEF Threads
<1>1. TypeOK'
  BY <1>0 DEF TypeOK, Goto, Enter, Oops
<1>2. Places'
  BY <1>0 DEF TypeOK, Places, Goto, Oops, Adding, Removing
<1>3. Present'
  BY <1>0 DEF TypeOK, Present, Goto, Oops, Working
<1>4. Led' /\ StaleOnlyOrphans'
  BY DEF Led, Opened, StaleOnlyOrphans, Goto, Oops
<1> QED BY <1>1, <1>2, <1>3, <1>4

\* evdi_init adds cards
LEMMA InitDevicesStep ==
    ASSUME IInv, NEW val \in Counts, InitDevices(val)
    PROVE  IInv'
<1> USE DEF IInv, InitDevices, context, cardVars, fileVars, threadVars, history
<1>0. "module" \in Threads
  BY DEF Threads
<1>1. TypeOK'
  BY <1>0, DriverBoundsAssumption DEF TypeOK, Goto, Enter, Oops
<1>2. Places'
  BY <1>0, DriverBoundsAssumption DEF TypeOK, Places, Goto, Oops, Adding, Removing
<1>3. Present'
  BY <1>0 DEF TypeOK, Present, Goto, Oops, Working
<1>4. Led' /\ StaleOnlyOrphans'
  BY DEF Led, Opened, StaleOnlyOrphans, Goto, Oops
<1> QED BY <1>1, <1>2, <1>3, <1>4

\* evdi_init fails
LEMMA InitFailsStep ==
    ASSUME IInv, InitFails
    PROVE  IInv'
<1> USE DEF IInv, InitFails, context, cardVars, fileVars, threadVars, history
<1>0. "module" \in Threads
  BY DEF Threads
<1>1. TypeOK'
  BY <1>0 DEF TypeOK, Goto, Enter, Oops
<1>2. Places'
  BY <1>0 DEF TypeOK, Places, Goto, Oops, Adding, Removing
<1>3. Present'
  BY <1>0 DEF TypeOK, Present, Goto, Oops, Working
<1>4. Led' /\ StaleOnlyOrphans'
  BY DEF Led, Opened, StaleOnlyOrphans, Goto, Oops
<1> QED BY <1>1, <1>2, <1>3, <1>4

\* evdi_exit begins when no file is open
LEMMA ExitStep ==
    ASSUME IInv, Exit
    PROVE  IInv'
<1> USE DEF IInv, Exit, context, cardVars, fileVars, threadVars, history
<1>0. "module" \in Threads
  BY DEF Threads
<1>1. TypeOK'
  BY <1>0 DEF TypeOK, Goto, Enter, Oops
<1>2. Places'
  BY <1>0 DEF TypeOK, Places, Goto, Oops, Adding, Removing
<1>3. Present'
  BY <1>0 DEF TypeOK, Present, Goto, Oops, Working
<1>4. Led' /\ StaleOnlyOrphans'
  BY DEF Led, Opened, StaleOnlyOrphans, Goto, Oops
<1> QED BY <1>1, <1>2, <1>3, <1>4

\* evdi_exit removes the files when no writer is left
LEMMA ExitFilesStep ==
    ASSUME IInv, ExitFiles
    PROVE  IInv'
<1> USE DEF IInv, ExitFiles, context, cardVars, fileVars, threadVars, history
<1>0. "module" \in Threads
  BY DEF Threads
<1>1. TypeOK'
  BY <1>0 DEF TypeOK, Goto, Enter, Oops
<1>2. Places'
  BY <1>0 DEF TypeOK, Places, Goto, Oops, Adding, Removing
<1>3. Present'
  BY <1>0 DEF TypeOK, Present, Threads, Goto, Oops, Working
<1>4. Led' /\ StaleOnlyOrphans'
  BY DEF Led, Opened, StaleOnlyOrphans, Goto, Oops
<1> QED BY <1>1, <1>2, <1>3, <1>4

-----------------------------------------------------------------------------
(* The steps that make and take down cards.                                *)

\* Probing the devices S changes their cards only, and leaves a card that is up
\* with its evdi_device.
LEMMA ProbeCards ==
    ASSUME TypeOK, NEW t \in Threads, NEW S \in SUBSET Devs, NEW outcome \in [S -> Outcomes],
           NEW next, Probe(t, outcome, next)
    PROVE  /\ card' \in [Devs -> {"none", "up", "unplugged"}] /\ held' \in [Devs -> SUBSET Setup]
           /\ \A d \in Devs \ S : card'[d] = card[d] /\ held'[d] = held[d]
           /\ \A d \in S : card'[d] = "up" => "evdi" \in held'[d]
           /\ \E step \in {next, "dead"} : pc' = [pc EXCEPT ![t] = step]
           /\ oopsed' \in BOOLEAN
<1>1. DOMAIN outcome = S
  OBVIOUS
<1>2. \A d \in S : /\ outcome[d].card \in {"none", "up"} /\ outcome[d].held \in SUBSET Setup
                   /\ outcome[d].card = "up" => "evdi" \in outcome[d].held
  <2>1. \A o \in Outcomes : /\ o.card \in {"none", "up"} /\ o.held \in SUBSET Setup
                            /\ o.card = "up" => "evdi" \in o.held
    BY FailuresAssumption DEF Outcomes, NoCard, Made, Undone, Setup
  <2> QED BY <2>1
<1>3. /\ card' = [d \in Devs |-> IF d \in S THEN outcome[d].card ELSE card[d]]
      /\ held' = [d \in Devs |-> IF d \in S THEN outcome[d].held ELSE held[d]]
  BY <1>1 DEF Probe
<1>4. /\ \E step \in {next, "dead"} : pc' = [pc EXCEPT ![t] = step]
      /\ oopsed' \in BOOLEAN
  BY DEF Probe, Goto, Oops, TypeOK
<1>5. card' \in [Devs -> {"none", "up", "unplugged"}] /\ held' \in [Devs -> SUBSET Setup]
  BY <1>2, <1>3 DEF TypeOK
<1>6. \A d \in Devs \ S : card'[d] = card[d] /\ held'[d] = held[d]
  BY <1>3
<1>7. \A d \in S : card'[d] = "up" => "evdi" \in held'[d]
  BY <1>2, <1>3
<1> QED BY <1>4, <1>5, <1>6, <1>7

\* A thread of Adding or Removing goes to another place of the same kind, dies or
\* ends: what Places and Present say of it stays.
LEMMA StepsOn ==
    ASSUME TypeOK, Places, Present, NEW t \in Threads,
           NEW step \in {"store", "clear", "dead"}, pc' = [pc EXCEPT ![t] = step],
           step = "store" => pc[t] \in Adding, step = "clear" => pc[t] \in Removing,
           Working(t), UNCHANGED <<module, sysfs, botched, left>>
    PROVE  Places' /\ Present'
<1>1. \A u \in Threads : u # t => pc'[u] = pc[u]
  BY DEF TypeOK
<1>2. pc'[t] = step
  BY DEF TypeOK
<1>3. Places'
  BY <1>1, <1>2 DEF Places, Adding, Removing, Threads
<1>4. Present'
  BY <1>1, <1>2 DEF Present, Working
<1> QED BY <1>3, <1>4

\* evdi_add_device
LEMMA RegisterStep ==
    ASSUME IInv, NEW t \in Threads, Register(t)
    PROVE  IInv'
<1> USE DEF IInv, context, fileVars
<1>1. pc[t] = "add" /\ UNCHANGED <<module, sysfs, driver, context, fileVars, left, seen, idx,
                                   target, removes, raced, botched, orphaned, stale>>
  BY DEF Register
<1>2. CASE /\ got' = [got EXCEPT ![t] = ERR] /\ Goto(t, "store")
           /\ UNCHANGED <<cardVars, oopsed>>
  <2>1. Places' /\ Present'
    BY <1>1, <1>2, StepsOn DEF Goto, Adding, Working
  <2>2. TypeOK'
    BY <1>1, <1>2 DEF TypeOK, Goto, cardVars
  <2>3. Led' /\ StaleOnlyOrphans'
    BY <1>1, <1>2 DEF Led, Opened, StaleOnlyOrphans, cardVars
  <2> QED BY <2>1, <2>2, <2>3
<1>3. ASSUME NEW d \in Devs, pdev[d] = "new", pdev' = [pdev EXCEPT ![d] = "on"],
             id' = [id EXCEPT ![d] = dev_count], got' = [got EXCEPT ![t] = d],
             NEW outcome \in [IF driver THEN {d} ELSE {} -> Outcomes], Probe(t, outcome, "store")
      PROVE  IInv'
  <2> DEFINE S == IF driver THEN {d} ELSE {}
  <2>0. TypeOK /\ S \subseteq {d}
    OBVIOUS
  <2>1. S \in SUBSET Devs /\ outcome \in [S -> Outcomes]
    BY <1>3
  <2> HIDE DEF S
  <2>2. /\ card' \in [Devs -> {"none", "up", "unplugged"}] /\ held' \in [Devs -> SUBSET Setup]
        /\ \A e \in Devs \ S : card'[e] = card[e] /\ held'[e] = held[e]
        /\ \A e \in S : card'[e] = "up" => "evdi" \in held'[e]
        /\ \E step \in {"store", "dead"} : pc' = [pc EXCEPT ![t] = step]
        /\ oopsed' \in BOOLEAN
    BY <1>3, <2>1, <2>0, ProbeCards
  <2>3. Places' /\ Present'
    BY <1>1, <2>2, StepsOn DEF Adding, Working
  <2>4. pc' \in [Threads -> Steps]
    BY <2>2 DEF TypeOK
  <2>5. TypeOK'
    BY <1>1, <1>3, <2>2, <2>4 DEF TypeOK
  <2>6. card[d] = "none" /\ S \subseteq {d}
    BY <1>3, <2>0 DEF Led
  <2>7. \A e \in Devs : card'[e] = "up" => "evdi" \in held'[e]
    BY <2>2 DEF Led
  <2>8. \A e \in Devs : pdev'[e] = "new" => card'[e] = "none"
    BY <1>3, <2>2, <2>6 DEF Led, TypeOK
  <2>9. \A f \in Files : Opened(f) => dev[f] \in Devs \ {d}
    BY <2>6 DEF Led
  <2>10. Led' /\ StaleOnlyOrphans'
    BY <1>1, <2>2, <2>6, <2>7, <2>8, <2>9 DEF Led, Opened, StaleOnlyOrphans
  <2> QED BY <2>3, <2>5, <2>10
<1> QED BY <1>2, <1>3 DEF Register

\* platform_device_unregister: the files on the card become orphans before its
\* evdi_device goes.
LEMMA UnregisterStep ==
    ASSUME IInv, NEW t \in Threads, Unregister(t)
    PROVE  IInv'
<1> DEFINE d == target[t]
<1> USE DEF IInv, context, fileVars, cardVars
<1>1. pc[t] = "unregister" /\ UNCHANGED <<module, sysfs, driver, context, fileVars, left, seen,
                                          got, idx, target, removes, raced, botched, stale>>
  BY DEF Unregister
<1>2. \E step \in {"clear", "dead"} : pc' = [pc EXCEPT ![t] = step]
  BY DEF Unregister, Goto, Oops, Unplug, Unload
<1>3. Places' /\ Present'
  BY <1>1, <1>2, StepsOn DEF Removing, Working
<1>4. pc' \in [Threads -> Steps]
  BY <1>2 DEF TypeOK
<1>5. CASE (Oops(t) \/ UNCHANGED oopsed) /\ UNCHANGED <<cardVars, orphaned>>
  <2>1. TypeOK'
    BY <1>1, <1>4, <1>5 DEF TypeOK, Oops
  <2>2. Led' /\ StaleOnlyOrphans'
    BY <1>1, <1>5 DEF Led, Opened, StaleOnlyOrphans
  <2> QED BY <1>3, <2>1, <2>2
<1>6. CASE d \in Devs /\ pdev[d] = "on"
  <2>1. d \in Devs
    BY <1>6
  <2>0. d \notin {NULL, ERR}
    BY <2>1, DevsAssumption
  <2>2. pdev' = [pdev EXCEPT ![d] = "off"] /\ UNCHANGED id
    BY <1>6, <2>0 DEF Unregister
  <2>3. CASE card[d] = "up"
    <3>1. /\ card' = [card EXCEPT ![d] = "unplugged"]
          /\ orphaned' = orphaned \cup {f \in Files : dev[f] = d}
      BY <1>6, <2>0, <2>3 DEF Unregister, Unplug
    <3>2. \E left_over \in SUBSET Setup : held' = [held EXCEPT ![d] = left_over]
      BY <1>6, <2>0, <2>1, <2>3 DEF Unregister, Unload, AfterUnload, TypeOK
    <3>3. oopsed' \in BOOLEAN
      BY <1>6, <2>0, <2>3 DEF Unregister, Unload, Oops, TypeOK
    <3>4. TypeOK'
      BY <1>1, <1>4, <2>1, <2>2, <3>1, <3>2, <3>3 DEF TypeOK
    <3>5. card'[d] = "unplugged" /\ \A e \in Devs \ {d} : card'[e] = card[e] /\ held'[e] = held[e]
      BY <2>1, <3>1, <3>2 DEF TypeOK
    <3>6. pdev'[d] = "off" /\ \A e \in Devs \ {d} : pdev'[e] = pdev[e]
      BY <2>1, <2>2 DEF TypeOK
    <3>7. Led' /\ StaleOnlyOrphans'
      BY <1>1, <2>1, <3>1, <3>5, <3>6 DEF Led, Opened, StaleOnlyOrphans
    <3> QED BY <1>3, <3>4, <3>7
  <2>4. CASE card[d] # "up"
    <3>1. UNCHANGED <<card, held, orphaned, oopsed>>
      BY <1>6, <2>0, <2>4 DEF Unregister
    <3>2. TypeOK'
      BY <1>1, <1>4, <2>1, <2>2, <3>1 DEF TypeOK
    <3>3. \A e \in Devs : pdev'[e] = "new" => pdev[e] = "new"
      BY <2>1, <2>2 DEF TypeOK
    <3>4. Led' /\ StaleOnlyOrphans'
      BY <1>1, <3>1, <3>3 DEF Led, Opened, StaleOnlyOrphans
    <3> QED BY <1>3, <3>2, <3>4
  <2> QED BY <2>3, <2>4
<1> QED BY <1>5, <1>6 DEF Unregister

\* evdi_init registers the driver, which probes the devices that are waiting.
LEMMA InitDriverStep ==
    ASSUME IInv, InitDriver
    PROVE  IInv'
<1> DEFINE S == {d \in Devs : pdev[d] = "on" /\ card[d] = "none"}
<1> USE DEF IInv, context, fileVars
<1>0. "module" \in Threads
  BY DEF Threads
<1>1. /\ pc["module"] = "init" /\ driver' = TRUE
      /\ UNCHANGED <<module, sysfs, context, pdev, id, fileVars, left, seen, got, idx, target,
                     removes, raced, botched, orphaned, stale>>
  BY DEF InitDriver
<1>2. PICK outcome \in [S -> Outcomes] : Probe("module", outcome, "init")
  BY DEF InitDriver
<1>3. S \in SUBSET Devs /\ TypeOK
  OBVIOUS
<1>4. \A d \in S : card[d] = "none" /\ pdev[d] = "on"
  OBVIOUS
<1> HIDE DEF S
<1>5. /\ card' \in [Devs -> {"none", "up", "unplugged"}] /\ held' \in [Devs -> SUBSET Setup]
      /\ \A d \in Devs \ S : card'[d] = card[d] /\ held'[d] = held[d]
      /\ \A d \in S : card'[d] = "up" => "evdi" \in held'[d]
      /\ \E step \in {"init", "dead"} : pc' = [pc EXCEPT !["module"] = step]
      /\ oopsed' \in BOOLEAN
  BY <1>0, <1>2, <1>3, ProbeCards
<1>6. /\ pc'["module"] \in {"init", "dead"}
      /\ \A t \in Threads : t # "module" => pc'[t] = pc[t]
  BY <1>0, <1>5 DEF TypeOK
<1>7. pc' \in [Threads -> Steps]
  BY <1>5 DEF TypeOK
<1>8. TypeOK'
  BY <1>1, <1>5, <1>7 DEF TypeOK
<1>9. Places'
  BY <1>1, <1>6 DEF Places, Adding, Removing
<1>10. Present'
  BY <1>0, <1>1, <1>6 DEF Present, Working
<1>11. \A f \in Files : Opened(f) => dev[f] \in Devs \ S
  BY <1>4 DEF Led
<1>12. Led' /\ StaleOnlyOrphans'
  BY <1>1, <1>3, <1>4, <1>5, <1>11 DEF Led, Opened, StaleOnlyOrphans
<1> QED BY <1>8, <1>9, <1>10, <1>12

\* evdi_exit unregisters the driver when no file is open.
LEMMA ExitDriverStep ==
    ASSUME IInv, ExitDriver
    PROVE  IInv'
<1> USE DEF IInv, context, fileVars, cardVars
<1>0. "module" \in Threads
  BY DEF Threads
<1>1. /\ pc["module"] = "driver"
      /\ UNCHANGED <<module, sysfs, context, pdev, id, fileVars, left, seen, got, idx, target,
                     removes, raced, botched, orphaned, stale>>
  BY DEF ExitDriver
<1>2. \E step \in {"files", "dead"} : pc' = [pc EXCEPT !["module"] = step]
  BY DEF ExitDriver, Goto, Oops
<1>3. /\ pc'["module"] \in {"files", "dead"}
      /\ \A t \in Threads : t # "module" => pc'[t] = pc[t]
  BY <1>0, <1>2 DEF TypeOK
<1>4. Places'
  BY <1>1, <1>3 DEF Places, Adding, Removing
<1>5. Present'
  BY <1>0, <1>1, <1>3 DEF Present, Working
<1>6. /\ card' \in [Devs -> {"none", "up", "unplugged"}] /\ held' \in [Devs -> SUBSET Setup]
      /\ \A d \in Devs : card'[d] # "up" \/ (card'[d] = card[d] /\ held'[d] = held[d])
      /\ \A d \in Devs : card[d] = "none" => card'[d] = "none"
  <2>1. CASE UNCHANGED <<card, held>>
    BY <2>1 DEF TypeOK
  <2>2. CASE /\ card' = [d \in Devs |-> IF card[d] = "up" THEN "unplugged" ELSE card[d]]
             /\ held' = [d \in Devs |-> IF card[d] = "up" THEN AfterUnload(d) ELSE held[d]]
    BY <2>2 DEF TypeOK, AfterUnload
  <2>3. \A d \in Devs : d \in {e \in Devs : card[e] = "up"} <=> card[d] = "up"
    OBVIOUS
  <2> QED BY <2>1, <2>2, <2>3 DEF ExitDriver
<1>7. pc' \in [Threads -> Steps]
  BY <1>2 DEF TypeOK
<1>8. driver' \in BOOLEAN /\ oopsed' \in BOOLEAN
  BY DEF ExitDriver, TypeOK, Oops
<1>9. TypeOK'
  BY <1>1, <1>6, <1>7, <1>8 DEF TypeOK
<1>10. \A f \in Files : ~ Opened(f)
  BY <1>1 DEF Places, Led
<1>11. Led' /\ StaleOnlyOrphans'
  BY <1>1, <1>6, <1>10 DEF Led, Opened, StaleOnlyOrphans
<1> QED BY <1>4, <1>5, <1>9, <1>11

\* Opening a card, an ioctl on it, and closing it.
LEMMA FilesStep ==
    ASSUME IInv, FileStep
    PROVE  IInv'
<1> USE DEF IInv, context, cardVars, threadVars, history, fileVars
<1>1. UNCHANGED <<module, sysfs, driver, context, cardVars, threadVars, removes, raced, oopsed,
                  botched, orphaned>>
  BY DEF FileStep, Open, IoctlBegin, IoctlEnd, Close
<1>2. Places' /\ Present'
  BY <1>1 DEF Places, Present, Working
<1>3. PICK f \in Files : \/ \E d \in Devs : Open(f, d)
                        \/ IoctlBegin(f) \/ IoctlEnd(f) \/ Close(f)
  BY DEF FileStep
<1>4. CASE \E d \in Devs : Open(f, d)
  <2>1. PICK d \in Devs : Open(f, d)
    BY <1>4
  <2>2. TypeOK'
    BY <1>1, <2>1 DEF TypeOK, Open
  <2>3. Led' /\ StaleOnlyOrphans'
    BY <1>1, <2>1 DEF TypeOK, Led, Opened, StaleOnlyOrphans, Open
  <2> QED BY <1>2, <2>2, <2>3
<1>5. CASE IoctlBegin(f)
  <2>1. TypeOK'
    BY <1>1, <1>5 DEF TypeOK, IoctlBegin
  <2>2. Led' /\ StaleOnlyOrphans'
    BY <1>1, <1>5 DEF TypeOK, Led, Opened, StaleOnlyOrphans, IoctlBegin
  <2> QED BY <1>2, <2>1, <2>2
<1>6. CASE IoctlEnd(f) \/ Close(f)
  <2>1. Opened(f) /\ Follow(f)
    BY <1>6 DEF IoctlEnd, Close, Opened
  <2>2. StaleOnlyOrphans'
    BY <1>1, <2>1 DEF StaleOnlyOrphans, Led, Follow
  <2>3. stale' \subseteq Files
    BY <2>1 DEF TypeOK, Follow
  <2>4. TypeOK'
    BY <1>1, <1>6, <2>3 DEF TypeOK, IoctlEnd, Close
  <2>5. \A g \in Files : Opened(g)' => Opened(g) /\ dev'[g] = dev[g]
    BY <1>6, <2>1 DEF TypeOK, Opened, IoctlEnd, Close
  <2>6. Led'
    BY <1>1, <2>5 DEF Led
  <2> QED BY <1>2, <2>2, <2>4, <2>6
<1> QED BY <1>3, <1>4, <1>5, <1>6

LEMMA NextIInv == IInv /\ [Next]_vars => IInv'
<1> SUFFICES ASSUME IInv, [Next]_vars PROVE IInv'
  OBVIOUS
<1>1. CASE UNCHANGED vars
  BY <1>1 DEF vars, context, cardVars, fileVars, threadVars, history, IInv, TypeOK, Places,
              Present, Working, Led, Opened, StaleOnlyOrphans
<1>2. ASSUME NEW w \in Writers, RemoveAllStore(w) \/ \E val \in Counts : AddStore(w, val)
      PROVE  IInv'
  BY <1>2, RemoveAllStoreStep, AddStoreStep
<1>3. ASSUME NEW t \in Threads, AddStep(t) \/ RemoveStep(t)
      PROVE  IInv'
  BY <1>3, RegisterStep, StoreStep, SetMaskStep, ReadCountStep, WriteCountStep,
     RemoveNextStep, LoadTargetStep, UnregisterStep, ClearStep, RemoveDoneStep DEF AddStep, RemoveStep
<1>4. CASE ModuleStep
  BY <1>4, InitFilesStep, InitDriverStep, InitDevicesStep, InitFailsStep, ExitStep,
     ExitDriverStep, ExitFilesStep DEF ModuleStep
<1>5. CASE FileStep
  BY <1>5, FilesStep
<1> QED BY <1>1, <1>2, <1>3, <1>4, <1>5 DEF Next

-----------------------------------------------------------------------------
(* The driver comes down with its cards, whoever races with evdi_exit, and *)
(* an oops is never forgotten.                                             *)

DriverGone == pc["module"] = "files" \/ (module = "out" /\ ~ botched)

Down ==
    /\ oopsed => \E t \in Threads : pc[t] = "dead"
    /\ module = "out" /\ ~ botched => ~ oopsed
    /\ DriverGone => ~ driver /\ \A d \in Devs : card[d] # "up"

LEMMA InitDown == Init => Down
BY DEF Init, Down

\* A thread gets on, or dies: without the driver no card comes up.
LEMMA DownStep ==
    ASSUME TypeOK, Down, NEW t \in Threads, NEW step \in Steps \ {"files"}, pc[t] # "dead",
           pc' = [pc EXCEPT ![t] = step], UNCHANGED <<driver, botched>>,
           ~ botched => module # "out" /\ module' # "out", step = "dead" \/ UNCHANGED oopsed,
           ~ driver => \A d \in Devs : card'[d] = "up" => card[d] = "up"
    PROVE  Down'
<1>1. pc'[t] = step /\ \A u \in Threads \ {t} : pc'[u] = pc[u]
  BY DEF TypeOK
<1>2. oopsed' => \E u \in Threads : pc'[u] = "dead"
  BY <1>1 DEF Down
<1>3. DriverGone' => DriverGone
  BY <1>1 DEF DriverGone, Threads
<1>4. module' = "out" /\ ~ botched' => ~ oopsed'
  OBVIOUS
<1> QED BY <1>2, <1>3, <1>4 DEF Down

\* who works, works in a module that is there
LEMMA WorksInModule ==
    ASSUME IInv, NEW t \in Threads, pc[t] \notin {"idle", "dead"}
    PROVE  ~ botched => module # "out"
BY DEF IInv, Present, Working

LEMMA AddDown ==
    ASSUME IInv, Down, NEW t \in Threads, AddStep(t)
    PROVE  Down'
<1>0. TypeOK /\ Places
  BY DEF IInv
<1>1. CASE Register(t)
  <2>1. /\ pc[t] = "add" /\ UNCHANGED <<module, driver, botched>>
    BY <1>1 DEF Register
  <2>2. PICK step \in {"store", "dead"} : /\ pc' = [pc EXCEPT ![t] = step]
                                          /\ step = "dead" \/ UNCHANGED oopsed
    BY <1>1 DEF Register, Probe, Goto, Oops
  <2>3. ASSUME ~ driver, NEW d \in Devs PROVE card'[d] = card[d]
    <3>1. UNCHANGED cardVars \/ \E outcome \in [{} -> Outcomes] : Probe(t, outcome, "store")
      BY <1>1, <2>3 DEF Register
    <3>2. ASSUME NEW outcome \in [{} -> Outcomes], Probe(t, outcome, "store")
          PROVE  card'[d] = card[d]
      <4>1. DOMAIN outcome = {}
        OBVIOUS
      <4> QED BY <3>2, <4>1 DEF Probe
    <3> QED BY <3>1, <3>2 DEF cardVars
  <2> QED BY <1>0, <2>1, <2>2, <2>3, DownStep, WorksInModule
<1>2. CASE Store(t) \/ ReadCount(t)
  <2>1. pc[t] \notin {"idle", "dead"} /\ \E step \in {"mask", "write"} : pc' = [pc EXCEPT ![t] = step]
    BY <1>2 DEF Store, ReadCount, Goto
  <2>2. UNCHANGED <<module, driver, botched, oopsed, card>>
    BY <1>2 DEF Store, ReadCount, cardVars, history
  <2> QED BY <1>0, <2>1, <2>2, DownStep, WorksInModule
<1>3. CASE SetMask(t)
  <2>1. pc[t] = "mask" /\ UNCHANGED <<module, driver, botched, card>>
    BY <1>3 DEF SetMask, cardVars
  <2>2. PICK step \in {"read", "dead"} : /\ pc' = [pc EXCEPT ![t] = step]
                                         /\ step = "dead" \/ UNCHANGED oopsed
    BY <1>3 DEF SetMask, Goto, Oops
  <2> QED BY <1>0, <2>1, <2>2, DownStep, WorksInModule
<1>4. CASE WriteCount(t)
  <2>1. pc[t] \notin {"idle", "dead"} /\ \E step \in {"add", "idle"} : pc' = [pc EXCEPT ![t] = step]
    BY <1>4 DEF WriteCount, Goto
  <2>2. UNCHANGED <<driver, botched, oopsed, card>> /\ module' \in {module, "in"}
    BY <1>4 DEF WriteCount, cardVars, history
  <2> QED BY <1>0, <2>1, <2>2, DownStep, WorksInModule
<1> QED BY <1>1, <1>2, <1>3, <1>4 DEF AddStep

LEMMA RemoveDown ==
    ASSUME IInv, Down, NEW t \in Threads, RemoveStep(t)
    PROVE  Down'
<1>0. TypeOK
  BY DEF IInv
<1>1. CASE Unregister(t)
  <2>1. pc[t] = "unregister" /\ UNCHANGED <<module, driver, botched>>
    BY <1>1 DEF Unregister
  <2>2. PICK step \in {"clear", "dead"} : /\ pc' = [pc EXCEPT ![t] = step]
                                          /\ step = "dead" \/ UNCHANGED oopsed
    BY <1>1 DEF Unregister, Unload, Goto, Oops
  <2>3. card' = card \/ card' = [card EXCEPT ![target[t]] = "unplugged"]
    BY <1>1 DEF Unregister, Unplug, cardVars
  <2>4. \A d \in Devs : card'[d] = "up" => card[d] = "up"
    BY <1>0, <2>3 DEF TypeOK
  <2> QED BY <1>0, <2>1, <2>2, <2>4, DownStep, WorksInModule
<1>2. CASE RemoveNext(t)
  <2>1. pc[t] = "remove" /\ (pc' = pc \/ pc' = [pc EXCEPT ![t] = "load"])
    BY <1>2 DEF RemoveNext, Goto
  <2>2. \E step \in {"remove", "load"} : pc' = [pc EXCEPT ![t] = step]
    BY <1>0, <2>1 DEF TypeOK
  <2>3. UNCHANGED <<module, driver, botched, oopsed, card>>
    BY <1>2 DEF RemoveNext, cardVars, history
  <2> QED BY <1>0, <2>1, <2>2, <2>3, DownStep, WorksInModule
<1>3. CASE LoadTarget(t) \/ Clear(t) \/ RemoveDone(t)
  <2>1. /\ pc[t] \notin {"idle", "dead"}
        /\ \E step \in {"unregister", "remove", "driver", "idle"} : pc' = [pc EXCEPT ![t] = step]
    BY <1>3 DEF LoadTarget, Clear, RemoveDone, Goto
  <2>2. UNCHANGED <<module, driver, botched, oopsed, card>>
    BY <1>3 DEF LoadTarget, Clear, RemoveDone, cardVars, history
  <2> QED BY <1>0, <2>1, <2>2, DownStep, WorksInModule
<1> QED BY <1>1, <1>2, <1>3 DEF RemoveStep

\* add_store, remove_all_store and evdi_exit begin.
LEMMA BeginDown ==
    ASSUME IInv, Down, NEW t \in Threads, pc[t] = "idle",
           \/ \E val \in Counts : AddStore(t, val)
           \/ RemoveAllStore(t)
           \/ t = "module" /\ Exit
    PROVE  Down'
<1>1. \E step \in {"add", "remove"} : pc' = [pc EXCEPT ![t] = step]
  BY DEF AddStore, RemoveAllStore, Exit, Goto
<1>2. UNCHANGED <<driver, botched, oopsed, card>> /\ module # "out" /\ module' # "out"
  BY DEF AddStore, RemoveAllStore, Exit, cardVars
<1> QED BY <1>1, <1>2, DownStep DEF IInv

\* The module's thread loads, fails to, or takes the driver and its cards down; it
\* removes the files when every writer has come back.
LEMMA ModuleDown ==
    ASSUME IInv, Down, ModuleStep, ~ Exit
    PROVE  Down'
<1> DEFINE t == "module"
<1>0. TypeOK /\ Places /\ t \in Threads
  BY DEF IInv, Threads
<1>1. CASE InitDriver
  <2>1. pc[t] = "init" /\ module = "loading" /\ UNCHANGED <<module, botched>>
    BY <1>0, <1>1 DEF InitDriver, Places
  <2>2. PICK step \in {"init", "dead"} : /\ pc' = [pc EXCEPT ![t] = step]
                                         /\ step = "dead" \/ UNCHANGED oopsed
    BY <1>1 DEF InitDriver, Probe, Goto, Oops
  <2>3. /\ pc'[t] \in {"init", "dead"} /\ \A u \in Threads \ {t} : pc'[u] = pc[u]
        /\ pc'[t] = "dead" \/ UNCHANGED oopsed
    BY <1>0, <2>2 DEF TypeOK
  <2> QED BY <1>0, <2>1, <2>3 DEF Down, DriverGone
<1>2. CASE \E val \in Counts : InitDevices(val)
  <2>1. pc[t] = "init" /\ \E step \in {"idle", "add"} : pc' = [pc EXCEPT ![t] = step]
    BY <1>2 DEF InitDevices, Goto
  <2>2. UNCHANGED <<driver, botched, oopsed, card>> /\ module' \in {module, "in"}
    BY <1>2 DEF InitDevices, cardVars, history
  <2> QED BY <1>0, <2>1, <2>2, DownStep, WorksInModule
<1>3. CASE InitFails
  <2>1. /\ pc[t] = "init" /\ botched' /\ oopsed' = oopsed
        /\ pc'[t] = "idle" /\ \A u \in Threads \ {t} : pc'[u] = pc[u]
    BY <1>0, <1>3 DEF InitFails, Goto, TypeOK
  <2> QED BY <1>0, <2>1 DEF Down, DriverGone
<1>4. CASE ExitDriver
  <2>1. /\ pc[t] = "driver" /\ module = "exiting" /\ UNCHANGED <<module, botched>>
    BY <1>0, <1>4 DEF ExitDriver, Places
  <2>2. CASE /\ driver' = FALSE /\ UNCHANGED oopsed /\ pc' = [pc EXCEPT ![t] = "files"]
             /\ \A d \in Devs : card'[d] # "up"
    <3>1. pc'[t] = "files" /\ \A u \in Threads \ {t} : pc'[u] = pc[u]
      BY <1>0, <2>2 DEF TypeOK
    <3> QED BY <1>0, <2>1, <2>2, <3>1 DEF Down
  <2>3. CASE Oops(t) /\ UNCHANGED <<driver, card>>
    BY <1>0, <2>1, <2>3, DownStep DEF Oops, Goto
  <2>4. (\A d \in Devs : card'[d] = IF d \in {e \in Devs : card[e] = "up"} THEN "unplugged" ELSE card[d])
        => \A d \in Devs : card'[d] # "up"
    OBVIOUS
  <2> QED BY <1>4, <2>2, <2>3, <2>4 DEF ExitDriver, Goto
<1>5. CASE ExitFiles
  <2>1. /\ pc[t] = "files" /\ \A w \in Writers : pc[w] = "idle"
        /\ UNCHANGED <<driver, card, oopsed, botched>>
    BY <1>5 DEF ExitFiles, cardVars, history
  <2>2. ~ oopsed
    BY <2>1 DEF Down, Threads
  <2> QED BY <2>1, <2>2 DEF Down, DriverGone
<1>6. CASE InitFiles
  <2>1. module = "out" /\ ~ botched /\ module' = "loading" /\ UNCHANGED oopsed
    BY <1>6 DEF InitFiles
  <2>2. pc'[t] = "init"
    BY <1>0, <1>6 DEF InitFiles, Goto, TypeOK
  <2> QED BY <2>1, <2>2 DEF Down, DriverGone
<1> QED BY <1>1, <1>2, <1>3, <1>4, <1>5, <1>6 DEF ModuleStep

LEMMA NextDown == IInv /\ Down /\ [Next]_vars => Down'
<1> SUFFICES ASSUME IInv, Down, [Next]_vars PROVE Down'
  OBVIOUS
<1>1. CASE UNCHANGED vars
  BY <1>1 DEF vars, cardVars, threadVars, history, Down, DriverGone
<1>2. ASSUME NEW w \in Writers, RemoveAllStore(w) \/ \E val \in Counts : AddStore(w, val)
      PROVE  Down'
  BY <1>2, BeginDown DEF RemoveAllStore, AddStore, Threads
<1>3. ASSUME NEW t \in Threads, AddStep(t) \/ RemoveStep(t)
      PROVE  Down'
  BY <1>3, AddDown, RemoveDown
<1>4. CASE ModuleStep
  <2>1. ~ Exit => Down'
    BY <1>4, ModuleDown
  <2>2. Exit => Down'
    BY BeginDown DEF Exit, Threads
  <2> QED BY <2>1, <2>2
<1>5. CASE FileStep
  <2>1. UNCHANGED <<module, driver, botched, oopsed, card, pc>>
    BY <1>5 DEF FileStep, Open, IoctlBegin, IoctlEnd, Close, cardVars, threadVars, history
  <2> QED BY <2>1 DEF Down, DriverGone
<1> QED BY <1>1, <1>2, <1>3, <1>4, <1>5 DEF Next

-----------------------------------------------------------------------------
(* The cards, as long as the threads come one at a time.  Serial is what   *)
(* evdi_context says then; Idle, Hands and Allocated hold in any case.     *)

\* A module that is gone left nobody behind, unless evdi_init failed half way.
Idle == module = "out" /\ ~ botched => \A t \in Threads : pc[t] = "idle"

\* what a thread has in hand, by its place
HandsAt(t) ==
    /\ pc[t] \notin {"store", "mask", "read", "write", "dead"} => got[t] = NULL
    /\ pc[t] \notin {"unregister", "clear", "dead"} => target[t] = NULL
    /\ pc[t] \notin Removing \cup {"dead"} => idx[t] = 0
Hands == \A t \in Threads : HandsAt(t)

\* what a device has allocated, by its card
Allocated == \A d \in Devs :
    /\ pdev[d] = "off" => card[d] # "up"
    /\ card[d] = "unplugged" /\ ~ oopsed => held[d] \subseteq {"painter"}

\* A thread that adds has room for what is left, has the device it registered under
\* dev_count, has then stored it there, and gets on only with a device.
AddsAt(t) ==
    /\ pc[t] \in Adding => dev_count + left[t] <= EVDI_DEVICE_COUNT_MAX
    /\ pc[t] \in {"store", "mask", "read", "write"} =>
          \/ got[t] = ERR /\ pc[t] \in {"store", "mask"}
          \/ got[t] \in Devs /\ pdev[got[t]] = "on" /\ id[got[t]] = dev_count
    /\ pc[t] \in {"mask", "read", "write"} => devices[dev_count] = got[t]
    /\ pc[t] = "write" => seen[t] = dev_count

\* A thread that removes has cleared the slots up to its index, and clears the slot
\* of what it unregistered.
RemovesAt(t) ==
    /\ pc[t] \in Removing => \A i \in Slots : i < idx[t] => devices[i] = NULL
    /\ pc[t] \in Removing \ {"remove"} => idx[t] < dev_count
    /\ pc[t] \in {"unregister", "clear"} => target[t] = devices[idx[t]]
    /\ pc[t] = "clear" => ~ (target[t] \in Devs /\ pdev[target[t]] = "on")

\* A device that is on is in somebody's hands or in the slot of its number ...
Known(d) == pdev[d] = "on" => d \in InFlight \/ (id[d] < dev_count /\ devices[id[d]] = d)

\* ... and a slot in use has a device of that number.
SlotHolds(i) == i < dev_count /\ devices[i] # NULL =>
    /\ devices[i] \in Devs /\ id[devices[i]] = i /\ pdev[devices[i]] # "new"
    /\ devices[i] \in InFlight \/ pdev[devices[i]] = "on"

OneByOne == \A t, u \in Threads : Working(t) /\ Working(u) => t = u

\* The module's thread comes out of evdi_remove_all with no cards.
Emptied ==
    /\ pc["module"] \in {"driver", "files"} => dev_count = 0
    /\ module = "out" /\ ~ botched => dev_count = 0

Serial == ~ raced =>
    /\ OneByOne /\ Emptied
    /\ dev_count <= EVDI_DEVICE_COUNT_MAX
    /\ \A t \in Threads : AddsAt(t) /\ RemovesAt(t)
    /\ \A d \in Devs : Known(d)
    /\ \A i \in Slots : SlotHolds(i)

CInv == Idle /\ Hands /\ Allocated /\ Serial

LEMMA InitCInv == Init => CInv
<1> SUFFICES ASSUME Init PROVE CInv
  OBVIOUS
<1> USE DEF Init
<1>1. Idle /\ Allocated
  BY DEF Idle, Allocated
<1>2. Hands
  BY DEF Hands, HandsAt
<1>3. \A t \in Threads : AddsAt(t) /\ RemovesAt(t)
  BY DEF AddsAt, RemovesAt, Adding, Removing
<1>4. /\ \A d \in Devs : Known(d)
      /\ \A i \in Slots : SlotHolds(i)
  BY DEF Known, SlotHolds
<1>5. OneByOne /\ Emptied
  BY DEF OneByOne, Emptied, Working, Threads
<1>6. dev_count <= EVDI_DEVICE_COUNT_MAX
  BY DriverBoundsAssumption
<1> QED BY <1>1, <1>2, <1>3, <1>4, <1>5, <1>6 DEF CInv, Serial

\* A thread that works is alone ...
LEMMA Alone ==
    ASSUME Serial, ~ raced, NEW t \in Threads, Working(t)
    PROVE  \A u \in Threads \ {t} : ~ Working(u)
BY DEF Serial, OneByOne

\* ... so what it does keeps Serial when it does what Serial says of itself, of the
\* devices and of the slots.
LEMMA SerialStep ==
    ASSUME NEW t \in Threads,
           ~ raced' => /\ \A u \in Threads \ {t} : ~ Working(u) /\ pc'[u] = pc[u]
                       /\ pc'[t] \in {"driver", "files"} => dev_count' = 0
                       /\ module' = "out" /\ ~ botched' => dev_count' = 0
                       /\ dev_count' <= EVDI_DEVICE_COUNT_MAX
                       /\ AddsAt(t)' /\ RemovesAt(t)'
                       /\ \A d \in Devs : Known(d)'
                       /\ \A i \in Slots : SlotHolds(i)'
    PROVE  Serial'
<1> SUFFICES ASSUME ~ raced' PROVE /\ OneByOne' /\ Emptied'
                                   /\ \A u \in Threads : AddsAt(u)' /\ RemovesAt(u)'
  BY DEF Serial
<1>1. \A u \in Threads \ {t} : pc'[u] \in {"idle", "dead"}
  BY DEF Working
<1>2. OneByOne'
  BY <1>1 DEF OneByOne, Working
<1>3. Emptied'
  BY <1>1 DEF Emptied, Threads
<1>4. ASSUME NEW u \in Threads PROVE AddsAt(u)' /\ RemovesAt(u)'
  <2>1. CASE u = t
    BY <2>1
  <2>2. CASE u # t
    BY <1>1, <2>2 DEF AddsAt, RemovesAt, Adding, Removing
  <2> QED BY <2>1, <2>2
<1> QED BY <1>2, <1>3, <1>4

\* A step that leaves the devices and who has them in hand alone leaves them known.
LEMMA DevicesKept ==
    ASSUME Serial, ~ raced, UNCHANGED <<dev_count, devices, pdev, id, got, target>>
    PROVE  /\ dev_count' <= EVDI_DEVICE_COUNT_MAX
           /\ \A d \in Devs : Known(d)'
           /\ \A i \in Slots : SlotHolds(i)'
BY DEF Serial, Known, SlotHolds, InFlight

LEMMA HandsStep ==
    ASSUME Hands, NEW t \in Threads, HandsAt(t)',
           \A u \in Threads \ {t} : /\ pc'[u] = pc[u] /\ got'[u] = got[u]
                                    /\ target'[u] = target[u] /\ idx'[u] = idx[u]
    PROVE  Hands'
BY DEF Hands, HandsAt

LEMMA AllocatedKept ==
    ASSUME Allocated, UNCHANGED cardVars, oopsed => oopsed'
    PROVE  Allocated'
BY DEF Allocated, cardVars

\* a thread that adds is within the array
LEMMA AddsInSlots ==
    ASSUME TypeOK, Places, Serial, ~ raced, NEW t \in Threads, pc[t] \in Adding
    PROVE  AddsAt(t) /\ dev_count \in Slots /\ dev_count + left[t] <= EVDI_DEVICE_COUNT_MAX
<1>1. AddsAt(t) /\ left[t] > 0 /\ left[t] \in Nat /\ dev_count \in Nat
  BY DEF Serial, Places, TypeOK
<1>2. dev_count + left[t] <= EVDI_DEVICE_COUNT_MAX
  BY <1>1 DEF AddsAt
<1> QED BY <1>1, <1>2, DriverBoundsAssumption DEF Slots

\* in hand, seen from one thread
LEMMA FlightIs ==
    /\ \A d : d \in InFlight <=> \E u \in Threads : got[u] = d \/ target[u] = d
    /\ \A d : d \in InFlight' <=> \E u \in Threads : got'[u] = d \/ target'[u] = d
BY DEF InFlight

\* A probe makes a card that is up, or none.
LEMMA ProbeAllocated ==
    ASSUME TypeOK, Allocated, NEW t, NEW next, NEW S \in SUBSET Devs,
           NEW outcome \in [S -> Outcomes], Probe(t, outcome, next),
           \A d \in S : pdev'[d] = "on", \A d \in Devs \ S : pdev'[d] = pdev[d]
    PROVE  Allocated'
<1>1. DOMAIN outcome = S
  OBVIOUS
<1>2. \A d \in S : outcome[d] \in Outcomes /\ outcome[d].card \in {"none", "up"}
  <2>1. \A o \in Outcomes : o.card \in {"none", "up"}
    BY FailuresAssumption DEF Outcomes, NoCard
  <2> QED BY <2>1
<1>3. /\ card' = [d \in Devs |-> IF d \in S THEN outcome[d].card ELSE card[d]]
      /\ held' = [d \in Devs |-> IF d \in S THEN outcome[d].held ELSE held[d]]
      /\ oopsed => oopsed'
  BY <1>1 DEF Probe, Oops
<1>4. ASSUME NEW d \in S PROVE pdev'[d] = "on" /\ card'[d] \in {"none", "up"}
  BY <1>2, <1>3, <1>4
<1>5. \A d \in Devs \ S : card'[d] = card[d] /\ held'[d] = held[d]
  BY <1>3
<1> QED BY <1>3, <1>4, <1>5 DEF Allocated

\* Steps that are quiet for evdi_context: the thread gets on, the devices stay.
LEMMA QuietStep ==
    ASSUME IInv, TypeOK', CInv, NEW t \in Threads, Working(t),
           UNCHANGED <<dev_count, devices, pdev, id, got, target, raced, botched>>,
           \A u \in Threads \ {t} : pc'[u] = pc[u] /\ idx'[u] = idx[u],
           HandsAt(t)', Allocated', module' \in {module, "in"},
           ~ raced => /\ pc'[t] \in {"driver", "files"} => dev_count = 0
                      /\ AddsAt(t)' /\ RemovesAt(t)'
    PROVE  CInv'
<1>0. Idle /\ Hands /\ Allocated /\ Serial
  BY DEF CInv
<1>1. ~ botched => module # "out"
  BY DEF IInv, Present
<1>2. Idle'
  BY <1>1 DEF Idle
<1>3. Hands'
  BY <1>0, HandsStep
<1>4. ASSUME ~ raced'
      PROVE  /\ \A u \in Threads \ {t} : ~ Working(u) /\ pc'[u] = pc[u]
             /\ pc'[t] \in {"driver", "files"} => dev_count' = 0
             /\ module' = "out" /\ ~ botched' => dev_count' = 0
             /\ dev_count' <= EVDI_DEVICE_COUNT_MAX
             /\ AddsAt(t)' /\ RemovesAt(t)'
             /\ \A d \in Devs : Known(d)'
             /\ \A i \in Slots : SlotHolds(i)'
  BY <1>0, <1>1, <1>4, Alone, DevicesKept
<1>5. Serial'
  BY <1>4, SerialStep
<1> QED BY <1>2, <1>3, <1>5 DEF CInv

LEMMA SetMaskCards ==
    ASSUME IInv, TypeOK', CInv, NEW t \in Threads, SetMask(t)
    PROVE  CInv'
<1>0. TypeOK /\ Places /\ Hands /\ Allocated /\ Serial
  BY DEF IInv, CInv
<1>1. /\ pc[t] = "mask" /\ pc'[t] \in {"read", "dead"}
      /\ \A u \in Threads \ {t} : pc'[u] = pc[u]
      /\ UNCHANGED <<module, sysfs, driver, context, cardVars, fileVars, left, seen, got, idx,
                     target, removes, raced, botched, orphaned, stale>>
      /\ oopsed => oopsed'
  BY <1>0 DEF SetMask, Goto, Oops, TypeOK
<1>2. HandsAt(t)' /\ Allocated'
  BY <1>0, <1>1, AllocatedKept DEF Hands, HandsAt, Removing
<1>3. ASSUME ~ raced PROVE AddsAt(t)' /\ RemovesAt(t)'
  <2>1. AddsAt(t) /\ dev_count \in Slots
    BY <1>0, <1>1, <1>3, AddsInSlots DEF Adding
  <2>2. pc'[t] = "read" => got[t] # ERR
    BY <1>1, <2>1, DevsAssumption DEF SetMask, Oops, Goto, AddsAt, TypeOK
  <2>3. AddsAt(t)'
    BY <1>1, <2>1, <2>2 DEF AddsAt, Adding, context, cardVars
  <2> QED BY <1>1, <2>3 DEF RemovesAt, Removing
<1> QED BY <1>1, <1>2, <1>3, QuietStep DEF Working, context, cardVars

LEMMA ReadCountCards ==
    ASSUME IInv, TypeOK', CInv, NEW t \in Threads, ReadCount(t)
    PROVE  CInv'
<1>0. TypeOK /\ Hands /\ Allocated /\ Serial
  BY DEF IInv, CInv
<1>1. /\ pc[t] = "read" /\ pc'[t] = "write" /\ seen'[t] = dev_count
      /\ \A u \in Threads \ {t} : pc'[u] = pc[u]
      /\ UNCHANGED <<module, sysfs, driver, context, cardVars, fileVars, left, got, idx, target,
                     removes, history>>
  BY <1>0 DEF ReadCount, Goto, TypeOK
<1>2. HandsAt(t)' /\ Allocated'
  BY <1>0, <1>1, AllocatedKept DEF Hands, HandsAt, Removing, history
<1>3. ASSUME ~ raced PROVE AddsAt(t)' /\ RemovesAt(t)'
  BY <1>0, <1>1, <1>3 DEF Serial, AddsAt, RemovesAt, Adding, Removing, context, cardVars
<1> QED BY <1>1, <1>2, <1>3, QuietStep DEF Working, context, cardVars, history

LEMMA RemoveNextCards ==
    ASSUME IInv, TypeOK', CInv, NEW t \in Threads, RemoveNext(t)
    PROVE  CInv'
<1>0. TypeOK /\ Hands /\ Allocated /\ Serial
  BY DEF IInv, CInv
<1>1. /\ pc[t] = "remove" /\ pc'[t] \in {"remove", "load"} /\ idx[t] < dev_count
      /\ \A u \in Threads \ {t} : pc'[u] = pc[u] /\ idx'[u] = idx[u]
      /\ UNCHANGED <<module, sysfs, driver, context, cardVars, fileVars, left, seen, got, target,
                     removes, history>>
  BY <1>0 DEF RemoveNext, Goto, TypeOK
<1>2. \/ pc'[t] = "remove" /\ NULL \in DevicesAt(idx[t]) /\ idx'[t] = idx[t] + 1
      \/ pc'[t] = "load" /\ idx'[t] = idx[t]
  BY <1>0 DEF RemoveNext, Goto, TypeOK
<1>3. HandsAt(t)' /\ Allocated'
  BY <1>0, <1>1, AllocatedKept DEF Hands, HandsAt, Removing, history
<1>4. ASSUME ~ raced PROVE AddsAt(t)' /\ RemovesAt(t)'
  <2>1. RemovesAt(t) /\ idx[t] \in Nat
    BY <1>0, <1>4 DEF Serial, TypeOK
  <2>2. ASSUME NEW i \in Slots, i < idx'[t] PROVE devices'[i] = NULL
    <3>1. i < idx[t] \/ (i = idx[t] /\ NULL \in DevicesAt(i))
      BY <1>1, <1>2, <2>1, <2>2 DEF Slots
    <3> QED BY <1>1, <2>1, <3>1 DEF RemovesAt, Removing, DevicesAt, context
  <2>3. pc'[t] \in Removing \ {"remove"} => idx'[t] < dev_count'
    BY <1>1, <1>2 DEF context
  <2> QED BY <1>1, <2>2, <2>3 DEF AddsAt, RemovesAt, Adding
<1> QED BY <1>1, <1>3, <1>4, QuietStep DEF Working, context, cardVars, history

LEMMA InitDevicesCards ==
    ASSUME IInv, TypeOK', CInv, NEW val \in Counts, InitDevices(val)
    PROVE  CInv'
<1> DEFINE t == "module"
<1>0. TypeOK /\ Hands /\ Allocated /\ Serial /\ t \in Threads /\ val \in Nat
  BY DriverBoundsAssumption DEF IInv, CInv, Threads
<1>1. /\ pc[t] = "init" /\ pc'[t] \in {"idle", "add"} /\ left'[t] = val /\ ~ TooMany(val)
      /\ \A u \in Threads \ {t} : pc'[u] = pc[u]
      /\ UNCHANGED <<sysfs, driver, context, cardVars, fileVars, seen, got, idx, target, removes,
                     history>>
      /\ module' \in {module, "in"}
  BY <1>0 DEF InitDevices, Goto, TypeOK
<1>2. HandsAt(t)' /\ Allocated'
  BY <1>0, <1>1, AllocatedKept DEF Hands, HandsAt, Removing, history
<1>3. ASSUME ~ raced PROVE AddsAt(t)' /\ RemovesAt(t)'
  <2>1. dev_count + val <= EVDI_DEVICE_COUNT_MAX
    BY <1>0, <1>1, <1>3, DriverBoundsAssumption DEF Serial, TooMany, TypeOK
  <2> QED BY <1>1, <2>1 DEF AddsAt, RemovesAt, Adding, Removing, context
<1> QED BY <1>0, <1>1, <1>2, <1>3, QuietStep DEF Working, context, cardVars, history

LEMMA InitDriverCards ==
    ASSUME IInv, TypeOK', CInv, InitDriver
    PROVE  CInv'
<1> DEFINE t == "module"
           S == {d \in Devs : pdev[d] = "on" /\ card[d] = "none"}
<1>0. TypeOK /\ Hands /\ Allocated /\ Serial /\ t \in Threads
  BY DEF IInv, CInv, Threads
<1>1. /\ pc[t] = "init"
      /\ UNCHANGED <<module, sysfs, context, pdev, id, fileVars, left, seen, got, idx, target,
                     removes, raced, botched, orphaned, stale>>
  BY DEF InitDriver
<1>2. PICK outcome \in [S -> Outcomes] : Probe(t, outcome, "init")
  BY DEF InitDriver
<1>3. pc'[t] \in {"init", "dead"} /\ \A u \in Threads \ {t} : pc'[u] = pc[u]
  BY <1>0, <1>2 DEF Probe, Goto, Oops, TypeOK
<1>4. HandsAt(t)'
  BY <1>0, <1>1, <1>3 DEF Hands, HandsAt, Removing
<1>5. Allocated'
  BY <1>0, <1>1, <1>2, ProbeAllocated
<1> QED BY <1>0, <1>1, <1>3, <1>4, <1>5, QuietStep
        DEF Working, AddsAt, RemovesAt, Adding, Removing, context

\* A thread that was idle begins: it is alone in evdi_context, or has raced.
LEMMA EnterStep ==
    ASSUME IInv, TypeOK', CInv, NEW t \in Threads, Enter(t), module # "out", pc[t] = "idle",
           UNCHANGED <<dev_count, devices, pdev, id, got, target, idx, cardVars, oopsed, botched>>,
           module' # "out", pc'[t] \in {"add", "remove"}, \A u \in Threads \ {t} : pc'[u] = pc[u],
           pc'[t] = "add" => ~ TooMany(left'[t])
    PROVE  CInv'
<1>0. TypeOK /\ Hands /\ Allocated /\ Serial
  BY DEF IInv, CInv
<1>1. HandsAt(t)' /\ idx[t] = 0
  BY <1>0 DEF Hands, HandsAt, Removing
<1>2. Idle' /\ Hands' /\ Allocated'
  BY <1>0, <1>1, HandsStep, AllocatedKept DEF Idle
<1>3. ASSUME ~ raced'
      PROVE  /\ \A u \in Threads \ {t} : ~ Working(u) /\ pc'[u] = pc[u]
             /\ pc'[t] \in {"driver", "files"} => dev_count' = 0
             /\ module' = "out" /\ ~ botched' => dev_count' = 0
             /\ dev_count' <= EVDI_DEVICE_COUNT_MAX
             /\ AddsAt(t)' /\ RemovesAt(t)'
             /\ \A d \in Devs : Known(d)'
             /\ \A i \in Slots : SlotHolds(i)'
  <2>1. ~ raced /\ \A u \in Threads \ {t} : ~ Working(u)
    BY <1>3 DEF Enter
  <2>2. AddsAt(t)'
    <3>1. dev_count <= EVDI_DEVICE_COUNT_MAX
      BY <1>0, <2>1 DEF Serial
    <3>2. pc'[t] = "add" => dev_count + left'[t] <= EVDI_DEVICE_COUNT_MAX
      <4>1. left'[t] \in Nat /\ dev_count \in Nat
        BY <1>0 DEF TypeOK
      <4> QED BY <3>1, <4>1, DriverBoundsAssumption DEF TooMany
    <3> QED BY <3>2 DEF AddsAt, Adding
  <2>3. RemovesAt(t)'
    BY <1>1 DEF RemovesAt, Removing, Slots
  <2> QED BY <1>0, <2>1, <2>2, <2>3, DevicesKept
<1>4. Serial'
  BY <1>3, SerialStep
<1> QED BY <1>2, <1>4 DEF CInv

LEMMA AddStoreCards ==
    ASSUME IInv, TypeOK', CInv, NEW w \in Writers, NEW val \in Counts, AddStore(w, val)
    PROVE  CInv'
<1>0. TypeOK /\ w \in Threads
  BY DEF IInv, Threads
<1>1. /\ pc[w] = "idle" /\ pc'[w] = "add" /\ left'[w] = val /\ ~ TooMany(val) /\ module # "out"
      /\ \A u \in Threads \ {w} : pc'[u] = pc[u]
      /\ Enter(w)
      /\ UNCHANGED <<module, sysfs, driver, context, cardVars, fileVars, seen, got, idx, target,
                     removes, oopsed, botched, orphaned, stale>>
  BY <1>0 DEF AddStore, Goto, TypeOK
<1> QED BY <1>0, <1>1, EnterStep DEF context, cardVars

LEMMA RemoveAllStoreCards ==
    ASSUME IInv, TypeOK', CInv, NEW w \in Writers, RemoveAllStore(w)
    PROVE  CInv'
<1>0. TypeOK /\ w \in Threads
  BY DEF IInv, Threads
<1>1. /\ pc[w] = "idle" /\ pc'[w] = "remove" /\ module # "out"
      /\ \A u \in Threads \ {w} : pc'[u] = pc[u]
      /\ Enter(w)
      /\ UNCHANGED <<module, sysfs, driver, context, cardVars, fileVars, left, seen, got, idx,
                     target, oopsed, botched, orphaned, stale>>
  BY <1>0 DEF RemoveAllStore, Goto, TypeOK
<1> QED BY <1>0, <1>1, EnterStep DEF context, cardVars

LEMMA ExitCards ==
    ASSUME IInv, TypeOK', CInv, Exit
    PROVE  CInv'
<1>0. TypeOK /\ "module" \in Threads
  BY DEF IInv, Threads
<1>1. /\ pc["module"] = "idle" /\ pc'["module"] = "remove" /\ module # "out" /\ module' # "out"
      /\ \A u \in Threads \ {"module"} : pc'[u] = pc[u]
      /\ Enter("module")
      /\ UNCHANGED <<sysfs, driver, context, cardVars, fileVars, left, seen, got, idx, target,
                     removes, oopsed, botched, orphaned, stale>>
  BY <1>0 DEF Exit, Goto, TypeOK
<1> QED BY <1>0, <1>1, EnterStep DEF context, cardVars

\* The module is loaded where nobody is left and no device is on.
LEMMA InitFilesCards ==
    ASSUME IInv, TypeOK', CInv, InitFiles
    PROVE  CInv'
<1> DEFINE t == "module"
<1>0. TypeOK /\ Idle /\ Hands /\ Allocated /\ Serial /\ t \in Threads
  BY DEF IInv, CInv, Threads
<1>1. /\ module = "out" /\ ~ botched /\ module' = "loading" /\ pc'[t] = "init"
      /\ \A u \in Threads \ {t} : pc'[u] = pc[u]
      /\ dev_count' = 0 /\ devices' = [i \in Slots |-> NULL]
      /\ Enter(t)
      /\ UNCHANGED <<driver, cardVars, fileVars, left, seen, got, idx, target, removes,
                     oopsed, botched, orphaned, stale>>
  BY <1>0 DEF InitFiles, Goto, TypeOK
<1>2. \A u \in Threads : pc[u] = "idle" /\ got[u] = NULL /\ target[u] = NULL
  BY <1>0, <1>1 DEF Idle, Hands, HandsAt, Removing
<1>3. Idle' /\ Hands' /\ Allocated'
  <2>1. HandsAt(t)'
    BY <1>0, <1>1, <1>2 DEF Hands, HandsAt, Removing
  <2> QED BY <1>0, <1>1, <2>1, HandsStep, AllocatedKept DEF Idle
<1>4. ASSUME ~ raced'
      PROVE  /\ \A u \in Threads \ {t} : ~ Working(u) /\ pc'[u] = pc[u]
             /\ pc'[t] \in {"driver", "files"} => dev_count' = 0
             /\ module' = "out" /\ ~ botched' => dev_count' = 0
             /\ dev_count' <= EVDI_DEVICE_COUNT_MAX
             /\ AddsAt(t)' /\ RemovesAt(t)'
             /\ \A d \in Devs : Known(d)'
             /\ \A i \in Slots : SlotHolds(i)'
  <2>1. ~ raced /\ \A u \in Threads \ {t} : ~ Working(u)
    BY <1>1, <1>4 DEF Enter
  <2>2. dev_count = 0 /\ \A d \in Devs : Known(d)
    BY <1>0, <1>1, <2>1 DEF Serial, Emptied
  <2>3. ASSUME NEW d \in Devs PROVE Known(d)'
    <3>1. d \notin InFlight
      BY <1>2, FlightIs, DevsAssumption
    <3>2. pdev[d] # "on"
      BY <1>0, <2>2, <3>1 DEF Known, TypeOK
    <3> QED BY <1>1, <3>2 DEF Known, cardVars
  <2>4. \A i \in Slots : SlotHolds(i)'
    BY <1>1 DEF SlotHolds
  <2> QED BY <1>1, <2>1, <2>3, <2>4, DriverBoundsAssumption
          DEF AddsAt, RemovesAt, Adding, Removing
<1>5. Serial'
  BY <1>0, <1>4, SerialStep
<1> QED BY <1>3, <1>5 DEF CInv

\* evdi_init gives up: what is left behind is not looked at any more.
LEMMA InitFailsCards ==
    ASSUME IInv, TypeOK', CInv, InitFails
    PROVE  CInv'
<1> DEFINE t == "module"
<1>0. TypeOK /\ Hands /\ Allocated /\ Serial /\ t \in Threads
  BY DEF IInv, CInv, Threads
<1>1. /\ botched' /\ pc[t] = "init" /\ pc'[t] = "idle"
      /\ \A u \in Threads \ {t} : pc'[u] = pc[u]
      /\ UNCHANGED <<sysfs, driver, context, cardVars, fileVars, left, seen, got, idx, target,
                     removes, raced, oopsed, orphaned, stale>>
  BY <1>0 DEF InitFails, Goto, TypeOK
<1>2. HandsAt(t)'
  BY <1>0, <1>1 DEF Hands, HandsAt, Removing
<1>3. Idle' /\ Hands' /\ Allocated'
  BY <1>0, <1>1, <1>2, HandsStep, AllocatedKept DEF Idle
<1>4. ASSUME ~ raced'
      PROVE  /\ \A u \in Threads \ {t} : ~ Working(u) /\ pc'[u] = pc[u]
             /\ pc'[t] \in {"driver", "files"} => dev_count' = 0
             /\ module' = "out" /\ ~ botched' => dev_count' = 0
             /\ dev_count' <= EVDI_DEVICE_COUNT_MAX
             /\ AddsAt(t)' /\ RemovesAt(t)'
             /\ \A d \in Devs : Known(d)'
             /\ \A i \in Slots : SlotHolds(i)'
  <2>1. \A u \in Threads \ {t} : ~ Working(u)
    BY <1>0, <1>1, <1>4, Alone DEF Working
  <2>2. AddsAt(t)' /\ RemovesAt(t)'
    BY <1>1 DEF AddsAt, RemovesAt, Adding, Removing
  <2> QED BY <1>0, <1>1, <1>4, <2>1, <2>2, DevicesKept DEF context, cardVars
<1>5. Serial'
  BY <1>0, <1>4, SerialStep
<1> QED BY <1>3, <1>5 DEF CInv

LEMMA ExitDriverCards ==
    ASSUME IInv, TypeOK', CInv, ExitDriver
    PROVE  CInv'
<1> DEFINE t == "module"
           up == {d \in Devs : card[d] = "up"}
<1>0. TypeOK /\ Hands /\ Allocated /\ Serial /\ t \in Threads
  BY DEF IInv, CInv, Threads
<1>1. /\ pc[t] = "driver" /\ pc'[t] \in {"files", "dead"}
      /\ \A u \in Threads \ {t} : pc'[u] = pc[u]
      /\ UNCHANGED <<module, sysfs, context, pdev, id, fileVars, left, seen, got, idx, target,
                     removes, raced, botched, orphaned, stale>>
  BY <1>0 DEF ExitDriver, Goto, Oops, TypeOK
<1>2. HandsAt(t)'
  BY <1>0, <1>1 DEF Hands, HandsAt, Removing
<1>3. Allocated'
  <2>1. CASE UNCHANGED <<card, held>> /\ oopsed'
    BY <1>0, <1>1, <2>1 DEF Allocated
  <2>2. CASE /\ card' = [d \in Devs |-> IF d \in up THEN "unplugged" ELSE card[d]]
             /\ held' = [d \in Devs |-> IF d \in up THEN AfterUnload(d) ELSE held[d]]
             /\ UNCHANGED oopsed
    <3>1. ASSUME NEW d \in Devs
          PROVE  \/ card'[d] = "unplugged" /\ held'[d] \subseteq {"painter"}
                 \/ card'[d] = card[d] /\ held'[d] = held[d]
      BY <2>2 DEF AfterUnload
    <3> QED BY <1>0, <1>1, <2>2, <3>1 DEF Allocated
  <2> QED BY <2>1, <2>2 DEF ExitDriver, Oops
<1>4. ASSUME ~ raced
      PROVE  (pc'[t] \in {"driver", "files"} => dev_count = 0) /\ AddsAt(t)' /\ RemovesAt(t)'
  BY <1>0, <1>1, <1>4 DEF Serial, Emptied, AddsAt, RemovesAt, Adding, Removing
<1> QED BY <1>0, <1>1, <1>2, <1>3, <1>4, QuietStep DEF Working, context

LEMMA ExitFilesCards ==
    ASSUME IInv, TypeOK', CInv, ExitFiles
    PROVE  CInv'
<1> DEFINE t == "module"
<1>0. TypeOK /\ Hands /\ Allocated /\ Serial /\ t \in Threads
  BY DEF IInv, CInv, Threads
<1>1. /\ pc[t] = "files" /\ pc'[t] = "idle"
      /\ \A u \in Threads \ {t} : pc'[u] = pc[u] /\ pc[u] = "idle"
      /\ UNCHANGED <<driver, context, cardVars, fileVars, left, seen, got, idx, target,
                     removes, history>>
  BY <1>0 DEF ExitFiles, Goto, TypeOK, Threads
<1>2. HandsAt(t)'
  BY <1>0, <1>1 DEF Hands, HandsAt, Removing
<1>3. Idle' /\ Hands' /\ Allocated'
  BY <1>0, <1>1, <1>2, HandsStep, AllocatedKept DEF Idle, history
<1>4. ASSUME ~ raced'
      PROVE  /\ \A u \in Threads \ {t} : ~ Working(u) /\ pc'[u] = pc[u]
             /\ pc'[t] \in {"driver", "files"} => dev_count' = 0
             /\ module' = "out" /\ ~ botched' => dev_count' = 0
             /\ dev_count' <= EVDI_DEVICE_COUNT_MAX
             /\ AddsAt(t)' /\ RemovesAt(t)'
             /\ \A d \in Devs : Known(d)'
             /\ \A i \in Slots : SlotHolds(i)'
  <2>1. ~ raced /\ dev_count' = 0
    BY <1>0, <1>1, <1>4 DEF Serial, Emptied, history, context
  <2>2. AddsAt(t)' /\ RemovesAt(t)'
    BY <1>1 DEF AddsAt, RemovesAt, Adding, Removing
  <2> QED BY <1>0, <1>1, <2>1, <2>2, DevicesKept DEF Working, context, cardVars
<1>5. Serial'
  BY <1>0, <1>4, SerialStep
<1> QED BY <1>3, <1>5 DEF CInv

\* Files do not touch evdi_context.
LEMMA FilesCards ==
    ASSUME CInv, FileStep
    PROVE  CInv'
<1>1. UNCHANGED <<module, sysfs, driver, context, cardVars, threadVars, removes, raced, oopsed,
                  botched, orphaned>>
  BY DEF FileStep, Open, IoctlBegin, IoctlEnd, Close, history
<1> QED BY <1>1 DEF CInv, Idle, Hands, HandsAt, Allocated, Serial, OneByOne, Working, Emptied,
                    AddsAt, RemovesAt, Known, SlotHolds, InFlight, context, cardVars, threadVars

\* evdi_add_device: the new device is in hand, under the number that is next.
LEMMA RegisterCards ==
    ASSUME IInv, TypeOK', CInv, NEW t \in Threads, Register(t)
    PROVE  CInv'
<1>0. TypeOK /\ Places /\ Hands /\ Allocated /\ Serial
  BY DEF IInv, CInv
<1>1. /\ pc[t] = "add" /\ pc'[t] \in {"store", "dead"}
      /\ \A u \in Threads \ {t} : pc'[u] = pc[u] /\ got'[u] = got[u]
      /\ UNCHANGED <<module, sysfs, driver, context, fileVars, left, seen, idx, target, removes,
                     raced, botched, orphaned, stale>>
  <2>1. \E step \in {"store", "dead"} : pc' = [pc EXCEPT ![t] = step]
    BY DEF Register, Probe, Goto, Oops
  <2>2. \E g : got' = [got EXCEPT ![t] = g]
    BY DEF Register
  <2>3. /\ pc[t] = "add"
        /\ UNCHANGED <<module, sysfs, driver, context, fileVars, left, seen, idx, target, removes,
                       raced, botched, orphaned, stale>>
    BY DEF Register
  <2> QED BY <1>0, <2>1, <2>2, <2>3 DEF TypeOK
<1>2. got[t] = NULL /\ target[t] = NULL /\ idx[t] = 0
  BY <1>0, <1>1 DEF Hands, HandsAt, Removing
<1>3. HandsAt(t)'
  BY <1>1, <1>2 DEF HandsAt, Removing
<1>4. ~ botched => module # "out"
  BY <1>1 DEF IInv, Present, Working
<1>5. Idle' /\ Hands'
  BY <1>0, <1>1, <1>3, <1>4, HandsStep DEF Idle
<1>6. ASSUME ~ raced'
      PROVE  /\ \A u \in Threads \ {t} : ~ Working(u)
             /\ AddsAt(t) /\ dev_count \in Slots
             /\ dev_count + left[t] <= EVDI_DEVICE_COUNT_MAX
             /\ dev_count <= EVDI_DEVICE_COUNT_MAX
             /\ \A d \in Devs : Known(d)
             /\ \A i \in Slots : SlotHolds(i)
             /\ \A d \in Devs : d \in InFlight => d \in InFlight'
  <2>1. ~ raced
    BY <1>1, <1>6
  <2>2. ASSUME NEW d \in Devs, d \in InFlight PROVE d \in InFlight'
    BY <1>1, <1>2, <2>2, FlightIs, DevsAssumption
  <2> QED BY <1>0, <1>1, <2>1, <2>2, Alone, AddsInSlots DEF Working, Serial, Adding
<1>7. ASSUME ~ raced', /\ \A d \in Devs : Known(d)'
                       /\ \A i \in Slots : SlotHolds(i)',
             \/ got'[t] = ERR
             \/ got'[t] \in Devs /\ pdev'[got'[t]] = "on" /\ id'[got'[t]] = dev_count
      PROVE  /\ \A u \in Threads \ {t} : ~ Working(u) /\ pc'[u] = pc[u]
             /\ pc'[t] \in {"driver", "files"} => dev_count' = 0
             /\ module' = "out" /\ ~ botched' => dev_count' = 0
             /\ dev_count' <= EVDI_DEVICE_COUNT_MAX
             /\ AddsAt(t)' /\ RemovesAt(t)'
             /\ \A d \in Devs : Known(d)'
             /\ \A i \in Slots : SlotHolds(i)'
  <2>1. AddsAt(t)' /\ RemovesAt(t)'
    BY <1>1, <1>6, <1>7 DEF AddsAt, RemovesAt, Removing, Adding, context
  <2> QED BY <1>1, <1>4, <1>6, <1>7, <2>1 DEF context
<1>8. CASE /\ got' = [got EXCEPT ![t] = ERR] /\ UNCHANGED <<cardVars, oopsed>>
  <2>1. got'[t] = ERR
    BY <1>0, <1>8 DEF TypeOK
  <2>2. Allocated'
    BY <1>0, <1>8, AllocatedKept
  <2>3. ASSUME ~ raced' PROVE \A d \in Devs : Known(d)'
    BY <1>1, <1>6, <1>8, <2>3 DEF Known, cardVars, context
  <2>4. ASSUME ~ raced' PROVE \A i \in Slots : SlotHolds(i)'
    BY <1>1, <1>6, <1>8, <2>4 DEF SlotHolds, cardVars, context
  <2>5. Serial'
    BY <1>7, <2>1, <2>3, <2>4, SerialStep
  <2> QED BY <1>5, <2>2, <2>5 DEF CInv
<1>9. ASSUME NEW d \in Devs, pdev[d] = "new", pdev' = [pdev EXCEPT ![d] = "on"],
             id' = [id EXCEPT ![d] = dev_count], got' = [got EXCEPT ![t] = d],
             NEW outcome \in [IF driver THEN {d} ELSE {} -> Outcomes], Probe(t, outcome, "store")
      PROVE  CInv'
  <2> DEFINE S == IF driver THEN {d} ELSE {}
  <2>1. /\ pdev'[d] = "on" /\ id'[d] = dev_count /\ got'[t] = d
        /\ \A e \in Devs \ {d} : pdev'[e] = pdev[e] /\ id'[e] = id[e]
    BY <1>0, <1>9 DEF TypeOK
  <2>2. Allocated'
    <3>1. CASE driver
      <4>1. outcome \in [{d} -> Outcomes] /\ {d} \in SUBSET Devs
        BY <1>9, <3>1
      <4> QED BY <1>0, <1>9, <2>1, <4>1, ProbeAllocated
    <3>2. CASE ~ driver
      <4>1. outcome \in [{} -> Outcomes] /\ DOMAIN outcome = {}
        BY <1>9, <3>2
      <4>2. \A e \in Devs : card'[e] = card[e] /\ held'[e] = held[e]
        BY <1>9, <4>1 DEF Probe
      <4>3. oopsed => oopsed'
        BY <1>9 DEF Probe, Oops
      <4>4. card[d] = "none"
        BY <1>9 DEF IInv, Led
      <4>5. ASSUME NEW e \in Devs, pdev'[e] = "off" PROVE pdev[e] = "off"
        BY <2>1, <4>5
      <4> QED BY <1>0, <4>2, <4>3, <4>5 DEF Allocated
    <3> QED BY <3>1, <3>2
  <2>3. ASSUME ~ raced', NEW e \in Devs PROVE Known(e)'
    <3>1. CASE e = d
      <4>1. d \in InFlight'
        BY <2>1, FlightIs
      <4> QED BY <3>1, <4>1 DEF Known
    <3>2. CASE e # d
      BY <1>1, <1>6, <2>1, <2>3, <3>2 DEF Known, context
    <3> QED BY <3>1, <3>2
  <2>4. ASSUME ~ raced', NEW i \in Slots PROVE SlotHolds(i)'
    <3>1. SlotHolds(i)
      BY <1>6, <2>4
    <3>2. i < dev_count /\ devices[i] # NULL => devices[i] \in Devs \ {d}
      BY <1>9, <3>1 DEF SlotHolds
    <3> QED BY <1>1, <1>6, <2>1, <2>4, <3>1, <3>2 DEF SlotHolds, context
  <2>5. Serial'
    BY <1>7, <2>1, <2>3, <2>4, SerialStep
  <2> QED BY <1>5, <2>2, <2>5 DEF CInv
<1> QED BY <1>8, <1>9 DEF Register

\* The result is stored in the slot that is next ...
LEMMA StoreCards ==
    ASSUME IInv, TypeOK', CInv, NEW t \in Threads, Store(t)
    PROVE  CInv'
<1>0. TypeOK /\ Places /\ Hands /\ Allocated /\ Serial
  BY DEF IInv, CInv
<1>1. /\ pc[t] = "store" /\ pc'[t] = "mask"
      /\ \A u \in Threads \ {t} : pc'[u] = pc[u]
      /\ UNCHANGED <<module, sysfs, driver, dev_count, cardVars, fileVars, left, seen, got, idx,
                     target, removes, history>>
  BY <1>0 DEF Store, Goto, TypeOK
<1>2. ~ botched => module # "out"
  BY <1>1 DEF IInv, Present, Working
<1>3. HandsAt(t)'
  BY <1>0, <1>1 DEF Hands, HandsAt, Removing
<1>4. Idle' /\ Hands' /\ Allocated'
  BY <1>0, <1>1, <1>2, <1>3, HandsStep, AllocatedKept DEF Idle, history
<1>5. ASSUME ~ raced'
      PROVE  /\ \A u \in Threads \ {t} : ~ Working(u) /\ pc'[u] = pc[u]
             /\ pc'[t] \in {"driver", "files"} => dev_count' = 0
             /\ module' = "out" /\ ~ botched' => dev_count' = 0
             /\ dev_count' <= EVDI_DEVICE_COUNT_MAX
             /\ AddsAt(t)' /\ RemovesAt(t)'
             /\ \A d \in Devs : Known(d)'
             /\ \A i \in Slots : SlotHolds(i)'
  <2>1. ~ raced /\ \A u \in Threads \ {t} : ~ Working(u)
    BY <1>0, <1>1, <1>5, Alone DEF Working, history
  <2>2. AddsAt(t) /\ dev_count \in Slots
    BY <1>0, <1>1, <2>1, AddsInSlots DEF Adding
  <2>3. devices'[dev_count] = got[t] /\ \A i \in Slots \ {dev_count} : devices'[i] = devices[i]
    BY <1>0, <2>2 DEF Store, StoreDevice, TypeOK
  <2>4. AddsAt(t)' /\ RemovesAt(t)'
    BY <1>1, <2>2, <2>3 DEF AddsAt, RemovesAt, Adding, Removing, cardVars
  <2>5. dev_count \in Nat /\ \A i \in Slots : i < dev_count => i # dev_count
    BY <1>0, DriverBoundsAssumption DEF TypeOK, Slots
  <2>6. InFlight' = InFlight
    BY <1>1 DEF InFlight
  <2>7. ASSUME NEW d \in Devs PROVE Known(d)'
    <3>1. Known(d) /\ id[d] \in Nat
      BY <1>0, <2>1 DEF Serial, TypeOK
    <3>2. id[d] < dev_count => id[d] \in Slots \ {dev_count}
      BY <2>2, <2>5, <3>1, DriverBoundsAssumption DEF Slots
    <3> QED BY <1>1, <2>3, <2>6, <3>1, <3>2 DEF Known, cardVars
  <2>8. ASSUME NEW i \in Slots PROVE SlotHolds(i)'
    <3>1. SlotHolds(i)
      BY <1>0, <2>1 DEF Serial
    <3> QED BY <1>1, <2>3, <2>5, <2>6, <3>1 DEF SlotHolds, cardVars
  <2> QED BY <1>0, <1>1, <1>2, <2>1, <2>4, <2>7, <2>8 DEF Serial, history
<1>6. Serial'
  BY <1>5, SerialStep
<1> QED BY <1>4, <1>6 DEF CInv

\* ... which becomes one in use when it is a device.
LEMMA WriteCountCards ==
    ASSUME IInv, TypeOK', CInv, NEW t \in Threads, WriteCount(t)
    PROVE  CInv'
<1>0. TypeOK /\ Places /\ Hands /\ Allocated /\ Serial
  BY DEF IInv, CInv
<1>1. /\ pc[t] = "write" /\ pc'[t] = (IF left[t] > 1 THEN "add" ELSE "idle")
      /\ \A u \in Threads \ {t} : pc'[u] = pc[u] /\ got'[u] = got[u]
      /\ dev_count' = seen[t] + 1 /\ left'[t] = left[t] - 1 /\ got'[t] = NULL
      /\ UNCHANGED <<sysfs, driver, devices, cardVars, fileVars, idx, target, removes, history>>
      /\ module' \in {module, "in"}
  BY <1>0 DEF WriteCount, Goto, TypeOK
<1>2. ~ botched => module # "out"
  BY <1>1 DEF IInv, Present, Working
<1>3. HandsAt(t)'
  BY <1>0, <1>1 DEF Hands, HandsAt, Removing
<1>4. Idle' /\ Hands' /\ Allocated'
  BY <1>0, <1>1, <1>2, <1>3, HandsStep, AllocatedKept DEF Idle, history
<1>5. ASSUME ~ raced'
      PROVE  /\ \A u \in Threads \ {t} : ~ Working(u) /\ pc'[u] = pc[u]
             /\ pc'[t] \in {"driver", "files"} => dev_count' = 0
             /\ module' = "out" /\ ~ botched' => dev_count' = 0
             /\ dev_count' <= EVDI_DEVICE_COUNT_MAX
             /\ AddsAt(t)' /\ RemovesAt(t)'
             /\ \A d \in Devs : Known(d)'
             /\ \A i \in Slots : SlotHolds(i)'
  <2>1. ~ raced /\ \A u \in Threads \ {t} : ~ Working(u)
    BY <1>0, <1>1, <1>5, Alone DEF Working, history
  <2>2. AddsAt(t) /\ dev_count \in Slots /\ dev_count + left[t] <= EVDI_DEVICE_COUNT_MAX
    BY <1>0, <1>1, <2>1, AddsInSlots DEF Adding
  <2>3. left[t] \in Nat /\ left[t] > 0 /\ dev_count \in Nat
    BY <1>0, <1>1 DEF Places, Adding, TypeOK
  <2>4. dev_count' = dev_count + 1 /\ dev_count' + left'[t] = dev_count + left[t]
    BY <1>1, <2>2, <2>3 DEF AddsAt
  <2>5. dev_count' <= EVDI_DEVICE_COUNT_MAX /\ dev_count' + left'[t] <= EVDI_DEVICE_COUNT_MAX
    BY <2>2, <2>3, <2>4, DriverBoundsAssumption DEF Slots
  <2>6. AddsAt(t)' /\ RemovesAt(t)'
    BY <1>1, <2>5 DEF AddsAt, RemovesAt, Adding, Removing
  <2>7. /\ got[t] \in Devs /\ pdev[got[t]] = "on" /\ id[got[t]] = dev_count
        /\ devices[dev_count] = got[t]
    BY <1>1, <2>2 DEF AddsAt
  <2>8. \A d \in Devs : d \in InFlight /\ d # got[t] => d \in InFlight'
    BY <1>1, FlightIs
  <2>9. ASSUME NEW d \in Devs PROVE Known(d)'
    <3>1. Known(d) /\ id[d] \in Nat
      BY <1>0, <2>1 DEF Serial, TypeOK
    <3>2. id[d] < dev_count => id[d] < dev_count'
      BY <2>3, <2>4, <3>1
    <3>3. dev_count < dev_count'
      BY <2>3, <2>4
    <3> QED BY <1>1, <2>7, <2>8, <3>1, <3>2, <3>3 DEF Known, cardVars
  <2>10. ASSUME NEW i \in Slots PROVE SlotHolds(i)'
    <3>1. SlotHolds(i)
      BY <1>0, <2>1 DEF Serial
    <3>2. CASE i = dev_count
      BY <1>1, <2>7, <3>2 DEF SlotHolds, cardVars
    <3>3. CASE i # dev_count
      <4>1. i < dev_count' => i < dev_count
        BY <2>3, <2>4, <3>3, DriverBoundsAssumption DEF Slots
      <4>2. i < dev_count /\ devices[i] # NULL => devices[i] # got[t]
        BY <2>7, <3>1, <3>3 DEF SlotHolds
      <4> QED BY <1>1, <2>8, <3>1, <4>1, <4>2 DEF SlotHolds, cardVars
    <3> QED BY <3>2, <3>3
  <2> QED BY <1>1, <1>2, <2>1, <2>5, <2>6, <2>9, <2>10 DEF history
<1>6. Serial'
  BY <1>5, SerialStep
<1> QED BY <1>4, <1>6 DEF CInv

\* The device looked at is taken in hand.
LEMMA LoadTargetCards ==
    ASSUME IInv, TypeOK', CInv, NEW t \in Threads, LoadTarget(t)
    PROVE  CInv'
<1>0. TypeOK /\ Hands /\ Allocated /\ Serial
  BY DEF IInv, CInv
<1>1. /\ pc[t] = "load" /\ pc'[t] = "unregister" /\ target'[t] \in DevicesAt(idx[t])
      /\ \A u \in Threads \ {t} : pc'[u] = pc[u] /\ target'[u] = target[u]
      /\ UNCHANGED <<module, sysfs, driver, context, cardVars, fileVars, left, seen, got, idx,
                     removes, history>>
  BY <1>0 DEF LoadTarget, Goto, TypeOK
<1>2. ~ botched => module # "out"
  BY <1>1 DEF IInv, Present, Working
<1>3. HandsAt(t)' /\ target[t] = NULL
  BY <1>0, <1>1 DEF Hands, HandsAt, Removing
<1>4. Idle' /\ Hands' /\ Allocated'
  BY <1>0, <1>1, <1>2, <1>3, HandsStep, AllocatedKept DEF Idle, history
<1>5. ASSUME ~ raced'
      PROVE  /\ \A u \in Threads \ {t} : ~ Working(u) /\ pc'[u] = pc[u]
             /\ pc'[t] \in {"driver", "files"} => dev_count' = 0
             /\ module' = "out" /\ ~ botched' => dev_count' = 0
             /\ dev_count' <= EVDI_DEVICE_COUNT_MAX
             /\ AddsAt(t)' /\ RemovesAt(t)'
             /\ \A d \in Devs : Known(d)'
             /\ \A i \in Slots : SlotHolds(i)'
  <2>1. ~ raced /\ \A u \in Threads \ {t} : ~ Working(u)
    BY <1>0, <1>1, <1>5, Alone DEF Working, history
  <2>2. RemovesAt(t) /\ dev_count <= EVDI_DEVICE_COUNT_MAX /\ idx[t] < dev_count
    BY <1>0, <1>1, <2>1 DEF Serial, RemovesAt, Removing
  <2>3. idx[t] \in Slots
    BY <1>0, <2>2, DriverBoundsAssumption DEF Slots, TypeOK
  <2>4. AddsAt(t)' /\ RemovesAt(t)'
    BY <1>1, <2>2, <2>3 DEF AddsAt, RemovesAt, Adding, Removing, DevicesAt, context
  <2>5. \A d \in Devs : d \in InFlight => d \in InFlight'
    BY <1>1, <1>3, FlightIs, DevsAssumption
  <2>6. \A d \in Devs : Known(d)'
    BY <1>0, <1>1, <2>1, <2>5 DEF Serial, Known, context, cardVars
  <2>7. \A i \in Slots : SlotHolds(i)'
    BY <1>0, <1>1, <2>1, <2>5 DEF Serial, SlotHolds, context, cardVars
  <2> QED BY <1>1, <1>2, <2>1, <2>2, <2>4, <2>6, <2>7 DEF history, context
<1>6. Serial'
  BY <1>5, SerialStep
<1> QED BY <1>4, <1>6 DEF CInv

\* platform_device_unregister: the device is off but still in hand.
LEMMA UnregisterCards ==
    ASSUME IInv, TypeOK', CInv, NEW t \in Threads, Unregister(t)
    PROVE  CInv'
<1> DEFINE d == target[t]
<1>0. TypeOK /\ Hands /\ Allocated /\ Serial
  BY DEF IInv, CInv
<1>1. /\ pc[t] = "unregister" /\ pc'[t] \in {"clear", "dead"}
      /\ \A u \in Threads \ {t} : pc'[u] = pc[u]
      /\ UNCHANGED <<module, sysfs, driver, context, fileVars, left, seen, got, idx, target,
                     removes, raced, botched, stale, id>>
  <2>1. \E step \in {"clear", "dead"} : pc' = [pc EXCEPT ![t] = step]
    BY DEF Unregister, Goto, Oops, Unplug, Unload
  <2>2. /\ pc[t] = "unregister"
        /\ UNCHANGED <<module, sysfs, driver, context, fileVars, left, seen, got, idx, target,
                       removes, raced, botched, stale, id>>
    BY DEF Unregister, cardVars
  <2> QED BY <1>0, <2>1, <2>2 DEF TypeOK
<1>2. ~ botched => module # "out"
  BY <1>1 DEF IInv, Present, Working
<1>3. HandsAt(t)'
  BY <1>0, <1>1 DEF Hands, HandsAt, Removing
<1>4. Idle' /\ Hands'
  BY <1>0, <1>1, <1>2, <1>3, HandsStep DEF Idle
<1>5. /\ \A e \in Devs : pdev'[e] = pdev[e] \/ (e = d /\ pdev[e] = "on" /\ pdev'[e] = "off")
      /\ pc'[t] = "clear" => ~ (d \in Devs /\ pdev'[d] = "on")
      /\ Allocated'
  <2>1. CASE d = NULL /\ UNCHANGED <<cardVars, oopsed>>
    BY <1>0, <2>1, AllocatedKept, DevsAssumption DEF cardVars
  <2>2. CASE Oops(t) /\ UNCHANGED cardVars
    <3>1. pc'[t] = "dead" /\ oopsed'
      BY <1>0, <2>2 DEF Oops, Goto, TypeOK
    <3> QED BY <1>0, <2>2, <3>1, AllocatedKept DEF cardVars
  <2>3. CASE /\ d \in Devs /\ pdev[d] = "on" /\ pdev' = [pdev EXCEPT ![d] = "off"]
             /\ IF card[d] = "up"
                THEN Unplug(d) /\ Unload(t, d)
                ELSE Goto(t, "clear") /\ UNCHANGED <<card, held, orphaned, oopsed>>
    <3>1. pdev'[d] = "off" /\ \A e \in Devs \ {d} : pdev'[e] = pdev[e]
      BY <1>0, <2>3 DEF TypeOK
    <3>2. CASE card[d] = "up"
      <4>1. Unplug(d) /\ Unload(t, d)
        BY <2>3, <3>2
      <4>2. card'[d] = "unplugged" /\ \A e \in Devs \ {d} : card'[e] = card[e]
        BY <1>0, <2>3, <4>1 DEF Unplug, TypeOK
      <4>3. \A e \in Devs \ {d} : held'[e] = held[e]
        BY <1>0, <2>3, <4>1 DEF Unload, TypeOK
      <4>4. held'[d] \subseteq {"painter"} \/ oopsed'
        BY <1>0, <2>3, <4>1 DEF Unload, AfterUnload, Oops, TypeOK
      <4>5. oopsed => oopsed'
        BY <4>1 DEF Unload, Oops
      <4>6. Allocated'
        BY <1>0, <3>1, <4>2, <4>3, <4>4, <4>5 DEF Allocated
      <4> QED BY <2>3, <3>1, <4>6
    <3>3. CASE card[d] # "up"
      <4>1. UNCHANGED <<card, held, orphaned, oopsed>>
        BY <2>3, <3>3
      <4>2. Allocated'
        BY <1>0, <3>1, <3>3, <4>1 DEF Allocated
      <4> QED BY <2>3, <3>1, <4>2
    <3> QED BY <3>2, <3>3
  <2> QED BY <2>1, <2>2, <2>3 DEF Unregister
<1>6. ASSUME ~ raced'
      PROVE  /\ \A u \in Threads \ {t} : ~ Working(u) /\ pc'[u] = pc[u]
             /\ pc'[t] \in {"driver", "files"} => dev_count' = 0
             /\ module' = "out" /\ ~ botched' => dev_count' = 0
             /\ dev_count' <= EVDI_DEVICE_COUNT_MAX
             /\ AddsAt(t)' /\ RemovesAt(t)'
             /\ \A e \in Devs : Known(e)'
             /\ \A i \in Slots : SlotHolds(i)'
  <2>1. ~ raced /\ \A u \in Threads \ {t} : ~ Working(u)
    BY <1>0, <1>1, <1>6, Alone DEF Working
  <2>2. RemovesAt(t)
    BY <1>0, <2>1 DEF Serial
  <2>3. AddsAt(t)' /\ RemovesAt(t)'
    BY <1>1, <1>5, <2>2 DEF AddsAt, RemovesAt, Adding, Removing, context
  <2>4. InFlight' = InFlight
    BY <1>1 DEF InFlight
  <2>5. ASSUME NEW e \in Devs PROVE Known(e)'
    <3>1. Known(e) /\ (pdev'[e] = "on" => pdev[e] = "on")
      BY <1>0, <1>5, <2>1 DEF Serial
    <3> QED BY <1>1, <2>4, <3>1 DEF Known, context
  <2>6. ASSUME NEW i \in Slots PROVE SlotHolds(i)'
    <3>1. SlotHolds(i)
      BY <1>0, <2>1 DEF Serial
    <3>2. d \in InFlight
      BY FlightIs
    <3>3. \A e \in Devs : /\ pdev[e] # "new" => pdev'[e] # "new"
                          /\ pdev[e] = "on" => pdev'[e] = "on" \/ e \in InFlight
      BY <1>5, <3>2
    <3> QED BY <1>1, <2>4, <3>1, <3>3 DEF SlotHolds, context
  <2> QED BY <1>0, <1>1, <1>2, <2>1, <2>3, <2>5, <2>6 DEF Serial, context
<1>7. Serial'
  BY <1>6, SerialStep
<1> QED BY <1>4, <1>5, <1>7 DEF CInv

\* The slot of a device that is off is cleared.
LEMMA ClearCards ==
    ASSUME IInv, TypeOK', CInv, NEW t \in Threads, Clear(t)
    PROVE  CInv'
<1>0. TypeOK /\ Hands /\ Allocated /\ Serial
  BY DEF IInv, CInv
<1>1. /\ pc[t] = "clear" /\ pc'[t] = "remove" /\ idx'[t] = idx[t] + 1 /\ target'[t] = NULL
      /\ \A u \in Threads \ {t} : pc'[u] = pc[u] /\ target'[u] = target[u] /\ idx'[u] = idx[u]
      /\ UNCHANGED <<module, sysfs, driver, dev_count, cardVars, fileVars, left, seen, got,
                     removes, history>>
  BY <1>0 DEF Clear, Goto, TypeOK
<1>2. ~ botched => module # "out"
  BY <1>1 DEF IInv, Present, Working
<1>3. HandsAt(t)'
  BY <1>0, <1>1 DEF Hands, HandsAt, Removing
<1>4. Idle' /\ Hands' /\ Allocated'
  BY <1>0, <1>1, <1>2, <1>3, HandsStep, AllocatedKept DEF Idle, history
<1>5. ASSUME ~ raced'
      PROVE  /\ \A u \in Threads \ {t} : ~ Working(u) /\ pc'[u] = pc[u]
             /\ pc'[t] \in {"driver", "files"} => dev_count' = 0
             /\ module' = "out" /\ ~ botched' => dev_count' = 0
             /\ dev_count' <= EVDI_DEVICE_COUNT_MAX
             /\ AddsAt(t)' /\ RemovesAt(t)'
             /\ \A d \in Devs : Known(d)'
             /\ \A i \in Slots : SlotHolds(i)'
  <2>1. ~ raced /\ \A u \in Threads \ {t} : ~ Working(u)
    BY <1>0, <1>1, <1>5, Alone DEF Working, history
  <2>2. /\ RemovesAt(t) /\ dev_count <= EVDI_DEVICE_COUNT_MAX /\ idx[t] < dev_count
        /\ idx[t] \in Nat
    BY <1>0, <1>1, <2>1 DEF Serial, RemovesAt, Removing, TypeOK
  <2>3. idx[t] \in Slots
    BY <1>0, <2>2, DriverBoundsAssumption DEF Slots, TypeOK
  <2>4. devices'[idx[t]] = NULL /\ \A i \in Slots \ {idx[t]} : devices'[i] = devices[i]
    BY <1>0, <2>3 DEF Clear, StoreDevice, TypeOK
  <2>5. ASSUME NEW i \in Slots, i < idx'[t] PROVE devices'[i] = NULL
    <3>1. i < idx[t] \/ i = idx[t]
      BY <1>1, <2>2, <2>5, DriverBoundsAssumption DEF Slots
    <3> QED BY <1>1, <2>2, <2>4, <3>1 DEF RemovesAt, Removing
  <2>6. AddsAt(t)' /\ RemovesAt(t)'
    BY <1>1, <2>5 DEF AddsAt, RemovesAt, Adding, Removing
  <2>7. ~ (target[t] \in Devs /\ pdev[target[t]] = "on") /\ target[t] = devices[idx[t]]
    BY <1>1, <2>2 DEF RemovesAt
  <2>8. \A d \in Devs : d \in InFlight /\ d # target[t] => d \in InFlight'
    BY <1>1, FlightIs
  <2>9. ASSUME NEW d \in Devs PROVE Known(d)'
    <3>1. Known(d) /\ id[d] \in Nat
      BY <1>0, <2>1 DEF Serial, TypeOK
    <3>2. CASE pdev[d] = "on"
      <4>1. d # target[t] /\ d # devices[idx[t]]
        BY <2>7, <3>2
      <4>2. id[d] < dev_count => id[d] \in Slots
        BY <2>2, <3>1, DriverBoundsAssumption, <1>0 DEF Slots, TypeOK
      <4>3. id[d] < dev_count /\ devices[id[d]] = d => devices'[id[d]] = d
        BY <2>4, <4>1, <4>2
      <4> QED BY <1>1, <2>8, <3>1, <4>1, <4>3 DEF Known, cardVars
    <3>3. CASE pdev[d] # "on"
      BY <1>1, <3>3 DEF Known, cardVars
    <3> QED BY <3>2, <3>3
  <2>10. ASSUME NEW i \in Slots PROVE SlotHolds(i)'
    <3>1. SlotHolds(i) /\ SlotHolds(idx[t])
      BY <1>0, <2>1, <2>3 DEF Serial
    <3>2. CASE i = idx[t]
      BY <2>4, <3>2 DEF SlotHolds
    <3>3. CASE i # idx[t]
      <4>1. devices'[i] = devices[i]
        BY <2>4, <3>3
      <4>2. i < dev_count /\ devices[i] # NULL => devices[i] # target[t]
        BY <2>2, <2>7, <3>1, <3>3 DEF SlotHolds
      <4> QED BY <1>1, <2>8, <3>1, <4>1, <4>2 DEF SlotHolds, cardVars
    <3> QED BY <3>2, <3>3
  <2> QED BY <1>1, <1>2, <2>1, <2>2, <2>6, <2>9, <2>10 DEF history
<1>6. Serial'
  BY <1>5, SerialStep
<1> QED BY <1>4, <1>6 DEF CInv

\* dev_count falls to 0 when no slot below it holds a device.
LEMMA RemoveDoneCards ==
    ASSUME IInv, TypeOK', CInv, NEW t \in Threads, RemoveDone(t)
    PROVE  CInv'
<1>0. TypeOK /\ Hands /\ Allocated /\ Serial
  BY DEF IInv, CInv
<1>1. /\ pc[t] = "remove" /\ idx[t] >= dev_count /\ dev_count' = 0 /\ idx'[t] = 0
      /\ pc'[t] \in {"driver", "idle"}
      /\ \A u \in Threads \ {t} : pc'[u] = pc[u] /\ idx'[u] = idx[u]
      /\ UNCHANGED <<module, sysfs, driver, devices, cardVars, fileVars, left, seen, got, target,
                     removes, history>>
  BY <1>0 DEF RemoveDone, Goto, TypeOK
<1>2. ~ botched => module # "out"
  BY <1>1 DEF IInv, Present, Working
<1>3. HandsAt(t)'
  BY <1>0, <1>1 DEF Hands, HandsAt, Removing
<1>4. Idle' /\ Hands' /\ Allocated'
  BY <1>0, <1>1, <1>2, <1>3, HandsStep, AllocatedKept DEF Idle, history
<1>5. ASSUME ~ raced'
      PROVE  /\ \A u \in Threads \ {t} : ~ Working(u) /\ pc'[u] = pc[u]
             /\ pc'[t] \in {"driver", "files"} => dev_count' = 0
             /\ module' = "out" /\ ~ botched' => dev_count' = 0
             /\ dev_count' <= EVDI_DEVICE_COUNT_MAX
             /\ AddsAt(t)' /\ RemovesAt(t)'
             /\ \A d \in Devs : Known(d)'
             /\ \A i \in Slots : SlotHolds(i)'
  <2>1. ~ raced /\ \A u \in Threads \ {t} : ~ Working(u)
    BY <1>0, <1>1, <1>5, Alone DEF Working, history
  <2>2. /\ RemovesAt(t) /\ dev_count <= EVDI_DEVICE_COUNT_MAX
        /\ dev_count \in Nat /\ idx[t] \in Nat
    BY <1>0, <2>1 DEF Serial, TypeOK
  <2>3. AddsAt(t)' /\ RemovesAt(t)'
    BY <1>1 DEF AddsAt, RemovesAt, Adding, Removing
  <2>4. InFlight' = InFlight
    BY <1>1 DEF InFlight
  <2>5. ASSUME NEW d \in Devs PROVE Known(d)'
    <3>1. Known(d) /\ id[d] \in Nat
      BY <1>0, <2>1 DEF Serial, TypeOK
    <3>2. ASSUME id[d] < dev_count PROVE devices[id[d]] # d
      <4>1. id[d] \in Slots /\ id[d] < idx[t]
        BY <1>1, <2>2, <3>1, <3>2, DriverBoundsAssumption DEF Slots
      <4>2. devices[id[d]] = NULL
        BY <1>1, <2>2, <4>1 DEF RemovesAt, Removing
      <4> QED BY <4>2, DevsAssumption
    <3> QED BY <1>1, <2>4, <3>1, <3>2 DEF Known, cardVars
  <2>6. ASSUME NEW i \in Slots PROVE SlotHolds(i)'
    <3>1. ~ (i < dev_count')
      BY <1>1, DriverBoundsAssumption DEF Slots
    <3> QED BY <3>1 DEF SlotHolds
  <2> QED BY <1>1, <2>1, <2>3, <2>5, <2>6, DriverBoundsAssumption DEF history
<1>6. Serial'
  BY <1>5, SerialStep
<1> QED BY <1>4, <1>6 DEF CInv

LEMMA NextCInv == IInv /\ IInv' /\ CInv /\ [Next]_vars => CInv'
<1> SUFFICES ASSUME IInv, IInv', CInv, [Next]_vars PROVE CInv'
  OBVIOUS
<1>0. TypeOK'
  BY DEF IInv
<1>1. CASE UNCHANGED vars
  BY <1>1 DEF vars, CInv, Idle, Hands, HandsAt, Allocated, Serial, OneByOne, Working, Emptied,
              AddsAt, RemovesAt, Known, SlotHolds, InFlight, context, cardVars, threadVars, history
<1>2. ASSUME NEW w \in Writers, RemoveAllStore(w) \/ \E val \in Counts : AddStore(w, val)
      PROVE  CInv'
  BY <1>0, <1>2, RemoveAllStoreCards, AddStoreCards
<1>3. ASSUME NEW t \in Threads, AddStep(t) \/ RemoveStep(t)
      PROVE  CInv'
  BY <1>0, <1>3, RegisterCards, StoreCards, SetMaskCards, ReadCountCards, WriteCountCards,
     RemoveNextCards, LoadTargetCards, UnregisterCards, ClearCards, RemoveDoneCards
     DEF AddStep, RemoveStep
<1>4. CASE ModuleStep
  BY <1>0, <1>4, InitFilesCards, InitDriverCards, InitDevicesCards, InitFailsCards, ExitCards,
     ExitDriverCards, ExitFilesCards DEF ModuleStep
<1>5. CASE FileStep
  BY <1>5, FilesCards
<1> QED BY <1>1, <1>2, <1>3, <1>4, <1>5 DEF Next

LEMMA Invariance == Spec => []IInv
BY InitIInv, NextIInv, PTL DEF Spec

LEMMA DownInvariance == Spec => []Down
BY InitDown, NextDown, Invariance, PTL DEF Spec

LEMMA CardsInvariance == Spec => []CInv
BY InitCInv, NextCInv, Invariance, PTL DEF Spec

-----------------------------------------------------------------------------

\* Every variable keeps its type: the writers may overrun the array of devices, but
\* the counters they share stay natural numbers.
THEOREM Typing == Spec => []TypeOK
<1>1. IInv => TypeOK
  BY DEF IInv
<1> QED BY <1>1, Invariance, PTL

\* evdi_exit waits for the writers: while one runs, or can begin, the module's code
\* is there, unless evdi_init failed half way.
THEOREM ModuleOutlivesWriters == Spec => []WritersMeetModule
<1>1. IInv => WritersMeetModule
  BY DEF IInv, Present, WritersMeetModule, Threads
<1> QED BY <1>1, Invariance, PTL

\* A freed evdi_device is reached only through files that were open when their card
\* was taken away: drm_dev_unplug closes the card before evdi_driver_unload frees it.
THEOREM OnlyOrphansMeetFreed == Spec => []StaleOnlyOrphans
<1>1. IInv => StaleOnlyOrphans
  BY DEF IInv
<1> QED BY <1>1, Invariance, PTL

\* As long as the writers of add and remove_all come one at a time, evdi_context knows
\* every card and overruns nothing, whatever probes fail: dev_count stays within the
\* array, and a registered device is in its slot or in a thread's hands.
THEOREM CardsKnown == Spec => []CardsListed
<1>1. TypeOK /\ CInv => CardsListed
  <2> SUFFICES ASSUME TypeOK, CInv, ~ raced
               PROVE  /\ dev_count <= EVDI_DEVICE_COUNT_MAX
                      /\ \A d \in Devs : Known(d)
                      /\ \A d \in Listed \ (InFlight \cup {NULL}) : d # ERR /\ pdev[d] = "on"
    BY DEF CardsListed, Known
  <2>1. \A i \in Slots : SlotHolds(i)
    BY DEF CInv, Serial
  <2>2. ASSUME NEW d \in Listed \ (InFlight \cup {NULL}) PROVE d # ERR /\ pdev[d] = "on"
    BY <2>1, DevsAssumption DEF Listed, SlotHolds
  <2> QED BY <2>2 DEF CInv, Serial
<1>2. IInv => TypeOK
  BY DEF IInv
<1> QED BY <1>1, <1>2, Invariance, CardsInvariance, PTL

\* However add and remove_all race with evdi_exit, the module is only unloaded with
\* every card taken down and no thread lost on the way; of a card that was up, only the
\* painter is left.  When they come one at a time, no platform device is left either.
\* (What a failed probe leaves is never freed, and a failed evdi_init leaves everything.)
THEOREM UnloadLeavesNothing == Spec => []UnloadedClean
<1>1. IInv /\ Down /\ CInv => UnloadedClean
  <2> SUFFICES ASSUME IInv, Down, CInv, module = "out", ~ botched
               PROVE  /\ ~ oopsed
                      /\ \A d \in Devs : /\ card[d] # "up"
                                         /\ card[d] = "unplugged" => held[d] \subseteq {"painter"}
                                         /\ ~ raced => pdev[d] # "on"
    BY DEF UnloadedClean
  <2>0. TypeOK /\ Idle /\ Hands /\ Allocated /\ Serial
    BY DEF IInv, CInv
  <2>1. ~ oopsed /\ \A d \in Devs : card[d] # "up"
    BY DEF Down, DriverGone
  <2>2. \A d \in Devs : card[d] = "unplugged" => held[d] \subseteq {"painter"}
    BY <2>0, <2>1 DEF Allocated
  <2>3. ASSUME ~ raced, NEW d \in Devs PROVE pdev[d] # "on"
    <3>1. d \notin InFlight
      BY <2>0, FlightIs, DevsAssumption DEF Idle, Hands, HandsAt, Removing
    <3>2. dev_count = 0 /\ Known(d) /\ id[d] \in Nat
      BY <2>0, <2>3 DEF Serial, Emptied, TypeOK
    <3> QED BY <3>1, <3>2 DEF Known
  <2> QED BY <2>1, <2>2, <2>3
<1> QED BY <1>1, Invariance, DownInvariance, CardsInvariance, PTL

=============================================================================
