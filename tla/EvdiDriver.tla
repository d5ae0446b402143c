----------------------------- MODULE EvdiDriver -----------------------------
(***************************************************************************)
(* The cards of the driver: loading and unloading the module and the sysfs *)
(* files add and remove_all (evdi_drv.c), setting a card up and taking it  *)
(* down (evdi_main.c, the fbdev part of evdi_fb.c), and the files that     *)
(* processes open on it.                                                   *)
(*                                                                         *)
(* evdi_context, with dev_count and the array of devices, has no lock:     *)
(* writers of the sysfs files run at once, also while the module is being  *)
(* loaded or unloaded.  A step is one access to it, or one call that the   *)
(* driver core serialises.                                                 *)
(***************************************************************************)
EXTENDS Naturals, FiniteSets

CONSTANTS
    EVDI_DEVICE_COUNT_MAX,      \* 16
    Devs,           \* bound: platform devices that can be registered
    NULL, ERR,      \* no pointer, and what a failed registration returns
    Writers,        \* processes that write to the sysfs files
    Files, NoDev,   \* files opened on a card, each once
    Counts,         \* what is written to add, and initial_device_count
    MaxRemoves,     \* bound: writes to remove_all
    Failures        \* bound: the ways in which a probe may fail

ASSUME DevsAssumption == {NULL, ERR, NoDev} \cap Devs = {}
ASSUME WritersAssumption == "module" \notin Writers
ASSUME DriverBoundsAssumption ==
    /\ EVDI_DEVICE_COUNT_MAX \in Nat \ {0} /\ Counts \subseteq Nat /\ MaxRemoves \in Nat

VARIABLES
    module,         \* "out", "loading", "in" or "exiting"
    sysfs,          \* the files add and remove_all are there
    driver,         \* the platform driver is registered
    dev_count, devices,     \* evdi_context
    pdev, id,       \* per platform device: "new", "on" or "off"; its number
    card,           \* per platform device: no card, "up", or "unplugged"
    held,           \* per platform device: what its card's setup has allocated
    file,           \* per file: "new", "open", "ioctl" or "closed"
    dev,            \* per file: the card it was opened on
    pc,             \* per thread: where it is
    left, seen, got,    \* adding: val, dev_count read, the device registered
    idx, target,        \* removing: i, the device looked at
    removes,        \* writes to remove_all so far
    raced,          \* history: two threads were in evdi_context at once
    oopsed,         \* history: a thread followed a bad pointer and died
    botched,        \* history: evdi_init returned an error half way
    orphaned,       \* history: files that were open when their card went
    stale           \* history: files that led to an evdi_device already freed

context  == <<dev_count, devices>>
cardVars == <<pdev, id, card, held>>
fileVars == <<file, dev>>
threadVars == <<pc, left, seen, got, idx, target>>
history  == <<raced, oopsed, botched, orphaned, stale>>
vars == <<module, sysfs, driver, context, cardVars, fileVars, threadVars, removes, history>>

Threads == Writers \cup {"module"}
Slots == 0 .. EVDI_DEVICE_COUNT_MAX - 1

\* what evdi_driver_setup allocates; fb is the framebuffer of the fbdev emulation
Setup == {"evdi", "cursor", "modeset", "fbdev", "fb", "painter"}

\* A setup that succeeds; the framebuffer is made now or when there is a monitor.
Made == {Setup, Setup \ {"fb"}}

\* A setup that fails frees the evdi_device, but never the modeset objects; nor the
\* framebuffer, when evdi_fbdev_init fails after it was made; nor the cursor, when
\* evdi->cursor, read from freed memory, is NULL by then.
Undone == {{}} \cup {{"modeset"} \cup s : s \in SUBSET {"cursor", "fb"}}

\* A probe that fails: in drm_dev_register, after which nothing is undone, or in the
\* setup, of whose error path the thread may also die: of the freed evdi->cursor, or
\* while evdi_fbdev_cleanup undoes a framebuffer never made.
NoCard == [card : {"none"}, held : Made \cup Undone, dies : {FALSE}]
          \cup [card : {"none"}, held : Undone \cup {Setup \ {"fb", "painter"}}, dies : {TRUE}]

ASSUME FailuresAssumption == Failures \subseteq NoCard

\* What a probe may come to.
Outcomes == [card : {"up"}, held : Made, dies : {FALSE}] \cup Failures

Init ==
    /\ module = "out" /\ sysfs = FALSE /\ driver = FALSE
    /\ dev_count = 0 /\ devices = [i \in Slots |-> NULL]
    /\ pdev = [d \in Devs |-> "new"] /\ id = [d \in Devs |-> 0]
    /\ card = [d \in Devs |-> "none"] /\ held = [d \in Devs |-> {}]
    /\ file = [f \in Files |-> "new"] /\ dev = [f \in Files |-> NoDev]
    /\ pc = [t \in Threads |-> "idle"]
    /\ left = [t \in Threads |-> 0] /\ seen = [t \in Threads |-> 0]
    /\ got = [t \in Threads |-> NULL]
    /\ idx = [t \in Threads |-> 0] /\ target = [t \in Threads |-> NULL]
    /\ removes = 0
    /\ raced = FALSE /\ oopsed = FALSE /\ botched = FALSE
    /\ orphaned = {} /\ stale = {}

Goto(t, step) == pc' = [pc EXCEPT ![t] = step]
Working(t) == pc[t] \notin {"idle", "dead"}

\* one more thread in evdi_context
Enter(t) == raced' = (raced \/ \E u \in Threads \ {t} : Working(u))

Oops(t) == Goto(t, "dead") /\ oopsed' = TRUE

-----------------------------------------------------------------------------
(* Adding cards.                                                           *)

\* evdi_add_devices takes val: the subtraction is unsigned
TooMany(val) ==
    dev_count <= EVDI_DEVICE_COUNT_MAX /\ val > EVDI_DEVICE_COUNT_MAX - dev_count

\* Mutant of AddStore: one too many is let in.
AddStoreOneMore(t, val) ==
    /\ sysfs /\ module # "out" /\ pc[t] = "idle" /\ val > 0
    /\ dev_count <= EVDI_DEVICE_COUNT_MAX => val <= EVDI_DEVICE_COUNT_MAX - dev_count + 1
    /\ Goto(t, "add")
    /\ left' = [left EXCEPT ![t] = val]
    /\ Enter(t)
    /\ UNCHANGED <<module, sysfs, driver, context, cardVars, fileVars, seen, got, idx, target,
                   removes, oopsed, botched, orphaned, stale>>

\* add_store; 0 has no effect, too many are refused
AddStore(t, val) ==
    /\ sysfs /\ module # "out" /\ pc[t] = "idle" /\ val > 0 /\ ~ TooMany(val)
    /\ Goto(t, "add")
    /\ left' = [left EXCEPT ![t] = val]
    /\ Enter(t)
    /\ UNCHANGED <<module, sysfs, driver, context, cardVars, fileVars, seen, got, idx, target,
                   removes, oopsed, botched, orphaned, stale>>

\* evdi_platform_probe, evdi_driver_setup and drm_dev_register for new devices
Probe(t, outcome, next) ==
    LET probed == DOMAIN outcome
    IN  /\ card' = [d \in Devs |-> IF d \in probed THEN outcome[d].card ELSE card[d]]
        /\ held' = [d \in Devs |-> IF d \in probed THEN outcome[d].held ELSE held[d]]
        /\ IF \E d \in probed : outcome[d].dies THEN Oops(t) ELSE Goto(t, next) /\ UNCHANGED oopsed

\* evdi_add_device: platform_device_register_full with dev_count for its number;
\* it fails for want of memory, or because the number is taken
Register(t) ==
    /\ pc[t] = "add"
    /\ \/ \E d \in Devs :
             /\ pdev[d] = "new"
             /\ \A e \in Devs : pdev[e] = "on" => id[e] # dev_count
             /\ pdev' = [pdev EXCEPT ![d] = "on"]
             /\ id' = [id EXCEPT ![d] = dev_count]
             /\ got' = [got EXCEPT ![t] = d]
             /\ \E outcome \in [IF driver THEN {d} ELSE {} -> Outcomes] : Probe(t, outcome, "store")
       \/ /\ got' = [got EXCEPT ![t] = ERR]
          /\ Goto(t, "store")
          /\ UNCHANGED <<cardVars, oopsed>>
    /\ UNCHANGED <<module, sysfs, driver, context, fileVars, left, seen, idx, target, removes,
                   raced, botched, orphaned, stale>>

\* What a read of devices[i] finds (behind the array something else, which is no
\* device, or a device stored there) and what a write does.
DevicesAt(i) == IF i \in Slots THEN {devices[i]}
                ELSE {NULL, ERR} \cup {d \in Devs : pdev[d] # "new"}
StoreDevice(i, d) == devices' = IF i \in Slots THEN [devices EXCEPT ![i] = d] ELSE devices

\* The result is stored, whatever it is, ...
Store(t) ==
    /\ pc[t] = "store"
    /\ StoreDevice(dev_count, got[t])
    /\ Goto(t, "mask")
    /\ UNCHANGED <<module, sysfs, driver, dev_count, cardVars, fileVars, left, seen, got, idx,
                   target, removes, history>>

\* ... dma_set_mask follows what is then found at dev_count (behind the array, what
\* was just stored), ...
SetMask(t) ==
    /\ pc[t] = "mask"
    /\ IF (IF dev_count \in Slots THEN devices[dev_count] ELSE got[t]) \in {NULL, ERR}
       THEN Oops(t)
       ELSE Goto(t, "read") /\ UNCHANGED oopsed
    /\ UNCHANGED <<module, sysfs, driver, context, cardVars, fileVars, left, seen, got, idx,
                   target, removes, raced, botched, orphaned, stale>>

\* ... and dev_count++, which is not atomic
ReadCount(t) ==
    /\ pc[t] = "read"
    /\ seen' = [seen EXCEPT ![t] = dev_count]
    /\ Goto(t, "write")
    /\ UNCHANGED <<module, sysfs, driver, context, cardVars, fileVars, left, got, idx, target,
                   removes, history>>

\* Mutant of WriteCount: val is tested after a device is added, not before.
WriteCountOnceMore(t) ==
    /\ pc[t] = "write"
    /\ dev_count' = seen[t] + 1
    /\ left' = [left EXCEPT ![t] = @ - 1]
    /\ got' = [got EXCEPT ![t] = NULL] /\ seen' = [seen EXCEPT ![t] = 0]
    /\ Goto(t, IF left[t] > 0 THEN "add" ELSE "idle")
    /\ module' = IF t = "module" /\ left[t] = 1 THEN "in" ELSE module
    /\ UNCHANGED <<sysfs, driver, devices, cardVars, fileVars, idx, target, removes, history>>

WriteCount(t) ==
    /\ pc[t] = "write"
    /\ dev_count' = seen[t] + 1
    /\ left' = [left EXCEPT ![t] = @ - 1]
    /\ got' = [got EXCEPT ![t] = NULL] /\ seen' = [seen EXCEPT ![t] = 0]
    /\ Goto(t, IF left[t] > 1 THEN "add" ELSE "idle")
    /\ module' = IF t = "module" /\ left[t] = 1 THEN "in" ELSE module
    /\ UNCHANGED <<sysfs, driver, devices, cardVars, fileVars, idx, target, removes, history>>

AddStep(t) == Register(t) \/ Store(t) \/ SetMask(t) \/ ReadCount(t) \/ WriteCount(t)

-----------------------------------------------------------------------------
(* Removing them.                                                          *)

\* remove_all_store
RemoveAllStore(t) ==
    /\ sysfs /\ module # "out" /\ pc[t] = "idle"
    /\ removes < MaxRemoves /\ removes' = removes + 1
    /\ Goto(t, "remove")
    /\ Enter(t)
    /\ UNCHANGED <<module, sysfs, driver, context, cardVars, fileVars, left, seen, got, idx,
                   target, oopsed, botched, orphaned, stale>>

\* evdi_remove_all: "if (evdi_context.devices[i])" ...
RemoveNext(t) ==
    /\ pc[t] = "remove" /\ idx[t] < dev_count
    /\ \/ /\ NULL \in DevicesAt(idx[t])
          /\ idx' = [idx EXCEPT ![t] = @ + 1] /\ UNCHANGED pc
       \/ /\ DevicesAt(idx[t]) # {NULL}
          /\ Goto(t, "load") /\ UNCHANGED idx
    /\ UNCHANGED <<module, sysfs, driver, context, cardVars, fileVars, left, seen, got, target,
                   removes, history>>

\* ... which is read again, ...
LoadTarget(t) ==
    /\ pc[t] = "load"
    /\ \E d \in DevicesAt(idx[t]) : target' = [target EXCEPT ![t] = d]
    /\ Goto(t, "unregister")
    /\ UNCHANGED <<module, sysfs, driver, context, cardVars, fileVars, left, seen, got, idx,
                   removes, history>>

\* Mutant of Unplug: new files may still be opened.
UnplugLate(d) ==
    /\ UNCHANGED card
    /\ orphaned' = orphaned \cup {f \in Files : dev[f] = d}

\* evdi_platform_remove: drm_dev_unplug takes the card away from new files and
\* ioctls; those that are there stay
Unplug(d) ==
    /\ card' = [card EXCEPT ![d] = "unplugged"]
    /\ orphaned' = orphaned \cup {f \in Files : dev[f] = d}

\* Mutant of AfterUnload: the cursor is not freed.
AfterUnloadWithCursor(d) == held[d] \cap {"painter", "cursor"}

\* evdi_driver_unload: the painter's memory stays
AfterUnload(d) == held[d] \cap {"painter"}

\* With a framebuffer that was never made, evdi_fbdev_destroy gives DRM one whose
\* device is NULL, after the cursor was freed.
Unload(t, d) ==
    IF "fb" \in held[d]
    THEN /\ held' = [held EXCEPT ![d] = AfterUnload(d)]
         /\ Goto(t, "clear") /\ UNCHANGED oopsed
    ELSE /\ held' = [held EXCEPT ![d] = @ \ {"cursor"}]
         /\ Oops(t)

\* ... for platform_device_unregister, to which NULL is nothing to do; another
\* remove_all may have come first
Unregister(t) ==
    LET d == target[t]
    IN  /\ pc[t] = "unregister"
        /\ \/ /\ d = NULL
              /\ Goto(t, "clear") /\ UNCHANGED <<cardVars, orphaned, oopsed>>
           \/ /\ d = ERR \/ (d \in Devs /\ pdev[d] # "on")
              /\ Oops(t) /\ UNCHANGED <<cardVars, orphaned>>
           \/ /\ d \in Devs /\ pdev[d] = "on"
              /\ pdev' = [pdev EXCEPT ![d] = "off"]
              /\ IF card[d] = "up"
                 THEN Unplug(d) /\ Unload(t, d)
                 ELSE Goto(t, "clear") /\ UNCHANGED <<card, held, orphaned, oopsed>>
              /\ UNCHANGED id
        /\ UNCHANGED <<module, sysfs, driver, context, fileVars, left, seen, got, idx, target,
                       removes, raced, botched, stale>>

Clear(t) ==
    /\ pc[t] = "clear"
    /\ StoreDevice(idx[t], NULL)
    /\ idx' = [idx EXCEPT ![t] = @ + 1] /\ target' = [target EXCEPT ![t] = NULL]
    /\ Goto(t, "remove")
    /\ UNCHANGED <<module, sysfs, driver, dev_count, cardVars, fileVars, left, seen, got, removes,
                   history>>

\* the end of evdi_remove_all, of the file or of evdi_exit
RemoveDone(t) ==
    /\ pc[t] = "remove" /\ idx[t] >= dev_count
    /\ dev_count' = 0
    /\ idx' = [idx EXCEPT ![t] = 0]
    /\ Goto(t, IF t = "module" THEN "driver" ELSE "idle")
    /\ UNCHANGED <<module, sysfs, driver, devices, cardVars, fileVars, left, seen, got, target,
                   removes, history>>

RemoveStep(t) == RemoveNext(t) \/ LoadTarget(t) \/ Unregister(t) \/ Clear(t) \/ RemoveDone(t)

-----------------------------------------------------------------------------
(* The module.                                                             *)

\* evdi_init: the sysfs files come first (it goes on without them) ...
InitFiles ==
    /\ module = "out" /\ ~ botched
    /\ module' = "loading" /\ sysfs' \in BOOLEAN
    /\ dev_count' = 0 /\ devices' = [i \in Slots |-> NULL]
    /\ Goto("module", "init")
    /\ Enter("module")
    /\ UNCHANGED <<driver, cardVars, fileVars, left, seen, got, idx, target, removes,
                   oopsed, botched, orphaned, stale>>

\* ... then the driver, which probes the devices already added, ...
InitDriver ==
    /\ pc["module"] = "init" /\ ~ driver
    /\ driver' = TRUE
    /\ \E outcome \in [{d \in Devs : pdev[d] = "on" /\ card[d] = "none"} -> Outcomes] :
          Probe("module", outcome, "init")
    /\ UNCHANGED <<module, sysfs, context, pdev, id, fileVars, left, seen, got, idx, target,
                   removes, raced, botched, orphaned, stale>>

\* ... then initial_device_count cards
InitDevices(val) ==
    /\ pc["module"] = "init" /\ driver /\ ~ TooMany(val)
    /\ left' = [left EXCEPT !["module"] = val]
    /\ Goto("module", IF val = 0 THEN "idle" ELSE "add")
    /\ module' = IF val = 0 THEN "in" ELSE module
    /\ UNCHANGED <<sysfs, driver, context, cardVars, fileVars, seen, got, idx, target, removes,
                   history>>

\* The driver cannot be registered, or the initial cards are too many: the module
\* is dropped, with its sysfs files and perhaps its driver in place.
InitFails ==
    /\ pc["module"] = "init"
    /\ ~ driver \/ \E val \in Counts : TooMany(val)
    /\ module' = "out" /\ botched' = TRUE
    /\ Goto("module", "idle")
    /\ UNCHANGED <<sysfs, driver, context, cardVars, fileVars, left, seen, got, idx, target,
                   removes, raced, oopsed, orphaned, stale>>

\* evdi_exit: no file is open, remove_all, ...
Exit ==
    /\ module = "in" /\ pc["module"] = "idle"
    /\ \A f \in Files : file[f] \in {"new", "closed"}
    /\ module' = "exiting"
    /\ Goto("module", "remove")
    /\ Enter("module")
    /\ UNCHANGED <<sysfs, driver, context, cardVars, fileVars, left, seen, got, idx, target,
                   removes, oopsed, botched, orphaned, stale>>

\* ... then the driver, with the cards that were added meanwhile, ...
ExitDriver ==
    LET up == {d \in Devs : card[d] = "up"}
    IN  /\ pc["module"] = "driver"
        /\ IF \A d \in up : "fb" \in held[d]
           THEN /\ driver' = FALSE
                /\ card' = [d \in Devs |-> IF d \in up THEN "unplugged" ELSE card[d]]
                /\ held' = [d \in Devs |-> IF d \in up THEN AfterUnload(d) ELSE held[d]]
                /\ Goto("module", "files") /\ UNCHANGED oopsed
           ELSE Oops("module") /\ UNCHANGED <<driver, card, held>>
        /\ UNCHANGED <<module, sysfs, context, pdev, id, fileVars, left, seen, got, idx, target,
                       removes, raced, botched, orphaned, stale>>

\* Mutant of ExitFiles: writers are not waited for.
ExitFilesAtOnce ==
    /\ pc["module"] = "files"
    /\ sysfs' = FALSE /\ module' = "out"
    /\ Goto("module", "idle")
    /\ UNCHANGED <<driver, context, cardVars, fileVars, left, seen, got, idx, target,
                   removes, history>>

\* ... then the files: device_remove_file waits for the writers
ExitFiles ==
    /\ pc["module"] = "files" /\ \A w \in Writers : pc[w] = "idle"
    /\ sysfs' = FALSE /\ module' = "out"
    /\ Goto("module", "idle")
    /\ UNCHANGED <<driver, context, cardVars, fileVars, left, seen, got, idx, target,
                   removes, history>>

ModuleStep == \/ InitFiles \/ InitDriver \/ InitFails \/ Exit \/ ExitDriver \/ ExitFiles
              \/ \E val \in Counts : InitDevices(val)

-----------------------------------------------------------------------------
(* The files.                                                              *)

\* whoever follows dev_private finds the evdi_device, or what it was
Follow(f) == stale' = IF "evdi" \in held[dev[f]] THEN stale ELSE stale \cup {f}

Open(f, d) ==
    /\ file[f] = "new" /\ card[d] = "up" /\ module \in {"loading", "in"}
    /\ file' = [file EXCEPT ![f] = "open"] /\ dev' = [dev EXCEPT ![f] = d]
    /\ UNCHANGED <<module, sysfs, driver, context, cardVars, threadVars, removes, history>>

\* any ioctl: DRM checks that the card is there when it begins ...
IoctlBegin(f) ==
    /\ file[f] = "open" /\ card[dev[f]] = "up"
    /\ file' = [file EXCEPT ![f] = "ioctl"]
    /\ UNCHANGED <<module, sysfs, driver, context, cardVars, dev, threadVars, removes, history>>

\* ... and it uses the evdi_device until it ends
IoctlEnd(f) ==
    /\ file[f] = "ioctl"
    /\ file' = [file EXCEPT ![f] = "open"]
    /\ Follow(f)
    /\ UNCHANGED <<module, sysfs, driver, context, cardVars, dev, threadVars, removes,
                   raced, oopsed, botched, orphaned>>

\* evdi_driver_preclose and _postclose: "if (evdi)", which stays set
Close(f) ==
    /\ file[f] = "open"
    /\ file' = [file EXCEPT ![f] = "closed"] /\ dev' = [dev EXCEPT ![f] = NoDev]
    /\ Follow(f)
    /\ UNCHANGED <<module, sysfs, driver, context, cardVars, threadVars, removes,
                   raced, oopsed, botched, orphaned>>

FileStep == \E f \in Files : \/ \E d \in Devs : Open(f, d)
                             \/ IoctlBegin(f) \/ IoctlEnd(f) \/ Close(f)

Next == \/ \E w \in Writers : RemoveAllStore(w) \/ (\E val \in Counts : AddStore(w, val))
        \/ \E t \in Threads : AddStep(t) \/ RemoveStep(t)
        \/ ModuleStep \/ FileStep

Spec == Init /\ [][Next]_vars

-----------------------------------------------------------------------------

Steps == {"idle", "add", "store", "mask", "read", "write", "remove", "load", "unregister", "clear",
          "init", "driver", "files", "dead"}

\* Every variable keeps its type.
TypeOK ==
    /\ module \in {"out", "loading", "in", "exiting"}
    /\ sysfs \in BOOLEAN /\ driver \in BOOLEAN
    /\ dev_count \in Nat /\ devices \in [Slots -> Devs \cup {NULL, ERR}]
    /\ pdev \in [Devs -> {"new", "on", "off"}] /\ id \in [Devs -> Nat]
    /\ card \in [Devs -> {"none", "up", "unplugged"}] /\ held \in [Devs -> SUBSET Setup]
    /\ file \in [Files -> {"new", "open", "ioctl", "closed"}]
    /\ dev \in [Files -> Devs \cup {NoDev}]
    /\ pc \in [Threads -> Steps]
    /\ left \in [Threads -> Nat] /\ seen \in [Threads -> Nat] /\ idx \in [Threads -> Nat]
    /\ got \in [Threads -> Devs \cup {NULL, ERR}]
    /\ target \in [Threads -> Devs \cup {NULL, ERR}]
    /\ removes \in 0 .. MaxRemoves
    /\ raced \in BOOLEAN /\ oopsed \in BOOLEAN /\ botched \in BOOLEAN
    /\ orphaned \subseteq Files /\ stale \subseteq Files

Listed == {devices[i] : i \in {i \in Slots : i < dev_count}}
InFlight == {got[t] : t \in Threads} \cup {target[t] : t \in Threads}

\* As long as the writers come one at a time, dev_count stays within the array and
\* knows every card: a device that is registered is listed under its number, or a
\* thread has it in hand, in every step of adding and removing, failed probes included.
CardsListed ==
    ~ raced =>
        /\ dev_count <= EVDI_DEVICE_COUNT_MAX
        /\ \A d \in Devs : pdev[d] = "on" =>
              d \in InFlight \/ (id[d] < dev_count /\ devices[id[d]] = d)
        /\ \A d \in Listed \ (InFlight \cup {NULL}) : d # ERR /\ pdev[d] = "on"

\* However the writers race with evdi_exit, a module that is unloaded has no card up,
\* and of every card that was up only the painter is left, which evdi_painter_cleanup
\* does not free: a card added while evdi_exit runs is taken down with the driver, and
\* one whose removal died (oopsed) lets the module never get there.  When the writers
\* come one at a time, no platform device is left either.  Not in this: a failed
\* evdi_init, which leaves everything; and what failed probes leave (Outcomes), which
\* nothing ever frees.
UnloadedClean ==
    module = "out" /\ ~ botched =>
        /\ ~ oopsed
        /\ \A d \in Devs : /\ card[d] # "up"
                           /\ card[d] = "unplugged" => held[d] \subseteq {"painter"}
                           /\ ~ raced => pdev[d] # "on"

\* While files are there to be written, the code behind them is there: evdi_exit
\* waits for the writers, even those that came after its remove_all.
WritersMeetModule ==
    ~ botched => /\ sysfs => module # "out"
                 /\ \A w \in Writers : Working(w) => module # "out"

\* An evdi_device is used after it was freed only by files that were open when
\* remove_all took their card away: a card is closed to new files and ioctls first.
StaleOnlyOrphans == stale \subseteq orphaned

=============================================================================
