---------------------------- MODULE EvdiBuffers ----------------------------
(***************************************************************************)
(* The memory behind the screen: GEM objects (evdi_gem.c), the             *)
(* framebuffers made of them (evdi_fb.c) and the cursor (evdi_cursor.c).   *)
(*                                                                         *)
(* An object is shared by handles of several files, by framebuffers, by    *)
(* the cursor, by memory mappings and by other devices (dma-buf).  Its     *)
(* pages and its kernel mapping are made on demand by whoever comes first: *)
(* a grab, a cursor change, the mmap ioctl or the device that imports it,  *)
(* under no common lock.  A step here is what runs under one lock, or      *)
(* between two accesses of the object's pointers.                          *)
(***************************************************************************)
EXTENDS Integers, FiniteSets

CONSTANTS
    Objects,        \* GEM objects
    Imports,        \* those whose memory belongs to another driver
    NoObj,
    Fbs, NoFb,      \* framebuffers of the compositor
    Compositor,     \* the compositor's file
    Clients,        \* files of evdi clients; each may be grabbing
    NoClient,
    MaxBusy,        \* bound: threads inside an ioctl at the same time
    Users,          \* bound: the sets of ioctls that a behaviour may use
    MaxMaps         \* bound: mappings, and page arrays, that one object can leak

ASSUME ObjectsAssumption == Imports \subseteq Objects /\ NoObj \notin Objects
ASSUME BuffersFbsAssumption == NoFb \notin Fbs /\ IsFiniteSet(Fbs)
ASSUME FilesAssumption ==
    /\ NoClient \notin Clients \cup {Compositor} /\ Compositor \notin Clients
    /\ IsFiniteSet(Clients)
    /\ Clients \cap {"cursor", "map", "addfb", "import", "dma"} = {}
ASSUME BuffersBoundsAssumption ==
    /\ MaxBusy \in Nat /\ MaxMaps \in Nat
    /\ Users \subseteq SUBSET {"create", "grab", "cursor", "map", "addfb", "import", "dma"}

VARIABLES
    state,          \* per object: "new", "live" or "freed"
    refs,           \* per object: its reference count
    pages,          \* per object: obj->pages is set
    vmapping,       \* per object: obj->vmapping is set
    pinned,         \* per object: page arrays that exist
    mapped,         \* per object: kernel mappings that exist
    handles,        \* per file: the objects in its handle table
    offsets,        \* objects with an mmap offset
    vmas,           \* per file: the objects its process has mapped
    fb_obj, fb_refs,\* per framebuffer: its object, its reference count
    ids,            \* framebuffers the compositor can name
    plane,          \* the framebuffer of the plane
    scanout_fb,     \* the painter's
    drm_filp,       \* the painter's client
    cursor,         \* the cursor: enabled, obj
    dmabufs,        \* objects exported as a dma-buf
    importers,      \* exported objects that another device has mapped
    attachments,    \* imported objects: the attachments to their dma-buf
    device_refs,    \* references to the device that imports have taken
    pc, obj, grab_fb,   \* per thread: where it is, on which object, grabbing from
    users,          \* the ioctls in use
    overlap         \* history: objects that two threads were mapping at once

objVars    == <<state, refs, pages, vmapping, pinned, mapped>>
fileVars   == <<handles, offsets, vmas>>
fbVars     == <<fb_obj, fb_refs, ids, plane>>
painterVars == <<scanout_fb, drm_filp, cursor>>
primeVars  == <<dmabufs, importers, attachments, device_refs>>
threadVars == <<pc, obj, grab_fb>>
vars == <<objVars, fileVars, fbVars, painterVars, primeVars, threadVars, users, overlap>>

Files == Clients \cup {Compositor}

\* A client's grab, and the ioctls that are one at a time: a cursor change (modeset
\* locks), a dumb buffer's mmap offset (struct_mutex), addfb, prime import, and the
\* device that maps an exported object.
Threads == Clients \cup {"cursor", "map", "addfb", "import", "dma"}

NoCursor == [enabled |-> FALSE, obj |-> NoObj]

Init ==
    /\ state = [o \in Objects |-> "new"]
    /\ refs = [o \in Objects |-> 0]
    /\ pages = [o \in Objects |-> FALSE] /\ vmapping = [o \in Objects |-> FALSE]
    /\ pinned = [o \in Objects |-> 0] /\ mapped = [o \in Objects |-> 0]
    /\ handles = [f \in Files |-> {}] /\ vmas = [f \in Files |-> {}]
    /\ offsets = {}
    /\ fb_obj = [f \in Fbs |-> NoObj] /\ fb_refs = [f \in Fbs |-> 0]
    /\ ids = {} /\ plane = NoFb
    /\ scanout_fb = NoFb /\ drm_filp = NoClient /\ cursor = NoCursor
    /\ dmabufs = {} /\ importers = {} /\ attachments = {} /\ device_refs = 0
    /\ pc = [t \in Threads |-> "idle"]
    /\ obj = [t \in Threads |-> NoObj]
    /\ grab_fb = [c \in Clients |-> NoFb]
    /\ users \in Users
    /\ overlap = {}

-----------------------------------------------------------------------------
(* References.                                                             *)

Count(P) == IF P THEN 1 ELSE 0

\* count with one more, or one less, for x; x may be none
Up(count, x) == [y \in DOMAIN count |-> count[y] + Count(y = x)]
Down(count, x) == [y \in DOMAIN count |-> count[y] - Count(y = x)]

HasHandle(table, o) == \E f \in Files : o \in table[f]

\* the references left when the handle tables become table: DRM keeps one for
\* all handles of an object
HandleRefs(table) ==
    [o \in Objects |-> refs[o] + Count(HasHandle(table, o)) - Count(HasHandle(handles, o))]

\* Mutant of FreeObjects: an object that has no kernel mapping keeps its pages.
FreeObjectsKeepingPages(freed) ==
    /\ state' = [o \in Objects |-> IF o \in freed THEN "freed" ELSE state[o]]
    /\ mapped' = [o \in Objects |-> mapped[o] - Count(o \in freed /\ vmapping[o])]
    /\ pinned' = [o \in Objects |-> pinned[o] - Count(o \in freed /\ pages[o] /\ vmapping[o])]
    /\ vmapping' = [o \in Objects |-> vmapping[o] /\ o \notin freed]
    /\ pages' = [o \in Objects |-> pages[o] /\ o \notin freed]
    /\ device_refs' = device_refs - Cardinality(freed \cap Imports)
    /\ attachments' = attachments \ freed

\* evdi_gem_free_object: one mapping and one page array go, those the object's
\* pointers still show
FreeObjects(freed) ==
    /\ state' = [o \in Objects |-> IF o \in freed THEN "freed" ELSE state[o]]
    /\ mapped' = [o \in Objects |-> mapped[o] - Count(o \in freed /\ vmapping[o])]
    /\ pinned' = [o \in Objects |-> pinned[o] - Count(o \in freed /\ pages[o])]
    /\ vmapping' = [o \in Objects |-> vmapping[o] /\ o \notin freed]
    /\ pages' = [o \in Objects |-> pages[o] /\ o \notin freed]
    /\ device_refs' = device_refs - Cardinality(freed \cap Imports)
    /\ attachments' = attachments \ freed

\* the reference counts become these, and what has none left is freed
PutObjects(counts) ==
    /\ refs' = counts
    /\ FreeObjects({o \in Objects : state[o] = "live" /\ counts[o] = 0})

\* The framebuffers' counts become these: evdi_user_framebuffer_destroy for those
\* nobody refers to any more drops the reference to its object.
PutFbs(counts) ==
    LET gone == {f \in Fbs : fb_refs[f] > 0 /\ counts[f] = 0}
    IN  /\ fb_refs' = counts
        /\ fb_obj' = [f \in Fbs |-> IF f \in gone THEN NoObj ELSE fb_obj[f]]
        /\ PutObjects([o \in Objects |->
                          refs[o] - Cardinality({f \in gone : fb_obj[f] = o})])


-----------------------------------------------------------------------------
(* Making pages and a mapping on demand.                                   *)

Goto(t, step) == pc' = [pc EXCEPT ![t] = step]
Begin(t, step, o) == /\ pc' = [pc EXCEPT ![t] = step]
                     /\ obj' = [obj EXCEPT ![t] = o]
Idle(t) == /\ pc[t] = "idle"
           /\ (IF t \in Clients THEN "grab" ELSE t) \in users
           /\ Cardinality({u \in Threads : pc[u] # "idle"}) < MaxBusy
End(t) == Begin(t, "idle", NoObj)

Mapping(t, o) == obj[t] = o /\ pc[t] \in {"pages", "pin", "vmap"}

\* t starts to map o, perhaps while another thread does
Enter(t, o) == overlap' = IF \E u \in Threads \ {t} : Mapping(u, o)
                          THEN overlap \cup {o} ELSE overlap

\* "if (!obj->vmapping)" of a grab and of a cursor change, and the test of
\* import_attach in evdi_gem_vmap: dma_buf_vmap needs no pages
CheckMapping(t) ==
    /\ pc[t] = "check"
    /\ IF vmapping[obj[t]]
       THEN Goto(t, "done") /\ UNCHANGED overlap
       ELSE /\ Goto(t, IF obj[t] \in Imports THEN "vmap" ELSE "pages")
            /\ Enter(t, obj[t])
    /\ UNCHANGED <<objVars, fileVars, fbVars, painterVars, primeVars, obj, grab_fb>>

AfterPages(t) == IF t \in {"map", "dma"} THEN "done" ELSE "vmap"

\* evdi_gem_get_pages: "if (obj->pages) return 0" ...
CheckPages(t) ==
    /\ pc[t] = "pages"
    /\ Goto(t, IF pages[obj[t]] THEN AfterPages(t) ELSE "pin")
    /\ UNCHANGED <<objVars, fileVars, fbVars, painterVars, primeVars, obj, grab_fb, overlap>>

\* ... and drm_gem_get_pages, which may fail
PinPages(t) ==
    /\ pc[t] = "pin"
    /\ \/ /\ pinned[obj[t]] < MaxMaps
          /\ pages' = [pages EXCEPT ![obj[t]] = TRUE]
          /\ pinned' = Up(pinned, obj[t])
          /\ Goto(t, AfterPages(t))
       \/ /\ Goto(t, "failed")
          /\ UNCHANGED <<pages, pinned>>
    /\ UNCHANGED <<state, refs, vmapping, mapped, fileVars, fbVars, painterVars, primeVars,
                   obj, grab_fb, overlap>>

\* Mutant of Vmap: when the mapping fails, the pages are given back but not
\* forgotten.
VmapGivesPagesBack(t) ==
    /\ pc[t] = "vmap"
    /\ \/ /\ mapped[obj[t]] < MaxMaps
          /\ vmapping' = [vmapping EXCEPT ![obj[t]] = TRUE]
          /\ mapped' = Up(mapped, obj[t])
          /\ Goto(t, "done")
          /\ UNCHANGED pinned
       \/ /\ vmapping' = [vmapping EXCEPT ![obj[t]] = FALSE]
          /\ pinned' = Down(pinned, obj[t])
          /\ Goto(t, "failed")
          /\ UNCHANGED mapped
    /\ UNCHANGED <<state, refs, pages, fileVars, fbVars, painterVars, primeVars,
                   obj, grab_fb, overlap>>

\* obj->vmapping = vmap(...), or dma_buf_vmap(...), which is NULL when it fails
Vmap(t) ==
    /\ pc[t] = "vmap"
    /\ \/ /\ mapped[obj[t]] < MaxMaps
          /\ vmapping' = [vmapping EXCEPT ![obj[t]] = TRUE]
          /\ mapped' = Up(mapped, obj[t])
          /\ Goto(t, "done")
       \/ /\ vmapping' = [vmapping EXCEPT ![obj[t]] = FALSE]
          /\ Goto(t, "failed")
          /\ UNCHANGED mapped
    /\ UNCHANGED <<state, refs, pages, pinned, fileVars, fbVars, painterVars, primeVars,
                   obj, grab_fb, overlap>>

MappingStep(t) == CheckMapping(t) \/ CheckPages(t) \/ PinPages(t) \/ Vmap(t)

-----------------------------------------------------------------------------
(* Dumb buffers, their handles and their memory mappings.                  *)

\* evdi_dumb_create: the handle keeps the object, the creator's reference goes
DumbCreate(o) ==
    /\ "create" \in users /\ o \notin Imports /\ state[o] = "new"
    /\ state' = [state EXCEPT ![o] = "live"]
    /\ refs' = [refs EXCEPT ![o] = 1]
    /\ handles' = [handles EXCEPT ![Compositor] = @ \cup {o}]
    /\ UNCHANGED <<pages, vmapping, pinned, mapped, offsets, vmas, fbVars, painterVars,
                   primeVars, threadVars, overlap>>

\* drm_gem_dumb_destroy and DRM_IOCTL_GEM_CLOSE
HandleClose(file, o) ==
    LET table == [handles EXCEPT ![file] = @ \ {o}]
    IN  /\ o \in handles[file]
        /\ handles' = table
        /\ PutObjects(HandleRefs(table))
        /\ UNCHANGED <<offsets, vmas, fbVars, painterVars, dmabufs, importers, threadVars, overlap>>

\* evdi_gem_mmap, under struct_mutex: the object is looked up, ...
MapDumb(file, o) ==
    /\ Idle("map") /\ o \in handles[file]
    /\ refs' = Up(refs, o)
    /\ Begin("map", "pages", o)
    /\ Enter("map", o)
    /\ UNCHANGED <<state, pages, vmapping, pinned, mapped, fileVars, fbVars, painterVars,
                   primeVars, grab_fb>>

\* ... it gets pages, then an offset, and is put
MapDumbEnd ==
    /\ pc["map"] \in {"done", "failed"}
    /\ offsets' = IF pc["map"] = "done" THEN offsets \cup {obj["map"]} ELSE offsets
    /\ PutObjects(Down(refs, obj["map"]))
    /\ End("map")
    /\ UNCHANGED <<handles, vmas, fbVars, painterVars, dmabufs, importers, grab_fb, overlap>>

\* evdi_drm_gem_mmap: the process maps an object it has a handle for
Mmap(file, o) ==
    /\ o \in handles[file] /\ o \in offsets /\ o \notin vmas[file]
    /\ vmas' = [vmas EXCEPT ![file] = @ \cup {o}]
    /\ refs' = Up(refs, o)
    /\ UNCHANGED <<state, pages, vmapping, pinned, mapped, handles, offsets, fbVars,
                   painterVars, primeVars, threadVars, overlap>>

\* drm_gem_vm_close
Munmap(file, o) ==
    /\ o \in vmas[file]
    /\ vmas' = [vmas EXCEPT ![file] = @ \ {o}]
    /\ PutObjects(Down(refs, o))
    /\ UNCHANGED <<handles, offsets, fbVars, painterVars, dmabufs, importers, threadVars, overlap>>

BufferStep ==
    \/ \E o \in Objects : DumbCreate(o)
    \/ \E file \in Files, o \in Objects :
          HandleClose(file, o) \/ MapDumb(file, o) \/ Mmap(file, o) \/ Munmap(file, o)
    \/ MapDumbEnd

-----------------------------------------------------------------------------
(* Framebuffers.                                                           *)

\* evdi_fb_user_fb_create: the object is looked up, ...
AddFb(o) ==
    /\ Idle("addfb") /\ o \in handles[Compositor]
    /\ refs' = Up(refs, o)
    /\ Begin("addfb", "init", o)
    /\ UNCHANGED <<state, pages, vmapping, pinned, mapped, fileVars, fbVars, painterVars,
                   primeVars, grab_fb, overlap>>

\* ... and the framebuffer keeps that reference ...
AddFbInit(f) ==
    /\ pc["addfb"] = "init" /\ fb_refs[f] = 0
    /\ fb_obj' = [fb_obj EXCEPT ![f] = obj["addfb"]]
    /\ fb_refs' = [fb_refs EXCEPT ![f] = 1]
    /\ ids' = ids \cup {f}
    /\ End("addfb")
    /\ UNCHANGED <<objVars, fileVars, plane, painterVars, primeVars, grab_fb, overlap>>

\* Mutant of AddFbFails: the reference of the lookup is not dropped.
AddFbFailsHolding ==
    /\ pc["addfb"] = "init"
    /\ End("addfb")
    /\ UNCHANGED <<objVars, fileVars, fbVars, painterVars, primeVars, grab_fb, overlap>>

\* ... unless it is larger than its object or cannot be made
AddFbFails ==
    /\ pc["addfb"] = "init"
    /\ PutObjects(Down(refs, obj["addfb"]))
    /\ End("addfb")
    /\ UNCHANGED <<fileVars, fbVars, painterVars, dmabufs, importers, grab_fb, overlap>>

\* evdi_user_framebuffer_create_handle
FbHandle(f) ==
    LET table == [handles EXCEPT ![Compositor] = @ \cup {fb_obj[f]}]
    IN  /\ f \in ids
        /\ handles' = table
        /\ refs' = HandleRefs(table)
        /\ UNCHANGED <<state, pages, vmapping, pinned, mapped, offsets, vmas, fbVars, painterVars,
                       primeVars, threadVars, overlap>>

\* The compositor removes its framebuffer; DRM turns off a plane that shows it.
\* The painter may still scan it out.
RmFb(f) ==
    /\ f \in ids
    /\ ids' = ids \ {f}
    /\ plane' = IF plane = f THEN NoFb ELSE plane
    /\ PutFbs(IF plane = f THEN Down(Down(fb_refs, f), f) ELSE Down(fb_refs, f))
    /\ UNCHANGED <<fileVars, painterVars, dmabufs, importers, threadVars, overlap>>

\* Mutant of ShowFb: the painter does not take a reference of its own.
ShowFbUnheld(f) ==
    /\ f \in ids
    /\ plane' = f /\ scanout_fb' = f
    /\ PutFbs(Down(Down(Up(fb_refs, f), plane), scanout_fb))
    /\ UNCHANGED <<fileVars, ids, drm_filp, cursor, dmabufs, importers, threadVars, overlap>>

\* a commit shows f: evdi_painter_set_scanout_buffer
ShowFb(f) ==
    /\ f \in ids
    /\ plane' = f /\ scanout_fb' = f
    /\ PutFbs(Down(Down(Up(Up(fb_refs, f), f), plane), scanout_fb))
    /\ UNCHANGED <<fileVars, ids, drm_filp, cursor, dmabufs, importers, threadVars, overlap>>

FbStep == \/ \E o \in Objects : AddFb(o)
          \/ \E f \in Fbs : AddFbInit(f) \/ FbHandle(f) \/ RmFb(f) \/ ShowFb(f)
          \/ AddFbFails

-----------------------------------------------------------------------------
(* Clients: connect, disconnect and grab.                                  *)

\* evdi_cursor_lock is held across steps by a cursor change only
CursorLocked == pc["cursor"] \in {"check", "pages", "pin", "vmap", "done", "failed"}

\* evdi_painter_connect
Connect(c) ==
    /\ drm_filp # c
    /\ drm_filp' = c
    /\ UNCHANGED <<objVars, fileVars, fbVars, scanout_fb, cursor, primeVars, threadVars, overlap>>

\* evdi_painter_disconnect of the client that is connected: the scanout buffer and
\* the cursor are dropped.  counts: the objects' references without the client's.
DropConnection(counts) ==
    /\ ~ CursorLocked
    /\ cursor' = NoCursor
    /\ scanout_fb' = NoFb /\ drm_filp' = NoClient
    /\ fb_refs' = Down(fb_refs, scanout_fb)
    /\ LET gone == {f \in Fbs : f = scanout_fb /\ fb_refs[f] = 1}
       IN  /\ fb_obj' = [f \in Fbs |-> IF f \in gone THEN NoObj ELSE fb_obj[f]]
           /\ PutObjects([o \in Objects |->
                             counts[o] - Count(o = cursor.obj)
                                       - Cardinality({f \in gone : fb_obj[f] = o})])

Disconnect(c) ==
    /\ c = drm_filp
    /\ DropConnection(refs)
    /\ UNCHANGED <<fileVars, ids, plane, dmabufs, importers, threadVars, overlap>>

\* The last reference to the file goes: DRM drops its handles, evdi disconnects it.
CloseFile(c) ==
    LET table == [handles EXCEPT ![c] = {}]
    IN  /\ pc[c] = "idle" /\ vmas[c] = {}
        /\ c = drm_filp \/ handles[c] # {}
        /\ handles' = table
        /\ IF c = drm_filp
           THEN DropConnection(HandleRefs(table))
           ELSE /\ PutObjects(HandleRefs(table))
                /\ UNCHANGED <<fb_obj, fb_refs, painterVars>>
        /\ UNCHANGED <<offsets, vmas, ids, plane, dmabufs, importers, threadVars, overlap>>

\* evdi_painter_grabpix_ioctl: under the painter's lock it holds the scanout buffer ...
Grab(c) ==
    /\ Idle(c) /\ scanout_fb # NoFb
    /\ fb_refs' = Up(fb_refs, scanout_fb)
    /\ grab_fb' = [grab_fb EXCEPT ![c] = scanout_fb]
    /\ Begin(c, "check", fb_obj[scanout_fb])
    /\ UNCHANGED <<objVars, fileVars, fb_obj, ids, plane, painterVars, primeVars, overlap>>

\* ... when that is mapped, copy_primary_pixels reads it ...
CopyPrimary(c) ==
    /\ pc[c] = "done"
    /\ Goto(c, "compose")
    /\ UNCHANGED <<objVars, fileVars, fbVars, painterVars, primeVars, obj, grab_fb, overlap>>

PutGrabbed(c) ==
    /\ PutFbs(Down(fb_refs, grab_fb[c]))
    /\ grab_fb' = [grab_fb EXCEPT ![c] = NoFb]
    /\ End(c)
    /\ UNCHANGED <<fileVars, ids, plane, painterVars, dmabufs, importers, overlap>>

\* ... with blending, evdi_cursor_compose_and_copy reads the cursor too ...
ComposeCursor(c) ==
    /\ pc[c] = "compose" /\ ~ CursorLocked
    /\ PutGrabbed(c)

\* ... and without, or when something failed, the buffer is put at once
GrabEnds(c) ==
    /\ pc[c] \in {"done", "compose", "failed"}
    /\ PutGrabbed(c)

ClientStep(c) ==
    \/ Connect(c) \/ Disconnect(c) \/ CloseFile(c)
    \/ Grab(c) \/ CopyPrimary(c) \/ ComposeCursor(c) \/ GrabEnds(c)

-----------------------------------------------------------------------------
(* The cursor.                                                             *)

\* evdi_crtc_cursor_set looks the object up under struct_mutex (none: hide) ...
CursorLookup(o) ==
    /\ Idle("cursor") /\ pc["map"] = "idle"
    /\ o = NoObj \/ o \in handles[Compositor]
    /\ refs' = Up(refs, o)
    /\ Begin("cursor", "lock", o)
    /\ UNCHANGED <<state, pages, vmapping, pinned, mapped, fileVars, fbVars, painterVars,
                   primeVars, grab_fb, overlap>>

\* ... evdi_cursor_set takes the cursor's lock, ...
CursorLock ==
    /\ pc["cursor"] = "lock"
    /\ Goto("cursor", IF obj["cursor"] = NoObj THEN "done" ELSE "check")
    /\ UNCHANGED <<objVars, fileVars, fbVars, painterVars, primeVars, obj, grab_fb, overlap>>

\* Mutant of CursorStore: an object that could not be mapped is stored.
CursorStoreUnmapped ==
    LET new == obj["cursor"]
    IN  /\ pc["cursor"] \in {"done", "failed"}
        /\ cursor' = [enabled |-> new # NoObj, obj |-> new]
        /\ PutObjects(Down(Up(refs, new), cursor.obj))
        /\ Goto("cursor", "put")
        /\ UNCHANGED <<fileVars, fbVars, scanout_fb, drm_filp, dmabufs, importers, obj, grab_fb,
                       overlap>>

\* ... stores the object, if it could be mapped, with a reference of its own
\* (evdi_cursor_set_gem), ...
CursorStore ==
    LET new == IF pc["cursor"] = "done" THEN obj["cursor"] ELSE NoObj
    IN  /\ pc["cursor"] \in {"done", "failed"}
        /\ cursor' = [enabled |-> new # NoObj, obj |-> new]
        /\ PutObjects(Down(Up(refs, new), cursor.obj))
        /\ Goto("cursor", "put")
        /\ UNCHANGED <<fileVars, fbVars, scanout_fb, drm_filp, dmabufs, importers, obj, grab_fb,
                       overlap>>

\* ... the reference of the lookup goes, ...
CursorPut ==
    /\ pc["cursor"] = "put"
    /\ PutObjects(Down(refs, obj["cursor"]))
    /\ pc' = [pc EXCEPT !["cursor"] = "send"] /\ obj' = [obj EXCEPT !["cursor"] = NoObj]
    /\ UNCHANGED <<fileVars, fbVars, painterVars, dmabufs, importers, grab_fb, overlap>>

\* ... and without blending evdi_painter_send_cursor_set gives the client a handle,
\* unless it has one
SendCursorSet ==
    LET table == [handles EXCEPT ![drm_filp] = @ \cup {cursor.obj}]
    IN  /\ pc["cursor"] = "send"
        /\ drm_filp # NoClient /\ cursor.obj # NoObj
        /\ handles' = table
        /\ refs' = HandleRefs(table)
        /\ Goto("cursor", "idle")
        /\ UNCHANGED <<state, pages, vmapping, pinned, mapped, offsets, vmas, fbVars, painterVars,
                       primeVars, obj, grab_fb, overlap>>

\* with blending the screen is marked dirty instead (EvdiPainter)
CursorDone ==
    /\ pc["cursor"] = "send"
    /\ Goto("cursor", "idle")
    /\ UNCHANGED <<objVars, fileVars, fbVars, painterVars, primeVars, obj, grab_fb, overlap>>

CursorStep == \/ \E o \in Objects \cup {NoObj} : CursorLookup(o)
              \/ CursorLock \/ CursorStore \/ CursorPut \/ SendCursorSet \/ CursorDone

-----------------------------------------------------------------------------
(* Sharing with other devices.                                             *)

\* evdi_gem_prime_export: the dma-buf holds the object
Export(o) ==
    /\ "dma" \in users /\ o \in handles[Compositor] \ Imports /\ o \notin dmabufs
    /\ dmabufs' = dmabufs \cup {o}
    /\ refs' = Up(refs, o)
    /\ UNCHANGED <<state, pages, vmapping, pinned, mapped, fileVars, fbVars, painterVars, importers,
                   attachments, device_refs, threadVars, overlap>>

\* drm_gem_dmabuf_release, when nobody is attached
Release(o) ==
    /\ o \in dmabufs \ importers /\ obj["dma"] # o
    /\ dmabufs' = dmabufs \ {o}
    /\ PutObjects(Down(refs, o))
    /\ UNCHANGED <<fileVars, fbVars, painterVars, importers, threadVars, overlap>>

\* evdi_gem_prime_import of an object of this device: another file gets a handle
ImportOwn(file, o) ==
    LET table == [handles EXCEPT ![file] = @ \cup {o}]
    IN  /\ o \in dmabufs
        /\ handles' = table
        /\ refs' = HandleRefs(table)
        /\ UNCHANGED <<state, pages, vmapping, pinned, mapped, offsets, vmas, fbVars, painterVars,
                       primeVars, threadVars, overlap>>

\* evdi_map_dma_buf, for the device that attached; not under struct_mutex
MapDmaBuf(o) ==
    /\ Idle("dma") /\ o \in dmabufs \ importers
    /\ Begin("dma", "pages", o)
    /\ Enter("dma", o)
    /\ UNCHANGED <<objVars, fileVars, fbVars, painterVars, primeVars, grab_fb>>

MapDmaBufEnd ==
    /\ pc["dma"] \in {"done", "failed"}
    /\ importers' = IF pc["dma"] = "done" THEN importers \cup {obj["dma"]} ELSE importers
    /\ End("dma")
    /\ UNCHANGED <<objVars, fileVars, fbVars, painterVars, dmabufs, attachments, device_refs,
                   grab_fb, overlap>>

\* evdi_detach_dma_buf
DetachDmaBuf(o) ==
    /\ o \in importers
    /\ importers' = importers \ {o}
    /\ UNCHANGED <<objVars, fileVars, fbVars, painterVars, dmabufs, attachments, device_refs,
                   threadVars, overlap>>

\* evdi_gem_prime_import of another driver's dma-buf: get_device and attach, ...
ImportAttach(o) ==
    /\ Idle("import") /\ o \in Imports /\ state[o] = "new"
    /\ device_refs' = device_refs + 1
    /\ attachments' = attachments \cup {o}
    /\ Begin("import", "attached", o)
    /\ UNCHANGED <<objVars, fileVars, fbVars, painterVars, dmabufs, importers, grab_fb, overlap>>

\* ... evdi_prime_create, with an array of the pages, and a handle; ...
ImportDone ==
    LET o == obj["import"]
    IN  /\ pc["import"] = "attached"
        /\ state' = [state EXCEPT ![o] = "live"]
        /\ refs' = [refs EXCEPT ![o] = 1]
        /\ pages' = [pages EXCEPT ![o] = TRUE]
        /\ pinned' = Up(pinned, o)
        /\ handles' = [handles EXCEPT ![Compositor] = @ \cup {o}]
        /\ End("import")
        /\ UNCHANGED <<vmapping, mapped, offsets, vmas, fbVars, painterVars, primeVars, grab_fb,
                       overlap>>

\* ... or fail_detach.  (When only the array cannot be had, the object is lost.)
ImportFails ==
    LET o == obj["import"]
    IN  /\ pc["import"] = "attached"
        /\ device_refs' = device_refs - 1
        /\ attachments' = attachments \ {o}
        /\ \E lost \in BOOLEAN : state' = [state EXCEPT ![o] = IF lost THEN "lost" ELSE @]
        /\ End("import")
        /\ UNCHANGED <<refs, pages, vmapping, pinned, mapped, fileVars, fbVars, painterVars,
                       dmabufs, importers, grab_fb, overlap>>

PrimeStep ==
    \/ \E o \in Objects : \/ Export(o) \/ Release(o) \/ MapDmaBuf(o) \/ DetachDmaBuf(o)
                          \/ ImportAttach(o)
                          \/ \E file \in Files : ImportOwn(file, o)
    \/ MapDmaBufEnd \/ ImportDone \/ ImportFails

Next == /\ \/ BufferStep \/ FbStep \/ CursorStep \/ PrimeStep
           \/ \E c \in Clients : ClientStep(c)
           \/ \E t \in Threads : MappingStep(t)
        /\ UNCHANGED users

Spec == Init /\ [][Next]_vars

-----------------------------------------------------------------------------

Steps == {"idle", "check", "pages", "pin", "vmap", "done", "failed", "compose", "lock", "put",
          "send", "init", "attached"}

\* Every variable keeps its type.
TypeOK ==
    /\ state \in [Objects -> {"new", "live", "freed", "lost"}]
    /\ refs \in [Objects -> Nat]
    /\ pages \in [Objects -> BOOLEAN] /\ vmapping \in [Objects -> BOOLEAN]
    /\ pinned \in [Objects -> Nat] /\ mapped \in [Objects -> Nat]
    /\ handles \in [Files -> SUBSET Objects] /\ vmas \in [Files -> SUBSET Objects]
    /\ offsets \subseteq Objects
    /\ fb_obj \in [Fbs -> Objects \cup {NoObj}] /\ fb_refs \in [Fbs -> Nat]
    /\ ids \subseteq Fbs /\ plane \in Fbs \cup {NoFb}
    /\ scanout_fb \in Fbs \cup {NoFb} /\ drm_filp \in Clients \cup {NoClient}
    /\ cursor \in [enabled : BOOLEAN, obj : Objects \cup {NoObj}]
    /\ dmabufs \subseteq Objects /\ importers \subseteq Objects /\ attachments \subseteq Objects
    /\ device_refs \in Nat
    /\ pc \in [Threads -> Steps]
    /\ obj \in [Threads -> Objects \cup {NoObj}]
    /\ grab_fb \in [Clients -> Fbs \cup {NoFb}]
    /\ users \in Users
    /\ overlap \subseteq Objects

\* who holds a reference to an object: its handles, framebuffers, memory mappings,
\* dma-buf and cursor, and the ioctls that looked it up and have not put it yet
FbsOf(o) == {f \in Fbs : fb_obj[f] = o}
Lookups(o) == {t \in {"map", "addfb", "cursor"} : obj[t] = o}
Holders(o) == Count(HasHandle(handles, o)) + Cardinality(FbsOf(o))
              + Cardinality({file \in Files : o \in vmas[file]})
              + Count(o \in dmabufs) + Count(cursor.obj = o) + Cardinality(Lookups(o))

\* The count of an object is the number of its holders, in every step of every
\* ioctl, failures included: it is freed when the last one lets go, not before.
ObjectRefsExact ==
    \A o \in Objects : /\ refs[o] = Holders(o)
                       /\ state[o] = "live" <=> refs[o] > 0

\* The same for framebuffers: the compositor's name, the plane, the painter's
\* scanout buffer and the grabs.
FbRefsExact ==
    \A f \in Fbs :
        /\ fb_refs[f] = Count(f \in ids) + Count(plane = f) + Count(scanout_fb = f)
                        + Cardinality({c \in Clients : grab_fb[c] = f})
        /\ fb_obj[f] # NoObj <=> fb_refs[f] > 0

\* Pages and mappings go with the object, and so do the device reference and the
\* attachment of an import, which go also when the import fails.  (Two threads that
\* map one object at once may each make their own mapping; only the later pointer
\* is kept, so the object leaves the other behind.)
NothingLeftBehind ==
    /\ \A o \in Objects \ overlap :
          /\ mapped[o] = Count(vmapping[o])
          /\ pinned[o] = Count(pages[o])
          /\ state[o] \in {"freed", "lost"} => ~ pages[o] /\ ~ vmapping[o]
    /\ device_refs = Cardinality(attachments)
    /\ attachments = {o \in Imports : state[o] = "live" \/ obj["import"] = o}

\* What copy_primary_pixels and evdi_cursor_compose_and_copy read is there: the
\* framebuffer of a grab and an enabled cursor keep their object mapped, whoever
\* removes the framebuffer, disconnects or closes meanwhile.  (Again except for two
\* threads mapping at once: one that fails clears the pointer of the other.)  And a
\* page fault in a mapping finds the object's pages.
ReadsAreMapped ==
    /\ \A c \in Clients : pc[c] \in {"done", "compose"} =>
          obj[c] = fb_obj[grab_fb[c]] /\ (vmapping[obj[c]] \/ obj[c] \in overlap)
    /\ cursor.enabled =>
          cursor.obj # NoObj /\ (vmapping[cursor.obj] \/ cursor.obj \in overlap)
    /\ \A file \in Files : \A o \in vmas[file] : pages[o]

=============================================================================
