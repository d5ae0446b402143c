------------------------- MODULE EvdiBuffersProofs -------------------------
(***************************************************************************)
(* The references of objects and framebuffers, whatever the objects, the   *)
(* framebuffers and the clients: each count is exact, nothing is freed     *)
(* while it is held or kept once it is not, and what is read is mapped.    *)
(*                                                                         *)
(* The counts are exact at every step only together with what each thread  *)
(* holds where it is (Control), with what an object's pointers show        *)
(* (Memory), with the attachments (Attach), and with the threads that map  *)
(* an object being alone, unless two met on it (Mappers): the mapping has  *)
(* no lock, and an object two threads mapped at once is in overlap.        *)
(***************************************************************************)
EXTENDS EvdiBuffers, FiniteSetTheorems, TLAPS

-----------------------------------------------------------------------------
(* The inductive invariant.                                                *)

\* Where each thread can be, and what it has in its hands there.
Control ==
    /\ \A t \in {"map", "dma"} : pc[t] \in {"idle", "pages", "pin", "done", "failed"}
    /\ pc["addfb"] \in {"idle", "init"} /\ pc["import"] \in {"idle", "attached"}
    /\ pc["cursor"] \in {"idle", "lock", "check", "pages", "pin", "vmap", "done", "failed",
                         "put", "send"}
    /\ \A t \in Threads : pc[t] = "idle" => obj[t] = NoObj
    /\ \A t \in Threads \ {"cursor"} : pc[t] # "idle" => obj[t] \in Objects
    /\ pc["cursor"] \in {"check", "pages", "pin", "vmap", "failed"} => obj["cursor"] \in Objects
    /\ pc["cursor"] = "send" => obj["cursor"] = NoObj
    /\ pc["dma"] # "idle" => obj["dma"] \in dmabufs
    /\ pc["import"] # "idle" => obj["import"] \in Imports /\ state[obj["import"]] = "new"
    /\ \A c \in Clients :
          /\ pc[c] \in {"idle", "check", "pages", "pin", "vmap", "done", "failed", "compose"}
          /\ pc[c] = "idle" => grab_fb[c] = NoFb
          /\ pc[c] # "idle" => grab_fb[c] \in Fbs /\ obj[c] = fb_obj[grab_fb[c]]
    /\ cursor.enabled => cursor.obj # NoObj

\* An object's pointers show what it has; they are clear unless it is live.
MemoryOf(o) ==
    /\ pages[o] => pinned[o] > 0
    /\ vmapping[o] => mapped[o] > 0
    /\ state[o] # "live" => ~ pages[o] /\ ~ vmapping[o]
    /\ state[o] = "new" => o \notin overlap /\ o \notin offsets
    /\ o \notin overlap => mapped[o] = Count(vmapping[o]) /\ pinned[o] = Count(pages[o])
    /\ o \in offsets /\ state[o] = "live" => pages[o]
    /\ \A file \in Files : o \in vmas[file] => o \in offsets
Memory == \A o \in Objects : MemoryOf(o)

\* The device references are those of the attachments.
Attach ==
    /\ IsFiniteSet(attachments) /\ device_refs = Cardinality(attachments)
    /\ attachments = {o \in Imports : state[o] = "live" \/ obj["import"] = o}

\* The thread that maps an object is alone, unless two met; the thread that has
\* mapped it, and the cursor that shows it, still find it mapped.
MapperOf(o) ==
    /\ \A t \in Threads : Mapping(t, o) =>
          /\ \A u \in Threads : Mapping(u, o) => u = t
          /\ pc[t] = "pin" => ~ pages[o]
          /\ t \notin {"map", "dma"} => ~ vmapping[o]
    /\ \A t \in Threads \ {"map", "dma"} :
          obj[t] = o /\ pc[t] \in {"done", "compose"} => vmapping[o]
    /\ cursor.obj = o => vmapping[o]
Mappers == /\ \A o \in Objects \ overlap : MapperOf(o)
           /\ pc["map"] = "done" => pages[obj["map"]]

IInv == /\ TypeOK /\ Control /\ ObjectRefsExact /\ FbRefsExact
        /\ Memory /\ Attach /\ Mappers

-----------------------------------------------------------------------------
(* Counting.                                                               *)

LEMMA Names ==
    /\ {"cursor", "map", "addfb", "import", "dma"} \cup Clients = Threads
    /\ \A c \in Clients : c \notin {"cursor", "map", "addfb", "import", "dma"}
BY FilesAssumption DEF Threads

\* TypeOK in parts, and the parts that a step leaves alone.
ObjTypes ==
    /\ state \in [Objects -> {"new", "live", "freed", "lost"}]
    /\ refs \in [Objects -> Nat]
    /\ pages \in [Objects -> BOOLEAN] /\ vmapping \in [Objects -> BOOLEAN]
    /\ pinned \in [Objects -> Nat] /\ mapped \in [Objects -> Nat]
FileTypes ==
    /\ handles \in [Files -> SUBSET Objects] /\ vmas \in [Files -> SUBSET Objects]
    /\ offsets \subseteq Objects
FbTypes ==
    /\ fb_obj \in [Fbs -> Objects \cup {NoObj}] /\ fb_refs \in [Fbs -> Nat]
    /\ ids \subseteq Fbs /\ plane \in Fbs \cup {NoFb}
PainterTypes ==
    /\ scanout_fb \in Fbs \cup {NoFb} /\ drm_filp \in Clients \cup {NoClient}
    /\ cursor \in [enabled : BOOLEAN, obj : Objects \cup {NoObj}]
PrimeTypes ==
    /\ dmabufs \subseteq Objects /\ importers \subseteq Objects /\ attachments \subseteq Objects
    /\ device_refs \in Nat
ThreadTypes ==
    /\ pc \in [Threads -> Steps] /\ obj \in [Threads -> Objects \cup {NoObj}]
    /\ grab_fb \in [Clients -> Fbs \cup {NoFb}]

LEMMA Types ==
    /\ TypeOK => /\ ObjTypes /\ FileTypes /\ FbTypes /\ PainterTypes /\ PrimeTypes
                 /\ ThreadTypes /\ users \in Users /\ overlap \subseteq Objects
    /\ /\ ObjTypes' /\ FileTypes' /\ FbTypes' /\ PainterTypes' /\ PrimeTypes'
       /\ ThreadTypes' /\ users' \in Users /\ overlap' \subseteq Objects
       => TypeOK'
BY DEF TypeOK, ObjTypes, FileTypes, FbTypes, PainterTypes, PrimeTypes, ThreadTypes

LEMMA TypesKept ==
    /\ UNCHANGED objVars => (ObjTypes => ObjTypes')
    /\ UNCHANGED fileVars => (FileTypes => FileTypes')
    /\ UNCHANGED fbVars => (FbTypes => FbTypes')
    /\ UNCHANGED painterVars => (PainterTypes => PainterTypes')
    /\ UNCHANGED primeVars => (PrimeTypes => PrimeTypes')
    /\ UNCHANGED threadVars => (ThreadTypes => ThreadTypes')
BY DEF ObjTypes, FileTypes, FbTypes, PainterTypes, PrimeTypes, ThreadTypes,
       objVars, fileVars, fbVars, painterVars, primeVars, threadVars

LEMMA Finite ==
    /\ IsFiniteSet(Fbs) /\ IsFiniteSet(Clients) /\ IsFiniteSet(Files)
    /\ IsFiniteSet({"map", "addfb", "cursor"})
<1>1. IsFiniteSet(Files)
  BY FilesAssumption, FS_AddElement DEF Files
<1>2. IsFiniteSet({"map", "addfb", "cursor"})
  <2>1. IsFiniteSet({} \cup {"map"})
    BY FS_EmptySet, FS_AddElement
  <2>2. IsFiniteSet(({} \cup {"map"}) \cup {"addfb"})
    BY <2>1, FS_AddElement
  <2>3. IsFiniteSet((({} \cup {"map"}) \cup {"addfb"}) \cup {"cursor"})
    BY <2>2, FS_AddElement
  <2>4. (({} \cup {"map"}) \cup {"addfb"}) \cup {"cursor"} = {"map", "addfb", "cursor"}
    OBVIOUS
  <2> QED BY <2>3, <2>4
<1> QED BY <1>1, <1>2, FilesAssumption, BuffersFbsAssumption

LEMMA CountNat == \A P : Count(P) \in {0, 1}
BY DEF Count

LEMMA UpType ==
    ASSUME NEW S, NEW count \in [S -> Int], NEW x
    PROVE  /\ Up(count, x) \in [S -> Int] /\ Down(count, x) \in [S -> Int]
           /\ \A y \in S : /\ Up(count, x)[y] = count[y] + Count(y = x)
                           /\ Down(count, x)[y] = count[y] - Count(y = x)
BY CountNat DEF Up, Down

\* Those of S that the function F sends to y, and how many they are when one value
\* of F becomes another.
Sources(S, F, y) == {z \in S : F[z] = y}
Hit(F, z, y) == Count(F[z] = y)

LEMMA Moved ==
    ASSUME NEW S, IsFiniteSet(S), NEW F, NEW G, NEW x \in S, NEW y,
           \A z \in S \ {x} : G[z] = F[z]
    PROVE  /\ Cardinality(Sources(S, F, y)) \in Nat
           /\ Cardinality(Sources(S, G, y)) =
                 Cardinality(Sources(S, F, y)) + Hit(G, x, y) - Hit(F, x, y)
<1> DEFINE A == {z \in S : F[z] = y}
           B == {z \in S : G[z] = y}
           C == {z \in S \ {x} : F[z] = y}
<1>1. IsFiniteSet(C) /\ Cardinality(C) \in Nat /\ x \notin C
  BY FS_Subset, FS_CardinalityType
<1>2. Cardinality(A) = Cardinality(C) + Count(F[x] = y)
  <2>1. CASE F[x] = y
    <3>1. A = C \cup {x}
      BY <2>1
    <3> QED BY <1>1, <2>1, <3>1, FS_AddElement DEF Count
  <2>2. CASE F[x] # y
    <3>1. A = C
      BY <2>2
    <3> QED BY <1>1, <2>2, <3>1 DEF Count
  <2> QED BY <2>1, <2>2
<1>3. Cardinality(B) = Cardinality(C) + Count(G[x] = y)
  <2>1. CASE G[x] = y
    <3>1. B = C \cup {x}
      BY <2>1
    <3> QED BY <1>1, <2>1, <3>1, FS_AddElement DEF Count
  <2>2. CASE G[x] # y
    <3>1. B = C
      BY <2>2
    <3>2. Count(G[x] = y) = 0
      BY <2>2 DEF Count
    <3> QED BY <1>1, <3>1, <3>2
  <2> QED BY <2>1, <2>2
<1> QED BY <1>1, <1>2, <1>3, CountNat DEF Sources, Hit

\* The parts of an object's and of a framebuffer's count.
HandleCount(table, o) == Count(HasHandle(table, o))
FbCount(o) == Cardinality(Sources(Fbs, fb_obj, o))
VmaCount(o) == Cardinality({file \in Files : o \in vmas[file]})
LookupCount(o) == Cardinality(Sources({"map", "addfb", "cursor"}, obj, o))
GrabCount(f) == Cardinality(Sources(Clients, grab_fb, f))

LEMMA HandleCounts ==
    \A table, o : /\ HandleCount(table, o) \in {0, 1}
                  /\ HandleCount(table, o) = 1 <=> HasHandle(table, o)
BY DEF HandleCount, Count

LEMMA HoldersAre ==
    \A o : Holders(o) = HandleCount(handles, o) + FbCount(o) + VmaCount(o)
                        + Count(o \in dmabufs) + Count(cursor.obj = o) + LookupCount(o)
BY DEF Holders, FbsOf, Lookups, HandleCount, FbCount, VmaCount, LookupCount, Sources

LEMMA CountsAreNat ==
    /\ \A o : FbCount(o) \in Nat /\ VmaCount(o) \in Nat /\ LookupCount(o) \in Nat
    /\ \A o : Holders(o) \in Nat
    /\ \A f : GrabCount(f) \in Nat
<1>1. \A o : FbCount(o) \in Nat /\ VmaCount(o) \in Nat /\ LookupCount(o) \in Nat
  <2> TAKE o
  <2>1. FbCount(o) \in Nat
    BY Finite, FS_Subset, FS_CardinalityType DEF FbCount, Sources
  <2>2. VmaCount(o) \in Nat
    BY Finite, FS_Subset, FS_CardinalityType DEF VmaCount
  <2>3. LookupCount(o) \in Nat
    BY Finite, FS_Subset, FS_CardinalityType DEF LookupCount, Sources
  <2> QED BY <2>1, <2>2, <2>3
<1>2. \A f : GrabCount(f) \in Nat
  BY Finite, FS_Subset, FS_CardinalityType DEF GrabCount, Sources
<1>3. \A o : Holders(o) \in Nat
  BY <1>1, CountNat, HandleCounts, HoldersAre
<1> QED BY <1>1, <1>2, <1>3

LEMMA CountPositive ==
    /\ \A o : \A f \in Fbs : fb_obj[f] = o => FbCount(o) > 0
    /\ \A o : \A file \in Files : o \in vmas[file] => VmaCount(o) > 0
    /\ \A o : \A t \in {"map", "addfb", "cursor"} : obj[t] = o => LookupCount(o) > 0
    /\ \A f : \A c \in Clients : grab_fb[c] = f => GrabCount(f) > 0
<1>1. ASSUME NEW S, IsFiniteSet(S), NEW T \in SUBSET S, NEW x \in T PROVE Cardinality(T) > 0
  <2>1. IsFiniteSet(T) /\ Cardinality(T) \in Nat
    BY <1>1, FS_Subset, FS_CardinalityType
  <2> QED BY <1>1, <2>1, FS_EmptySet
<1>2. \A o : \A f \in Fbs : fb_obj[f] = o => FbCount(o) > 0
  BY <1>1, Finite DEF FbCount, Sources
<1>3. \A o : \A file \in Files : o \in vmas[file] => VmaCount(o) > 0
  BY <1>1, Finite DEF VmaCount
<1>4. \A o : \A t \in {"map", "addfb", "cursor"} : obj[t] = o => LookupCount(o) > 0
  BY <1>1, Finite DEF LookupCount, Sources
<1>5. \A f : \A c \in Clients : grab_fb[c] = f => GrabCount(f) > 0
  BY <1>1, Finite DEF GrabCount, Sources
<1> QED BY <1>2, <1>3, <1>4, <1>5

\* What is held is counted, so it is there.
InUse ==
    /\ \A t \in Threads \ {"import"} : obj[t] # NoObj => obj[t] \in Objects /\ refs[obj[t]] > 0
    /\ cursor.obj # NoObj => refs[cursor.obj] > 0
    /\ \A file \in Files : \A o \in vmas[file] \cup handles[file] : refs[o] > 0
    /\ \A o \in dmabufs : refs[o] > 0
    /\ \A f \in Fbs : fb_obj[f] # NoObj => refs[fb_obj[f]] > 0
    /\ \A f \in Fbs : /\ f \in ids \/ plane = f \/ scanout_fb = f => fb_refs[f] > 0
                      /\ \A c \in Clients : grab_fb[c] = f => fb_refs[f] > 0
                      /\ fb_refs[f] > 0 => fb_obj[f] \in Objects
    /\ \A o \in Objects : state[o] # "live" => refs[o] = 0

LEMMA HeldIsInUse == TypeOK /\ Control /\ ObjectRefsExact /\ FbRefsExact => InUse
<1> SUFFICES ASSUME TypeOK, Control, ObjectRefsExact, FbRefsExact PROVE InUse
  OBVIOUS
<1>1. \A o \in Objects :
         /\ HasHandle(handles, o) => refs[o] > 0
         /\ FbCount(o) > 0 \/ VmaCount(o) > 0 \/ LookupCount(o) > 0 => refs[o] > 0
         /\ o \in dmabufs => refs[o] > 0
         /\ cursor.obj = o => refs[o] > 0
  <2> TAKE o \in Objects
  <2>1. refs[o] = HandleCount(handles, o) + FbCount(o) + VmaCount(o)
                        + Count(o \in dmabufs) + Count(cursor.obj = o) + LookupCount(o)
    BY HoldersAre DEF ObjectRefsExact
  <2> QED BY <2>1, CountsAreNat, CountNat, HandleCounts DEF Count
<1>2. \A f \in Fbs : /\ f \in ids \/ plane = f \/ scanout_fb = f => fb_refs[f] > 0
                     /\ \A c \in Clients : grab_fb[c] = f => fb_refs[f] > 0
                     /\ fb_refs[f] > 0 => fb_obj[f] \in Objects
  <2> TAKE f \in Fbs
  <2>1. /\ fb_refs[f] = Count(f \in ids) + Count(plane = f) + Count(scanout_fb = f) + GrabCount(f)
        /\ fb_obj[f] # NoObj <=> fb_refs[f] > 0
    BY DEF FbRefsExact, GrabCount, Sources
  <2>2. f \in ids \/ plane = f \/ scanout_fb = f => fb_refs[f] > 0
    BY <2>1, CountsAreNat, CountNat, HandleCounts DEF Count
  <2>3. GrabCount(f) > 0 => fb_refs[f] > 0
    BY <2>1, CountsAreNat, CountNat
  <2> QED BY <2>1, <2>2, <2>3, CountPositive DEF TypeOK
<1>3. \A f \in Fbs : fb_obj[f] # NoObj => refs[fb_obj[f]] > 0
  BY <1>1, CountPositive DEF TypeOK
<1>4. \A file \in Files : \A o \in vmas[file] \cup handles[file] : refs[o] > 0
  BY <1>1, CountPositive DEF TypeOK, HasHandle
<1>5. \A t \in Threads \ {"import"} : obj[t] # NoObj => obj[t] \in Objects /\ refs[obj[t]] > 0
  <2> SUFFICES ASSUME NEW t \in Threads \ {"import"}, obj[t] # NoObj
               PROVE  obj[t] \in Objects /\ refs[obj[t]] > 0
    OBVIOUS
  <2>1. obj[t] \in Objects /\ pc[t] # "idle"
    BY DEF TypeOK, Control
  <2>2. CASE t \in {"map", "addfb", "cursor"}
    BY <1>1, <2>1, <2>2, CountPositive
  <2>3. CASE t = "dma"
    BY <1>1, <2>1, <2>3 DEF Control
  <2>4. CASE t \in Clients
    BY <1>2, <1>3, <2>1, <2>4 DEF Control
  <2> QED BY <2>2, <2>3, <2>4, Names
<1>6. \A o \in Objects : state[o] # "live" => refs[o] = 0
  BY DEF ObjectRefsExact, TypeOK
<1> QED BY <1>1, <1>2, <1>3, <1>4, <1>5, <1>6 DEF InUse, TypeOK

-----------------------------------------------------------------------------
(* Putting references.                                                     *)

\* What is put for the last time is freed, with its pages and its mapping; the
\* others keep theirs.
LEMMA PutInv ==
    ASSUME TypeOK, Control, Memory, Attach, \A o \in Objects : state[o] = "live" <=> refs[o] > 0,
           NEW counts \in [Objects -> Nat], \A o \in Objects : counts[o] > 0 => refs[o] > 0,
           PutObjects(counts), overlap' = overlap, obj'["import"] = obj["import"],
           offsets' \subseteq Objects, offsets \subseteq offsets',
           \A o \in offsets' : o \in offsets \/ pages[o],
           \A file \in Files : vmas'[file] \subseteq vmas[file]
    PROVE  /\ refs' = counts /\ state' \in [Objects -> {"new", "live", "freed", "lost"}]
           /\ pages' \in [Objects -> BOOLEAN] /\ vmapping' \in [Objects -> BOOLEAN]
           /\ pinned' \in [Objects -> Nat] /\ mapped' \in [Objects -> Nat]
           /\ device_refs' \in Nat /\ attachments' \subseteq Objects
           /\ \A o \in Objects : /\ state'[o] = "live" <=> refs'[o] > 0
                                 /\ state'[o] = "new" <=> state[o] = "new"
                                 /\ refs'[o] > 0 => /\ pages'[o] = pages[o]
                                                    /\ vmapping'[o] = vmapping[o]
           /\ Memory' /\ Attach'
<1> DEFINE gone == {o \in Objects : state[o] = "live" /\ counts[o] = 0}
<1>1. /\ refs' = counts
      /\ state' = [o \in Objects |-> IF o \in gone THEN "freed" ELSE state[o]]
      /\ mapped' = [o \in Objects |-> mapped[o] - Count(o \in gone /\ vmapping[o])]
      /\ pinned' = [o \in Objects |-> pinned[o] - Count(o \in gone /\ pages[o])]
      /\ vmapping' = [o \in Objects |-> vmapping[o] /\ o \notin gone]
      /\ pages' = [o \in Objects |-> pages[o] /\ o \notin gone]
      /\ device_refs' = device_refs - Cardinality(gone \cap Imports)
      /\ attachments' = attachments \ gone
  BY DEF PutObjects, FreeObjects
<1>2. \A o \in Objects : (o \in gone <=> state[o] = "live" /\ counts[o] = 0) /\ counts[o] \in Nat
  OBVIOUS
<1> HIDE DEF gone
<1>3. \A o \in Objects :
         /\ state[o] \in {"new", "live", "freed", "lost"} /\ pages[o] \in BOOLEAN
         /\ vmapping[o] \in BOOLEAN /\ pinned[o] \in Nat /\ mapped[o] \in Nat
         /\ MemoryOf(o)
  BY DEF TypeOK, Memory
<1>4. \A o \in Objects :
         /\ mapped'[o] = mapped[o] - Count(o \in gone /\ vmapping[o]) /\ mapped'[o] \in Nat
         /\ pinned'[o] = pinned[o] - Count(o \in gone /\ pages[o]) /\ pinned'[o] \in Nat
  <2> TAKE o \in Objects
  <2>1. /\ mapped'[o] = mapped[o] - Count(o \in gone /\ vmapping[o])
        /\ pinned'[o] = pinned[o] - Count(o \in gone /\ pages[o])
    BY <1>1
  <2>2. (pages[o] => pinned[o] > 0) /\ (vmapping[o] => mapped[o] > 0)
    BY <1>3 DEF MemoryOf
  <2>3. mapped'[o] \in Nat
    BY <1>3, <2>1, <2>2 DEF Count
  <2>4. pinned'[o] \in Nat
    BY <1>3, <2>1, <2>2 DEF Count
  <2> QED BY <2>1, <2>3, <2>4
<1>5. /\ state' \in [Objects -> {"new", "live", "freed", "lost"}]
      /\ pages' \in [Objects -> BOOLEAN] /\ vmapping' \in [Objects -> BOOLEAN]
      /\ pinned' \in [Objects -> Nat] /\ mapped' \in [Objects -> Nat]
  BY <1>1, <1>3, <1>4
<1>6. \A o \in Objects : IF o \in gone
                         THEN state'[o] = "freed" /\ ~ pages'[o] /\ ~ vmapping'[o]
                         ELSE /\ state'[o] = state[o] /\ pages'[o] = pages[o]
                              /\ vmapping'[o] = vmapping[o] /\ pinned'[o] = pinned[o]
                              /\ mapped'[o] = mapped[o]
  <2> TAKE o \in Objects
  <2>1. CASE o \in gone
    BY <1>1, <1>3, <2>1
  <2>2. CASE o \notin gone
    BY <1>1, <1>3, <1>4, <2>2 DEF Count
  <2> QED BY <2>1, <2>2
<1>7. \A o \in Objects : /\ state'[o] = "live" <=> refs'[o] > 0
                         /\ state'[o] = "new" <=> state[o] = "new"
                         /\ refs'[o] > 0 => /\ pages'[o] = pages[o]
                                            /\ vmapping'[o] = vmapping[o]
  BY <1>1, <1>2, <1>3, <1>6
<1>8. Memory'
  <2> SUFFICES ASSUME NEW o \in Objects PROVE MemoryOf(o)'
    BY DEF Memory
  <2>1. MemoryOf(o) /\ (o \in offsets' => o \in offsets \/ pages[o])
    BY <1>3
  <2>2. CASE o \in gone
    <3>1. o \notin overlap => mapped'[o] = 0 /\ pinned'[o] = 0
      BY <1>3, <1>4, <2>1, <2>2 DEF MemoryOf, Count
    <3> QED BY <1>6, <2>1, <2>2, <3>1 DEF MemoryOf, Count
  <2>3. CASE o \notin gone
    BY <1>3, <1>6, <2>1, <2>3 DEF MemoryOf
  <2> QED BY <2>2, <2>3
<1>9. device_refs' \in Nat /\ Attach'
  <2>1. attachments \cap gone = gone \cap Imports
    BY <1>2, ObjectsAssumption DEF Attach
  <2>2. /\ IsFiniteSet(attachments \ gone) /\ Cardinality(attachments \ gone) \in Nat
        /\ Cardinality(attachments \ gone) = Cardinality(attachments) - Cardinality(gone \cap Imports)
    <3>1. IsFiniteSet(attachments)
      BY DEF Attach
    <3>2. /\ IsFiniteSet(attachments \ gone)
          /\ Cardinality(attachments \ gone) = Cardinality(attachments) - Cardinality(attachments \cap gone)
      BY <3>1, FS_Difference
    <3>3. Cardinality(attachments \ gone) \in Nat
      BY <3>2, FS_CardinalityType
    <3> QED BY <2>1, <3>2, <3>3
  <2>3. attachments' = {o \in Imports : state'[o] = "live" \/ obj'["import"] = o}
    <3>1. \A o \in Objects : obj["import"] = o => state[o] = "new"
      BY Names, ObjectsAssumption DEF Control
    <3>2. \A o \in Imports : o \in attachments \ gone <=> state'[o] = "live" \/ obj'["import"] = o
      <4> TAKE o \in Imports
      <4>1. o \in Objects /\ (o \in attachments <=> state[o] = "live" \/ obj["import"] = o)
        BY ObjectsAssumption DEF Attach
      <4>2. CASE o \in gone
        BY <1>2, <1>6, <3>1, <4>1, <4>2
      <4>3. CASE o \notin gone
        BY <1>6, <4>1, <4>3
      <4> QED BY <4>2, <4>3
    <3>3. attachments \subseteq Imports
      BY DEF Attach
    <3> QED BY <1>1, <3>2, <3>3
  <2> QED BY <1>1, <2>2, <2>3 DEF Attach
<1>10. attachments' \subseteq Objects
  BY <1>1 DEF TypeOK
<1> QED BY <1>1, <1>5, <1>7, <1>8, <1>9, <1>10

\* A framebuffer nobody refers to any more lets go of its object.
LEMMA PutFbsInv ==
    ASSUME TypeOK, FbRefsExact, NEW counts \in [Fbs -> Nat], NEW gone \in SUBSET Fbs,
           \A f \in Fbs : counts[f] > 0 => fb_refs[f] > 0,
           \A f \in Fbs : f \in gone <=> fb_refs[f] > 0 /\ counts[f] = 0,
           fb_refs' = counts, fb_obj' \in [Fbs -> Objects \cup {NoObj}],
           \A f \in Fbs : fb_obj'[f] = IF f \in gone THEN NoObj ELSE fb_obj[f]
    PROVE  /\ fb_obj' \in [Fbs -> Objects \cup {NoObj}] /\ fb_refs' \in [Fbs -> Nat]
           /\ \A f \in Fbs : fb_obj'[f] # NoObj <=> fb_refs'[f] > 0
           /\ \A f \in Fbs : fb_refs'[f] > 0 => fb_obj'[f] = fb_obj[f]
<1>1. \A f \in Fbs : /\ fb_obj[f] # NoObj <=> fb_refs[f] > 0
                     /\ fb_obj[f] \in Objects \cup {NoObj}
                     /\ fb_refs[f] \in Nat /\ counts[f] \in Nat
  BY DEF TypeOK, FbRefsExact
<1>2. \A f \in Fbs : fb_obj'[f] # NoObj <=> fb_refs'[f] > 0
  BY <1>1
<1>3. \A f \in Fbs : fb_refs'[f] > 0 => fb_obj'[f] = fb_obj[f]
  BY <1>1
<1> QED BY <1>1, <1>2, <1>3

\* The object loses those that let go.
LEMMA PutFbsCount ==
    ASSUME NEW o \in Objects, NEW gone \in SUBSET Fbs,
           \A f \in Fbs : fb_obj'[f] = IF f \in gone THEN NoObj ELSE fb_obj[f]
    PROVE  /\ Cardinality(Sources(gone, fb_obj, o)) \in Nat
           /\ FbCount(o)' = FbCount(o) - Cardinality(Sources(gone, fb_obj, o))
<1> DEFINE A == {f \in Fbs : fb_obj[f] = o}
           K == {f \in gone : fb_obj[f] = o}
<1>1. IsFiniteSet(A) /\ IsFiniteSet(K) /\ Cardinality(K) \in Nat
  BY Finite, FS_Subset, FS_CardinalityType
<1>2. A \cap K = K
  OBVIOUS
<1>3. {f \in Fbs : fb_obj'[f] = o} = A \ K
  BY ObjectsAssumption
<1>4. Cardinality(A \ K) = Cardinality(A) - Cardinality(K)
  <2> HIDE DEF A, K
  <2> QED BY <1>1, <1>2, FS_Difference
<1> QED BY <1>1, <1>3, <1>4 DEF FbCount, Sources

\* A step after which no thread maps or has mapped what it did not before.
LEMMA MappersKept ==
    ASSUME TypeOK, Control, Mappers, Control', InUse', overlap' = overlap,
           \A o \in Objects : refs'[o] > 0 => pages'[o] = pages[o] /\ vmapping'[o] = vmapping[o],
           \A t \in Threads : \/ pc'[t] = pc[t] /\ obj'[t] = obj[t]
                              \/ pc'[t] \notin {"pages", "pin", "vmap", "done", "compose"}
                              \/ obj'[t] = NoObj
                              \/ pc[t] = "done" /\ pc'[t] = "compose" /\ obj'[t] = obj[t],
           \/ cursor'.obj \in {cursor.obj, NoObj}
           \/ pc["cursor"] = "done" /\ cursor'.obj = obj["cursor"]
    PROVE  Mappers'
<1>1. \A o \in Objects, t \in Threads :
         /\ Mapping(t, o)' => /\ t # "import" /\ refs'[o] > 0
                              /\ Mapping(t, o) /\ pc'[t] = pc[t]
         /\ obj'[t] = o /\ t \notin {"map", "dma"} /\ pc'[t] \in {"done", "compose"} =>
               refs'[o] > 0 /\ obj[t] = o /\ pc[t] \in {"done", "compose"}
  <2> TAKE o \in Objects, t \in Threads
  <2>1. o # NoObj
    BY ObjectsAssumption
  <2>2. obj'[t] = o /\ pc'[t] \in {"pages", "pin", "vmap", "done", "compose"} => t # "import"
    BY DEF Control
  <2>3. obj'[t] = o /\ pc'[t] \in {"pages", "pin", "vmap", "done", "compose"} => refs'[o] > 0
    BY <2>1, <2>2 DEF InUse
  <2> QED BY <2>1, <2>2, <2>3 DEF Mapping
<1>2. \A o \in Objects \ overlap : MapperOf(o)'
  <2> SUFFICES ASSUME NEW o \in Objects \ overlap PROVE MapperOf(o)'
    OBVIOUS
  <2>1. MapperOf(o)
    BY DEF Mappers
  <2>2. \A t \in Threads : Mapping(t, o)' =>
          /\ \A u \in Threads : Mapping(u, o)' => u = t
          /\ pc'[t] = "pin" => ~ pages'[o]
          /\ t \notin {"map", "dma"} => ~ vmapping'[o]
    BY <1>1, <2>1 DEF MapperOf
  <2>3. \A t \in Threads \ {"map", "dma"} :
          obj'[t] = o /\ pc'[t] \in {"done", "compose"} => vmapping'[o]
    BY <1>1, <2>1 DEF MapperOf
  <2>4. cursor'.obj = o => vmapping'[o]
    <3>1. cursor'.obj = o => refs'[o] > 0 /\ vmapping[o]
      BY <2>1, ObjectsAssumption, Names DEF InUse, MapperOf
    <3> QED BY <3>1
  <2> QED BY <2>2, <2>3, <2>4 DEF MapperOf
<1>3. pc'["map"] = "done" => pages'[obj'["map"]]
  <2> SUFFICES ASSUME pc'["map"] = "done" PROVE pages'[obj'["map"]]
    OBVIOUS
  <2>1. obj'["map"] \in Objects /\ obj'["map"] # NoObj /\ "map" \in Threads
    BY Names, ObjectsAssumption DEF Control
  <2>2. pc["map"] = "done" /\ obj'["map"] = obj["map"] /\ refs'[obj["map"]] > 0
    BY <2>1 DEF InUse
  <2> QED BY <2>1, <2>2 DEF Mappers
<1> QED BY <1>2, <1>3 DEF Mappers

-----------------------------------------------------------------------------
(* Making pages and a mapping.                                             *)

\* A step that changes who holds what neither for objects nor for framebuffers.
LEMMA HoldersKept ==
    ASSUME IInv, UNCHANGED <<state, refs, fileVars, fbVars, painterVars, primeVars, obj, grab_fb>>
    PROVE  ObjectRefsExact' /\ FbRefsExact' /\ Attach' /\ (Control' /\ TypeOK' => InUse')
<1>1. \A o : Holders(o)' = Holders(o)
  BY DEF Holders, HasHandle, FbsOf, Lookups, fileVars, fbVars, painterVars, primeVars
<1>2. ObjectRefsExact'
  BY <1>1 DEF IInv, ObjectRefsExact
<1>3. FbRefsExact'
  BY DEF IInv, FbRefsExact, fbVars, painterVars
<1>4. Attach'
  BY DEF IInv, Attach, primeVars
<1>5. TypeOK' /\ Control' /\ ObjectRefsExact' /\ FbRefsExact' => InUse'
  BY HeldIsInUse, PTL
<1> QED BY <1>2, <1>3, <1>4, <1>5

\* The thread that is mapping holds its object.
LEMMA MapperHolds ==
    ASSUME IInv, NEW t \in Threads, pc[t] \in {"check", "pages", "pin", "vmap"}
    PROVE  /\ obj[t] \in Objects /\ refs[obj[t]] > 0 /\ state[obj[t]] = "live"
           /\ t \in Clients \cup {"map", "dma", "cursor"}
           /\ t \in {"map", "dma"} <=> t \notin Clients \cup {"cursor"}
           /\ t \in {"map", "dma"} => pc[t] \in {"pages", "pin"}
<1>1. t \in Clients \cup {"map", "dma", "cursor"}
  BY Names DEF IInv, Control
<1>2. obj[t] \in Objects
  BY <1>1, Names DEF IInv, Control
<1>3. InUse
  BY HeldIsInUse DEF IInv
<1>4. refs[obj[t]] > 0 /\ state[obj[t]] = "live"
  BY <1>1, <1>2, <1>3, Names, ObjectsAssumption DEF InUse, IInv, TypeOK
<1> QED BY <1>1, <1>2, <1>4, Names DEF IInv, Control

LEMMA CheckMappingInv ==
    ASSUME IInv, NEW t \in Threads, CheckMapping(t), users' = users
    PROVE  IInv'
<1>0. TypeOK /\ Control /\ ObjectRefsExact /\ FbRefsExact /\ Memory /\ Attach /\ Mappers
  BY DEF IInv
<1>1. PICK o \in Objects : o = obj[t]
  BY MapperHolds DEF CheckMapping
<1>2. PICK step \in {"done", "vmap", "pages"} :
         /\ pc[t] = "check" /\ pc' = [pc EXCEPT ![t] = step]
         /\ step = "done" => vmapping[o] /\ overlap' = overlap
         /\ step # "done" => ~ vmapping[o] /\ Enter(t, o)
         /\ UNCHANGED <<objVars, fileVars, fbVars, painterVars, primeVars, obj, grab_fb>>
  BY <1>1 DEF CheckMapping, Goto
<1>3. t \in Clients \cup {"cursor"}
  BY <1>2, MapperHolds
<1>4. /\ pc'[t] = step /\ \A u \in Threads \ {t} : pc'[u] = pc[u]
      /\ overlap' \in SUBSET Objects /\ overlap \subseteq overlap' /\ overlap' \subseteq overlap \cup {o}
  BY <1>0, <1>2 DEF TypeOK, Enter
<1>5. TypeOK'
  <2>1. pc' \in [Threads -> Steps]
    BY <1>0, <1>2 DEF TypeOK, Steps
  <2> QED BY <1>0, <1>2, <2>1, <1>4, Types, TypesKept DEF ObjTypes, ThreadTypes, objVars
<1>6. Control'
  BY <1>0, <1>1, <1>2, <1>3, <1>4, Names
     DEF Control, objVars, fileVars, fbVars, painterVars, primeVars
<1>7. ObjectRefsExact' /\ FbRefsExact' /\ Attach'
  BY <1>2, HoldersKept DEF objVars
<1>8. Memory'
  <2>1. state[o] = "live"
    BY <1>1, <1>2, MapperHolds
  <2> QED BY <1>0, <1>2, <1>4, <2>1 DEF Memory, MemoryOf, objVars, fileVars
<1>9. Mappers'
  <2>1. pc'["map"] = pc["map"]
    BY <1>3, <1>4, Names
  <2> SUFFICES ASSUME NEW p \in Objects \ overlap' PROVE MapperOf(p)'
    BY <1>0, <1>2, <2>1 DEF Mappers, objVars
  <2>2. MapperOf(p)
    BY <1>0, <1>4 DEF Mappers
  <2>3. CASE p # o
    <3>1. \A u \in Threads : obj[u] = p => pc'[u] = pc[u] /\ obj'[u] = obj[u]
      BY <1>1, <1>2, <1>4, <2>3
    <3>2. \A u \in Threads : obj'[u] = obj[u]
      BY <1>2
    <3> QED BY <1>2, <2>2, <3>1, <3>2 DEF MapperOf, Mapping, objVars, painterVars
  <2>4. CASE p = o
    <3>1. \A u \in Threads \ {t} : step # "done" => ~ Mapping(u, o)
      BY <1>2, <1>4, <2>4 DEF Enter
    <3>2. \A u \in Threads \ {t} : Mapping(u, o)' <=> Mapping(u, o)
      BY <1>2, <1>4 DEF Mapping
    <3>3. Mapping(t, o)' <=> step # "done"
      BY <1>1, <1>2, <1>4 DEF Mapping
    <3>4. CASE step = "done"
      BY <1>2, <1>4, <2>2, <2>4, <3>2, <3>3, <3>4 DEF MapperOf, objVars, painterVars
    <3>5. CASE step # "done"
      <4>1. \A u \in Threads : Mapping(u, o)' <=> u = t
        BY <3>1, <3>2, <3>3, <3>5
      <4> QED BY <1>2, <1>4, <2>2, <2>4, <3>5, <4>1 DEF MapperOf, objVars, painterVars
    <3> QED BY <3>4, <3>5
  <2> QED BY <2>3, <2>4
<1> QED BY <1>5, <1>6, <1>7, <1>8, <1>9 DEF IInv

LEMMA CheckPagesInv ==
    ASSUME IInv, NEW t \in Threads, CheckPages(t), users' = users
    PROVE  IInv'
<1>0. TypeOK /\ Control /\ ObjectRefsExact /\ FbRefsExact /\ Memory /\ Attach /\ Mappers
  BY DEF IInv
<1>1. PICK o \in Objects : o = obj[t]
  BY MapperHolds DEF CheckPages
<1>2. PICK step \in {"done", "vmap", "pin"} :
         /\ pc[t] = "pages" /\ pc' = [pc EXCEPT ![t] = step]
         /\ step = "done" => pages[o] /\ t \in {"map", "dma"}
         /\ step = "vmap" => t \notin {"map", "dma"}
         /\ step = "pin" => ~ pages[o]
         /\ UNCHANGED <<objVars, fileVars, fbVars, painterVars, primeVars, obj, grab_fb, overlap>>
  BY <1>1 DEF CheckPages, Goto, AfterPages
<1>3. t \in Clients \cup {"map", "dma", "cursor"}
  BY <1>2, MapperHolds
<1>4. pc'[t] = step /\ \A u \in Threads \ {t} : pc'[u] = pc[u]
  BY <1>0, <1>2 DEF TypeOK
<1>5. TypeOK'
  <2>1. pc' \in [Threads -> Steps]
    BY <1>0, <1>2 DEF TypeOK, Steps
  <2> QED BY <1>0, <1>2, <2>1, Types, TypesKept DEF ObjTypes, ThreadTypes, objVars
<1>6. Control'
  BY <1>0, <1>1, <1>2, <1>3, <1>4, Names
     DEF Control, objVars, fileVars, fbVars, painterVars, primeVars
<1>7. ObjectRefsExact' /\ FbRefsExact' /\ Attach'
  BY <1>2, HoldersKept DEF objVars
<1>8. Memory'
  BY <1>0, <1>2 DEF Memory, MemoryOf, objVars, fileVars
<1>9. Mappers'
  <2>1. pc'["map"] = "done" => pages'[obj'["map"]]
    <3>1. CASE t = "map"
      BY <1>1, <1>2, <1>4, <3>1 DEF objVars
    <3>2. CASE t # "map"
      BY <1>0, <1>2, <1>4, <3>2, Names DEF Mappers, objVars
    <3> QED BY <3>1, <3>2
  <2> SUFFICES ASSUME NEW p \in Objects \ overlap PROVE MapperOf(p)'
    BY <1>2, <2>1 DEF Mappers
  <2>2. MapperOf(p)
    BY <1>0 DEF Mappers
  <2>3. \A u \in Threads : Mapping(u, p)' => Mapping(u, p)
    BY <1>2, <1>4 DEF Mapping
  <2>4. \A u \in Threads \ {"map", "dma"} :
           obj'[u] = p /\ pc'[u] \in {"done", "compose"} =>
              obj[u] = p /\ pc[u] \in {"done", "compose"}
    BY <1>2, <1>4
  <2>5. \A u \in Threads : Mapping(u, p)' =>
          /\ \A v \in Threads : Mapping(v, p)' => v = u
          /\ pc'[u] = "pin" => ~ pages'[p]
          /\ u \notin {"map", "dma"} => ~ vmapping'[p]
    <3> TAKE u \in Threads
    <3> HAVE Mapping(u, p)'
    <3>1. CASE u = t
      <4>1. p = o
        BY <1>1, <1>2, <3>1 DEF Mapping
      <4> QED BY <1>2, <1>4, <2>2, <2>3, <3>1, <4>1 DEF MapperOf, objVars
    <3>2. CASE u # t
      BY <1>2, <1>4, <2>2, <2>3, <3>2 DEF MapperOf, objVars
    <3> QED BY <3>1, <3>2
  <2> QED BY <1>2, <2>2, <2>4, <2>5 DEF MapperOf, objVars, painterVars
<1> QED BY <1>5, <1>6, <1>7, <1>8, <1>9 DEF IInv

LEMMA PinPagesInv ==
    ASSUME IInv, NEW t \in Threads, PinPages(t), users' = users
    PROVE  IInv'
<1>0. TypeOK /\ Control /\ ObjectRefsExact /\ FbRefsExact /\ Memory /\ Attach /\ Mappers
  BY DEF IInv
<1>1. PICK o \in Objects : o = obj[t] /\ state[o] = "live"
  BY MapperHolds DEF PinPages
<1>2. PICK step \in {"done", "vmap", "failed"} :
         /\ pc[t] = "pin" /\ pc' = [pc EXCEPT ![t] = step]
         /\ step = "vmap" => t \notin {"map", "dma"}
         /\ step = "done" => t \in {"map", "dma"}
         /\ step = "failed" => UNCHANGED <<pages, pinned>>
         /\ step # "failed" => pages' = [pages EXCEPT ![o] = TRUE] /\ pinned' = Up(pinned, o)
         /\ UNCHANGED <<state, refs, vmapping, mapped, fileVars, fbVars, painterVars, primeVars,
                        obj, grab_fb, overlap>>
  BY <1>1 DEF PinPages, Goto, AfterPages
<1>3. t \in Clients \cup {"map", "dma", "cursor"}
  BY <1>2, MapperHolds
<1>4. pc'[t] = step /\ \A u \in Threads \ {t} : pc'[u] = pc[u]
  BY <1>0, <1>2 DEF TypeOK
<1>5. /\ pages' \in [Objects -> BOOLEAN] /\ pinned' \in [Objects -> Nat]
      /\ \A p \in Objects \ {o} : pages'[p] = pages[p] /\ pinned'[p] = pinned[p]
      /\ pages[o] => pages'[o]
      /\ step # "failed" => pages'[o] /\ pinned'[o] = pinned[o] + 1
      /\ step = "failed" => pages'[o] = pages[o] /\ pinned'[o] = pinned[o]
  <2>1. CASE step = "failed"
    BY <1>0, <1>2, <2>1 DEF TypeOK
  <2>2. CASE step # "failed"
    <3>1. pinned \in [Objects -> Int] /\ \A p \in Objects : pinned[p] \in Nat
      BY <1>0 DEF TypeOK
    <3>2. /\ pinned' \in [Objects -> Int]
          /\ \A p \in Objects : pinned'[p] = pinned[p] + Count(p = o)
      BY <1>2, <2>2, <3>1, UpType
    <3>3. \A p \in Objects : pinned'[p] \in Nat /\ (p # o => pinned'[p] = pinned[p])
      BY <3>1, <3>2 DEF Count
    <3>4. pinned'[o] = pinned[o] + 1
      BY <3>2 DEF Count
    <3> QED BY <1>0, <1>2, <2>2, <3>2, <3>3, <3>4 DEF TypeOK
  <2> QED BY <2>1, <2>2
<1>6. TypeOK'
  <2>1. pc' \in [Threads -> Steps]
    BY <1>0, <1>2 DEF TypeOK, Steps
  <2> QED BY <1>0, <1>2, <2>1, <1>5, Types, TypesKept DEF ObjTypes, ThreadTypes
<1>7. Control'
  BY <1>0, <1>1, <1>2, <1>3, <1>4, Names DEF Control, fileVars, fbVars, painterVars, primeVars
<1>8. ObjectRefsExact' /\ FbRefsExact' /\ Attach'
  BY <1>2, HoldersKept
<1>9. Mapping(t, o) /\ (o \notin overlap => ~ pages[o])
  BY <1>0, <1>1, <1>2 DEF Mapping, Mappers, MapperOf
<1>10. Memory'
  <2> SUFFICES ASSUME NEW p \in Objects PROVE MemoryOf(p)'
    BY DEF Memory
  <2>1. MemoryOf(p) /\ pinned[p] \in Nat /\ pages[p] \in BOOLEAN
    BY <1>0 DEF Memory, TypeOK
  <2>2. CASE p # o
    BY <1>2, <1>5, <2>1, <2>2 DEF MemoryOf, fileVars
  <2>3. CASE p = o /\ step = "failed"
    BY <1>2, <1>5, <2>1, <2>3 DEF MemoryOf, fileVars
  <2>4. CASE p = o /\ step # "failed"
    <3>1. p \notin overlap => pinned'[p] = Count(pages'[p])
      BY <1>5, <1>9, <2>1, <2>4 DEF MemoryOf, Count
    <3>2. pinned'[p] > 0 /\ pages'[p]
      BY <1>5, <2>1, <2>4
    <3> QED BY <1>1, <1>2, <2>1, <2>4, <3>1, <3>2 DEF MemoryOf, fileVars
  <2> QED BY <2>2, <2>3, <2>4
<1>11. Mappers'
  <2>1. pc'["map"] = "done" => pages'[obj'["map"]]
    <3>1. CASE t = "map"
      BY <1>1, <1>2, <1>4, <1>5, <3>1
    <3>2. CASE t # "map"
      <4>1. pc["map"] = "done" => pages[obj["map"]] /\ obj["map"] \in Objects
        BY <1>0, Names DEF Mappers, Control
      <4> QED BY <1>2, <1>4, <1>5, <3>2, <4>1, Names
    <3> QED BY <3>1, <3>2
  <2> SUFFICES ASSUME NEW p \in Objects \ overlap PROVE MapperOf(p)'
    BY <1>2, <2>1 DEF Mappers
  <2>2. MapperOf(p)
    BY <1>0 DEF Mappers
  <2>3. \A u \in Threads : Mapping(u, p)' => Mapping(u, p)
    BY <1>2, <1>4 DEF Mapping
  <2>4. \A u \in Threads \ {"map", "dma"} :
           obj'[u] = p /\ pc'[u] \in {"done", "compose"} =>
              obj[u] = p /\ pc[u] \in {"done", "compose"}
    BY <1>2, <1>4
  <2>5. \A u \in Threads : Mapping(u, p)' =>
          /\ \A v \in Threads : Mapping(v, p)' => v = u
          /\ pc'[u] = "pin" => ~ pages'[p]
          /\ u \notin {"map", "dma"} => ~ vmapping'[p]
    <3> TAKE u \in Threads
    <3> HAVE Mapping(u, p)'
    <3>1. CASE p = o
      <4>1. u = t
        BY <1>9, <2>2, <2>3, <3>1 DEF MapperOf
      <4> QED BY <1>2, <1>4, <2>2, <2>3, <4>1 DEF MapperOf
    <3>2. CASE p # o
      <4>1. u # t
        BY <1>1, <1>2, <3>2 DEF Mapping
      <4> QED BY <1>2, <1>4, <1>5, <2>2, <2>3, <3>2, <4>1 DEF MapperOf
    <3> QED BY <3>1, <3>2
  <2> QED BY <1>2, <2>2, <2>4, <2>5 DEF MapperOf, painterVars
<1> QED BY <1>6, <1>7, <1>8, <1>10, <1>11 DEF IInv

LEMMA VmapInv ==
    ASSUME IInv, NEW t \in Threads, Vmap(t), users' = users
    PROVE  IInv'
<1>0. TypeOK /\ Control /\ ObjectRefsExact /\ FbRefsExact /\ Memory /\ Attach /\ Mappers
  BY DEF IInv
<1>1. PICK o \in Objects : o = obj[t] /\ state[o] = "live"
  BY MapperHolds DEF Vmap
<1>2. PICK step \in {"done", "failed"} :
         /\ pc[t] = "vmap" /\ pc' = [pc EXCEPT ![t] = step]
         /\ vmapping' = [vmapping EXCEPT ![o] = (step = "done")]
         /\ step = "failed" => UNCHANGED mapped
         /\ step = "done" => mapped' = Up(mapped, o)
         /\ UNCHANGED <<state, refs, pages, pinned, fileVars, fbVars, painterVars, primeVars,
                        obj, grab_fb, overlap>>
  BY <1>1 DEF Vmap, Goto
<1>3. t \in Clients \cup {"cursor"} /\ t \notin {"map", "dma"}
  BY <1>2, MapperHolds, Names
<1>4. pc'[t] = step /\ \A u \in Threads \ {t} : pc'[u] = pc[u]
  BY <1>0, <1>2 DEF TypeOK
<1>5. /\ vmapping' \in [Objects -> BOOLEAN] /\ mapped' \in [Objects -> Nat]
      /\ \A p \in Objects \ {o} : vmapping'[p] = vmapping[p] /\ mapped'[p] = mapped[p]
      /\ vmapping'[o] <=> step = "done"
      /\ mapped'[o] = mapped[o] + Count(step = "done")
  <2>1. CASE step = "failed"
    <3>1. Count(step = "done") = 0
      BY <2>1 DEF Count
    <3>2. mapped' = mapped /\ mapped \in [Objects -> Nat] /\ vmapping \in [Objects -> BOOLEAN]
      BY <1>0, <1>2, <2>1 DEF TypeOK
    <3>3. vmapping' = [vmapping EXCEPT ![o] = FALSE]
      BY <1>2, <2>1
    <3> QED BY <2>1, <3>1, <3>2, <3>3
  <2>2. CASE step = "done"
    <3>1. mapped \in [Objects -> Int] /\ \A p \in Objects : mapped[p] \in Nat
      BY <1>0 DEF TypeOK
    <3>2. /\ mapped' \in [Objects -> Int]
          /\ \A p \in Objects : mapped'[p] = mapped[p] + Count(p = o)
      BY <1>2, <2>2, <3>1, UpType
    <3>3. \A p \in Objects : mapped'[p] \in Nat /\ (p # o => mapped'[p] = mapped[p])
      BY <3>1, <3>2 DEF Count
    <3>4. mapped'[o] = mapped[o] + 1
      BY <3>2 DEF Count
    <3> QED BY <1>0, <1>2, <2>2, <3>2, <3>3, <3>4 DEF TypeOK, Count
  <2> QED BY <2>1, <2>2
<1>6. TypeOK'
  <2>1. pc' \in [Threads -> Steps]
    BY <1>0, <1>2 DEF TypeOK, Steps
  <2> QED BY <1>0, <1>2, <2>1, <1>5, Types, TypesKept DEF ObjTypes, ThreadTypes
<1>7. Control'
  BY <1>0, <1>1, <1>2, <1>3, <1>4, Names DEF Control, fileVars, fbVars, painterVars, primeVars
<1>8. ObjectRefsExact' /\ FbRefsExact' /\ Attach'
  BY <1>2, HoldersKept
<1>9. Mapping(t, o) /\ (o \notin overlap => ~ vmapping[o])
  BY <1>0, <1>1, <1>2, <1>3 DEF Mapping, Mappers, MapperOf
<1>10. Memory'
  <2> SUFFICES ASSUME NEW p \in Objects PROVE MemoryOf(p)'
    BY DEF Memory
  <2>1. MemoryOf(p) /\ mapped[p] \in Nat /\ vmapping[p] \in BOOLEAN
    BY <1>0 DEF Memory, TypeOK
  <2>2. CASE p # o
    BY <1>2, <1>5, <2>1, <2>2 DEF MemoryOf, fileVars
  <2>3. CASE p = o
    <3>1. p \notin overlap => mapped'[p] = Count(vmapping'[p])
      BY <1>5, <1>9, <2>1, <2>3 DEF MemoryOf, Count
    <3>2. vmapping'[p] => mapped'[p] > 0
      BY <1>5, <2>1, <2>3 DEF Count
    <3> QED BY <1>1, <1>2, <2>1, <2>3, <3>1, <3>2 DEF MemoryOf, fileVars
  <2> QED BY <2>2, <2>3
<1>11. Mappers'
  <2>1. pc'["map"] = "done" => pages'[obj'["map"]]
    BY <1>0, <1>2, <1>3, <1>4, Names DEF Mappers
  <2> SUFFICES ASSUME NEW p \in Objects \ overlap PROVE MapperOf(p)'
    BY <1>2, <2>1 DEF Mappers
  <2>2. MapperOf(p)
    BY <1>0 DEF Mappers
  <2>3. \A u \in Threads : Mapping(u, p)' => Mapping(u, p) /\ u # t
    BY <1>2, <1>4 DEF Mapping
  <2>4. \A u \in Threads \ {"map", "dma"} :
           obj'[u] = p /\ pc'[u] \in {"done", "compose"} => vmapping'[p]
    <3> TAKE u \in Threads \ {"map", "dma"}
    <3> HAVE obj'[u] = p /\ pc'[u] \in {"done", "compose"}
    <3>1. CASE u = t
      BY <1>1, <1>2, <1>4, <1>5, <3>1
    <3>2. CASE u # t
      <4>1. vmapping[p]
        BY <1>2, <1>4, <2>2, <3>2 DEF MapperOf
      <4> QED BY <1>5, <1>9, <4>1
    <3> QED BY <3>1, <3>2
  <2>5. \A u \in Threads : Mapping(u, p)' =>
          /\ \A v \in Threads : Mapping(v, p)' => v = u
          /\ pc'[u] = "pin" => ~ pages'[p]
          /\ u \notin {"map", "dma"} => ~ vmapping'[p]
    <3> TAKE u \in Threads
    <3> HAVE Mapping(u, p)'
    <3>1. p # o
      BY <1>9, <2>2, <2>3 DEF MapperOf
    <3> QED BY <1>2, <1>4, <1>5, <2>2, <2>3, <3>1 DEF MapperOf
  <2>6. cursor'.obj = p => vmapping'[p]
    BY <1>2, <1>5, <1>9, <2>2 DEF MapperOf, painterVars
  <2> QED BY <2>4, <2>5, <2>6 DEF MapperOf
<1> QED BY <1>6, <1>7, <1>8, <1>10, <1>11 DEF IInv

-----------------------------------------------------------------------------
(* How a step changes the counts.                                          *)

LEMMA HeldIsInUseNext == TypeOK' /\ Control' /\ ObjectRefsExact' /\ FbRefsExact' => InUse'
BY HeldIsInUse, PTL

LEMMA HoldersNext ==
    /\ \A o : Holders(o)' = HandleCount(handles', o) + FbCount(o)' + VmaCount(o)'
                        + Count(o \in dmabufs') + Count(cursor'.obj = o) + LookupCount(o)'
    /\ \A o : FbCount(o)' \in Nat /\ VmaCount(o)' \in Nat /\ LookupCount(o)' \in Nat
    /\ \A o : Holders(o)' \in Nat
    /\ \A f : GrabCount(f)' \in Nat
<1>1. \A o : Holders(o)' = HandleCount(handles', o) + FbCount(o)' + VmaCount(o)'
                        + Count(o \in dmabufs') + Count(cursor'.obj = o) + LookupCount(o)'
  BY DEF Holders, FbsOf, Lookups, HandleCount, FbCount, VmaCount, LookupCount, Sources, HasHandle
<1>2. /\ \A o : FbCount(o)' \in Nat /\ VmaCount(o)' \in Nat /\ LookupCount(o)' \in Nat
      /\ \A o : Holders(o)' \in Nat
      /\ \A f : GrabCount(f)' \in Nat
  <2>1. \A o : FbCount(o)' \in Nat
    BY Finite, FS_Subset, FS_CardinalityType DEF FbCount, Sources
  <2>2. \A o : VmaCount(o)' \in Nat
    BY Finite, FS_Subset, FS_CardinalityType DEF VmaCount
  <2>3. \A o : LookupCount(o)' \in Nat
    BY Finite, FS_Subset, FS_CardinalityType DEF LookupCount, Sources
  <2>4. \A f : GrabCount(f)' \in Nat
    BY Finite, FS_Subset, FS_CardinalityType DEF GrabCount, Sources
  <2> QED BY <1>1, <2>1, <2>2, <2>3, <2>4, CountNat, HandleCounts
<1> QED BY <1>1, <1>2

\* What the refs of an invariant state are, term by term.
LEMMA RefsAre ==
    ASSUME ObjectRefsExact, NEW o \in Objects
    PROVE  /\ refs[o] = HandleCount(handles, o) + FbCount(o) + VmaCount(o)
                        + Count(o \in dmabufs) + Count(cursor.obj = o) + LookupCount(o)
           /\ FbCount(o) \in Nat /\ VmaCount(o) \in Nat /\ LookupCount(o) \in Nat
           /\ state[o] = "live" <=> refs[o] > 0
BY HoldersAre, CountsAreNat DEF ObjectRefsExact

LEMMA CountsSame ==
    /\ fb_obj' = fb_obj => \A o : FbCount(o)' = FbCount(o)
    /\ vmas' = vmas => \A o : VmaCount(o)' = VmaCount(o)
    /\ (\A t \in {"map", "addfb", "cursor"} : obj'[t] = obj[t]) =>
          \A o : LookupCount(o)' = LookupCount(o)
    /\ grab_fb' = grab_fb => \A f : GrabCount(f)' = GrabCount(f)
<1>1. (\A t \in {"map", "addfb", "cursor"} : obj'[t] = obj[t]) =>
         \A o : Sources({"map", "addfb", "cursor"}, obj', o) = Sources({"map", "addfb", "cursor"}, obj, o)
  BY DEF Sources
<1> QED BY <1>1 DEF FbCount, VmaCount, LookupCount, GrabCount

LEMMA LookupMoves ==
    ASSUME NEW t \in {"map", "addfb", "cursor"}, NEW o,
           \A u \in {"map", "addfb", "cursor"} \ {t} : obj'[u] = obj[u]
    PROVE  LookupCount(o)' = LookupCount(o) + Count(obj'[t] = o) - Count(obj[t] = o)
<1>1. Cardinality(Sources({"map", "addfb", "cursor"}, obj', o)) =
         Cardinality(Sources({"map", "addfb", "cursor"}, obj, o)) + Hit(obj', t, o) - Hit(obj, t, o)
  BY Finite, Moved
<1> QED BY <1>1 DEF LookupCount, Hit

LEMMA FbMoves ==
    ASSUME NEW f \in Fbs, NEW o, \A g \in Fbs \ {f} : fb_obj'[g] = fb_obj[g]
    PROVE  FbCount(o)' = FbCount(o) + Count(fb_obj'[f] = o) - Count(fb_obj[f] = o)
<1>1. Cardinality(Sources(Fbs, fb_obj', o)) =
         Cardinality(Sources(Fbs, fb_obj, o)) + Hit(fb_obj', f, o) - Hit(fb_obj, f, o)
  BY Finite, Moved
<1> QED BY <1>1 DEF FbCount, Hit

LEMMA GrabMoves ==
    ASSUME NEW c \in Clients, NEW f, \A d \in Clients \ {c} : grab_fb'[d] = grab_fb[d]
    PROVE  GrabCount(f)' = GrabCount(f) + Count(grab_fb'[c] = f) - Count(grab_fb[c] = f)
<1>1. Cardinality(Sources(Clients, grab_fb', f)) =
         Cardinality(Sources(Clients, grab_fb, f)) + Hit(grab_fb', c, f) - Hit(grab_fb, c, f)
  BY Finite, Moved
<1> QED BY <1>1 DEF GrabCount, Hit

\* A framebuffer's count when neither it nor what refers to it changes.
LEMMA FbRefsKept ==
    ASSUME FbRefsExact, UNCHANGED <<fbVars, scanout_fb, grab_fb>>
    PROVE  FbRefsExact'
BY DEF FbRefsExact, fbVars

\* Memory and attachments when they, and who is live, do not change.
LEMMA MemoryKept ==
    ASSUME Memory, UNCHANGED <<state, pages, vmapping, pinned, mapped, overlap, vmas>>,
           offsets' = offsets
    PROVE  Memory'
BY DEF Memory, MemoryOf

LEMMA AttachKept ==
    ASSUME Attach, UNCHANGED <<state, attachments, device_refs>>, obj'["import"] = obj["import"]
    PROVE  Attach'
BY DEF Attach

-----------------------------------------------------------------------------
(* The two kinds of step: those that take references, and those that put   *)
(* them.                                                                   *)

\* No thread maps or has mapped what it did not before, and the cursor shows nothing
\* that the thread which changes it has not mapped.
MapsNothingNew ==
    /\ \A t \in Threads : \/ pc'[t] = pc[t] /\ obj'[t] = obj[t]
                          \/ pc'[t] \notin {"pages", "pin", "vmap", "done", "compose"}
                          \/ obj'[t] = NoObj
                          \/ pc[t] = "done" /\ pc'[t] = "compose" /\ obj'[t] = obj[t]
    /\ \/ cursor'.obj \in {cursor.obj, NoObj}
       \/ pc["cursor"] = "done" /\ cursor'.obj = obj["cursor"]

\* A step that changes no object but counts the references it takes.
LEMMA TakeRest ==
    ASSUME IInv, refs' \in [Objects -> Int],
           \A o \in Objects : refs'[o] = Holders(o)' /\ (refs'[o] > 0 <=> refs[o] > 0),
           UNCHANGED <<state, pages, vmapping, pinned, mapped, offsets, attachments, device_refs,
                       users>>,
           overlap \subseteq overlap',
           \A o \in overlap' \ overlap : o \in Objects /\ state[o] = "live",
           obj'["import"] = obj["import"],
           FileTypes', FbTypes', PainterTypes', ThreadTypes',
           dmabufs' \subseteq Objects, importers' \subseteq Objects,
           \A file \in Files : vmas'[file] \subseteq vmas[file] \cup offsets,
           FbRefsExact', Control'
    PROVE  TypeOK' /\ ObjectRefsExact' /\ Memory' /\ Attach' /\ InUse'
<1>0. TypeOK /\ Control /\ ObjectRefsExact /\ FbRefsExact /\ Memory /\ Attach /\ Mappers
  BY DEF IInv
<1>1. refs' \in [Objects -> Nat]
  BY HoldersNext
<1>2. overlap' \subseteq Objects
  BY <1>0 DEF TypeOK
<1>3. TypeOK'
  <2>1. ObjTypes' /\ PrimeTypes'
    BY <1>0, <1>1, Types DEF ObjTypes, PrimeTypes
  <2> QED BY <1>0, <1>2, <2>1, Types
<1>4. ObjectRefsExact'
  BY <1>0 DEF ObjectRefsExact
<1>5. Memory'
  <2> SUFFICES ASSUME NEW o \in Objects PROVE MemoryOf(o)'
    BY DEF Memory
  <2> QED BY <1>0 DEF Memory, MemoryOf
<1>6. Attach'
  BY <1>0, AttachKept
<1> QED BY <1>3, <1>4, <1>5, <1>6, HeldIsInUseNext

LEMMA TakeStep ==
    ASSUME IInv, refs' \in [Objects -> Int],
           \A o \in Objects : refs'[o] = Holders(o)' /\ (refs'[o] > 0 <=> refs[o] > 0),
           UNCHANGED <<state, pages, vmapping, pinned, mapped, offsets, attachments, device_refs,
                       users, overlap>>,
           obj'["import"] = obj["import"],
           FileTypes', FbTypes', PainterTypes', ThreadTypes',
           dmabufs' \subseteq Objects, importers' \subseteq Objects,
           \A file \in Files : vmas'[file] \subseteq vmas[file] \cup offsets,
           FbRefsExact', Control', MapsNothingNew
    PROVE  IInv'
<1>1. TypeOK' /\ ObjectRefsExact' /\ Memory' /\ Attach' /\ InUse'
  BY TakeRest
<1>2. Mappers'
  BY <1>1, MappersKept DEF IInv, MapsNothingNew
<1> QED BY <1>1, <1>2 DEF IInv

LEMMA PutStep ==
    ASSUME IInv, NEW counts, PutObjects(counts), counts \in [Objects -> Int],
           \A o \in Objects : counts[o] = Holders(o)' /\ (counts[o] > 0 => refs[o] > 0),
           UNCHANGED <<users, overlap>>, obj'["import"] = obj["import"],
           FileTypes', FbTypes', PainterTypes', ThreadTypes',
           dmabufs' \subseteq Objects, importers' \subseteq Objects,
           offsets \subseteq offsets', \A o \in offsets' : o \in offsets \/ pages[o],
           \A file \in Files : vmas'[file] \subseteq vmas[file],
           FbRefsExact', (\A o \in Objects : state'[o] = "new" <=> state[o] = "new") => Control',
           MapsNothingNew
    PROVE  IInv'
<1>0. TypeOK /\ Control /\ ObjectRefsExact /\ FbRefsExact /\ Memory /\ Attach /\ Mappers
  BY DEF IInv
<1>1. counts \in [Objects -> Nat]
  BY HoldersNext
<1>2. offsets' \subseteq Objects
  BY DEF FileTypes
<1>3. /\ refs' = counts /\ state' \in [Objects -> {"new", "live", "freed", "lost"}]
      /\ pages' \in [Objects -> BOOLEAN] /\ vmapping' \in [Objects -> BOOLEAN]
      /\ pinned' \in [Objects -> Nat] /\ mapped' \in [Objects -> Nat]
      /\ device_refs' \in Nat /\ attachments' \subseteq Objects
      /\ \A o \in Objects : /\ state'[o] = "live" <=> refs'[o] > 0
                            /\ state'[o] = "new" <=> state[o] = "new"
                            /\ refs'[o] > 0 => /\ pages'[o] = pages[o]
                                               /\ vmapping'[o] = vmapping[o]
      /\ Memory' /\ Attach'
  BY <1>0, <1>1, <1>2, PutInv DEF ObjectRefsExact
<1>4. TypeOK'
  <2>1. ObjTypes' /\ PrimeTypes'
    BY <1>1, <1>3 DEF ObjTypes, PrimeTypes
  <2> QED BY <1>0, <2>1, Types
<1>5. Control'
  BY <1>3
<1>6. ObjectRefsExact'
  BY <1>3 DEF ObjectRefsExact
<1>7. Mappers'
  BY <1>0, <1>3, <1>4, <1>5, <1>6, HeldIsInUseNext, MappersKept DEF MapsNothingNew
<1> QED BY <1>3, <1>4, <1>5, <1>6, <1>7 DEF IInv

\* A file gets one more handle of an object that is in use.
LEMMA HandleAddInv ==
    ASSUME IInv, NEW file \in Files, NEW o \in Objects, refs[o] > 0,
           handles' \in [Files -> SUBSET Objects], handles'[file] = handles[file] \cup {o},
           \A g \in Files \ {file} : handles'[g] = handles[g],
           refs' \in [Objects -> Int],
           \A p \in Objects :
              refs'[p] = refs[p] + HandleCount(handles', p) - HandleCount(handles, p),
           UNCHANGED <<state, pages, vmapping, pinned, mapped, offsets, vmas, fbVars, painterVars,
                       primeVars, obj, grab_fb, overlap, users>>,
           pc' = pc \/ (pc["cursor"] = "send" /\ pc' = [pc EXCEPT !["cursor"] = "idle"])
    PROVE  IInv'
<1>0. TypeOK /\ Control /\ ObjectRefsExact /\ FbRefsExact /\ Memory /\ Attach /\ Mappers
  BY DEF IInv
<1>1. \A p \in Objects : HasHandle(handles', p) <=> HasHandle(handles, p) \/ p = o
  BY DEF HasHandle
<1>2. \A p \in Objects : refs'[p] = Holders(p)'
  <2> TAKE p \in Objects
  <2>1. FbCount(p)' = FbCount(p) /\ VmaCount(p)' = VmaCount(p) /\ LookupCount(p)' = LookupCount(p)
    BY CountsSame DEF fbVars
  <2>2. /\ refs[p] = HandleCount(handles, p) + FbCount(p) + VmaCount(p)
                      + Count(p \in dmabufs) + Count(cursor.obj = p) + LookupCount(p)
        /\ HandleCount(handles, p) \in {0, 1} /\ HandleCount(handles', p) \in {0, 1}
        /\ Count(p \in dmabufs) \in {0, 1} /\ Count(cursor.obj = p) \in {0, 1}
    BY <1>0, RefsAre, CountNat, HandleCounts
  <2>3. /\ Holders(p)' = HandleCount(handles', p) + FbCount(p) + VmaCount(p)
                      + Count(p \in dmabufs) + Count(cursor.obj = p) + LookupCount(p)
        /\ FbCount(p) \in Nat /\ VmaCount(p) \in Nat /\ LookupCount(p) \in Nat
    BY <2>1, HoldersNext, CountsAreNat DEF painterVars, primeVars
  <2> QED BY <2>2, <2>3
<1>3. \A p \in Objects : refs'[p] > 0 <=> refs[p] > 0
  <2> TAKE p \in Objects
  <2>1. CASE p = o
    <3>1. HandleCount(handles', p) = 1 /\ HandleCount(handles, p) \in {0, 1}
      BY <1>1, <2>1, HandleCounts
    <3> QED BY <1>0, <2>1, <3>1 DEF TypeOK
  <2>2. CASE p # o
    <3>1. /\ HandleCount(handles', p) = HandleCount(handles, p)
          /\ HandleCount(handles, p) \in {0, 1}
      BY <1>1, <2>2, HandleCounts
    <3> QED BY <1>0, <3>1 DEF TypeOK
  <2> QED BY <2>1, <2>2
<1>4. FileTypes' /\ FbTypes' /\ PainterTypes' /\ ThreadTypes'
  <2>1. FileTypes'
    BY <1>0, Types DEF FileTypes
  <2>2. ThreadTypes'
    BY <1>0, Types DEF ThreadTypes, Steps
  <2> QED BY <1>0, <2>1, <2>2, Types, TypesKept
<1>5. Control'
  BY <1>0, Names DEF Control, fbVars, painterVars, primeVars, TypeOK
<1>6. FbRefsExact'
  BY <1>0, FbRefsKept DEF painterVars
<1>7. /\ MapsNothingNew /\ dmabufs' \subseteq Objects /\ importers' \subseteq Objects
      /\ UNCHANGED <<attachments, device_refs>>
      /\ \A g \in Files : vmas'[g] \subseteq vmas[g] \cup offsets
  BY <1>0, Names DEF MapsNothingNew, painterVars, primeVars, TypeOK
<1> QED BY <1>2, <1>3, <1>4, <1>5, <1>6, <1>7, TakeStep

\* An ioctl looks an object up and begins.
LEMMA LookupInv ==
    ASSUME IInv, NEW t \in {"addfb", "cursor"}, NEW o \in Objects \cup {NoObj},
           o # NoObj => refs[o] > 0, t = "addfb" => o # NoObj,
           pc[t] = "idle", refs' = Up(refs, o),
           pc' = [pc EXCEPT ![t] = IF t = "addfb" THEN "init" ELSE "lock"],
           obj' = [obj EXCEPT ![t] = o],
           UNCHANGED <<state, pages, vmapping, pinned, mapped, fileVars, fbVars, painterVars,
                       primeVars, grab_fb, overlap, users>>
    PROVE  IInv'
<1>0. TypeOK /\ Control /\ ObjectRefsExact /\ FbRefsExact /\ Memory /\ Attach /\ Mappers
  BY DEF IInv
<1>1. /\ t \in Threads /\ pc'[t] = (IF t = "addfb" THEN "init" ELSE "lock")
      /\ \A u \in Threads \ {t} : pc'[u] = pc[u]
      /\ obj'[t] = o /\ \A u \in Threads \ {t} : obj'[u] = obj[u]
      /\ obj[t] = NoObj
  BY <1>0, Names DEF TypeOK, Control
<1>2. refs' \in [Objects -> Int] /\ \A p \in Objects : refs'[p] = refs[p] + Count(p = o)
  BY <1>0, UpType DEF TypeOK
<1>3. \A p \in Objects : refs'[p] = Holders(p)' /\ (refs'[p] > 0 <=> refs[p] > 0)
  <2> TAKE p \in Objects
  <2>1. FbCount(p)' = FbCount(p) /\ VmaCount(p)' = VmaCount(p)
    BY CountsSame DEF fbVars, fileVars
  <2>2. LookupCount(p)' = LookupCount(p) + Count(p = o)
    <3>1. \A u \in {"map", "addfb", "cursor"} \ {t} : obj'[u] = obj[u]
      BY <1>1, Names
    <3>2. LookupCount(p)' = LookupCount(p) + Count(obj'[t] = p) - Count(obj[t] = p)
      BY <3>1, LookupMoves
    <3>3. Count(obj[t] = p) = 0 /\ Count(obj'[t] = p) = Count(p = o)
      BY <1>1, ObjectsAssumption DEF Count
    <3> QED BY <3>2, <3>3, CountsAreNat, CountNat
  <2>3. Holders(p)' = refs[p] + Count(p = o)
    <3>1. Holders(p)' = HandleCount(handles, p) + FbCount(p) + VmaCount(p)
                        + Count(p \in dmabufs) + Count(cursor.obj = p) + LookupCount(p)
                        + Count(p = o)
      BY <2>1, <2>2, HoldersNext, CountsAreNat, CountNat, HandleCounts
         DEF fileVars, painterVars, primeVars
    <3> QED BY <1>0, <3>1, RefsAre
  <2>4. refs[p] \in Nat /\ Count(p = o) \in {0, 1} /\ (Count(p = o) = 1 => refs[p] > 0)
    <3>1. refs[p] \in Nat /\ (p = o => refs[p] > 0)
      BY <1>0, ObjectsAssumption DEF TypeOK
    <3> QED BY <3>1 DEF Count
  <2> QED BY <1>2, <2>3, <2>4
<1>4. FileTypes' /\ FbTypes' /\ PainterTypes' /\ ThreadTypes'
  <2>1. ThreadTypes'
    BY <1>0, Types DEF ThreadTypes, Steps
  <2> QED BY <1>0, <2>1, Types, TypesKept
<1>5. Control'
  BY <1>0, <1>1, Names DEF Control, fbVars, painterVars, primeVars
<1>6. FbRefsExact'
  BY <1>0, FbRefsKept DEF painterVars
<1>7. /\ MapsNothingNew /\ dmabufs' \subseteq Objects /\ importers' \subseteq Objects
      /\ UNCHANGED <<offsets, attachments, device_refs>> /\ obj'["import"] = obj["import"]
      /\ \A g \in Files : vmas'[g] \subseteq vmas[g] \cup offsets
  BY <1>0, <1>1, Names DEF MapsNothingNew, painterVars, primeVars, fileVars, TypeOK
<1> QED BY <1>2, <1>3, <1>4, <1>5, <1>6, <1>7, TakeStep

\* An ioctl puts the object it looked up, and may leave an offset to map it at.
LEMMA LookupEndInv ==
    ASSUME IInv, NEW t \in {"map", "addfb", "cursor"}, NEW step, pc[t] # "idle",
           PutObjects(Down(refs, obj[t])), obj' = [obj EXCEPT ![t] = NoObj],
           pc' = [pc EXCEPT ![t] = step],
           step = "idle" \/ (step = "send" /\ t = "cursor"),
           offsets \subseteq offsets', \A o \in offsets' \ offsets : o \in Objects /\ pages[o],
           UNCHANGED <<handles, vmas, fbVars, painterVars, dmabufs, importers, grab_fb,
                       overlap, users>>
    PROVE  IInv'
<1>0. TypeOK /\ Control /\ ObjectRefsExact /\ FbRefsExact /\ Memory /\ Attach /\ Mappers
  BY DEF IInv
<1>1. /\ t \in Threads /\ pc'[t] = step /\ \A u \in Threads \ {t} : pc'[u] = pc[u]
      /\ obj'[t] = NoObj /\ \A u \in Threads \ {t} : obj'[u] = obj[u]
  BY <1>0, Names DEF TypeOK
<1>2. PICK counts \in [Objects -> Int] :
         /\ PutObjects(counts)
         /\ \A o \in Objects : counts[o] = refs[o] - Count(o = obj[t])
  BY <1>0, UpType DEF TypeOK
<1>3. \A o \in Objects : counts[o] = Holders(o)' /\ (counts[o] > 0 => refs[o] > 0)
  <2> TAKE o \in Objects
  <2>1. /\ FbCount(o)' = FbCount(o) /\ VmaCount(o)' = VmaCount(o)
        /\ LookupCount(o)' = LookupCount(o) + Count(NoObj = o) - Count(obj[t] = o)
    <3>1. \A u \in {"map", "addfb", "cursor"} \ {t} : obj'[u] = obj[u]
      BY <1>1, Names
    <3>2. LookupCount(o)' = LookupCount(o) + Count(obj'[t] = o) - Count(obj[t] = o)
      BY <3>1, LookupMoves
    <3> QED BY <1>1, <3>2, CountsSame DEF fbVars
  <2>2. Count(NoObj = o) = 0 /\ Count(obj[t] = o) = Count(o = obj[t])
    BY ObjectsAssumption DEF Count
  <2>3. HasHandle(handles', o) <=> HasHandle(handles, o)
    BY DEF HasHandle
  <2>4. Holders(o)' = refs[o] - Count(o = obj[t])
    BY <1>0, <2>1, <2>2, <2>3, HoldersNext, RefsAre, CountNat, HandleCounts DEF painterVars
  <2> QED BY <1>0, <1>2, <2>4, CountNat DEF TypeOK
<1>4. FileTypes' /\ FbTypes' /\ PainterTypes' /\ ThreadTypes'
  <2>1. FileTypes'
    BY <1>0, Types DEF FileTypes
  <2>2. ThreadTypes'
    BY <1>0, Types DEF ThreadTypes, Steps
  <2> QED BY <1>0, <2>1, <2>2, Types, TypesKept
<1>5. ASSUME \A o \in Objects : state'[o] = "new" <=> state[o] = "new" PROVE Control'
  BY <1>0, <1>1, <1>5, ObjectsAssumption, Names DEF Control, fbVars, painterVars
<1>6. FbRefsExact'
  BY <1>0, FbRefsKept DEF painterVars
<1>7. /\ MapsNothingNew /\ dmabufs' \subseteq Objects /\ importers' \subseteq Objects
      /\ obj'["import"] = obj["import"]
      /\ \A o \in offsets' : o \in offsets \/ pages[o]
      /\ \A g \in Files : vmas'[g] \subseteq vmas[g]
  BY <1>0, <1>1, Names DEF MapsNothingNew, painterVars, TypeOK
<1> QED BY <1>2, <1>3, <1>4, <1>5, <1>6, <1>7, PutStep

-----------------------------------------------------------------------------
(* Dumb buffers, their handles and their memory mappings.                  *)

LEMMA HandleRefsAre ==
    ASSUME TypeOK, NEW table
    PROVE  /\ HandleRefs(table) \in [Objects -> Int]
           /\ \A o \in Objects : HandleRefs(table)[o] =
                 refs[o] + HandleCount(table, o) - HandleCount(handles, o)
<1>1. \A o \in Objects : HandleRefs(table)[o] =
                 refs[o] + HandleCount(table, o) - HandleCount(handles, o)
  BY DEF HandleRefs, HandleCount
<1>2. \A o \in Objects : refs[o] + HandleCount(table, o) - HandleCount(handles, o) \in Int
  <2> TAKE o \in Objects
  <2>1. refs[o] \in Int /\ HandleCount(table, o) \in Int /\ HandleCount(handles, o) \in Int
    BY HandleCounts DEF TypeOK
  <2> QED BY <2>1
<1>3. HandleRefs(table) =
         [o \in Objects |-> refs[o] + HandleCount(table, o) - HandleCount(handles, o)]
  BY DEF HandleRefs, HandleCount
<1> QED BY <1>1, <1>2, <1>3

LEMMA VmaMoves ==
    ASSUME NEW file \in Files, NEW o,
           \A g \in Files \ {file} : o \in vmas'[g] <=> o \in vmas[g]
    PROVE  /\ o \in vmas'[file] /\ o \notin vmas[file] => VmaCount(o)' = VmaCount(o) + 1
           /\ o \notin vmas'[file] /\ o \in vmas[file] => VmaCount(o)' = VmaCount(o) - 1
           /\ (o \in vmas'[file] <=> o \in vmas[file]) => VmaCount(o)' = VmaCount(o)
<1> DEFINE A == {g \in Files : o \in vmas[g]}
           B == {g \in Files : o \in vmas'[g]}
<1>1. IsFiniteSet(A) /\ IsFiniteSet(B) /\ Cardinality(A) \in Nat /\ Cardinality(B) \in Nat
  BY Finite, FS_Subset, FS_CardinalityType
<1>2. VmaCount(o) = Cardinality(A) /\ VmaCount(o)' = Cardinality(B)
  BY DEF VmaCount
<1>3. CASE o \in vmas'[file] /\ o \notin vmas[file]
  <2>1. B = A \cup {file} /\ file \notin A
    BY <1>3
  <2> QED BY <1>1, <1>2, <1>3, <2>1, FS_AddElement
<1>4. CASE o \notin vmas'[file] /\ o \in vmas[file]
  <2>1. A = B \cup {file} /\ file \notin B
    BY <1>4
  <2> QED BY <1>1, <1>2, <1>4, <2>1, FS_AddElement
<1>5. CASE o \in vmas'[file] <=> o \in vmas[file]
  <2>1. A = B
    BY <1>5
  <2> QED BY <1>2, <1>5, <2>1
<1> QED BY <1>3, <1>4, <1>5

\* A file loses handles.
LEMMA HandleDropInv ==
    ASSUME IInv, NEW file \in Files, NEW counts \in [Objects -> Int], PutObjects(counts),
           handles' \in [Files -> SUBSET Objects], handles'[file] \subseteq handles[file],
           \A g \in Files \ {file} : handles'[g] = handles[g],
           \A o \in Objects :
              counts[o] = refs[o] + HandleCount(handles', o) - HandleCount(handles, o),
           UNCHANGED <<offsets, vmas, fbVars, painterVars, dmabufs, importers, threadVars,
                       overlap, users>>
    PROVE  IInv'
<1>0. TypeOK /\ Control /\ ObjectRefsExact /\ FbRefsExact /\ Memory /\ Attach /\ Mappers
  BY DEF IInv
<1>1. UNCHANGED <<pc, obj, grab_fb>>
  BY DEF threadVars
<1>2. \A o \in Objects : counts[o] = Holders(o)' /\ (counts[o] > 0 => refs[o] > 0)
  <2> TAKE o \in Objects
  <2>1. FbCount(o)' = FbCount(o) /\ VmaCount(o)' = VmaCount(o) /\ LookupCount(o)' = LookupCount(o)
    BY <1>1, CountsSame DEF fbVars
  <2>2. /\ refs[o] = HandleCount(handles, o) + FbCount(o) + VmaCount(o)
                      + Count(o \in dmabufs) + Count(cursor.obj = o) + LookupCount(o)
        /\ refs[o] \in Nat
        /\ HandleCount(handles, o) \in {0, 1} /\ HandleCount(handles', o) \in {0, 1}
        /\ Count(o \in dmabufs) \in {0, 1} /\ Count(cursor.obj = o) \in {0, 1}
    BY <1>0, RefsAre, CountNat, HandleCounts DEF TypeOK
  <2>3. /\ Holders(o)' = HandleCount(handles', o) + FbCount(o) + VmaCount(o)
                      + Count(o \in dmabufs) + Count(cursor.obj = o) + LookupCount(o)
        /\ FbCount(o) \in Nat /\ VmaCount(o) \in Nat /\ LookupCount(o) \in Nat
    BY <2>1, HoldersNext, CountsAreNat DEF painterVars
  <2>4. HandleCount(handles', o) = 1 => HandleCount(handles, o) = 1
    <3>1. HasHandle(handles', o) => HasHandle(handles, o)
      BY DEF HasHandle
    <3> QED BY <3>1, HandleCounts
  <2> QED BY <2>2, <2>3, <2>4
<1>3. FileTypes' /\ FbTypes' /\ PainterTypes' /\ ThreadTypes'
  <2>1. FileTypes'
    BY <1>0, Types DEF FileTypes
  <2> QED BY <1>0, <2>1, Types, TypesKept
<1>4. ASSUME \A o \in Objects : state'[o] = "new" <=> state[o] = "new" PROVE Control'
  BY <1>0, <1>1, <1>4, ObjectsAssumption, Names DEF Control, fbVars, painterVars
<1>5. FbRefsExact'
  BY <1>0, <1>1, FbRefsKept DEF painterVars
<1>6. /\ MapsNothingNew /\ dmabufs' \subseteq Objects /\ importers' \subseteq Objects
      /\ obj'["import"] = obj["import"]
      /\ \A o \in offsets' : o \in offsets \/ pages[o]
      /\ \A g \in Files : vmas'[g] \subseteq vmas[g]
  BY <1>0, <1>1, Names DEF MapsNothingNew, painterVars, TypeOK
<1> QED BY <1>2, <1>3, <1>4, <1>5, <1>6, PutStep

LEMMA HandleCloseInv ==
    ASSUME IInv, NEW file \in Files, NEW o \in Objects, HandleClose(file, o), users' = users
    PROVE  IInv'
<1>1. PICK table : /\ handles' = table /\ table = [handles EXCEPT ![file] = @ \ {o}]
                   /\ PutObjects(HandleRefs(table))
  BY DEF HandleClose
<1>2. TypeOK
  BY DEF IInv
<1>3. PICK counts \in [Objects -> Int] :
         /\ PutObjects(counts)
         /\ \A p \in Objects :
               counts[p] = refs[p] + HandleCount(handles', p) - HandleCount(handles, p)
  <2>1. /\ HandleRefs(table) \in [Objects -> Int]
        /\ \A p \in Objects : HandleRefs(table)[p] =
                 refs[p] + HandleCount(table, p) - HandleCount(handles, p)
    BY <1>2, HandleRefsAre
  <2> QED BY <1>1, <2>1
<1>4. /\ handles' \in [Files -> SUBSET Objects] /\ handles'[file] \subseteq handles[file]
      /\ \A g \in Files \ {file} : handles'[g] = handles[g]
  BY <1>1, <1>2 DEF TypeOK
<1>5. UNCHANGED <<offsets, vmas, fbVars, painterVars, dmabufs, importers, threadVars,
                       overlap, users>>
  BY DEF HandleClose
<1> QED BY <1>3, <1>4, <1>5, HandleDropInv

LEMMA DumbCreateInv ==
    ASSUME IInv, NEW o \in Objects, DumbCreate(o), users' = users
    PROVE  IInv'
<1>0. TypeOK /\ Control /\ ObjectRefsExact /\ FbRefsExact /\ Memory /\ Attach /\ Mappers
  BY DEF IInv
<1>1. /\ o \notin Imports /\ state[o] = "new"
      /\ UNCHANGED <<pages, vmapping, pinned, mapped, offsets, vmas, fbVars, painterVars,
                     primeVars, threadVars, overlap>>
  BY DEF DumbCreate
<1>2. /\ state' \in [Objects -> {"new", "live", "freed", "lost"}] /\ refs' \in [Objects -> Nat]
      /\ handles' \in [Files -> SUBSET Objects]
      /\ state'[o] = "live" /\ refs'[o] = 1 /\ handles'[Compositor] = handles[Compositor] \cup {o}
      /\ \A p \in Objects \ {o} : state'[p] = state[p] /\ refs'[p] = refs[p]
      /\ \A g \in Files \ {Compositor} : handles'[g] = handles[g]
      /\ Compositor \in Files
  BY <1>0 DEF DumbCreate, TypeOK, Files
<1>3. UNCHANGED <<pc, obj, grab_fb>>
  BY <1>1 DEF threadVars
<1>4. refs[o] = 0
  BY <1>0, <1>1, RefsAre DEF TypeOK
<1>5. \A p \in Objects : refs'[p] = Holders(p)' /\ (state'[p] = "live" <=> refs'[p] > 0)
  <2> TAKE p \in Objects
  <2>1. FbCount(p)' = FbCount(p) /\ VmaCount(p)' = VmaCount(p) /\ LookupCount(p)' = LookupCount(p)
    BY <1>1, <1>3, CountsSame DEF fbVars
  <2>2. /\ refs[p] = HandleCount(handles, p) + FbCount(p) + VmaCount(p)
                      + Count(p \in dmabufs) + Count(cursor.obj = p) + LookupCount(p)
        /\ HandleCount(handles, p) \in {0, 1} /\ HandleCount(handles', p) \in {0, 1}
        /\ Count(p \in dmabufs) \in {0, 1} /\ Count(cursor.obj = p) \in {0, 1}
        /\ FbCount(p) \in Nat /\ VmaCount(p) \in Nat /\ LookupCount(p) \in Nat
    BY <1>0, RefsAre, CountNat, HandleCounts
  <2>3. Holders(p)' = HandleCount(handles', p) + FbCount(p) + VmaCount(p)
                      + Count(p \in dmabufs) + Count(cursor.obj = p) + LookupCount(p)
    BY <1>1, <2>1, HoldersNext, CountsAreNat DEF painterVars, primeVars
  <2>4. CASE p = o
    <3>1. HandleCount(handles', p) = 1
      BY <1>2, <2>4, HandleCounts DEF HasHandle
    <3> QED BY <1>2, <1>4, <2>2, <2>3, <2>4, <3>1
  <2>5. CASE p # o
    <3>1. HasHandle(handles', p) <=> HasHandle(handles, p)
      BY <1>2, <2>5 DEF HasHandle
    <3>2. HandleCount(handles', p) = HandleCount(handles, p)
      BY <2>2, <3>1, HandleCounts
    <3> QED BY <1>0, <1>2, <2>2, <2>3, <2>5, <3>2 DEF ObjectRefsExact
  <2> QED BY <2>4, <2>5
<1>6. ObjectRefsExact'
  BY <1>5 DEF ObjectRefsExact
<1>7. TypeOK'
  <2>1. ObjTypes' /\ FileTypes'
    BY <1>0, <1>1, <1>2, Types DEF ObjTypes, FileTypes
  <2> QED BY <1>0, <1>1, <2>1, Types, TypesKept
<1>8. Control'
  BY <1>0, <1>1, <1>2, <1>3, ObjectsAssumption, Names DEF Control, fbVars, painterVars, primeVars
<1>9. FbRefsExact'
  BY <1>0, <1>1, <1>3, FbRefsKept DEF painterVars
<1>10. Memory'
  <2> SUFFICES ASSUME NEW p \in Objects PROVE MemoryOf(p)'
    BY DEF Memory
  <2>1. CASE p = o
    BY <1>0, <1>1, <1>2, <2>1 DEF Memory, MemoryOf
  <2>2. CASE p # o
    BY <1>0, <1>1, <1>2, <2>2 DEF Memory, MemoryOf
  <2> QED BY <2>1, <2>2
<1>11. Attach'
  <2>1. \A p \in Imports : state'[p] = state[p]
    BY <1>1, <1>2, ObjectsAssumption
  <2>2. UNCHANGED <<attachments, device_refs>>
    BY <1>1 DEF primeVars
  <2> QED BY <1>0, <1>3, <2>1, <2>2 DEF Attach
<1>12. Mappers'
  BY <1>0, <1>1, <1>3, <1>6, <1>7, <1>8, <1>9, HeldIsInUseNext, MappersKept DEF painterVars
<1> QED BY <1>6, <1>7, <1>8, <1>9, <1>10, <1>11, <1>12 DEF IInv

LEMMA MmapInv ==
    ASSUME IInv, NEW file \in Files, NEW o \in Objects, Mmap(file, o), users' = users
    PROVE  IInv'
<1>0. TypeOK /\ Control /\ ObjectRefsExact /\ FbRefsExact /\ Memory /\ Attach /\ Mappers
  BY DEF IInv
<1>1. /\ o \in handles[file] /\ o \in offsets /\ o \notin vmas[file]
      /\ UNCHANGED <<state, pages, vmapping, pinned, mapped, handles, offsets, fbVars,
                     painterVars, primeVars, threadVars, overlap>>
  BY DEF Mmap
<1>2. /\ vmas' \in [Files -> SUBSET Objects] /\ vmas'[file] = vmas[file] \cup {o}
      /\ \A g \in Files \ {file} : vmas'[g] = vmas[g]
  BY <1>0 DEF Mmap, TypeOK
<1>3. refs' \in [Objects -> Int] /\ \A p \in Objects : refs'[p] = refs[p] + Count(p = o)
  BY <1>0, UpType DEF Mmap, TypeOK
<1>4. UNCHANGED <<pc, obj, grab_fb>> /\ refs[o] > 0
  BY <1>0, <1>1, HeldIsInUse DEF threadVars, InUse
<1>5. \A p \in Objects : refs'[p] = Holders(p)' /\ (refs'[p] > 0 <=> refs[p] > 0)
  <2> TAKE p \in Objects
  <2>1. FbCount(p)' = FbCount(p) /\ LookupCount(p)' = LookupCount(p)
    BY <1>1, <1>4, CountsSame DEF fbVars
  <2>2. VmaCount(p)' = VmaCount(p) + Count(p = o)
    <3>1. \A g \in Files \ {file} : p \in vmas'[g] <=> p \in vmas[g]
      BY <1>2
    <3>2. CASE p = o
      <4>1. VmaCount(p)' = VmaCount(p) + 1
        BY <1>1, <1>2, <3>1, <3>2, VmaMoves
      <4> QED BY <3>2, <4>1 DEF Count
    <3>3. CASE p # o
      <4>1. VmaCount(p)' = VmaCount(p)
        BY <1>2, <3>1, <3>3, VmaMoves
      <4> QED BY <3>3, <4>1, CountsAreNat DEF Count
    <3> QED BY <3>2, <3>3
  <2>3. Holders(p)' = refs[p] + Count(p = o)
    <3>1. Holders(p)' = HandleCount(handles, p) + FbCount(p) + VmaCount(p)
                        + Count(p \in dmabufs) + Count(cursor.obj = p) + LookupCount(p)
                        + Count(p = o)
      BY <1>1, <2>1, <2>2, HoldersNext, CountsAreNat, CountNat, HandleCounts
         DEF painterVars, primeVars
    <3> QED BY <1>0, <3>1, RefsAre
  <2>4. refs[p] \in Nat /\ (Count(p = o) = 1 => refs[p] > 0)
    <3>1. refs[p] \in Nat /\ (p = o => refs[p] > 0)
      BY <1>0, <1>4 DEF TypeOK
    <3> QED BY <3>1 DEF Count
  <2> QED BY <1>3, <2>3, <2>4, CountNat
<1>6. FileTypes' /\ FbTypes' /\ PainterTypes' /\ ThreadTypes'
  <2>1. FileTypes'
    BY <1>0, <1>1, <1>2, Types DEF FileTypes
  <2> QED BY <1>0, <1>1, <2>1, Types, TypesKept
<1>7. Control'
  BY <1>0, <1>1, <1>4, Names DEF Control, fbVars, painterVars, primeVars
<1>8. FbRefsExact'
  BY <1>0, <1>1, <1>4, FbRefsKept DEF painterVars
<1>9. /\ MapsNothingNew /\ dmabufs' \subseteq Objects /\ importers' \subseteq Objects
      /\ UNCHANGED <<attachments, device_refs>> /\ obj'["import"] = obj["import"]
      /\ \A g \in Files : vmas'[g] \subseteq vmas[g] \cup offsets
  BY <1>0, <1>1, <1>2, <1>4, Names DEF MapsNothingNew, painterVars, primeVars, TypeOK
<1> QED BY <1>1, <1>3, <1>5, <1>6, <1>7, <1>8, <1>9, TakeStep

LEMMA MunmapInv ==
    ASSUME IInv, NEW file \in Files, NEW o \in Objects, Munmap(file, o), users' = users
    PROVE  IInv'
<1>0. TypeOK /\ Control /\ ObjectRefsExact /\ FbRefsExact /\ Memory /\ Attach /\ Mappers
  BY DEF IInv
<1>1. /\ o \in vmas[file]
      /\ UNCHANGED <<handles, offsets, fbVars, painterVars, dmabufs, importers, threadVars, overlap>>
  BY DEF Munmap
<1>2. /\ vmas' \in [Files -> SUBSET Objects] /\ vmas'[file] = vmas[file] \ {o}
      /\ \A g \in Files \ {file} : vmas'[g] = vmas[g]
  BY <1>0 DEF Munmap, TypeOK
<1>3. PICK counts \in [Objects -> Int] :
         PutObjects(counts) /\ \A p \in Objects : counts[p] = refs[p] - Count(p = o)
  BY <1>0, UpType DEF Munmap, TypeOK
<1>4. UNCHANGED <<pc, obj, grab_fb>>
  BY <1>1 DEF threadVars
<1>5. \A p \in Objects : counts[p] = Holders(p)' /\ (counts[p] > 0 => refs[p] > 0)
  <2> TAKE p \in Objects
  <2>1. FbCount(p)' = FbCount(p) /\ LookupCount(p)' = LookupCount(p)
    BY <1>1, <1>4, CountsSame DEF fbVars
  <2>2. VmaCount(p)' = VmaCount(p) - Count(p = o)
    <3>1. \A g \in Files \ {file} : p \in vmas'[g] <=> p \in vmas[g]
      BY <1>2
    <3>2. CASE p = o
      <4>1. VmaCount(p)' = VmaCount(p) - 1
        BY <1>1, <1>2, <3>1, <3>2, VmaMoves
      <4> QED BY <3>2, <4>1 DEF Count
    <3>3. CASE p # o
      <4>1. VmaCount(p)' = VmaCount(p)
        BY <1>2, <3>1, <3>3, VmaMoves
      <4> QED BY <3>3, <4>1, CountsAreNat DEF Count
    <3> QED BY <3>2, <3>3
  <2>3. Holders(p)' = refs[p] - Count(p = o)
    <3>1. Holders(p)' = HandleCount(handles, p) + FbCount(p) + VmaCount(p)'
                        + Count(p \in dmabufs) + Count(cursor.obj = p) + LookupCount(p)
      BY <1>1, <2>1, HoldersNext DEF painterVars
    <3>2. refs[p] = HandleCount(handles, p) + FbCount(p) + VmaCount(p)
                        + Count(p \in dmabufs) + Count(cursor.obj = p) + LookupCount(p)
      BY <1>0, RefsAre
    <3>3. PICK m \in Nat, n \in Nat, k \in {0, 1} :
             m = VmaCount(p)' /\ n = VmaCount(p) /\ k = Count(p = o) /\ m = n - k
      BY <2>2, CountNat, CountsAreNat, HoldersNext
    <3>4. /\ Count(p \in dmabufs) \in {0, 1} /\ Count(cursor.obj = p) \in {0, 1}
          /\ HandleCount(handles, p) \in {0, 1} /\ FbCount(p) \in Nat /\ LookupCount(p) \in Nat
      BY CountNat, CountsAreNat, HandleCounts
    <3> QED BY <3>1, <3>2, <3>3, <3>4
  <2> QED BY <1>0, <1>3, <2>3, CountNat DEF TypeOK
<1>6. FileTypes' /\ FbTypes' /\ PainterTypes' /\ ThreadTypes'
  <2>1. FileTypes'
    BY <1>0, <1>1, <1>2, Types DEF FileTypes
  <2> QED BY <1>0, <1>1, <2>1, Types, TypesKept
<1>7. ASSUME \A p \in Objects : state'[p] = "new" <=> state[p] = "new" PROVE Control'
  BY <1>0, <1>1, <1>4, <1>7, ObjectsAssumption, Names DEF Control, fbVars, painterVars
<1>8. FbRefsExact'
  BY <1>0, <1>1, <1>4, FbRefsKept DEF painterVars
<1>9. /\ MapsNothingNew /\ dmabufs' \subseteq Objects /\ importers' \subseteq Objects
      /\ obj'["import"] = obj["import"]
      /\ \A p \in offsets' : p \in offsets \/ pages[p]
      /\ \A g \in Files : vmas'[g] \subseteq vmas[g]
  BY <1>0, <1>1, <1>2, <1>4, Names DEF MapsNothingNew, painterVars, TypeOK
<1> QED BY <1>1, <1>3, <1>5, <1>6, <1>7, <1>8, <1>9, PutStep

LEMMA MapDumbEndInv ==
    ASSUME IInv, MapDumbEnd, users' = users
    PROVE  IInv'
<1>1. /\ pc["map"] \in {"done", "failed"}
      /\ offsets' = (IF pc["map"] = "done" THEN offsets \cup {obj["map"]} ELSE offsets)
      /\ PutObjects(Down(refs, obj["map"]))
      /\ obj' = [obj EXCEPT !["map"] = NoObj] /\ pc' = [pc EXCEPT !["map"] = "idle"]
      /\ UNCHANGED <<handles, vmas, fbVars, painterVars, dmabufs, importers, grab_fb,
                     overlap, users>>
  BY DEF MapDumbEnd, End, Begin
<1>2. pc["map"] = "done" => pages[obj["map"]] /\ obj["map"] \in Objects
  BY Names DEF IInv, Mappers, Control
<1>3. offsets \subseteq offsets' /\ \A o \in offsets' \ offsets : o \in Objects /\ pages[o]
  BY <1>1, <1>2
<1> QED BY <1>1, <1>3, LookupEndInv

\* The mmap ioctl, or the device that imports, starts to get pages; if another thread
\* is mapping the object, the two are recorded.
LEMMA EnterMappers ==
    ASSUME TypeOK, Control, Mappers, NEW t \in {"map", "dma"}, NEW o \in Objects,
           pc[t] = "idle", pc' = [pc EXCEPT ![t] = "pages"], obj' = [obj EXCEPT ![t] = o],
           Enter(t, o), UNCHANGED <<pages, vmapping, cursor>>
    PROVE  /\ Mappers' /\ overlap \subseteq overlap'
           /\ \A p \in overlap' \ overlap : p = o
<1>1. /\ t \in Threads /\ pc'[t] = "pages" /\ obj'[t] = o
      /\ \A u \in Threads \ {t} : pc'[u] = pc[u] /\ obj'[u] = obj[u]
  BY Names DEF TypeOK
<1>2. overlap \subseteq overlap' /\ \A p \in overlap' \ overlap : p = o
  BY DEF Enter
<1>3. pc'["map"] = "done" => pages'[obj'["map"]]
  BY <1>1, Names DEF Mappers
<1>4. ASSUME NEW p \in Objects \ overlap' PROVE MapperOf(p)'
  <2>1. MapperOf(p)
    BY <1>2, <1>4 DEF Mappers
  <2>2. \A u \in Threads : Mapping(u, p)' =>
          /\ \A v \in Threads : Mapping(v, p)' => v = u
          /\ pc'[u] = "pin" => ~ pages'[p]
          /\ u \notin {"map", "dma"} => ~ vmapping'[p]
    <3>1. CASE p = o
      <4>1. \A u \in Threads \ {t} : ~ Mapping(u, o)
        BY <1>4, <3>1 DEF Enter
      <4>2. \A u \in Threads \ {t} : ~ Mapping(u, o)'
        BY <1>1, <4>1 DEF Mapping
      <4> QED BY <1>1, <3>1, <4>2
    <3>2. CASE p # o
      <4>1. \A u \in Threads : Mapping(u, p)' => Mapping(u, p) /\ pc'[u] = pc[u]
        BY <1>1, <3>2 DEF Mapping
      <4> QED BY <2>1, <4>1 DEF MapperOf
    <3> QED BY <3>1, <3>2
  <2>3. \A u \in Threads \ {"map", "dma"} :
          obj'[u] = p /\ pc'[u] \in {"done", "compose"} => vmapping'[p]
    BY <1>1, <2>1 DEF MapperOf
  <2> QED BY <2>1, <2>2, <2>3 DEF MapperOf
<1> QED BY <1>2, <1>3, <1>4 DEF Mappers

LEMMA MapDumbInv ==
    ASSUME IInv, NEW file \in Files, NEW o \in Objects, MapDumb(file, o), users' = users
    PROVE  IInv'
<1>0. TypeOK /\ Control /\ ObjectRefsExact /\ FbRefsExact /\ Memory /\ Attach /\ Mappers
  BY DEF IInv
<1>1. /\ pc["map"] = "idle" /\ o \in handles[file] /\ Enter("map", o)
      /\ pc' = [pc EXCEPT !["map"] = "pages"] /\ obj' = [obj EXCEPT !["map"] = o]
      /\ UNCHANGED <<state, pages, vmapping, pinned, mapped, fileVars, fbVars, painterVars,
                     primeVars, grab_fb>>
  BY DEF MapDumb, Idle, Begin
<1>2. /\ pc'["map"] = "pages" /\ \A u \in Threads \ {"map"} : pc'[u] = pc[u]
      /\ obj'["map"] = o /\ \A u \in Threads \ {"map"} : obj'[u] = obj[u]
      /\ obj["map"] = NoObj
  BY <1>0, <1>1, Names DEF TypeOK, Control
<1>3. refs' \in [Objects -> Int] /\ \A p \in Objects : refs'[p] = refs[p] + Count(p = o)
  BY <1>0, UpType DEF MapDumb, TypeOK
<1>4. refs[o] > 0 /\ state[o] = "live"
  BY <1>0, <1>1, HeldIsInUse DEF InUse, TypeOK
<1>5. \A p \in Objects : refs'[p] = Holders(p)' /\ (refs'[p] > 0 <=> refs[p] > 0)
  <2> TAKE p \in Objects
  <2>1. FbCount(p)' = FbCount(p) /\ VmaCount(p)' = VmaCount(p)
    BY <1>1, CountsSame DEF fbVars, fileVars
  <2>2. LookupCount(p)' = LookupCount(p) + Count(p = o)
    <3>1. \A u \in {"map", "addfb", "cursor"} \ {"map"} : obj'[u] = obj[u]
      BY <1>2, Names
    <3>2. LookupCount(p)' = LookupCount(p) + Count(obj'["map"] = p) - Count(obj["map"] = p)
      BY <3>1, LookupMoves
    <3>3. Count(obj["map"] = p) = 0 /\ Count(obj'["map"] = p) = Count(p = o)
      BY <1>2, ObjectsAssumption DEF Count
    <3> QED BY <3>2, <3>3, CountsAreNat, CountNat
  <2>3. Holders(p)' = refs[p] + Count(p = o)
    <3>1. Holders(p)' = HandleCount(handles, p) + FbCount(p) + VmaCount(p)
                        + Count(p \in dmabufs) + Count(cursor.obj = p) + LookupCount(p)
                        + Count(p = o)
      BY <1>1, <2>1, <2>2, HoldersNext, CountsAreNat, CountNat, HandleCounts
         DEF fileVars, painterVars, primeVars
    <3> QED BY <1>0, <3>1, RefsAre
  <2>4. refs[p] \in Nat /\ (Count(p = o) = 1 => refs[p] > 0)
    <3>1. refs[p] \in Nat /\ (p = o => refs[p] > 0)
      BY <1>0, <1>4 DEF TypeOK
    <3> QED BY <3>1 DEF Count
  <2> QED BY <1>3, <2>3, <2>4, CountNat
<1>6. FileTypes' /\ FbTypes' /\ PainterTypes' /\ ThreadTypes'
  <2>1. ThreadTypes'
    BY <1>0, <1>1, Types DEF ThreadTypes, Steps
  <2> QED BY <1>0, <1>1, <2>1, Types, TypesKept
<1>7. Control'
  BY <1>0, <1>1, <1>2, Names DEF Control, fbVars, painterVars, primeVars
<1>8. FbRefsExact'
  BY <1>0, <1>1, FbRefsKept DEF painterVars
<1>9. /\ Mappers' /\ overlap \subseteq overlap'
      /\ \A p \in overlap' \ overlap : p \in Objects /\ state[p] = "live"
  BY <1>0, <1>1, <1>4, EnterMappers DEF painterVars
<1>10. /\ dmabufs' \subseteq Objects /\ importers' \subseteq Objects
       /\ UNCHANGED <<state, pages, vmapping, pinned, mapped, offsets, attachments, device_refs>>
       /\ obj'["import"] = obj["import"]
       /\ \A g \in Files : vmas'[g] \subseteq vmas[g] \cup offsets
  BY <1>0, <1>1, <1>2, Names DEF fileVars, primeVars, TypeOK
<1>11. TypeOK' /\ ObjectRefsExact' /\ Memory' /\ Attach' /\ InUse'
  BY <1>3, <1>5, <1>6, <1>7, <1>8, <1>9, <1>10, TakeRest
<1> QED BY <1>7, <1>8, <1>9, <1>11 DEF IInv

LEMMA BufferStepInv == IInv /\ BufferStep /\ users' = users => IInv'
BY DumbCreateInv, HandleCloseInv, MapDumbInv, MapDumbEndInv, MmapInv, MunmapInv DEF BufferStep

-----------------------------------------------------------------------------
(* Framebuffers.                                                           *)

LEMMA AddFbInv ==
    ASSUME IInv, NEW o \in Objects, AddFb(o), users' = users
    PROVE  IInv'
<1>1. /\ pc["addfb"] = "idle" /\ o \in handles[Compositor] /\ refs' = Up(refs, o)
      /\ pc' = [pc EXCEPT !["addfb"] = "init"] /\ obj' = [obj EXCEPT !["addfb"] = o]
      /\ UNCHANGED <<state, pages, vmapping, pinned, mapped, fileVars, fbVars, painterVars,
                     primeVars, grab_fb, overlap, users>>
  BY DEF AddFb, Idle, Begin
<1>2. refs[o] > 0 /\ o # NoObj
  BY <1>1, HeldIsInUse, ObjectsAssumption DEF IInv, InUse, Files
<1> QED BY <1>1, <1>2, LookupInv

LEMMA AddFbFailsInv ==
    ASSUME IInv, AddFbFails, users' = users
    PROVE  IInv'
<1>1. /\ pc["addfb"] = "init" /\ PutObjects(Down(refs, obj["addfb"]))
      /\ pc' = [pc EXCEPT !["addfb"] = "idle"] /\ obj' = [obj EXCEPT !["addfb"] = NoObj]
      /\ UNCHANGED <<fileVars, fbVars, painterVars, dmabufs, importers, grab_fb, overlap, users>>
  BY DEF AddFbFails, End, Begin
<1>2. offsets' = offsets /\ UNCHANGED <<handles, vmas>>
  BY <1>1 DEF fileVars
<1> QED BY <1>1, <1>2, LookupEndInv

LEMMA FbHandleInv ==
    ASSUME IInv, NEW f \in Fbs, FbHandle(f), users' = users
    PROVE  IInv'
<1>1. f \in ids /\ TypeOK /\ InUse
  BY HeldIsInUse DEF FbHandle, IInv
<1>2. PICK o \in Objects : o = fb_obj[f] /\ refs[o] > 0
  BY <1>1, ObjectsAssumption DEF InUse
<1>3. PICK table : /\ handles' = table /\ table = [handles EXCEPT ![Compositor] = @ \cup {o}]
                   /\ refs' = HandleRefs(table)
  BY <1>2 DEF FbHandle
<1>4. /\ refs' \in [Objects -> Int]
      /\ \A p \in Objects :
              refs'[p] = refs[p] + HandleCount(handles', p) - HandleCount(handles, p)
  <2>1. /\ HandleRefs(table) \in [Objects -> Int]
        /\ \A p \in Objects : HandleRefs(table)[p] =
                 refs[p] + HandleCount(table, p) - HandleCount(handles, p)
    BY <1>1, HandleRefsAre
  <2> QED BY <1>3, <2>1
<1>5. /\ handles' \in [Files -> SUBSET Objects]
      /\ handles'[Compositor] = handles[Compositor] \cup {o} /\ Compositor \in Files
      /\ \A g \in Files \ {Compositor} : handles'[g] = handles[g]
  BY <1>1, <1>3 DEF TypeOK, Files
<1>6. UNCHANGED <<state, pages, vmapping, pinned, mapped, offsets, vmas, fbVars, painterVars,
                  primeVars, threadVars, overlap, users>>
  BY DEF FbHandle
<1>7. UNCHANGED <<pc, obj, grab_fb>>
  BY <1>6 DEF threadVars
<1> QED BY <1>2, <1>4, <1>5, <1>6, <1>7, HandleAddInv

\* What the counts of a framebuffer are, term by term.
LEMMA FbRefsAre ==
    ASSUME FbRefsExact, NEW f \in Fbs
    PROVE  /\ fb_refs[f] = Count(f \in ids) + Count(plane = f) + Count(scanout_fb = f)
                           + GrabCount(f)
           /\ fb_obj[f] # NoObj <=> fb_refs[f] > 0
           /\ Count(f \in ids) \in {0, 1} /\ Count(plane = f) \in {0, 1}
           /\ Count(scanout_fb = f) \in {0, 1} /\ GrabCount(f) \in Nat
<1>1. /\ fb_refs[f] = Count(f \in ids) + Count(plane = f) + Count(scanout_fb = f)
                           + GrabCount(f)
      /\ fb_obj[f] # NoObj <=> fb_refs[f] > 0
  BY DEF FbRefsExact, GrabCount, Sources
<1> QED BY <1>1, CountsAreNat, CountNat

LEMMA FbRefsNext ==
    ASSUME \A f \in Fbs : /\ fb_refs'[f] = Count(f \in ids') + Count(plane' = f)
                                           + Count(scanout_fb' = f) + GrabCount(f)'
                          /\ fb_obj'[f] # NoObj <=> fb_refs'[f] > 0
    PROVE  FbRefsExact'
BY DEF FbRefsExact, GrabCount, Sources

LEMMA GrabPositiveNext ==
    ASSUME NEW c \in Clients, NEW f, grab_fb'[c] = f PROVE GrabCount(f)' > 0
<1> DEFINE T == {d \in Clients : grab_fb'[d] = f}
<1>1. IsFiniteSet(T) /\ Cardinality(T) \in Nat /\ c \in T
  BY Finite, FS_Subset, FS_CardinalityType
<1>2. Cardinality(T) > 0
  BY <1>1, FS_EmptySet
<1>3. GrabCount(f)' = Cardinality(T)
  BY DEF GrabCount, Sources
<1> QED BY <1>2, <1>3

\* A step that puts framebuffers, and with those nobody refers to any more their
\* objects; files may lose handles, and the cursor its object.
LEMMA ReleaseInv ==
    ASSUME IInv, NEW fc \in [Fbs -> Int], NEW gone \in SUBSET Fbs,
           \A f \in Fbs : f \in gone <=> fb_refs[f] > 0 /\ fc[f] = 0,
           fb_refs' = fc, fb_obj' \in [Fbs -> Objects \cup {NoObj}],
           \A f \in Fbs : fb_obj'[f] = IF f \in gone THEN NoObj ELSE fb_obj[f],
           NEW oc \in [Objects -> Int], PutObjects(oc),
           \A o \in Objects :
              oc[o] = refs[o] + HandleCount(handles', o) - HandleCount(handles, o)
                      + Count(cursor'.obj = o) - Count(cursor.obj = o)
                      - Cardinality(Sources(gone, fb_obj, o)),
           handles' \in [Files -> SUBSET Objects], \A g \in Files : handles'[g] \subseteq handles[g],
           cursor'.obj \in {cursor.obj, NoObj},
           \A f \in Fbs : /\ fc[f] = Count(f \in ids') + Count(plane' = f)
                                     + Count(scanout_fb' = f) + GrabCount(f)'
                          /\ fc[f] > 0 => fb_refs[f] > 0,
           UNCHANGED <<offsets, vmas, dmabufs, importers, overlap, users>>,
           \A t \in {"map", "addfb", "cursor", "import"} : obj'[t] = obj[t],
           ids' \subseteq Fbs, plane' \in Fbs \cup {NoFb}, PainterTypes', ThreadTypes',
           /\ \A o \in Objects : state'[o] = "new" <=> state[o] = "new"
           /\ \A c \in Clients : grab_fb'[c] \in Fbs =>
                 fb_obj'[grab_fb'[c]] = fb_obj[grab_fb'[c]]
           => Control',
           MapsNothingNew
    PROVE  IInv'
<1>0. TypeOK /\ Control /\ ObjectRefsExact /\ FbRefsExact /\ Memory /\ Attach /\ Mappers
  BY DEF IInv
<1>1. \A f \in Fbs : fc[f] \in Nat /\ (fc[f] > 0 => fb_refs[f] > 0)
  <2> TAKE f \in Fbs
  <2>1. /\ Count(f \in ids') \in {0, 1} /\ Count(plane' = f) \in {0, 1}
        /\ Count(scanout_fb' = f) \in {0, 1} /\ GrabCount(f)' \in Nat
    BY HoldersNext, CountNat
  <2> QED BY <2>1
<1>2. fc \in [Fbs -> Nat]
  BY <1>1
<1>3. /\ fb_obj' \in [Fbs -> Objects \cup {NoObj}] /\ fb_refs' \in [Fbs -> Nat]
      /\ \A f \in Fbs : fb_obj'[f] # NoObj <=> fb_refs'[f] > 0
      /\ \A f \in Fbs : fb_refs'[f] > 0 => fb_obj'[f] = fb_obj[f]
  <2>1. \A f \in Fbs : fc[f] > 0 => fb_refs[f] > 0
    BY <1>1
  <2> QED BY <1>0, <1>2, <2>1, PutFbsInv
<1>4. FbRefsExact'
  BY <1>3, FbRefsNext
<1>5. \A o \in Objects : oc[o] = Holders(o)' /\ (oc[o] > 0 => refs[o] > 0)
  <2> TAKE o \in Objects
  <2>1. VmaCount(o)' = VmaCount(o) /\ LookupCount(o)' = LookupCount(o)
    BY CountsSame
  <2>2. /\ refs[o] = HandleCount(handles, o) + FbCount(o) + VmaCount(o)
                      + Count(o \in dmabufs) + Count(cursor.obj = o) + LookupCount(o)
        /\ refs[o] \in Nat
    BY <1>0, RefsAre DEF TypeOK
  <2>3. /\ HandleCount(handles, o) \in {0, 1} /\ HandleCount(handles', o) \in {0, 1}
        /\ Count(o \in dmabufs) \in {0, 1} /\ Count(cursor.obj = o) \in {0, 1}
        /\ Count(cursor'.obj = o) \in {0, 1}
        /\ FbCount(o) \in Nat /\ VmaCount(o) \in Nat /\ LookupCount(o) \in Nat
    BY CountNat, HandleCounts, CountsAreNat
  <2>4. Holders(o)' = HandleCount(handles', o) + FbCount(o)' + VmaCount(o)
                      + Count(o \in dmabufs) + Count(cursor'.obj = o) + LookupCount(o)
    BY <2>1, HoldersNext
  <2>5. HandleCount(handles', o) = 1 => HandleCount(handles, o) = 1
    <3>1. HasHandle(handles', o) => HasHandle(handles, o)
      BY DEF HasHandle
    <3> QED BY <3>1, HandleCounts
  <2>6. Count(cursor'.obj = o) = 1 => Count(cursor.obj = o) = 1
    BY ObjectsAssumption DEF Count
  <2>7. PICK k \in Nat : /\ k = Cardinality(Sources(gone, fb_obj, o))
                         /\ FbCount(o)' = FbCount(o) - k
                         /\ oc[o] = refs[o] + HandleCount(handles', o) - HandleCount(handles, o)
                                    + Count(cursor'.obj = o) - Count(cursor.obj = o) - k
    BY PutFbsCount
  <2>8. oc[o] = Holders(o)'
    BY <2>2, <2>3, <2>4, <2>7
  <2>9. oc[o] > 0 => refs[o] > 0
    BY <2>2, <2>3, <2>5, <2>6, <2>7
  <2> QED BY <2>8, <2>9
<1>6. FileTypes' /\ FbTypes'
  BY <1>0, <1>3, Types DEF FileTypes, FbTypes
<1>7. \A c \in Clients : grab_fb'[c] \in Fbs =>
         fb_obj'[grab_fb'[c]] = fb_obj[grab_fb'[c]]
  <2> TAKE c \in Clients
  <2> HAVE grab_fb'[c] \in Fbs
  <2>1. PICK f \in Fbs : f = grab_fb'[c] /\ GrabCount(f)' > 0
    BY GrabPositiveNext
  <2>2. fc[f] > 0
    <3>1. /\ Count(f \in ids') \in {0, 1} /\ Count(plane' = f) \in {0, 1}
          /\ Count(scanout_fb' = f) \in {0, 1} /\ GrabCount(f)' \in Nat
      BY HoldersNext, CountNat
    <3> QED BY <2>1, <3>1
  <2> QED BY <1>3, <2>1, <2>2
<1>8. (\A o \in Objects : state'[o] = "new" <=> state[o] = "new") => Control'
  BY <1>7
<1>9. /\ dmabufs' \subseteq Objects /\ importers' \subseteq Objects
      /\ obj'["import"] = obj["import"] /\ offsets \subseteq offsets'
      /\ \A o \in offsets' : o \in offsets \/ pages[o]
      /\ \A g \in Files : vmas'[g] \subseteq vmas[g]
  BY <1>0 DEF TypeOK
<1> QED BY <1>4, <1>5, <1>6, <1>8, <1>9, PutStep

LEMMA PutFbsStep ==
    ASSUME IInv, NEW fc \in [Fbs -> Int], PutFbs(fc),
           \A f \in Fbs : /\ fc[f] = Count(f \in ids') + Count(plane' = f)
                                     + Count(scanout_fb' = f) + GrabCount(f)'
                          /\ fc[f] > 0 => fb_refs[f] > 0,
           UNCHANGED <<fileVars, cursor, dmabufs, importers, overlap, users>>,
           \A t \in {"map", "addfb", "cursor", "import"} : obj'[t] = obj[t],
           ids' \subseteq Fbs, plane' \in Fbs \cup {NoFb}, PainterTypes', ThreadTypes',
           /\ \A o \in Objects : state'[o] = "new" <=> state[o] = "new"
           /\ \A c \in Clients : grab_fb'[c] \in Fbs =>
                 fb_obj'[grab_fb'[c]] = fb_obj[grab_fb'[c]]
           => Control',
           MapsNothingNew
    PROVE  IInv'
<1>1. PICK gone \in SUBSET Fbs :
         /\ \A f \in Fbs : f \in gone <=> fb_refs[f] > 0 /\ fc[f] = 0
         /\ fb_refs' = fc /\ fb_obj' = [f \in Fbs |-> IF f \in gone THEN NoObj ELSE fb_obj[f]]
         /\ PutObjects([o \in Objects |-> refs[o] - Cardinality({f \in gone : fb_obj[f] = o})])
  BY DEF PutFbs
<1>2. /\ fb_obj' \in [Fbs -> Objects \cup {NoObj}]
      /\ \A f \in Fbs : fb_obj'[f] = IF f \in gone THEN NoObj ELSE fb_obj[f]
  BY <1>1 DEF IInv, TypeOK
<1>3. PICK oc \in [Objects -> Int] :
         /\ PutObjects(oc)
         /\ \A o \in Objects :
              oc[o] = refs[o] + HandleCount(handles', o) - HandleCount(handles, o)
                      + Count(cursor'.obj = o) - Count(cursor.obj = o)
                      - Cardinality(Sources(gone, fb_obj, o))
  <2> DEFINE oc == [o \in Objects |-> refs[o] - Cardinality({f \in gone : fb_obj[f] = o})]
  <2>1. PutObjects(oc)
    BY <1>1
  <2>2. \A o \in Objects : oc[o] = refs[o] - Cardinality(Sources(gone, fb_obj, o))
    BY DEF Sources
  <2>3. \A o \in Objects : /\ Cardinality(Sources(gone, fb_obj, o)) \in Nat /\ refs[o] \in Nat
                           /\ HandleCount(handles', o) = HandleCount(handles, o)
                           /\ Count(cursor'.obj = o) = Count(cursor.obj = o)
                           /\ HandleCount(handles, o) \in {0, 1}
                           /\ Count(cursor.obj = o) \in {0, 1}
    BY <1>2, PutFbsCount, HandleCounts, CountNat DEF IInv, TypeOK, fileVars
  <2>4. oc \in [Objects -> Int]
    <3>1. \A o \in Objects : refs[o] - Cardinality(Sources(gone, fb_obj, o)) \in Int
      BY <2>3
    <3>2. oc = [o \in Objects |-> refs[o] - Cardinality(Sources(gone, fb_obj, o))]
      BY DEF Sources
    <3> QED BY <3>1, <3>2
  <2>5. \A o \in Objects :
              oc[o] = refs[o] + HandleCount(handles', o) - HandleCount(handles, o)
                      + Count(cursor'.obj = o) - Count(cursor.obj = o)
                      - Cardinality(Sources(gone, fb_obj, o))
    <3> HIDE DEF oc
    <3> TAKE o \in Objects
    <3>1. PICK k \in Nat : k = Cardinality(Sources(gone, fb_obj, o)) /\ oc[o] = refs[o] - k
      BY <2>2, <2>3
    <3> QED BY <2>3, <3>1
  <2> HIDE DEF oc
  <2> QED BY <2>1, <2>4, <2>5
<1>4. /\ handles' \in [Files -> SUBSET Objects] /\ \A g \in Files : handles'[g] \subseteq handles[g]
      /\ cursor'.obj \in {cursor.obj, NoObj} /\ UNCHANGED <<offsets, vmas>>
  BY DEF IInv, TypeOK, fileVars
<1> QED BY <1>1, <1>2, <1>3, <1>4, ReleaseInv

LEMMA CountSym == \A x, y : Count(x = y) = Count(y = x)
BY DEF Count

LEMMA ThreadsStay ==
    ASSUME TypeOK, Control, UNCHANGED <<threadVars, dmabufs>>,
           cursor'.enabled => cursor'.obj # NoObj,
           \A o \in Objects : state'[o] = "new" <=> state[o] = "new",
           \A c \in Clients : grab_fb'[c] \in Fbs => fb_obj'[grab_fb'[c]] = fb_obj[grab_fb'[c]]
    PROVE  Control'
<1>1. UNCHANGED <<pc, obj, grab_fb>>
  BY DEF threadVars
<1> QED BY <1>1, ObjectsAssumption, Names DEF Control

LEMMA RmFbInv ==
    ASSUME IInv, NEW f \in Fbs, RmFb(f), users' = users
    PROVE  IInv'
<1>0. TypeOK /\ Control /\ ObjectRefsExact /\ FbRefsExact /\ Memory /\ Attach /\ Mappers
  BY DEF IInv
<1>1. /\ f \in ids /\ ids' = ids \ {f} /\ plane' = (IF plane = f THEN NoFb ELSE plane)
      /\ UNCHANGED <<fileVars, painterVars, dmabufs, importers, threadVars, overlap>>
  BY DEF RmFb
<1>2. UNCHANGED <<pc, obj, grab_fb, scanout_fb, drm_filp, cursor>>
  BY <1>1 DEF threadVars, painterVars
<1>3. PICK fc \in [Fbs -> Int] :
         /\ PutFbs(fc)
         /\ \A g \in Fbs : fc[g] = fb_refs[g] - Count(g = f) - Count(g = f /\ plane = f)
  <2>1. \A x : /\ Down(fb_refs, x) \in [Fbs -> Int]
               /\ \A g \in Fbs : Down(fb_refs, x)[g] = fb_refs[g] - Count(g = x)
    BY <1>0, UpType DEF TypeOK
  <2>2. CASE plane = f
    <3>1. PICK one \in [Fbs -> Int] :
             one = Down(fb_refs, f) /\ \A g \in Fbs : one[g] = fb_refs[g] - Count(g = f)
      BY <2>1
    <3>2. PICK two \in [Fbs -> Int] :
             two = Down(one, f) /\ \A g \in Fbs : two[g] = one[g] - Count(g = f)
      BY UpType
    <3>3. PutFbs(two)
      BY <2>2, <3>1, <3>2 DEF RmFb
    <3>4. \A g \in Fbs : two[g] = fb_refs[g] - Count(g = f) - Count(g = f /\ plane = f)
      <4> TAKE g \in Fbs
      <4>1. Count(g = f) = Count(g = f /\ plane = f)
        BY <2>2 DEF Count
      <4> QED BY <3>1, <3>2, <4>1
    <3> QED BY <3>3, <3>4
  <2>3. CASE plane # f
    <3>1. PICK one \in [Fbs -> Int] :
             one = Down(fb_refs, f) /\ \A g \in Fbs : one[g] = fb_refs[g] - Count(g = f)
      BY <2>1
    <3>2. PutFbs(one)
      BY <2>3, <3>1 DEF RmFb
    <3>3. \A g \in Fbs : one[g] = fb_refs[g] - Count(g = f) - Count(g = f /\ plane = f)
      <4> TAKE g \in Fbs
      <4>1. Count(g = f /\ plane = f) = 0
        BY <2>3 DEF Count
      <4> QED BY <3>1, <4>1
    <3> QED BY <3>2, <3>3
  <2> QED BY <2>2, <2>3
<1>4. \A g \in Fbs : /\ fc[g] = Count(g \in ids') + Count(plane' = g)
                                + Count(scanout_fb' = g) + GrabCount(g)'
                     /\ fc[g] > 0 => fb_refs[g] > 0
  <2> TAKE g \in Fbs
  <2>1. GrabCount(g)' = GrabCount(g)
    BY <1>2, CountsSame
  <2>2. /\ fb_refs[g] = Count(g \in ids) + Count(plane = g) + Count(scanout_fb = g) + GrabCount(g)
        /\ Count(g \in ids) \in {0, 1} /\ Count(plane = g) \in {0, 1}
        /\ Count(scanout_fb = g) \in {0, 1} /\ GrabCount(g) \in Nat
        /\ Count(g = f) \in {0, 1} /\ Count(g = f /\ plane = f) \in {0, 1}
    BY <1>0, FbRefsAre, CountNat
  <2>3. /\ Count(g \in ids') = Count(g \in ids) - Count(g = f)
        /\ Count(plane' = g) = Count(plane = g) - Count(g = f /\ plane = f)
    BY <1>1, BuffersFbsAssumption DEF Count
  <2>4. /\ Count(g \in ids') \in {0, 1} /\ Count(plane' = g) \in {0, 1}
        /\ Count(scanout_fb' = g) = Count(scanout_fb = g)
    BY <1>2, CountNat
  <2> QED BY <1>3, <2>1, <2>2, <2>3, <2>4
<1>5. ids' \subseteq Fbs /\ plane' \in Fbs \cup {NoFb} /\ PainterTypes' /\ ThreadTypes'
  BY <1>0, <1>1, Types, TypesKept DEF TypeOK
<1>6. MapsNothingNew /\ \A t \in {"map", "addfb", "cursor", "import"} : obj'[t] = obj[t]
  BY <1>2 DEF MapsNothingNew
<1>7. /\ \A o \in Objects : state'[o] = "new" <=> state[o] = "new"
      /\ \A c \in Clients : grab_fb'[c] \in Fbs =>
            fb_obj'[grab_fb'[c]] = fb_obj[grab_fb'[c]]
      => Control'
  <2>1. cursor'.enabled => cursor'.obj # NoObj
    BY <1>0, <1>2 DEF Control
  <2> QED BY <1>0, <1>1, <2>1, ThreadsStay
<1> QED BY <1>1, <1>2, <1>3, <1>4, <1>5, <1>6, <1>7, PutFbsStep

LEMMA ShowFbInv ==
    ASSUME IInv, NEW f \in Fbs, ShowFb(f), users' = users
    PROVE  IInv'
<1>0. TypeOK /\ Control /\ ObjectRefsExact /\ FbRefsExact /\ Memory /\ Attach /\ Mappers
  BY DEF IInv
<1>1. /\ f \in ids /\ ids' = ids /\ plane' = f /\ scanout_fb' = f
      /\ UNCHANGED <<fileVars, drm_filp, cursor, dmabufs, importers, threadVars, overlap>>
  BY DEF ShowFb
<1>2. UNCHANGED <<pc, obj, grab_fb>>
  BY <1>1 DEF threadVars
<1>3. PICK fc \in [Fbs -> Int] :
         /\ PutFbs(fc)
         /\ \A g \in Fbs : fc[g] = fb_refs[g] + Count(g = f) + Count(g = f)
                                   - Count(g = plane) - Count(g = scanout_fb)
  <2>1. PICK one \in [Fbs -> Int] :
           one = Up(fb_refs, f) /\ \A g \in Fbs : one[g] = fb_refs[g] + Count(g = f)
    BY <1>0, UpType DEF TypeOK
  <2>2. PICK two \in [Fbs -> Int] :
           two = Up(one, f) /\ \A g \in Fbs : two[g] = one[g] + Count(g = f)
    BY UpType
  <2>3. PICK three \in [Fbs -> Int] :
           three = Down(two, plane) /\ \A g \in Fbs : three[g] = two[g] - Count(g = plane)
    BY UpType
  <2>4. PICK four \in [Fbs -> Int] :
           /\ four = Down(three, scanout_fb)
           /\ \A g \in Fbs : four[g] = three[g] - Count(g = scanout_fb)
    BY UpType
  <2>5. PutFbs(four)
    BY <2>1, <2>2, <2>3, <2>4 DEF ShowFb
  <2>6. \A g \in Fbs : four[g] = fb_refs[g] + Count(g = f) + Count(g = f)
                                 - Count(g = plane) - Count(g = scanout_fb)
    <3> TAKE g \in Fbs
    <3>1. /\ fb_refs[g] \in Nat /\ Count(g = f) \in {0, 1} /\ Count(g = plane) \in {0, 1}
          /\ Count(g = scanout_fb) \in {0, 1}
      BY <1>0, CountNat DEF TypeOK
    <3>2. /\ one[g] = fb_refs[g] + Count(g = f) /\ two[g] = one[g] + Count(g = f)
          /\ three[g] = two[g] - Count(g = plane)
          /\ four[g] = three[g] - Count(g = scanout_fb)
      BY <2>1, <2>2, <2>3, <2>4
    <3> QED BY <3>1, <3>2
  <2> QED BY <2>5, <2>6
<1>4. \A g \in Fbs : /\ fc[g] = Count(g \in ids') + Count(plane' = g)
                                + Count(scanout_fb' = g) + GrabCount(g)'
                     /\ fc[g] > 0 => fb_refs[g] > 0
  <2> TAKE g \in Fbs
  <2>1. GrabCount(g)' = GrabCount(g)
    BY <1>2, CountsSame
  <2>2. /\ fb_refs[g] = Count(g \in ids) + Count(plane = g) + Count(scanout_fb = g) + GrabCount(g)
        /\ Count(g \in ids) \in {0, 1} /\ Count(plane = g) \in {0, 1}
        /\ Count(scanout_fb = g) \in {0, 1} /\ GrabCount(g) \in Nat /\ Count(g = f) \in {0, 1}
    BY <1>0, FbRefsAre, CountNat
  <2>3. /\ Count(g \in ids') = Count(g \in ids) /\ Count(plane' = g) = Count(g = f)
        /\ Count(scanout_fb' = g) = Count(g = f)
        /\ Count(g = plane) = Count(plane = g) /\ Count(g = scanout_fb) = Count(scanout_fb = g)
    BY <1>1 DEF Count
  <2>4. Count(g = f) = 1 => Count(g \in ids) = 1
    BY <1>1 DEF Count
  <2> QED BY <1>3, <2>1, <2>2, <2>3, <2>4
<1>5. ids' \subseteq Fbs /\ plane' \in Fbs \cup {NoFb} /\ PainterTypes' /\ ThreadTypes'
  <2>1. PainterTypes'
    BY <1>0, <1>1, Types DEF PainterTypes
  <2> QED BY <1>0, <1>1, <2>1, Types, TypesKept DEF TypeOK
<1>6. MapsNothingNew /\ \A t \in {"map", "addfb", "cursor", "import"} : obj'[t] = obj[t]
  BY <1>1, <1>2 DEF MapsNothingNew
<1>7. /\ \A o \in Objects : state'[o] = "new" <=> state[o] = "new"
      /\ \A c \in Clients : grab_fb'[c] \in Fbs =>
            fb_obj'[grab_fb'[c]] = fb_obj[grab_fb'[c]]
      => Control'
  <2>1. cursor'.enabled => cursor'.obj # NoObj
    BY <1>0, <1>1 DEF Control
  <2> QED BY <1>0, <1>1, <2>1, ThreadsStay
<1> QED BY <1>1, <1>3, <1>4, <1>5, <1>6, <1>7, PutFbsStep

\* A step that moves no reference.
LEMMA QuietInv ==
    ASSUME IInv, UNCHANGED <<objVars, fileVars, fbVars, scanout_fb, cursor, dmabufs, attachments,
                             device_refs, grab_fb, overlap, users>>,
           \A t \in {"map", "addfb", "cursor", "import"} : obj'[t] = obj[t],
           PainterTypes', ThreadTypes', importers' \subseteq Objects, Control', MapsNothingNew
    PROVE  IInv'
<1>0. TypeOK /\ Control /\ ObjectRefsExact /\ FbRefsExact /\ Memory /\ Attach /\ Mappers
  BY DEF IInv
<1>1. \A o \in Objects : Holders(o)' = Holders(o)
  <2> TAKE o \in Objects
  <2>1. FbCount(o)' = FbCount(o) /\ VmaCount(o)' = VmaCount(o) /\ LookupCount(o)' = LookupCount(o)
    BY CountsSame DEF fbVars, fileVars
  <2> QED BY <2>1, HoldersNext, HoldersAre DEF fileVars
<1>2. \A o \in Objects : refs'[o] = Holders(o)' /\ (refs'[o] > 0 <=> refs[o] > 0)
  BY <1>0, <1>1 DEF ObjectRefsExact, objVars
<1>3. FileTypes' /\ FbTypes'
  BY <1>0, Types, TypesKept
<1>4. FbRefsExact'
  BY <1>0, FbRefsKept
<1>5. /\ UNCHANGED <<state, pages, vmapping, pinned, mapped, offsets, attachments, device_refs,
                     users, overlap>>
      /\ refs' \in [Objects -> Int] /\ dmabufs' \subseteq Objects
      /\ obj'["import"] = obj["import"]
      /\ \A g \in Files : vmas'[g] \subseteq vmas[g] \cup offsets
  BY <1>0 DEF objVars, fileVars, TypeOK
<1> QED BY <1>2, <1>3, <1>4, <1>5, TakeStep

LEMMA AddFbInitInv ==
    ASSUME IInv, NEW f \in Fbs, AddFbInit(f), users' = users
    PROVE  IInv'
<1>0. TypeOK /\ Control /\ ObjectRefsExact /\ FbRefsExact /\ Memory /\ Attach /\ Mappers
  BY DEF IInv
<1>1. /\ pc["addfb"] = "init" /\ fb_refs[f] = 0 /\ ids' = ids \cup {f}
      /\ UNCHANGED <<objVars, fileVars, plane, painterVars, primeVars, grab_fb, overlap>>
  BY DEF AddFbInit
<1>2. PICK o \in Objects : o = obj["addfb"]
  BY <1>0, <1>1, Names DEF Control
<1>3. /\ pc' = [pc EXCEPT !["addfb"] = "idle"] /\ obj' = [obj EXCEPT !["addfb"] = NoObj]
      /\ fb_obj' = [fb_obj EXCEPT ![f] = o] /\ fb_refs' = [fb_refs EXCEPT ![f] = 1]
  BY <1>2 DEF AddFbInit, End, Begin
<1>4. /\ pc'["addfb"] = "idle" /\ obj'["addfb"] = NoObj
      /\ \A u \in Threads \ {"addfb"} : pc'[u] = pc[u] /\ obj'[u] = obj[u]
  BY <1>0, <1>3, Names DEF TypeOK
<1>5. /\ fb_obj' \in [Fbs -> Objects \cup {NoObj}] /\ fb_refs' \in [Fbs -> Nat]
      /\ fb_obj'[f] = o /\ fb_refs'[f] = 1
      /\ \A g \in Fbs \ {f} : fb_obj'[g] = fb_obj[g] /\ fb_refs'[g] = fb_refs[g]
  BY <1>0, <1>3 DEF TypeOK
<1>6. fb_obj[f] = NoObj /\ InUse
  <2>1. fb_obj[f] # NoObj <=> fb_refs[f] > 0
    BY <1>0, FbRefsAre
  <2> QED BY <1>0, <1>1, <2>1, HeldIsInUse
<1>7. \A p \in Objects : Holders(p)' = Holders(p)
  <2> TAKE p \in Objects
  <2>1. VmaCount(p)' = VmaCount(p)
    BY <1>1, CountsSame DEF fileVars
  <2>2. LookupCount(p)' = LookupCount(p) + Count(NoObj = p) - Count(o = p)
    <3>1. \A u \in {"map", "addfb", "cursor"} \ {"addfb"} : obj'[u] = obj[u]
      BY <1>4, Names
    <3>2. LookupCount(p)' = LookupCount(p) + Count(obj'["addfb"] = p) - Count(obj["addfb"] = p)
      BY <3>1, LookupMoves
    <3> QED BY <1>2, <1>4, <3>2
  <2>3. FbCount(p)' = FbCount(p) + Count(o = p) - Count(NoObj = p)
    <3>1. \A g \in Fbs \ {f} : fb_obj'[g] = fb_obj[g]
      BY <1>5
    <3>2. FbCount(p)' = FbCount(p) + Count(fb_obj'[f] = p) - Count(fb_obj[f] = p)
      BY <3>1, FbMoves
    <3> QED BY <1>5, <1>6, <3>2
  <2>4. /\ Count(NoObj = p) = 0 /\ Count(o = p) \in {0, 1}
        /\ FbCount(p) \in Nat /\ LookupCount(p) \in Nat /\ VmaCount(p) \in Nat
        /\ HandleCount(handles, p) \in {0, 1}
        /\ Count(p \in dmabufs) \in {0, 1} /\ Count(cursor.obj = p) \in {0, 1}
    <3>1. Count(NoObj = p) = 0
      BY ObjectsAssumption DEF Count
    <3> QED BY <3>1, CountNat, CountsAreNat, HandleCounts
  <2>5. PICK k \in {0, 1}, l \in Nat, m \in Nat :
           /\ k = Count(o = p) /\ l = LookupCount(p)' /\ m = FbCount(p)'
           /\ l = LookupCount(p) - k /\ m = FbCount(p) + k
    BY <2>2, <2>3, <2>4, HoldersNext
  <2>6. Holders(p)' = HandleCount(handles, p) + m + VmaCount(p)
                        + Count(p \in dmabufs) + Count(cursor.obj = p) + l
    BY <1>1, <2>1, <2>5, HoldersNext DEF fileVars, painterVars, primeVars
  <2>7. Holders(p) = HandleCount(handles, p) + FbCount(p) + VmaCount(p)
                        + Count(p \in dmabufs) + Count(cursor.obj = p) + LookupCount(p)
    BY HoldersAre
  <2> QED BY <2>4, <2>5, <2>6, <2>7
<1>8. \A p \in Objects : refs'[p] = Holders(p)' /\ (refs'[p] > 0 <=> refs[p] > 0)
  BY <1>0, <1>1, <1>7 DEF ObjectRefsExact, objVars
<1>9. FileTypes' /\ FbTypes' /\ PainterTypes' /\ ThreadTypes'
  <2>1. FbTypes'
    BY <1>0, <1>1, <1>5, Types DEF FbTypes
  <2>2. ThreadTypes'
    BY <1>0, <1>1, <1>3, Types DEF ThreadTypes, Steps
  <2> QED BY <1>0, <1>1, <2>1, <2>2, Types, TypesKept
<1>10. Control'
  <2>1. \A c \in Clients : grab_fb[c] # f
    BY <1>1, <1>6 DEF InUse
  <2> QED BY <1>0, <1>1, <1>4, <1>5, <2>1, Names
          DEF Control, painterVars, primeVars, objVars
<1>11. FbRefsExact'
  <2> SUFFICES ASSUME NEW g \in Fbs
               PROVE  /\ fb_refs'[g] = Count(g \in ids') + Count(plane' = g)
                                       + Count(scanout_fb' = g) + GrabCount(g)'
                      /\ fb_obj'[g] # NoObj <=> fb_refs'[g] > 0
    BY FbRefsNext
  <2>1. GrabCount(g)' = GrabCount(g) /\ plane' = plane /\ scanout_fb' = scanout_fb
    BY <1>1, CountsSame DEF painterVars
  <2>2. /\ fb_refs[g] = Count(g \in ids) + Count(plane = g) + Count(scanout_fb = g) + GrabCount(g)
        /\ Count(g \in ids) \in {0, 1} /\ Count(plane = g) \in {0, 1}
        /\ Count(scanout_fb = g) \in {0, 1} /\ GrabCount(g) \in Nat
        /\ fb_obj[g] # NoObj <=> fb_refs[g] > 0
    BY <1>0, FbRefsAre
  <2>3. CASE g = f
    <3>1. Count(g \in ids') = 1
      BY <1>1, <2>3 DEF Count
    <3> QED BY <1>1, <1>5, <2>1, <2>2, <2>3, <3>1, ObjectsAssumption
  <2>4. CASE g # f
    <3>1. Count(g \in ids') = Count(g \in ids)
      BY <1>1, <2>4 DEF Count
    <3> QED BY <1>5, <2>1, <2>2, <2>4, <3>1
  <2> QED BY <2>3, <2>4
<1>12. /\ UNCHANGED <<state, pages, vmapping, pinned, mapped, offsets, attachments, device_refs,
                      users, overlap>>
       /\ refs' \in [Objects -> Int] /\ dmabufs' \subseteq Objects /\ importers' \subseteq Objects
       /\ obj'["import"] = obj["import"] /\ MapsNothingNew
       /\ \A g \in Files : vmas'[g] \subseteq vmas[g] \cup offsets
  BY <1>0, <1>1, <1>4, Names DEF objVars, fileVars, painterVars, primeVars, TypeOK, MapsNothingNew
<1> QED BY <1>8, <1>9, <1>10, <1>11, <1>12, TakeStep

LEMMA FbStepInv == IInv /\ FbStep /\ users' = users => IInv'
BY AddFbInv, AddFbInitInv, AddFbFailsInv, FbHandleInv, RmFbInv, ShowFbInv DEF FbStep

-----------------------------------------------------------------------------
(* Clients.                                                                *)

LEMMA ConnectInv ==
    ASSUME IInv, NEW c \in Clients, Connect(c), users' = users
    PROVE  IInv'
<1>0. TypeOK /\ Control
  BY DEF IInv
<1>1. /\ drm_filp' = c
      /\ UNCHANGED <<objVars, fileVars, fbVars, scanout_fb, cursor, primeVars, threadVars, overlap>>
  BY DEF Connect
<1>2. UNCHANGED <<pc, obj, grab_fb, dmabufs, importers, attachments, device_refs>>
  BY <1>1 DEF threadVars, primeVars
<1>3. PainterTypes' /\ ThreadTypes' /\ importers' \subseteq Objects
  <2>1. PainterTypes'
    BY <1>0, <1>1, Types DEF PainterTypes
  <2> QED BY <1>0, <1>1, <1>2, <2>1, Types, TypesKept DEF PrimeTypes
<1>4. Control'
  BY <1>0, <1>1, <1>2 DEF Control, fbVars, objVars
<1>5. MapsNothingNew
  BY <1>1, <1>2 DEF MapsNothingNew
<1> QED BY <1>1, <1>2, <1>3, <1>4, <1>5, QuietInv

LEMMA CopyPrimaryInv ==
    ASSUME IInv, NEW c \in Clients, CopyPrimary(c), users' = users
    PROVE  IInv'
<1>0. TypeOK /\ Control
  BY DEF IInv
<1>1. /\ pc[c] = "done" /\ pc' = [pc EXCEPT ![c] = "compose"]
      /\ UNCHANGED <<objVars, fileVars, fbVars, painterVars, primeVars, obj, grab_fb, overlap>>
  BY DEF CopyPrimary, Goto
<1>2. c \in Threads /\ pc'[c] = "compose" /\ \A u \in Threads \ {c} : pc'[u] = pc[u]
  BY <1>0, <1>1, Names DEF TypeOK
<1>3. UNCHANGED <<scanout_fb, cursor, dmabufs, importers, attachments, device_refs>>
  BY <1>1 DEF painterVars, primeVars
<1>4. PainterTypes' /\ ThreadTypes' /\ importers' \subseteq Objects
  <2>1. ThreadTypes'
    BY <1>0, <1>1, Types DEF ThreadTypes, Steps
  <2> QED BY <1>0, <1>1, <1>3, <2>1, Types, TypesKept DEF PrimeTypes
<1>5. Control'
  BY <1>0, <1>1, <1>2, <1>3, Names DEF Control, fbVars, objVars
<1>6. MapsNothingNew
  BY <1>1, <1>2, <1>3 DEF MapsNothingNew
<1> QED BY <1>1, <1>3, <1>4, <1>5, <1>6, QuietInv

LEMMA GrabInv ==
    ASSUME IInv, NEW c \in Clients, Grab(c), users' = users
    PROVE  IInv'
<1>0. TypeOK /\ Control /\ ObjectRefsExact /\ FbRefsExact /\ Memory /\ Attach /\ Mappers
  BY DEF IInv
<1>1. /\ pc[c] = "idle" /\ scanout_fb # NoFb
      /\ fb_refs' = Up(fb_refs, scanout_fb)
      /\ grab_fb' = [grab_fb EXCEPT ![c] = scanout_fb]
      /\ pc' = [pc EXCEPT ![c] = "check"] /\ obj' = [obj EXCEPT ![c] = fb_obj[scanout_fb]]
      /\ UNCHANGED <<objVars, fileVars, fb_obj, ids, plane, painterVars, primeVars, overlap>>
  BY DEF Grab, Idle, Begin
<1>2. PICK f \in Fbs : f = scanout_fb
  BY <1>0, <1>1 DEF TypeOK
<1>3. fb_refs[f] > 0 /\ fb_obj[f] \in Objects
  BY <1>0, <1>2, HeldIsInUse DEF InUse
<1>4. PICK o \in Objects : o = fb_obj[f]
  BY <1>3
<1>5. /\ c \in Threads /\ pc'[c] = "check" /\ obj'[c] = o /\ grab_fb'[c] = f
      /\ \A u \in Threads \ {c} : pc'[u] = pc[u] /\ obj'[u] = obj[u]
      /\ \A d \in Clients \ {c} : grab_fb'[d] = grab_fb[d]
      /\ grab_fb[c] = NoFb
  BY <1>0, <1>1, <1>2, <1>4, Names DEF TypeOK, Control
<1>6. fb_refs' \in [Fbs -> Int] /\ \A g \in Fbs : fb_refs'[g] = fb_refs[g] + Count(g = f)
  BY <1>0, <1>1, <1>2, UpType DEF TypeOK
<1>7. \A g \in Fbs : /\ fb_refs'[g] \in Nat
                     /\ fb_refs'[g] = Count(g \in ids') + Count(plane' = g)
                                       + Count(scanout_fb' = g) + GrabCount(g)'
                     /\ fb_obj'[g] # NoObj <=> fb_refs'[g] > 0
  <2> TAKE g \in Fbs
  <2>1. GrabCount(g)' = GrabCount(g) + Count(g = f)
    <3>1. GrabCount(g)' = GrabCount(g) + Count(grab_fb'[c] = g) - Count(grab_fb[c] = g)
      BY <1>5, GrabMoves
    <3>2. Count(grab_fb[c] = g) = 0 /\ Count(grab_fb'[c] = g) = Count(g = f)
      BY <1>5, BuffersFbsAssumption DEF Count
    <3> QED BY <3>1, <3>2, CountsAreNat, CountNat
  <2>2. /\ fb_refs[g] = Count(g \in ids) + Count(plane = g) + Count(scanout_fb = g) + GrabCount(g)
        /\ Count(g \in ids) \in {0, 1} /\ Count(plane = g) \in {0, 1}
        /\ Count(scanout_fb = g) \in {0, 1} /\ GrabCount(g) \in Nat /\ Count(g = f) \in {0, 1}
        /\ fb_obj[g] # NoObj <=> fb_refs[g] > 0
    BY <1>0, FbRefsAre, CountNat
  <2>3. ids' = ids /\ plane' = plane /\ scanout_fb' = scanout_fb /\ fb_obj' = fb_obj
    BY <1>1 DEF painterVars
  <2>4. Count(g = f) = 1 => fb_refs[g] > 0
    BY <1>3 DEF Count
  <2> QED BY <1>6, <2>1, <2>2, <2>3, <2>4
<1>8. FbRefsExact'
  BY <1>7, FbRefsNext
<1>9. \A o1 \in Objects : refs'[o1] = Holders(o1)' /\ (refs'[o1] > 0 <=> refs[o1] > 0)
  <2> TAKE p \in Objects
  <2>1. \A t \in {"map", "addfb", "cursor"} : obj'[t] = obj[t]
    BY <1>5, Names
  <2>2. FbCount(p)' = FbCount(p) /\ VmaCount(p)' = VmaCount(p) /\ LookupCount(p)' = LookupCount(p)
    BY <1>1, <2>1, CountsSame DEF fileVars
  <2>3. Holders(p)' = Holders(p)
    BY <1>1, <2>2, HoldersNext, HoldersAre DEF fileVars, painterVars, primeVars
  <2> QED BY <1>0, <1>1, <2>3 DEF ObjectRefsExact, objVars
<1>10. FileTypes' /\ FbTypes' /\ PainterTypes' /\ ThreadTypes'
  <2>1. fb_refs' \in [Fbs -> Nat]
    BY <1>6, <1>7
  <2>2. FbTypes'
    BY <1>0, <1>1, <2>1, Types DEF FbTypes
  <2>3. ThreadTypes'
    BY <1>0, <1>1, <1>2, <1>3, Types DEF ThreadTypes, Steps
  <2> QED BY <1>0, <1>1, <2>2, <2>3, Types, TypesKept
<1>11. Control'
  BY <1>0, <1>1, <1>4, <1>5, Names DEF Control, painterVars, primeVars, objVars
<1>12. /\ UNCHANGED <<state, pages, vmapping, pinned, mapped, offsets, attachments, device_refs,
                      users, overlap>>
       /\ refs' \in [Objects -> Int] /\ dmabufs' \subseteq Objects /\ importers' \subseteq Objects
       /\ obj'["import"] = obj["import"] /\ MapsNothingNew
       /\ \A g \in Files : vmas'[g] \subseteq vmas[g] \cup offsets
  BY <1>0, <1>1, <1>5, Names DEF objVars, fileVars, painterVars, primeVars, TypeOK, MapsNothingNew
<1> QED BY <1>8, <1>9, <1>10, <1>11, <1>12, TakeStep

\* The end of a grab: the thread lets go of its framebuffer.
LEMMA PutGrabbedInv ==
    ASSUME IInv, NEW c \in Clients, pc[c] # "idle", PutGrabbed(c), users' = users
    PROVE  IInv'
<1>0. TypeOK /\ Control /\ ObjectRefsExact /\ FbRefsExact /\ Memory /\ Attach /\ Mappers
  BY DEF IInv
<1>1. PICK f \in Fbs : f = grab_fb[c]
  BY <1>0 DEF Control
<1>2. /\ grab_fb' = [grab_fb EXCEPT ![c] = NoFb]
      /\ pc' = [pc EXCEPT ![c] = "idle"] /\ obj' = [obj EXCEPT ![c] = NoObj]
      /\ UNCHANGED <<fileVars, ids, plane, painterVars, dmabufs, importers, overlap>>
  BY DEF PutGrabbed, End, Begin
<1>3. /\ c \in Threads /\ pc'[c] = "idle" /\ obj'[c] = NoObj /\ grab_fb'[c] = NoFb
      /\ \A u \in Threads \ {c} : pc'[u] = pc[u] /\ obj'[u] = obj[u]
      /\ \A d \in Clients \ {c} : grab_fb'[d] = grab_fb[d]
  BY <1>0, <1>2, Names DEF TypeOK
<1>4. PICK fc \in [Fbs -> Int] :
         PutFbs(fc) /\ \A g \in Fbs : fc[g] = fb_refs[g] - Count(g = f)
  BY <1>0, <1>1, UpType DEF PutGrabbed, TypeOK
<1>5. \A g \in Fbs : /\ fc[g] = Count(g \in ids') + Count(plane' = g)
                                + Count(scanout_fb' = g) + GrabCount(g)'
                     /\ fc[g] > 0 => fb_refs[g] > 0
  <2> TAKE g \in Fbs
  <2>1. GrabCount(g)' = GrabCount(g) - Count(g = f)
    <3>1. GrabCount(g)' = GrabCount(g) + Count(grab_fb'[c] = g) - Count(grab_fb[c] = g)
      BY <1>3, GrabMoves
    <3>2. Count(grab_fb'[c] = g) = 0 /\ Count(grab_fb[c] = g) = Count(g = f)
      BY <1>1, <1>3, BuffersFbsAssumption DEF Count
    <3> QED BY <3>1, <3>2, CountsAreNat, CountNat
  <2>2. /\ fb_refs[g] = Count(g \in ids) + Count(plane = g) + Count(scanout_fb = g) + GrabCount(g)
        /\ Count(g \in ids) \in {0, 1} /\ Count(plane = g) \in {0, 1}
        /\ Count(scanout_fb = g) \in {0, 1} /\ GrabCount(g) \in Nat /\ Count(g = f) \in {0, 1}
    BY <1>0, FbRefsAre, CountNat
  <2>3. ids' = ids /\ plane' = plane /\ scanout_fb' = scanout_fb
    BY <1>2 DEF painterVars
  <2>4. PICK k \in {0, 1}, m \in Nat, n \in Nat :
           k = Count(g = f) /\ m = GrabCount(g) /\ n = GrabCount(g)' /\ n = m - k
    BY <2>1, <2>2, HoldersNext
  <2> QED BY <1>4, <2>2, <2>3, <2>4
<1>6. ids' \subseteq Fbs /\ plane' \in Fbs \cup {NoFb} /\ PainterTypes' /\ ThreadTypes'
  <2>1. ThreadTypes'
    BY <1>0, <1>2, Types DEF ThreadTypes, Steps
  <2> QED BY <1>0, <1>2, <2>1, Types, TypesKept DEF TypeOK
<1>7. /\ MapsNothingNew /\ \A t \in {"map", "addfb", "cursor", "import"} : obj'[t] = obj[t]
      /\ UNCHANGED <<cursor, dmabufs>>
  BY <1>2, <1>3, Names DEF MapsNothingNew, painterVars
<1>8. ASSUME /\ \A o \in Objects : state'[o] = "new" <=> state[o] = "new"
             /\ \A d \in Clients : grab_fb'[d] \in Fbs =>
                   fb_obj'[grab_fb'[d]] = fb_obj[grab_fb'[d]]
      PROVE Control'
  <2>1. \A d \in Clients :
          /\ pc'[d] \in {"idle", "check", "pages", "pin", "vmap", "done", "failed", "compose"}
          /\ pc'[d] = "idle" => grab_fb'[d] = NoFb
          /\ pc'[d] # "idle" => grab_fb'[d] \in Fbs /\ obj'[d] = fb_obj'[grab_fb'[d]]
    BY <1>0, <1>3, <1>8, Names DEF Control
  <2> QED BY <1>0, <1>3, <1>7, <1>8, <2>1, ObjectsAssumption, Names DEF Control
<1> QED BY <1>2, <1>4, <1>5, <1>6, <1>7, <1>8, PutFbsStep

\* The client's end of the connection: its handles may go too.
LEMMA DropConnectionInv ==
    ASSUME IInv, NEW hc \in [Objects -> Int], DropConnection(hc),
           handles' \in [Files -> SUBSET Objects], \A g \in Files : handles'[g] \subseteq handles[g],
           \A o \in Objects :
              hc[o] = refs[o] + HandleCount(handles', o) - HandleCount(handles, o),
           UNCHANGED <<offsets, vmas, ids, plane, dmabufs, importers, threadVars, overlap, users>>
    PROVE  IInv'
<1>0. TypeOK /\ Control /\ ObjectRefsExact /\ FbRefsExact /\ Memory /\ Attach /\ Mappers
  BY DEF IInv
<1>1. PICK gone \in SUBSET Fbs :
         /\ \A f \in Fbs : f \in gone <=> f = scanout_fb /\ fb_refs[f] = 1
         /\ cursor' = NoCursor /\ scanout_fb' = NoFb /\ drm_filp' = NoClient
         /\ fb_refs' = Down(fb_refs, scanout_fb)
         /\ fb_obj' = [f \in Fbs |-> IF f \in gone THEN NoObj ELSE fb_obj[f]]
         /\ PutObjects([o \in Objects |->
                             hc[o] - Count(o = cursor.obj)
                                   - Cardinality({f \in gone : fb_obj[f] = o})])
  BY DEF DropConnection
<1>2. UNCHANGED <<pc, obj, grab_fb>> /\ cursor'.obj = NoObj /\ ~ cursor'.enabled
  BY <1>1 DEF threadVars, NoCursor
<1>3. PICK fc \in [Fbs -> Int] :
         fb_refs' = fc /\ \A g \in Fbs : fc[g] = fb_refs[g] - Count(g = scanout_fb)
  BY <1>0, <1>1, UpType DEF TypeOK
<1>4. \A g \in Fbs : /\ fc[g] = Count(g \in ids') + Count(plane' = g)
                                + Count(scanout_fb' = g) + GrabCount(g)'
                     /\ fc[g] > 0 => fb_refs[g] > 0
                     /\ g \in gone <=> fb_refs[g] > 0 /\ fc[g] = 0
  <2> TAKE g \in Fbs
  <2>1. GrabCount(g)' = GrabCount(g)
    BY <1>2, CountsSame
  <2>2. /\ fb_refs[g] = Count(g \in ids) + Count(plane = g) + Count(scanout_fb = g) + GrabCount(g)
        /\ Count(g \in ids) \in {0, 1} /\ Count(plane = g) \in {0, 1}
        /\ Count(scanout_fb = g) \in {0, 1} /\ GrabCount(g) \in Nat
    BY <1>0, FbRefsAre, CountNat
  <2>3. /\ Count(scanout_fb' = g) = 0 /\ Count(g = scanout_fb) = Count(scanout_fb = g)
        /\ Count(scanout_fb = g) = 1 <=> g = scanout_fb
    BY <1>1, BuffersFbsAssumption DEF Count
  <2>4. g \in gone <=> g = scanout_fb /\ fb_refs[g] = 1
    BY <1>1
  <2> QED BY <1>3, <2>1, <2>2, <2>3, <2>4
<1>5. /\ fb_obj' \in [Fbs -> Objects \cup {NoObj}]
      /\ \A f \in Fbs : fb_obj'[f] = IF f \in gone THEN NoObj ELSE fb_obj[f]
  BY <1>0, <1>1 DEF TypeOK
<1>6. PICK oc \in [Objects -> Int] :
         /\ PutObjects(oc)
         /\ \A o \in Objects :
              oc[o] = refs[o] + HandleCount(handles', o) - HandleCount(handles, o)
                      + Count(cursor'.obj = o) - Count(cursor.obj = o)
                      - Cardinality(Sources(gone, fb_obj, o))
  <2> DEFINE oc == [o \in Objects |-> hc[o] - Count(o = cursor.obj)
                                            - Cardinality({f \in gone : fb_obj[f] = o})]
  <2>1. PutObjects(oc)
    BY <1>1
  <2>2. \A o \in Objects : oc[o] = hc[o] - Count(o = cursor.obj)
                                         - Cardinality(Sources(gone, fb_obj, o))
    BY DEF Sources
  <2>3. \A o \in Objects : /\ Cardinality(Sources(gone, fb_obj, o)) \in Nat
                           /\ Count(cursor'.obj = o) = 0
                           /\ Count(o = cursor.obj) = Count(cursor.obj = o)
                           /\ Count(o = cursor.obj) \in {0, 1}
    <3> TAKE o \in Objects
    <3>1. Count(cursor'.obj = o) = 0 /\ Count(o = cursor.obj) = Count(cursor.obj = o)
      BY <1>2, ObjectsAssumption DEF Count
    <3> QED BY <1>5, <3>1, PutFbsCount, CountNat
  <2>4. oc \in [Objects -> Int]
    <3>1. \A o \in Objects : hc[o] - Count(o = cursor.obj)
                             - Cardinality(Sources(gone, fb_obj, o)) \in Int
      BY <2>3
    <3>2. oc = [o \in Objects |-> hc[o] - Count(o = cursor.obj)
                                        - Cardinality(Sources(gone, fb_obj, o))]
      BY DEF Sources
    <3> QED BY <3>1, <3>2
  <2> HIDE DEF oc
  <2>5. \A o \in Objects :
              oc[o] = refs[o] + HandleCount(handles', o) - HandleCount(handles, o)
                      + Count(cursor'.obj = o) - Count(cursor.obj = o)
                      - Cardinality(Sources(gone, fb_obj, o))
    <3> TAKE o \in Objects
    <3>1. PICK k \in Nat : /\ k = Cardinality(Sources(gone, fb_obj, o))
                           /\ oc[o] = hc[o] - Count(o = cursor.obj) - k
      BY <2>2, <2>3
    <3>2. /\ refs[o] \in Nat /\ HandleCount(handles, o) \in {0, 1}
          /\ HandleCount(handles', o) \in {0, 1}
          /\ hc[o] = refs[o] + HandleCount(handles', o) - HandleCount(handles, o)
      BY <1>0, HandleCounts DEF TypeOK
    <3> QED BY <2>3, <3>1, <3>2
  <2> QED BY <2>1, <2>4, <2>5
<1>7. ids' \subseteq Fbs /\ plane' \in Fbs \cup {NoFb} /\ PainterTypes' /\ ThreadTypes'
  <2>1. PainterTypes'
    BY <1>1 DEF PainterTypes, NoCursor
  <2> QED BY <1>0, <2>1, Types, TypesKept DEF TypeOK
<1>8. /\ MapsNothingNew /\ \A t \in {"map", "addfb", "cursor", "import"} : obj'[t] = obj[t]
      /\ cursor'.obj \in {cursor.obj, NoObj}
  BY <1>2 DEF MapsNothingNew
<1>9. /\ \A o \in Objects : state'[o] = "new" <=> state[o] = "new"
      /\ \A c \in Clients : grab_fb'[c] \in Fbs =>
            fb_obj'[grab_fb'[c]] = fb_obj[grab_fb'[c]]
      => Control'
  BY <1>0, <1>2, ThreadsStay
<1> QED BY <1>3, <1>4, <1>5, <1>6, <1>7, <1>8, <1>9, ReleaseInv

LEMMA DisconnectInv ==
    ASSUME IInv, NEW c \in Clients, Disconnect(c), users' = users
    PROVE  IInv'
<1>1. /\ DropConnection(refs)
      /\ UNCHANGED <<fileVars, ids, plane, dmabufs, importers, threadVars, overlap>>
  BY DEF Disconnect
<1>2. /\ refs \in [Objects -> Int] /\ UNCHANGED <<handles, vmas, offsets>>
      /\ handles' \in [Files -> SUBSET Objects] /\ \A g \in Files : handles'[g] \subseteq handles[g]
  BY <1>1 DEF IInv, TypeOK, fileVars
<1>3. \A o \in Objects :
         refs[o] = refs[o] + HandleCount(handles', o) - HandleCount(handles, o)
  <2> TAKE o \in Objects
  <2>1. HandleCount(handles', o) = HandleCount(handles, o)
    BY <1>2
  <2> QED BY <1>2, <2>1, HandleCounts
<1> QED BY <1>1, <1>2, <1>3, DropConnectionInv

LEMMA CloseFileInv ==
    ASSUME IInv, NEW c \in Clients, CloseFile(c), users' = users
    PROVE  IInv'
<1>0. TypeOK
  BY DEF IInv
<1>1. PICK table : /\ handles' = table /\ table = [handles EXCEPT ![c] = {}]
                   /\ c = drm_filp => DropConnection(HandleRefs(table))
                   /\ c # drm_filp => /\ PutObjects(HandleRefs(table))
                                      /\ UNCHANGED <<fb_obj, fb_refs, painterVars>>
                   /\ UNCHANGED <<offsets, vmas, ids, plane, dmabufs, importers, threadVars,
                                  overlap>>
  BY DEF CloseFile
<1>2. /\ c \in Files /\ handles' \in [Files -> SUBSET Objects]
      /\ \A g \in Files : handles'[g] \subseteq handles[g]
      /\ \A g \in Files \ {c} : handles'[g] = handles[g]
  BY <1>0, <1>1 DEF TypeOK, Files
<1>3. PICK hc \in [Objects -> Int] :
         /\ hc = HandleRefs(table)
         /\ \A o \in Objects :
               hc[o] = refs[o] + HandleCount(handles', o) - HandleCount(handles, o)
  <2>1. /\ HandleRefs(table) \in [Objects -> Int]
        /\ \A o \in Objects : HandleRefs(table)[o] =
                 refs[o] + HandleCount(table, o) - HandleCount(handles, o)
    BY <1>0, HandleRefsAre
  <2> QED BY <1>1, <2>1
<1>4. CASE c = drm_filp
  BY <1>1, <1>2, <1>3, <1>4, DropConnectionInv
<1>5. CASE c # drm_filp
  <2>1. PutObjects(hc) /\ UNCHANGED <<fbVars, painterVars>>
    BY <1>1, <1>3, <1>5 DEF fbVars
  <2> QED BY <1>1, <1>2, <1>3, <2>1, HandleDropInv
<1> QED BY <1>4, <1>5

LEMMA ClientStepInv ==
    ASSUME IInv, NEW c \in Clients, ClientStep(c), users' = users
    PROVE  IInv'
<1>1. CASE ComposeCursor(c) \/ GrabEnds(c)
  <2>1. PutGrabbed(c) /\ pc[c] # "idle"
    BY <1>1 DEF ComposeCursor, GrabEnds
  <2> QED BY <2>1, PutGrabbedInv
<1>2. CASE Connect(c) \/ Disconnect(c) \/ CloseFile(c) \/ Grab(c) \/ CopyPrimary(c)
  BY <1>2, ConnectInv, DisconnectInv, CloseFileInv, GrabInv, CopyPrimaryInv
<1> QED BY <1>1, <1>2 DEF ClientStep

-----------------------------------------------------------------------------
(* The cursor.                                                             *)

LEMMA CursorLookupInv ==
    ASSUME IInv, NEW o \in Objects \cup {NoObj}, CursorLookup(o), users' = users
    PROVE  IInv'
<1>1. /\ pc["cursor"] = "idle" /\ (o = NoObj \/ o \in handles[Compositor])
      /\ refs' = Up(refs, o)
      /\ pc' = [pc EXCEPT !["cursor"] = "lock"] /\ obj' = [obj EXCEPT !["cursor"] = o]
      /\ UNCHANGED <<state, pages, vmapping, pinned, mapped, fileVars, fbVars, painterVars,
                     primeVars, grab_fb, overlap, users>>
  BY DEF CursorLookup, Idle, Begin
<1>2. o # NoObj => refs[o] > 0
  BY <1>1, HeldIsInUse DEF IInv, InUse, Files
<1> QED BY <1>1, <1>2, LookupInv

\* The thread that changes the cursor goes on, and moves no reference.
LEMMA CursorGoesInv ==
    ASSUME IInv, NEW step \in Steps, pc' = [pc EXCEPT !["cursor"] = step],
           \/ pc["cursor"] = "lock" /\ obj["cursor"] = NoObj /\ step = "done"
           \/ pc["cursor"] = "lock" /\ obj["cursor"] # NoObj /\ step = "check"
           \/ pc["cursor"] = "send" /\ step = "idle",
           UNCHANGED <<objVars, fileVars, fbVars, painterVars, primeVars, obj, grab_fb, overlap,
                       users>>
    PROVE  IInv'
<1>0. TypeOK /\ Control
  BY DEF IInv
<1>1. pc'["cursor"] = step /\ \A u \in Threads \ {"cursor"} : pc'[u] = pc[u]
  BY <1>0, Names DEF TypeOK
<1>2. UNCHANGED <<scanout_fb, cursor, dmabufs, importers, attachments, device_refs>>
  BY DEF painterVars, primeVars
<1>3. PainterTypes' /\ ThreadTypes' /\ importers' \subseteq Objects
  <2>1. ThreadTypes'
    BY <1>0, Types DEF ThreadTypes
  <2> QED BY <1>0, <1>2, <2>1, Types, TypesKept DEF PrimeTypes
<1>4. Control'
  BY <1>0, <1>1, <1>2, Names DEF Control, fbVars, objVars, TypeOK
<1>5. MapsNothingNew
  BY <1>0, <1>1, <1>2, Names DEF MapsNothingNew, Control
<1> QED BY <1>2, <1>3, <1>4, <1>5, QuietInv

LEMMA CursorLockInv ==
    ASSUME IInv, CursorLock, users' = users
    PROVE  IInv'
<1>1. CASE obj["cursor"] = NoObj
  <2>1. pc["cursor"] = "lock" /\ pc' = [pc EXCEPT !["cursor"] = "done"] /\ "done" \in Steps
    BY <1>1 DEF CursorLock, Goto, Steps
  <2>2. UNCHANGED <<objVars, fileVars, fbVars, painterVars, primeVars, obj, grab_fb, overlap,
                    users>>
    BY DEF CursorLock
  <2> QED BY <1>1, <2>1, <2>2, CursorGoesInv
<1>2. CASE obj["cursor"] # NoObj
  <2>1. pc["cursor"] = "lock" /\ pc' = [pc EXCEPT !["cursor"] = "check"] /\ "check" \in Steps
    BY <1>2 DEF CursorLock, Goto, Steps
  <2>2. UNCHANGED <<objVars, fileVars, fbVars, painterVars, primeVars, obj, grab_fb, overlap,
                    users>>
    BY DEF CursorLock
  <2> QED BY <1>2, <2>1, <2>2, CursorGoesInv
<1> QED BY <1>1, <1>2

LEMMA CursorDoneInv ==
    ASSUME IInv, CursorDone, users' = users
    PROVE  IInv'
<1>1. pc["cursor"] = "send" /\ pc' = [pc EXCEPT !["cursor"] = "idle"] /\ "idle" \in Steps
  BY DEF CursorDone, Goto, Steps
<1>2. UNCHANGED <<objVars, fileVars, fbVars, painterVars, primeVars, obj, grab_fb, overlap,
                  users>>
  BY DEF CursorDone
<1> QED BY <1>1, <1>2, CursorGoesInv

LEMMA CursorPutInv ==
    ASSUME IInv, CursorPut, users' = users
    PROVE  IInv'
<1>1. /\ pc["cursor"] = "put" /\ PutObjects(Down(refs, obj["cursor"]))
      /\ pc' = [pc EXCEPT !["cursor"] = "send"] /\ obj' = [obj EXCEPT !["cursor"] = NoObj]
      /\ UNCHANGED <<fileVars, fbVars, painterVars, dmabufs, importers, grab_fb, overlap, users>>
  BY DEF CursorPut
<1>2. offsets' = offsets /\ UNCHANGED <<handles, vmas>>
  BY <1>1 DEF fileVars
<1> QED BY <1>1, <1>2, LookupEndInv

LEMMA SendCursorSetInv ==
    ASSUME IInv, SendCursorSet, users' = users
    PROVE  IInv'
<1>1. /\ pc["cursor"] = "send" /\ drm_filp # NoClient /\ cursor.obj # NoObj
      /\ pc' = [pc EXCEPT !["cursor"] = "idle"]
      /\ UNCHANGED <<state, pages, vmapping, pinned, mapped, offsets, vmas, fbVars, painterVars,
                     primeVars, obj, grab_fb, overlap, users>>
  BY DEF SendCursorSet, Goto
<1>2. TypeOK /\ InUse
  BY HeldIsInUse DEF IInv
<1>3. PICK o \in Objects, file \in Files : o = cursor.obj /\ file = drm_filp /\ refs[o] > 0
  BY <1>1, <1>2 DEF InUse, TypeOK, Files
<1>4. PICK table : /\ handles' = table /\ table = [handles EXCEPT ![file] = @ \cup {o}]
                   /\ refs' = HandleRefs(table)
  BY <1>3 DEF SendCursorSet
<1>5. /\ refs' \in [Objects -> Int]
      /\ \A p \in Objects :
              refs'[p] = refs[p] + HandleCount(handles', p) - HandleCount(handles, p)
  <2>1. /\ HandleRefs(table) \in [Objects -> Int]
        /\ \A p \in Objects : HandleRefs(table)[p] =
                 refs[p] + HandleCount(table, p) - HandleCount(handles, p)
    BY <1>2, HandleRefsAre
  <2> QED BY <1>4, <2>1
<1>6. /\ handles' \in [Files -> SUBSET Objects]
      /\ handles'[file] = handles[file] \cup {o}
      /\ \A g \in Files \ {file} : handles'[g] = handles[g]
  BY <1>2, <1>4 DEF TypeOK
<1> QED BY <1>1, <1>3, <1>5, <1>6, HandleAddInv

\* The cursor's old object is put, the new one keeps a reference of its own, so
\* the ioctl can put the one of the lookup afterwards.
LEMMA CursorStoreInv ==
    ASSUME IInv, CursorStore, users' = users
    PROVE  IInv'
<1>0. TypeOK /\ Control /\ ObjectRefsExact /\ FbRefsExact /\ Memory /\ Attach /\ Mappers
  BY DEF IInv
<1>1. PICK new \in Objects \cup {NoObj} :
         /\ pc["cursor"] \in {"done", "failed"}
         /\ new # NoObj => new = obj["cursor"] /\ pc["cursor"] = "done"
         /\ cursor' = [enabled |-> new # NoObj, obj |-> new]
         /\ PutObjects(Down(Up(refs, new), cursor.obj))
         /\ pc' = [pc EXCEPT !["cursor"] = "put"]
         /\ UNCHANGED <<fileVars, fbVars, scanout_fb, drm_filp, dmabufs, importers, obj, grab_fb,
                        overlap>>
  BY <1>0, Names DEF CursorStore, Goto, TypeOK
<1>2. /\ pc'["cursor"] = "put" /\ \A u \in Threads \ {"cursor"} : pc'[u] = pc[u]
      /\ cursor'.obj = new /\ (cursor'.enabled => new # NoObj)
      /\ new # NoObj => refs[new] > 0
  <2>1. InUse
    BY <1>0, HeldIsInUse
  <2> QED BY <1>0, <1>1, <2>1, Names DEF TypeOK, InUse
<1>3. PICK counts \in [Objects -> Int] :
         /\ PutObjects(counts)
         /\ \A p \in Objects : counts[p] = refs[p] + Count(p = new) - Count(p = cursor.obj)
  <2>1. PICK one \in [Objects -> Int] :
           one = Up(refs, new) /\ \A p \in Objects : one[p] = refs[p] + Count(p = new)
    BY <1>0, UpType DEF TypeOK
  <2>2. PICK two \in [Objects -> Int] :
           /\ two = Down(one, cursor.obj)
           /\ \A p \in Objects : two[p] = one[p] - Count(p = cursor.obj)
    BY UpType
  <2>3. \A p \in Objects : two[p] = refs[p] + Count(p = new) - Count(p = cursor.obj)
    <3> TAKE p \in Objects
    <3>1. refs[p] \in Nat /\ Count(p = new) \in {0, 1} /\ Count(p = cursor.obj) \in {0, 1}
      BY <1>0, CountNat DEF TypeOK
    <3>2. one[p] = refs[p] + Count(p = new) /\ two[p] = one[p] - Count(p = cursor.obj)
      BY <2>1, <2>2
    <3> QED BY <3>1, <3>2
  <2>4. PutObjects(two)
    BY <1>1, <2>1, <2>2
  <2> QED BY <2>3, <2>4
<1>4. \A p \in Objects : counts[p] = Holders(p)' /\ (counts[p] > 0 => refs[p] > 0)
  <2> TAKE p \in Objects
  <2>1. FbCount(p)' = FbCount(p) /\ LookupCount(p)' = LookupCount(p) /\ VmaCount(p)' = VmaCount(p)
    BY <1>1, CountsSame DEF fbVars, fileVars
  <2>2. /\ refs[p] = HandleCount(handles, p) + FbCount(p) + VmaCount(p)
                      + Count(p \in dmabufs) + Count(cursor.obj = p) + LookupCount(p)
        /\ HandleCount(handles, p) \in {0, 1} /\ Count(p \in dmabufs) \in {0, 1}
        /\ Count(cursor.obj = p) \in {0, 1} /\ Count(p = new) \in {0, 1}
        /\ FbCount(p) \in Nat /\ VmaCount(p) \in Nat /\ LookupCount(p) \in Nat
    BY <1>0, RefsAre, CountNat, HandleCounts
  <2>3. Holders(p)' = HandleCount(handles, p) + FbCount(p) + VmaCount(p)
                      + Count(p \in dmabufs) + Count(p = new) + LookupCount(p)
    <3>1. Count(cursor'.obj = p) = Count(p = new)
      BY <1>2 DEF Count
    <3> QED BY <1>1, <2>1, <3>1, HoldersNext DEF fileVars
  <2>4. Count(p = cursor.obj) = Count(cursor.obj = p) /\ (Count(p = new) = 1 => refs[p] > 0)
    BY <1>2, ObjectsAssumption DEF Count
  <2> QED BY <1>3, <2>2, <2>3, <2>4
<1>5. FileTypes' /\ FbTypes' /\ PainterTypes' /\ ThreadTypes'
  <2>1. PainterTypes'
    BY <1>0, <1>1, Types DEF PainterTypes
  <2>2. ThreadTypes'
    BY <1>0, <1>1, Types DEF ThreadTypes, Steps
  <2> QED BY <1>0, <1>1, <2>1, <2>2, Types, TypesKept
<1>6. ASSUME \A p \in Objects : state'[p] = "new" <=> state[p] = "new" PROVE Control'
  BY <1>0, <1>1, <1>2, <1>6, ObjectsAssumption, Names DEF Control, fbVars
<1>7. FbRefsExact'
  BY <1>0, <1>1, FbRefsKept
<1>8. /\ MapsNothingNew /\ dmabufs' \subseteq Objects /\ importers' \subseteq Objects
      /\ obj'["import"] = obj["import"] /\ offsets \subseteq offsets'
      /\ \A p \in offsets' : p \in offsets \/ pages[p]
      /\ \A g \in Files : vmas'[g] \subseteq vmas[g]
  BY <1>0, <1>1, <1>2, Names DEF MapsNothingNew, fileVars, TypeOK
<1> QED BY <1>1, <1>3, <1>4, <1>5, <1>6, <1>7, <1>8, PutStep

LEMMA CursorStepInv == IInv /\ CursorStep /\ users' = users => IInv'
BY CursorLookupInv, CursorLockInv, CursorStoreInv, CursorPutInv, SendCursorSetInv,
   CursorDoneInv DEF CursorStep

-----------------------------------------------------------------------------
(* Sharing with other devices.                                             *)

LEMMA ExportInv ==
    ASSUME IInv, NEW o \in Objects, Export(o), users' = users
    PROVE  IInv'
<1>0. TypeOK /\ Control /\ ObjectRefsExact /\ FbRefsExact /\ Memory /\ Attach /\ Mappers
  BY DEF IInv
<1>1. /\ o \in handles[Compositor] /\ o \notin dmabufs /\ dmabufs' = dmabufs \cup {o}
      /\ UNCHANGED <<state, pages, vmapping, pinned, mapped, fileVars, fbVars, painterVars,
                     importers, attachments, device_refs, threadVars, overlap>>
  BY DEF Export
<1>2. UNCHANGED <<pc, obj, grab_fb>> /\ refs[o] > 0
  BY <1>0, <1>1, HeldIsInUse DEF threadVars, InUse, Files
<1>3. refs' \in [Objects -> Int] /\ \A p \in Objects : refs'[p] = refs[p] + Count(p = o)
  BY <1>0, UpType DEF Export, TypeOK
<1>4. \A p \in Objects : refs'[p] = Holders(p)' /\ (refs'[p] > 0 <=> refs[p] > 0)
  <2> TAKE p \in Objects
  <2>1. FbCount(p)' = FbCount(p) /\ LookupCount(p)' = LookupCount(p) /\ VmaCount(p)' = VmaCount(p)
    BY <1>1, <1>2, CountsSame DEF fbVars, fileVars
  <2>2. /\ refs[p] = HandleCount(handles, p) + FbCount(p) + VmaCount(p)
                      + Count(p \in dmabufs) + Count(cursor.obj = p) + LookupCount(p)
        /\ HandleCount(handles, p) \in {0, 1} /\ Count(p \in dmabufs) \in {0, 1}
        /\ Count(cursor.obj = p) \in {0, 1} /\ Count(p = o) \in {0, 1}
        /\ FbCount(p) \in Nat /\ VmaCount(p) \in Nat /\ LookupCount(p) \in Nat
    BY <1>0, RefsAre, CountNat, HandleCounts
  <2>3. Holders(p)' = HandleCount(handles, p) + FbCount(p) + VmaCount(p)
                      + Count(p \in dmabufs') + Count(cursor.obj = p) + LookupCount(p)
    BY <1>1, <2>1, HoldersNext DEF fileVars, painterVars
  <2>4. Count(p \in dmabufs') = Count(p \in dmabufs) + Count(p = o)
    BY <1>1 DEF Count
  <2>5. Count(p = o) = 1 => refs[p] > 0
    BY <1>2 DEF Count
  <2> QED BY <1>3, <2>2, <2>3, <2>4, <2>5
<1>5. FileTypes' /\ FbTypes' /\ PainterTypes' /\ ThreadTypes'
  BY <1>0, <1>1, Types, TypesKept
<1>6. Control'
  BY <1>0, <1>1, <1>2, Names DEF Control, fbVars, painterVars
<1>7. FbRefsExact'
  BY <1>0, <1>1, <1>2, FbRefsKept DEF painterVars
<1>8. /\ MapsNothingNew /\ dmabufs' \subseteq Objects /\ importers' \subseteq Objects
      /\ obj'["import"] = obj["import"] /\ offsets' = offsets
      /\ \A g \in Files : vmas'[g] \subseteq vmas[g] \cup offsets
  BY <1>0, <1>1, <1>2 DEF MapsNothingNew, fileVars, painterVars, TypeOK
<1> QED BY <1>1, <1>3, <1>4, <1>5, <1>6, <1>7, <1>8, TakeStep

LEMMA ReleaseDmaBufInv ==
    ASSUME IInv, NEW o \in Objects, Release(o), users' = users
    PROVE  IInv'
<1>0. TypeOK /\ Control /\ ObjectRefsExact /\ FbRefsExact /\ Memory /\ Attach /\ Mappers
  BY DEF IInv
<1>1. /\ o \in dmabufs /\ obj["dma"] # o /\ dmabufs' = dmabufs \ {o}
      /\ UNCHANGED <<fileVars, fbVars, painterVars, importers, threadVars, overlap>>
  BY DEF Release
<1>2. UNCHANGED <<pc, obj, grab_fb>>
  BY <1>1 DEF threadVars
<1>3. PICK counts \in [Objects -> Int] :
         PutObjects(counts) /\ \A p \in Objects : counts[p] = refs[p] - Count(p = o)
  BY <1>0, UpType DEF Release, TypeOK
<1>4. \A p \in Objects : counts[p] = Holders(p)' /\ (counts[p] > 0 => refs[p] > 0)
  <2> TAKE p \in Objects
  <2>1. FbCount(p)' = FbCount(p) /\ LookupCount(p)' = LookupCount(p) /\ VmaCount(p)' = VmaCount(p)
    BY <1>1, <1>2, CountsSame DEF fbVars, fileVars
  <2>2. /\ refs[p] = HandleCount(handles, p) + FbCount(p) + VmaCount(p)
                      + Count(p \in dmabufs) + Count(cursor.obj = p) + LookupCount(p)
        /\ HandleCount(handles, p) \in {0, 1} /\ Count(p \in dmabufs) \in {0, 1}
        /\ Count(cursor.obj = p) \in {0, 1} /\ Count(p = o) \in {0, 1}
        /\ FbCount(p) \in Nat /\ VmaCount(p) \in Nat /\ LookupCount(p) \in Nat
    BY <1>0, RefsAre, CountNat, HandleCounts
  <2>3. Holders(p)' = HandleCount(handles, p) + FbCount(p) + VmaCount(p)
                      + Count(p \in dmabufs') + Count(cursor.obj = p) + LookupCount(p)
    BY <1>1, <2>1, HoldersNext DEF fileVars, painterVars
  <2>4. Count(p \in dmabufs') = Count(p \in dmabufs) - Count(p = o)
    BY <1>1 DEF Count
  <2>5. Count(p \in dmabufs') \in {0, 1}
    BY CountNat
  <2> QED BY <1>3, <2>2, <2>3, <2>4, <2>5
<1>5. FileTypes' /\ FbTypes' /\ PainterTypes' /\ ThreadTypes'
  BY <1>0, <1>1, Types, TypesKept
<1>6. ASSUME \A p \in Objects : state'[p] = "new" <=> state[p] = "new" PROVE Control'
  BY <1>0, <1>1, <1>2, <1>6, ObjectsAssumption, Names DEF Control, fbVars, painterVars
<1>7. FbRefsExact'
  BY <1>0, <1>1, <1>2, FbRefsKept DEF painterVars
<1>8. /\ MapsNothingNew /\ dmabufs' \subseteq Objects /\ importers' \subseteq Objects
      /\ obj'["import"] = obj["import"] /\ offsets \subseteq offsets'
      /\ \A p \in offsets' : p \in offsets \/ pages[p]
      /\ \A g \in Files : vmas'[g] \subseteq vmas[g]
  BY <1>0, <1>1, <1>2 DEF MapsNothingNew, fileVars, painterVars, TypeOK
<1> QED BY <1>1, <1>3, <1>4, <1>5, <1>6, <1>7, <1>8, PutStep

LEMMA ImportOwnInv ==
    ASSUME IInv, NEW file \in Files, NEW o \in Objects, ImportOwn(file, o), users' = users
    PROVE  IInv'
<1>1. TypeOK /\ InUse
  BY HeldIsInUse DEF IInv
<1>2. PICK table : /\ handles' = table /\ table = [handles EXCEPT ![file] = @ \cup {o}]
                   /\ refs' = HandleRefs(table)
  BY DEF ImportOwn
<1>3. /\ refs[o] > 0
      /\ UNCHANGED <<state, pages, vmapping, pinned, mapped, offsets, vmas, fbVars, painterVars,
                     primeVars, threadVars, overlap, users>>
  BY <1>1 DEF ImportOwn, InUse
<1>4. /\ refs' \in [Objects -> Int]
      /\ \A p \in Objects :
              refs'[p] = refs[p] + HandleCount(handles', p) - HandleCount(handles, p)
  <2>1. /\ HandleRefs(table) \in [Objects -> Int]
        /\ \A p \in Objects : HandleRefs(table)[p] =
                 refs[p] + HandleCount(table, p) - HandleCount(handles, p)
    BY <1>1, HandleRefsAre
  <2> QED BY <1>2, <2>1
<1>5. /\ handles' \in [Files -> SUBSET Objects]
      /\ handles'[file] = handles[file] \cup {o}
      /\ \A g \in Files \ {file} : handles'[g] = handles[g]
  BY <1>1, <1>2 DEF TypeOK
<1>6. UNCHANGED <<pc, obj, grab_fb>>
  BY <1>3 DEF threadVars
<1> QED BY <1>3, <1>4, <1>5, <1>6, HandleAddInv

LEMMA MapDmaBufInv ==
    ASSUME IInv, NEW o \in Objects, MapDmaBuf(o), users' = users
    PROVE  IInv'
<1>0. TypeOK /\ Control /\ ObjectRefsExact /\ FbRefsExact /\ Memory /\ Attach /\ Mappers
  BY DEF IInv
<1>1. /\ pc["dma"] = "idle" /\ o \in dmabufs /\ Enter("dma", o)
      /\ pc' = [pc EXCEPT !["dma"] = "pages"] /\ obj' = [obj EXCEPT !["dma"] = o]
      /\ UNCHANGED <<objVars, fileVars, fbVars, painterVars, primeVars, grab_fb>>
  BY DEF MapDmaBuf, Idle, Begin
<1>2. /\ pc'["dma"] = "pages" /\ obj'["dma"] = o
      /\ \A u \in Threads \ {"dma"} : pc'[u] = pc[u] /\ obj'[u] = obj[u]
  BY <1>0, <1>1, Names DEF TypeOK
<1>3. state[o] = "live"
  BY <1>0, <1>1, HeldIsInUse DEF InUse, TypeOK
<1>4. \A p \in Objects : refs'[p] = Holders(p)' /\ (refs'[p] > 0 <=> refs[p] > 0)
  <2> TAKE p \in Objects
  <2>1. \A t \in {"map", "addfb", "cursor"} : obj'[t] = obj[t]
    BY <1>2, Names
  <2>2. FbCount(p)' = FbCount(p) /\ VmaCount(p)' = VmaCount(p) /\ LookupCount(p)' = LookupCount(p)
    BY <1>1, <2>1, CountsSame DEF fbVars, fileVars
  <2>3. Holders(p)' = Holders(p)
    BY <1>1, <2>2, HoldersNext, HoldersAre DEF fileVars, painterVars, primeVars
  <2> QED BY <1>0, <1>1, <2>3 DEF ObjectRefsExact, objVars
<1>5. FileTypes' /\ FbTypes' /\ PainterTypes' /\ ThreadTypes'
  <2>1. ThreadTypes'
    BY <1>0, <1>1, Types DEF ThreadTypes, Steps
  <2> QED BY <1>0, <1>1, <2>1, Types, TypesKept
<1>6. Control'
  BY <1>0, <1>1, <1>2, Names DEF Control, fbVars, painterVars, primeVars, objVars
<1>7. FbRefsExact'
  BY <1>0, <1>1, FbRefsKept DEF painterVars
<1>8. /\ Mappers' /\ overlap \subseteq overlap'
      /\ \A p \in overlap' \ overlap : p \in Objects /\ state[p] = "live"
  BY <1>0, <1>1, <1>3, EnterMappers DEF painterVars, objVars
<1>9. /\ dmabufs' \subseteq Objects /\ importers' \subseteq Objects /\ refs' \in [Objects -> Int]
      /\ UNCHANGED <<state, pages, vmapping, pinned, mapped, offsets, attachments, device_refs>>
      /\ obj'["import"] = obj["import"]
      /\ \A g \in Files : vmas'[g] \subseteq vmas[g] \cup offsets
  BY <1>0, <1>1, <1>2, Names DEF fileVars, primeVars, objVars, TypeOK
<1>10. TypeOK' /\ ObjectRefsExact' /\ Memory' /\ Attach' /\ InUse'
  BY <1>4, <1>5, <1>6, <1>7, <1>8, <1>9, TakeRest
<1> QED BY <1>6, <1>7, <1>8, <1>10 DEF IInv

LEMMA MapDmaBufEndInv ==
    ASSUME IInv, MapDmaBufEnd, users' = users
    PROVE  IInv'
<1>0. TypeOK /\ Control
  BY DEF IInv
<1>1. /\ pc["dma"] \in {"done", "failed"}
      /\ importers' = (IF pc["dma"] = "done" THEN importers \cup {obj["dma"]} ELSE importers)
      /\ pc' = [pc EXCEPT !["dma"] = "idle"] /\ obj' = [obj EXCEPT !["dma"] = NoObj]
      /\ UNCHANGED <<objVars, fileVars, fbVars, painterVars, dmabufs, attachments, device_refs,
                     grab_fb, overlap>>
  BY DEF MapDmaBufEnd, End, Begin
<1>2. /\ pc'["dma"] = "idle" /\ obj'["dma"] = NoObj
      /\ \A u \in Threads \ {"dma"} : pc'[u] = pc[u] /\ obj'[u] = obj[u]
  BY <1>0, <1>1, Names DEF TypeOK
<1>3. UNCHANGED <<scanout_fb, cursor>>
  BY <1>1 DEF painterVars
<1>4. PainterTypes' /\ ThreadTypes' /\ importers' \subseteq Objects
  <2>1. ThreadTypes'
    BY <1>0, <1>1, Types DEF ThreadTypes, Steps
  <2>2. importers' \subseteq Objects
    BY <1>0, <1>1, Names DEF TypeOK, Control
  <2> QED BY <1>0, <1>1, <2>1, <2>2, Types, TypesKept
<1>5. Control'
  BY <1>0, <1>1, <1>2, <1>3, Names DEF Control, fbVars, objVars
<1>6. MapsNothingNew /\ \A t \in {"map", "addfb", "cursor", "import"} : obj'[t] = obj[t]
  BY <1>2, <1>3, Names DEF MapsNothingNew
<1> QED BY <1>1, <1>3, <1>4, <1>5, <1>6, QuietInv

LEMMA DetachDmaBufInv ==
    ASSUME IInv, NEW o \in Objects, DetachDmaBuf(o), users' = users
    PROVE  IInv'
<1>0. TypeOK /\ Control
  BY DEF IInv
<1>1. /\ importers' = importers \ {o}
      /\ UNCHANGED <<objVars, fileVars, fbVars, painterVars, dmabufs, attachments, device_refs,
                     threadVars, overlap>>
  BY DEF DetachDmaBuf
<1>2. UNCHANGED <<pc, obj, grab_fb, scanout_fb, cursor>>
  BY <1>1 DEF painterVars, threadVars
<1>3. PainterTypes' /\ ThreadTypes' /\ importers' \subseteq Objects
  BY <1>0, <1>1, Types, TypesKept DEF TypeOK
<1>4. Control'
  BY <1>0, <1>1, <1>2 DEF Control, fbVars, objVars
<1>5. MapsNothingNew
  BY <1>2 DEF MapsNothingNew
<1> QED BY <1>1, <1>2, <1>3, <1>4, <1>5, QuietInv

LEMMA ImportAttachInv ==
    ASSUME IInv, NEW o \in Objects, ImportAttach(o), users' = users
    PROVE  IInv'
<1>0. TypeOK /\ Control /\ ObjectRefsExact /\ FbRefsExact /\ Memory /\ Attach /\ Mappers
  BY DEF IInv
<1>1. /\ pc["import"] = "idle" /\ o \in Imports /\ state[o] = "new"
      /\ device_refs' = device_refs + 1 /\ attachments' = attachments \cup {o}
      /\ pc' = [pc EXCEPT !["import"] = "attached"] /\ obj' = [obj EXCEPT !["import"] = o]
      /\ UNCHANGED <<objVars, fileVars, fbVars, painterVars, dmabufs, importers, grab_fb, overlap>>
  BY DEF ImportAttach, Idle, Begin
<1>2. /\ pc'["import"] = "attached" /\ obj'["import"] = o /\ obj["import"] = NoObj
      /\ \A u \in Threads \ {"import"} : pc'[u] = pc[u] /\ obj'[u] = obj[u]
  BY <1>0, <1>1, Names DEF TypeOK, Control
<1>3. ObjectRefsExact'
  <2> SUFFICES ASSUME NEW p \in Objects
               PROVE  refs'[p] = Holders(p)' /\ (state'[p] = "live" <=> refs'[p] > 0)
    BY DEF ObjectRefsExact
  <2>1. \A t \in {"map", "addfb", "cursor"} : obj'[t] = obj[t]
    BY <1>2, Names
  <2>2. FbCount(p)' = FbCount(p) /\ VmaCount(p)' = VmaCount(p) /\ LookupCount(p)' = LookupCount(p)
    BY <1>1, <2>1, CountsSame DEF fbVars, fileVars
  <2>3. Holders(p)' = Holders(p)
    BY <1>1, <2>2, HoldersNext, HoldersAre DEF fileVars, painterVars
  <2> QED BY <1>0, <1>1, <2>3 DEF ObjectRefsExact, objVars
<1>4. TypeOK'
  <2>1. PrimeTypes'
    BY <1>0, <1>1, Types DEF PrimeTypes
  <2>2. ThreadTypes'
    BY <1>0, <1>1, Types DEF ThreadTypes, Steps
  <2> QED BY <1>0, <1>1, <2>1, <2>2, Types, TypesKept
<1>5. Control'
  BY <1>0, <1>1, <1>2, Names DEF Control, fbVars, painterVars, objVars
<1>6. FbRefsExact' /\ Memory'
  BY <1>0, <1>1, FbRefsKept, MemoryKept DEF painterVars, objVars, fileVars
<1>7. Attach'
  <2>1. o \notin attachments
    BY <1>0, <1>1, <1>2, ObjectsAssumption DEF Attach
  <2>2. IsFiniteSet(attachments') /\ device_refs' = Cardinality(attachments')
    BY <1>0, <1>1, <2>1, FS_AddElement DEF Attach
  <2>3. attachments' = {p \in Imports : state'[p] = "live" \/ obj'["import"] = p}
    BY <1>0, <1>1, <1>2, ObjectsAssumption DEF Attach, objVars
  <2> QED BY <2>2, <2>3 DEF Attach
<1>8. Mappers'
  <2>1. cursor' = cursor /\ overlap' = overlap /\ UNCHANGED <<pages, vmapping>>
    BY <1>1 DEF painterVars, objVars
  <2>2. \A t \in Threads : \/ pc'[t] = pc[t] /\ obj'[t] = obj[t]
                           \/ pc'[t] \notin {"pages", "pin", "vmap", "done", "compose"}
    BY <1>2
  <2> QED BY <1>0, <1>3, <1>4, <1>5, <1>6, <2>1, <2>2, HeldIsInUseNext, MappersKept
<1> QED BY <1>3, <1>4, <1>5, <1>6, <1>7, <1>8 DEF IInv

LEMMA ImportDoneInv ==
    ASSUME IInv, ImportDone, users' = users
    PROVE  IInv'
<1>0. TypeOK /\ Control /\ ObjectRefsExact /\ FbRefsExact /\ Memory /\ Attach /\ Mappers
  BY DEF IInv
<1>1. PICK o \in Objects : o = obj["import"] /\ o \in Imports /\ state[o] = "new"
  BY <1>0, ObjectsAssumption DEF ImportDone, Control
<1>2. /\ pc["import"] = "attached"
      /\ pc' = [pc EXCEPT !["import"] = "idle"] /\ obj' = [obj EXCEPT !["import"] = NoObj]
      /\ UNCHANGED <<vmapping, mapped, offsets, vmas, fbVars, painterVars, primeVars, grab_fb,
                     overlap>>
  BY DEF ImportDone, End, Begin
<1>3. /\ pc'["import"] = "idle" /\ obj'["import"] = NoObj
      /\ \A u \in Threads \ {"import"} : pc'[u] = pc[u] /\ obj'[u] = obj[u]
  BY <1>0, <1>2, Names DEF TypeOK
<1>4. /\ state' \in [Objects -> {"new", "live", "freed", "lost"}] /\ refs' \in [Objects -> Nat]
      /\ handles' \in [Files -> SUBSET Objects] /\ pages' \in [Objects -> BOOLEAN]
      /\ state'[o] = "live" /\ refs'[o] = 1 /\ pages'[o]
      /\ handles'[Compositor] = handles[Compositor] \cup {o}
      /\ \A p \in Objects \ {o} : state'[p] = state[p] /\ refs'[p] = refs[p] /\ pages'[p] = pages[p]
      /\ \A g \in Files \ {Compositor} : handles'[g] = handles[g]
      /\ Compositor \in Files
  BY <1>0, <1>1 DEF ImportDone, TypeOK, Files
<1>5. /\ pinned' \in [Objects -> Nat] /\ pinned'[o] = pinned[o] + 1
      /\ \A p \in Objects \ {o} : pinned'[p] = pinned[p]
  <2>1. pinned \in [Objects -> Int] /\ \A p \in Objects : pinned[p] \in Nat
    BY <1>0 DEF TypeOK
  <2>2. /\ pinned' \in [Objects -> Int]
        /\ \A p \in Objects : pinned'[p] = pinned[p] + Count(p = o)
    BY <1>1, <2>1, UpType DEF ImportDone
  <2>3. \A p \in Objects : pinned'[p] \in Nat /\ (p # o => pinned'[p] = pinned[p])
    BY <2>1, <2>2 DEF Count
  <2>4. pinned'[o] = pinned[o] + 1
    BY <2>2 DEF Count
  <2> QED BY <2>2, <2>3, <2>4
<1>6. refs[o] = 0 /\ InUse
  BY <1>0, <1>1, HeldIsInUse DEF InUse
<1>7. \A p \in Objects : refs'[p] = Holders(p)' /\ (state'[p] = "live" <=> refs'[p] > 0)
  <2> TAKE p \in Objects
  <2>1. \A t \in {"map", "addfb", "cursor"} : obj'[t] = obj[t]
    BY <1>3, Names
  <2>2. FbCount(p)' = FbCount(p) /\ VmaCount(p)' = VmaCount(p) /\ LookupCount(p)' = LookupCount(p)
    BY <1>2, <2>1, CountsSame DEF fbVars
  <2>3. /\ refs[p] = HandleCount(handles, p) + FbCount(p) + VmaCount(p)
                      + Count(p \in dmabufs) + Count(cursor.obj = p) + LookupCount(p)
        /\ HandleCount(handles, p) \in {0, 1} /\ HandleCount(handles', p) \in {0, 1}
        /\ Count(p \in dmabufs) \in {0, 1} /\ Count(cursor.obj = p) \in {0, 1}
        /\ FbCount(p) \in Nat /\ VmaCount(p) \in Nat /\ LookupCount(p) \in Nat
    BY <1>0, RefsAre, CountNat, HandleCounts
  <2>4. Holders(p)' = HandleCount(handles', p) + FbCount(p) + VmaCount(p)
                      + Count(p \in dmabufs) + Count(cursor.obj = p) + LookupCount(p)
    BY <1>2, <2>2, HoldersNext, CountsAreNat DEF painterVars, primeVars
  <2>5. CASE p = o
    <3>1. HandleCount(handles', p) = 1
      BY <1>4, <2>5, HandleCounts DEF HasHandle
    <3> QED BY <1>4, <1>6, <2>3, <2>4, <2>5, <3>1
  <2>6. CASE p # o
    <3>1. HasHandle(handles', p) <=> HasHandle(handles, p)
      BY <1>4, <2>6 DEF HasHandle
    <3>2. HandleCount(handles', p) = HandleCount(handles, p)
      BY <2>3, <3>1, HandleCounts
    <3> QED BY <1>0, <1>4, <2>3, <2>4, <2>6, <3>2 DEF ObjectRefsExact
  <2> QED BY <2>5, <2>6
<1>8. ObjectRefsExact'
  BY <1>7 DEF ObjectRefsExact
<1>9. TypeOK'
  <2>1. ObjTypes' /\ FileTypes'
    BY <1>0, <1>2, <1>4, <1>5, Types DEF ObjTypes, FileTypes
  <2>2. ThreadTypes'
    BY <1>0, <1>2, Types DEF ThreadTypes, Steps
  <2> QED BY <1>0, <1>2, <2>1, <2>2, Types, TypesKept
<1>10. Control'
  BY <1>0, <1>2, <1>3, <1>4, ObjectsAssumption, Names DEF Control, fbVars, painterVars, primeVars
<1>11. FbRefsExact'
  BY <1>0, <1>2, FbRefsKept DEF painterVars
<1>12. Memory'
  <2> SUFFICES ASSUME NEW p \in Objects PROVE MemoryOf(p)'
    BY DEF Memory
  <2>1. MemoryOf(p) /\ pinned[p] \in Nat
    BY <1>0 DEF Memory, TypeOK
  <2>2. CASE p = o
    <3>1. p \notin overlap /\ ~ pages[p] /\ ~ vmapping[p] /\ pinned[p] = 0
      BY <1>1, <2>1, <2>2 DEF MemoryOf, Count
    <3>2. pinned'[p] = 1
      BY <1>5, <2>2, <3>1
    <3>3. pages'[p] = TRUE /\ ~ vmapping'[p] /\ mapped'[p] = mapped[p] /\ p \notin overlap'
      BY <1>2, <1>4, <2>2, <3>1
    <3> QED BY <1>2, <1>4, <2>1, <2>2, <3>1, <3>2, <3>3 DEF MemoryOf, Count
  <2>3. CASE p # o
    BY <1>2, <1>4, <1>5, <2>1, <2>3 DEF MemoryOf
  <2> QED BY <2>2, <2>3
<1>13. Attach'
  <2>1. attachments = {p \in Imports : state[p] = "live" \/ obj["import"] = p}
    BY <1>0 DEF Attach
  <2>2. \A p \in Imports : state[p] = "live" \/ obj["import"] = p
                           <=> state'[p] = "live" \/ obj'["import"] = p
    BY <1>1, <1>3, <1>4, ObjectsAssumption
  <2>3. attachments' = attachments /\ device_refs' = device_refs
    BY <1>2 DEF primeVars
  <2> QED BY <1>0, <2>1, <2>2, <2>3 DEF Attach
<1>14. Mappers'
  <2>1. pc'["map"] = "done" => pages'[obj'["map"]]
    <3>1. pc["map"] = "done" => pages[obj["map"]] /\ obj["map"] \in Objects
      BY <1>0, Names DEF Mappers, Control
    <3> QED BY <1>3, <1>4, <3>1, Names
  <2>2. ASSUME NEW p \in Objects \ overlap PROVE MapperOf(p)'
    <3>1. MapperOf(p)
      BY <1>0, <2>2 DEF Mappers
    <3>2. cursor' = cursor /\ vmapping' = vmapping
      BY <1>2 DEF painterVars
    <3>3. CASE p = o
      <4>1. \A u \in Threads : obj'[u] # o
        BY <1>3, <1>6, ObjectsAssumption DEF InUse
      <4>2. cursor.obj # o
        BY <1>6, ObjectsAssumption DEF InUse
      <4> QED BY <3>2, <3>3, <4>1, <4>2 DEF MapperOf, Mapping
    <3>4. CASE p # o
      <4>1. \A u \in Threads : obj'[u] = p => obj[u] = p /\ pc'[u] = pc[u]
        BY <1>3, ObjectsAssumption
      <4>2. \A u \in Threads : Mapping(u, p)' => Mapping(u, p) /\ pc'[u] = pc[u]
        BY <4>1 DEF Mapping
      <4> QED BY <1>4, <3>1, <3>2, <3>4, <4>1, <4>2 DEF MapperOf
    <3> QED BY <3>3, <3>4
  <2> QED BY <1>2, <2>1, <2>2 DEF Mappers
<1> QED BY <1>8, <1>9, <1>10, <1>11, <1>12, <1>13, <1>14 DEF IInv

LEMMA ImportFailsInv ==
    ASSUME IInv, ImportFails, users' = users
    PROVE  IInv'
<1>0. TypeOK /\ Control /\ ObjectRefsExact /\ FbRefsExact /\ Memory /\ Attach /\ Mappers
  BY DEF IInv
<1>1. PICK o \in Objects : o = obj["import"] /\ o \in Imports /\ state[o] = "new"
  BY <1>0, ObjectsAssumption DEF ImportFails, Control
<1>2. /\ pc["import"] = "attached"
      /\ device_refs' = device_refs - 1 /\ attachments' = attachments \ {o}
      /\ pc' = [pc EXCEPT !["import"] = "idle"] /\ obj' = [obj EXCEPT !["import"] = NoObj]
      /\ UNCHANGED <<refs, pages, vmapping, pinned, mapped, fileVars, fbVars, painterVars,
                     dmabufs, importers, grab_fb, overlap>>
  BY <1>1 DEF ImportFails, End, Begin
<1>3. /\ pc'["import"] = "idle" /\ obj'["import"] = NoObj
      /\ \A u \in Threads \ {"import"} : pc'[u] = pc[u] /\ obj'[u] = obj[u]
  BY <1>0, <1>2, Names DEF TypeOK
<1>4. /\ state' \in [Objects -> {"new", "live", "freed", "lost"}] /\ state'[o] \in {"new", "lost"}
      /\ \A p \in Objects \ {o} : state'[p] = state[p]
  <2>1. PICK lost \in BOOLEAN : state' = [state EXCEPT ![o] = IF lost THEN "lost" ELSE @]
    BY <1>1 DEF ImportFails
  <2>2. state' \in [Objects -> {"new", "live", "freed", "lost"}]
    BY <1>0, <2>1 DEF TypeOK
  <2>3. state'[o] = IF lost THEN "lost" ELSE state[o]
    BY <1>0, <2>1 DEF TypeOK
  <2> QED BY <1>0, <1>1, <2>1, <2>2, <2>3 DEF TypeOK
<1>5. \A p \in Objects : state'[p] = "live" <=> state[p] = "live"
  BY <1>1, <1>4
<1>6. ObjectRefsExact'
  <2> SUFFICES ASSUME NEW p \in Objects
               PROVE  refs'[p] = Holders(p)' /\ (state'[p] = "live" <=> refs'[p] > 0)
    BY DEF ObjectRefsExact
  <2>1. \A t \in {"map", "addfb", "cursor"} : obj'[t] = obj[t]
    BY <1>3, Names
  <2>2. FbCount(p)' = FbCount(p) /\ VmaCount(p)' = VmaCount(p) /\ LookupCount(p)' = LookupCount(p)
    BY <1>2, <2>1, CountsSame DEF fbVars, fileVars
  <2>3. Holders(p)' = Holders(p)
    BY <1>2, <2>2, HoldersNext, HoldersAre DEF fileVars, painterVars
  <2> QED BY <1>0, <1>2, <1>5, <2>3 DEF ObjectRefsExact
<1>7. Attach' /\ device_refs' \in Nat
  <2>1. o \in attachments /\ IsFiniteSet(attachments) /\ device_refs = Cardinality(attachments)
    BY <1>0, <1>1 DEF Attach
  <2>2. /\ IsFiniteSet(attachments \ {o})
        /\ Cardinality(attachments \ {o}) = Cardinality(attachments) - 1
    BY <2>1, FS_RemoveElement
  <2>3. Cardinality(attachments \ {o}) \in Nat
    BY <2>2, FS_CardinalityType
  <2>4. attachments' = {p \in Imports : state'[p] = "live" \/ obj'["import"] = p}
    <3>1. attachments = {p \in Imports : state[p] = "live" \/ obj["import"] = p}
      BY <1>0 DEF Attach
    <3>2. \A p \in Imports : /\ p \in Objects
                             /\ p = o => ~ (state'[p] = "live" \/ obj'["import"] = p)
                             /\ p # o => (state'[p] = "live" \/ obj'["import"] = p
                                          <=> state[p] = "live" \/ obj["import"] = p)
      BY <1>1, <1>3, <1>4, ObjectsAssumption
    <3> QED BY <1>2, <3>1, <3>2
  <2> QED BY <1>2, <2>1, <2>2, <2>3, <2>4 DEF Attach
<1>8. TypeOK'
  <2>1. ObjTypes' /\ PrimeTypes'
    BY <1>0, <1>2, <1>4, <1>7, Types DEF ObjTypes, PrimeTypes
  <2>2. ThreadTypes'
    BY <1>0, <1>2, Types DEF ThreadTypes, Steps
  <2> QED BY <1>0, <1>2, <2>1, <2>2, Types, TypesKept
<1>9. Control'
  BY <1>0, <1>2, <1>3, ObjectsAssumption, Names DEF Control, fbVars, painterVars
<1>10. FbRefsExact'
  BY <1>0, <1>2, FbRefsKept DEF painterVars
<1>11. Memory'
  <2> SUFFICES ASSUME NEW p \in Objects PROVE MemoryOf(p)'
    BY DEF Memory
  <2>1. MemoryOf(p)
    BY <1>0 DEF Memory
  <2>2. CASE p = o
    BY <1>1, <1>2, <1>4, <2>1, <2>2 DEF MemoryOf, fileVars
  <2>3. CASE p # o
    BY <1>2, <1>4, <2>1, <2>3 DEF MemoryOf, fileVars
  <2> QED BY <2>2, <2>3
<1>12. Mappers'
  <2>1. cursor' = cursor
    BY <1>2 DEF painterVars
  <2>2. \A t \in Threads : \/ pc'[t] = pc[t] /\ obj'[t] = obj[t]
                           \/ obj'[t] = NoObj
    BY <1>3
  <2> QED BY <1>0, <1>2, <1>6, <1>8, <1>9, <1>10, <2>1, <2>2, HeldIsInUseNext, MappersKept
<1> QED BY <1>6, <1>7, <1>8, <1>9, <1>10, <1>11, <1>12 DEF IInv

LEMMA PrimeStepInv == IInv /\ PrimeStep /\ users' = users => IInv'
BY ExportInv, ReleaseDmaBufInv, ImportOwnInv, MapDmaBufInv, MapDmaBufEndInv, DetachDmaBufInv,
   ImportAttachInv, ImportDoneInv, ImportFailsInv DEF PrimeStep

-----------------------------------------------------------------------------
(* Every step, and the theorems.                                           *)

LEMMA InitInv == Init => IInv
<1> SUFFICES ASSUME Init PROVE IInv
  OBVIOUS
<1>1. TypeOK
  BY DEF Init, TypeOK, Steps, NoCursor
<1>2. Control
  BY Names DEF Init, Control, NoCursor
<1>3. \A S : {x \in S : FALSE} = {} /\ Cardinality({}) = 0 /\ IsFiniteSet({})
  BY FS_EmptySet
<1>4. ObjectRefsExact
  <2> SUFFICES ASSUME NEW o \in Objects
               PROVE  refs[o] = Holders(o) /\ (state[o] = "live" <=> refs[o] > 0)
    BY DEF ObjectRefsExact
  <2>1. ~ HasHandle(handles, o) /\ o \notin dmabufs /\ cursor.obj # o
    BY ObjectsAssumption DEF Init, HasHandle, NoCursor
  <2>2. HandleCount(handles, o) = 0 /\ Count(o \in dmabufs) = 0 /\ Count(cursor.obj = o) = 0
    BY <2>1 DEF HandleCount, Count
  <2>3. FbCount(o) = 0
    <3>1. Sources(Fbs, fb_obj, o) = {}
      BY ObjectsAssumption DEF Init, Sources
    <3> QED BY <1>3, <3>1 DEF FbCount
  <2>4. VmaCount(o) = 0
    <3>1. {file \in Files : o \in vmas[file]} = {}
      BY DEF Init
    <3> QED BY <1>3, <3>1 DEF VmaCount
  <2>5. LookupCount(o) = 0
    <3>1. Sources({"map", "addfb", "cursor"}, obj, o) = {}
      BY ObjectsAssumption, Names DEF Init, Sources
    <3> QED BY <1>3, <3>1 DEF LookupCount
  <2>6. Holders(o) = 0
    BY <2>2, <2>3, <2>4, <2>5, HoldersAre
  <2> QED BY <2>6 DEF Init
<1>5. FbRefsExact
  <2> SUFFICES ASSUME NEW f \in Fbs
               PROVE  /\ fb_refs[f] = Count(f \in ids) + Count(plane = f) + Count(scanout_fb = f)
                                      + Cardinality({c \in Clients : grab_fb[c] = f})
                      /\ fb_obj[f] # NoObj <=> fb_refs[f] > 0
    BY DEF FbRefsExact
  <2>1. {c \in Clients : grab_fb[c] = f} = {}
    BY BuffersFbsAssumption DEF Init
  <2>2. Count(f \in ids) = 0 /\ Count(plane = f) = 0 /\ Count(scanout_fb = f) = 0
    BY BuffersFbsAssumption DEF Init, Count
  <2>3. fb_refs[f] = 0 /\ fb_obj[f] = NoObj
    BY DEF Init
  <2> QED BY <1>3, <2>1, <2>2, <2>3
<1>6. Memory
  BY DEF Init, Memory, MemoryOf, Count
<1>7. Attach
  <2>1. {o \in Imports : state[o] = "live" \/ obj["import"] = o} = {}
    BY ObjectsAssumption, Names DEF Init
  <2> QED BY <1>3, <2>1 DEF Init, Attach
<1>8. Mappers
  BY ObjectsAssumption, Names DEF Init, Mappers, MapperOf, Mapping, NoCursor
<1> QED BY <1>1, <1>2, <1>4, <1>5, <1>6, <1>7, <1>8 DEF IInv

LEMMA NextInv == IInv /\ [Next]_vars => IInv'
<1> SUFFICES ASSUME IInv, [Next]_vars PROVE IInv'
  OBVIOUS
<1>1. CASE Next
  <2>1. users' = users
    BY <1>1 DEF Next
  <2>2. ASSUME NEW t \in Threads, MappingStep(t) PROVE IInv'
    BY <2>1, <2>2, CheckMappingInv, CheckPagesInv, PinPagesInv, VmapInv DEF MappingStep
  <2> QED BY <1>1, <2>1, <2>2, BufferStepInv, FbStepInv, CursorStepInv, PrimeStepInv,
             ClientStepInv DEF Next
<1>2. CASE UNCHANGED vars
  <2>1. /\ UNCHANGED <<objVars, fileVars, fbVars, painterVars, primeVars, threadVars, users,
                       overlap>>
    BY <1>2 DEF vars
  <2>2. UNCHANGED <<pc, obj, grab_fb, scanout_fb, cursor, dmabufs, importers, attachments,
                    device_refs>>
    BY <2>1 DEF painterVars, primeVars, threadVars
  <2>3. PainterTypes' /\ ThreadTypes' /\ importers' \subseteq Objects
    BY <2>1, Types, TypesKept DEF IInv, PrimeTypes
  <2>4. Control'
    BY <2>1, <2>2 DEF IInv, Control, fbVars, objVars
  <2>5. MapsNothingNew
    BY <2>2 DEF MapsNothingNew
  <2> QED BY <2>1, <2>2, <2>3, <2>4, <2>5, QuietInv
<1> QED BY <1>1, <1>2

LEMMA Invariance == Spec => []IInv
BY InitInv, NextInv, PTL DEF Spec

\* The objects, framebuffers, handles, mappings and threads keep their types, for any
\* objects, framebuffers and clients.
THEOREM Typing == Spec => []TypeOK
<1>1. IInv => TypeOK
  BY DEF IInv
<1> QED BY <1>1, Invariance, PTL

\* The count of a GEM object is the number of those who hold it, whatever is looked up,
\* shown, shared, closed or given up half way, so it is freed with the last of them
\* (drm_gem_object_put as evdi_gem.c, evdi_fb.c and evdi_cursor.c call it).
THEOREM ObjectRefs == Spec => []ObjectRefsExact
<1>1. IInv => ObjectRefsExact
  BY DEF IInv
<1> QED BY <1>1, Invariance, PTL

\* The count of a framebuffer is the number of those who refer to it: the compositor's
\* name, the plane, the painter's scanout buffer and the grabs that read it.
THEOREM FbRefs == Spec => []FbRefsExact
<1>1. IInv => FbRefsExact
  BY DEF IInv
<1> QED BY <1>1, Invariance, PTL

\* What evdi_gem_free_object leaves: no pages, no mapping, no attachment and no device
\* reference, except for objects that two threads mapped at once.
THEOREM NothingLeft == Spec => []NothingLeftBehind
<1>1. IInv => NothingLeftBehind
  <2> SUFFICES ASSUME IInv PROVE NothingLeftBehind
    OBVIOUS
  <2>1. ASSUME NEW o \in Objects \ overlap
        PROVE  /\ mapped[o] = Count(vmapping[o]) /\ pinned[o] = Count(pages[o])
               /\ state[o] \in {"freed", "lost"} => ~ pages[o] /\ ~ vmapping[o]
    BY <2>1 DEF IInv, Memory, MemoryOf
  <2> QED BY <2>1 DEF IInv, Attach, NothingLeftBehind
<1> QED BY <1>1, Invariance, PTL

\* Whoever reads an object's memory finds it there: a grab (copy_primary_pixels), the
\* composition of the cursor, a page fault of a process, unless two threads mapped the
\* object at once and one of them failed.
THEOREM Reads == Spec => []ReadsAreMapped
<1>1. IInv => ReadsAreMapped
  <2> SUFFICES ASSUME IInv PROVE ReadsAreMapped
    OBVIOUS
  <2>0. TypeOK /\ Control /\ Memory /\ Mappers /\ InUse
    BY HeldIsInUse DEF IInv
  <2>1. ASSUME NEW c \in Clients, pc[c] \in {"done", "compose"}
        PROVE  obj[c] = fb_obj[grab_fb[c]] /\ (vmapping[obj[c]] \/ obj[c] \in overlap)
    <3>1. c \in Threads \ {"map", "dma"} /\ obj[c] \in Objects /\ obj[c] = fb_obj[grab_fb[c]]
      BY <2>0, <2>1, Names DEF Control
    <3>2. obj[c] \notin overlap => MapperOf(obj[c])
      BY <2>0, <3>1 DEF Mappers
    <3> QED BY <2>1, <3>1, <3>2 DEF MapperOf
  <2>2. ASSUME cursor.enabled
        PROVE  cursor.obj # NoObj /\ (vmapping[cursor.obj] \/ cursor.obj \in overlap)
    <3>1. cursor.obj # NoObj /\ cursor.obj \in Objects
      BY <2>0, <2>2 DEF Control, TypeOK
    <3>2. cursor.obj \notin overlap => MapperOf(cursor.obj)
      BY <2>0, <3>1 DEF Mappers
    <3> QED BY <3>1, <3>2 DEF MapperOf
  <2>3. ASSUME NEW file \in Files, NEW o \in vmas[file] PROVE pages[o]
    <3>1. o \in Objects /\ MemoryOf(o) /\ state[o] = "live"
      BY <2>0 DEF TypeOK, Memory, InUse
    <3> QED BY <3>1 DEF MemoryOf
  <2> QED BY <2>1, <2>2, <2>3 DEF ReadsAreMapped
<1> QED BY <1>1, Invariance, PTL

=============================================================================
