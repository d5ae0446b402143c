------------------------ MODULE EvdiEventListProofs ------------------------
(***************************************************************************)
(* The event lists, whatever the numbers of files, senders and events: the *)
(* types, the queue each client reads, and the client update_ready meets.  *)
(*                                                                         *)
(* A pointer may be written by two threads at once, so the invariant has   *)
(* two parts.  One holds however they race: no pointer leads from the list *)
(* of one file to that of another, and what was read is pointed to by      *)
(* nobody.  The other, Chain, is about the lists that no two threads       *)
(* changed at once: they run through what is sent and not yet read.        *)
(***************************************************************************)
EXTENDS EvdiEventList, FiniteSetTheorems, SequenceTheorems, WellFoundedInduction, TLAPS

-----------------------------------------------------------------------------
(* The inductive invariant.                                                *)

\* the events that were linked into the list of f, at any time
Sent(f) == {e \in Events : \E i \in DOMAIN sent[f] : sent[f][i] = e}
\* those that are being linked: the head knows them, no other event does
InHand(f) == {e \in Events : \E s \in Senders : pc[s] = "last" /\ file[s] = f /\ event[s] = e}
Own(f) == {f} \cup Sent(f)
Around(f) == Own(f) \cup InHand(f)

\* What a sender holds, by where it is.  update_ready is sent with the painter
\* locked, to a client that stays until the unlock.
SendersAt ==
    /\ drm_filp \in Files => filp[drm_filp] = "open"
    /\ \A s \in Senders :
          /\ pc[s] = "idle" => event[s] = NoNode /\ lock # s
          /\ pc[s] # "idle" => event[s] \in Events /\ (event[s] \in UpdateReadies => lock = s)
          /\ pc[s] \in {"head", "last"} =>
                file[s] \in Files /\ filp[file[s]] # "new" /\ last[s] \in Nodes
          /\ lock = s => /\ drm_filp \in Files
                         /\ pc[s] \in {"head", "last"} => file[s] = drm_filp

\* An event is sent once, by one sender, to one file; only events of a list are freed.
EventsOnce ==
    /\ \A s, t \in Senders : s # t => event[s] # event[t] \/ event[s] = NoNode
    /\ \A s \in Senders : event[s] \notin faulty
    /\ \A f \in Files : /\ \A s \in Senders : event[s] \notin Sent(f)
                        /\ Sent(f) \cap faulty = {}
                        /\ \A g \in Files \ {f} : Sent(f) \cap Sent(g) = {}
                        /\ \A i, j \in DOMAIN sent[f] : sent[f][i] = sent[f][j] => i = j
    /\ \A e \in freed : \E f \in Files : e \in Sent(f)

\* What an open file's client is reading: the first event of the list, ...
ReaderAt(f) ==
    /\ first[f] # NoNode => /\ filp[f] = "open"
                            /\ first[f] \in Sent(f) \ freed /\ prev[first[f]] = f
    /\ after[f] # NoNode => /\ first[f] # NoNode /\ before[f] = f
                            /\ after[f] \in Own(f) \ (freed \cup {first[f]})
                            /\ (after[f] # f => prev[after[f]] = f)
    /\ after[f] = NoNode => before[f] = NoNode
ReadersAt == \A f \in Files : ReaderAt(f)

\* The lists are apart: no pointer leads from one to another, however the threads
\* race.
Apart(f) ==
    /\ \A n \in Around(f) : next[n] \in Own(f) /\ prev[n] \in Around(f)
    /\ \A s \in Senders : pc[s] \in {"head", "last"} /\ file[s] = f => last[s] \in Around(f)
ListsApart == \A f \in Files : filp[f] # "closed" => Apart(f)

\* Whoever points forth to an event is who the event points back to, unless it is
\* being unlinked; so an event that is read is pointed to by nobody.
Facing(f) ==
    /\ \A n \in Around(f) \ freed :
          next[n] # f => /\ next[n] \notin freed
                         /\ (~ (n = first[f] /\ after[f] # NoNode) => prev[next[n]] = n)
    /\ \A s \in Senders : pc[s] = "last" /\ file[s] = f => prev[event[s]] = last[s]
BackAndForth == \A f \in Files : filp[f] # "closed" => Facing(f)

\* What is read was sent, and is freed.
ReadOf(f) ==
    /\ \A i \in DOMAIN got[f] : got[f][i] \in Sent(f) \cap freed
    /\ \A i, j \in DOMAIN got[f] : got[f][i] = got[f][j] => i = j
    /\ filp[f] # "closed" => \A e \in Sent(f) \cap freed : \E i \in DOMAIN got[f] : got[f][i] = e
ReadOnce == \A f \in Files : ReadOf(f)

\* The list of f, if it is the queue it should be: place i of it, from its head
\* (after the events that are read) to its head again.
Place(f, i) == IF i \in Len(got[f]) + 1 .. Len(sent[f]) THEN sent[f][i] ELSE f

\* A list that no two threads changed at once runs through what is sent and not yet
\* read; the thread that is changing it, if any, has changed what it should have.
Chain(f) ==
    /\ Len(got[f]) <= Len(sent[f])
    /\ \A i \in DOMAIN got[f] : got[f][i] = sent[f][i]
    /\ \A i \in Len(got[f]) .. Len(sent[f]) : next[Place(f, i)] = Place(f, i + 1)
    /\ \A i \in Len(got[f]) + 1 .. Len(sent[f]) :
          ~ (i = Len(got[f]) + 2 /\ after[f] # NoNode) => prev[Place(f, i)] = Place(f, i - 1)
    /\ InHand(f) = {} /\ ~ (Len(sent[f]) = Len(got[f]) + 1 /\ after[f] # NoNode) =>
          prev[f] = Place(f, Len(sent[f]))
    /\ \A s \in Appending(f) : last[s] = Place(f, Len(sent[f])) /\ first[f] = NoNode
    /\ \A s \in Appending(f) : pc[s] = "last" => next[event[s]] = f /\ prev[f] = event[s]
    /\ \A s, t \in Appending(f) : s = t
    /\ first[f] # NoNode => Len(got[f]) < Len(sent[f]) /\ first[f] = Place(f, Len(got[f]) + 1)
    /\ after[f] # NoNode => after[f] = Place(f, Len(got[f]) + 2) /\ prev[after[f]] = f
Chained == \A f \in Files \ raced : filp[f] # "closed" => Chain(f)

IInv == TypeOK /\ SendersAt /\ EventsOnce /\ ReadersAt /\ ListsApart /\ BackAndForth /\ ReadOnce
        /\ Chained

-----------------------------------------------------------------------------
(* Walking along a list.                                                   *)

LEMMA LeastNat ==
    ASSUME NEW S \in SUBSET Nat, S # {}
    PROVE  \E m \in S : \A n \in S : m <= n
<1>1. PICK m \in S : \A n \in S : ~ (<<n, m>> \in OpToRel(<, Nat))
  BY NatLessThanWellFounded, WFMin
<1>2. \A n \in S : ~ (n < m)
  BY <1>1 DEF OpToRel
<1> QED BY <1>2

LEMMA StepExists ==
    ASSUME NEW f, NEW n \in Nat
    PROVE  \E step : step = [i \in 0 .. n |-> IF i = 0 THEN f ELSE next[step[i - 1]]]
<1> DEFINE Is(step, m) == step = [i \in 0 .. m |-> IF i = 0 THEN f ELSE next[step[i - 1]]]
           Bad == {m \in Nat : ~ \E step : Is(step, m)}
<1>1. SUFFICES ASSUME Bad # {} PROVE FALSE
  OBVIOUS
<1>2. PICK m \in Bad : \A k \in Bad : m <= k
  BY <1>1, LeastNat
<1>3. m # 0
  <2>1. Is([i \in 0 .. 0 |-> f], 0)
    OBVIOUS
  <2> QED BY <2>1, <1>2
<1>4. m - 1 \in Nat /\ m - 1 \notin Bad
  <2>1. m \in Nat
    OBVIOUS
  <2> HIDE DEF Bad
  <2> QED BY <1>2, <1>3, <2>1
<1>5. PICK step : Is(step, m - 1)
  BY <1>4
<1> DEFINE longer == [i \in 0 .. m |-> IF i = m THEN next[step[m - 1]] ELSE step[i]]
<1>6. \A i \in 0 .. m : longer[i] = IF i = 0 THEN f ELSE next[longer[i - 1]]
  <2>1. \A i \in 0 .. m - 1 : step[i] = IF i = 0 THEN f ELSE next[step[i - 1]]
    BY <1>5
  <2> TAKE i \in 0 .. m
  <2>2. CASE i = 0
    BY <1>3, <1>4, <2>1, <2>2
  <2>3. CASE i = m
    BY <1>3, <1>4, <2>3
  <2>4. CASE i \in 1 .. m - 1
    BY <1>3, <1>4, <2>1, <2>4
  <2> QED BY <1>4, <2>2, <2>3, <2>4
<1>7. Is(longer, m)
  BY <1>6
<1> QED BY <1>2, <1>7

LEMMA NodesFinite == IsFiniteSet(Nodes) /\ Cardinality(Nodes) \in Nat
BY EventFilesAssumption, EventsAssumption, FS_Union, FS_CardinalityType DEF Nodes

\* Listed takes as many steps as it needs to come back to the head.
LEMMA ListedWalk ==
    ASSUME NEW f \in Files
    PROVE  \E step : \E length \in 0 .. Cardinality(Nodes) :
              /\ step[0] = f
              /\ \A i \in 1 .. Cardinality(Nodes) : step[i] = next[step[i - 1]]
              /\ \A i \in 1 .. length : step[i] # f
              /\ length < Cardinality(Nodes) => step[length + 1] = f
              /\ Listed(f) = [i \in 1 .. length |-> step[i]]
<1> DEFINE N == Cardinality(Nodes)
           step[i \in 0 .. N] == IF i = 0 THEN f ELSE next[step[i - 1]]
           ends == {i \in DOMAIN step \ {0} : step[i] = f}
           length == IF ends = {} THEN N
                     ELSE (CHOOSE i \in ends : \A j \in ends : i <= j) - 1
<1>1. N \in Nat
  BY NodesFinite
<1>2. step = [i \in 0 .. N |-> IF i = 0 THEN f ELSE next[step[i - 1]]]
  <2> HIDE DEF N
  <2> QED BY <1>1, StepExists
<1>3. Listed(f) = [i \in 1 .. length |-> step[i]]
  BY DEF Listed
<1> HIDE DEF N, step
<1>4. /\ step[0] = f /\ DOMAIN step = 0 .. N
      /\ \A i \in 1 .. N : step[i] = next[step[i - 1]]
  BY <1>1, <1>2
<1>5. ends \in SUBSET Nat /\ \A i : i \in ends <=> i \in 1 .. N /\ step[i] = f
  BY <1>1, <1>4
<1>6. CASE ends = {}
  <2>1. length = N
    BY <1>6
  <2> QED BY <1>1, <1>3, <1>4, <1>5, <1>6, <2>1 DEF N
<1>7. CASE ends # {}
  <2> DEFINE end == CHOOSE i \in ends : \A j \in ends : i <= j
  <2>1. end \in ends /\ \A j \in ends : end <= j
    <3> HIDE DEF ends
    <3>1. \E i \in ends : \A j \in ends : i <= j
      BY <1>5, <1>7, LeastNat
    <3> QED BY <3>1
  <2>2. length = end - 1
    BY <1>7
  <2> HIDE DEF end, ends, length
  <2>3. /\ end \in 1 .. N /\ length \in 0 .. N /\ step[length + 1] = f
        /\ \A i \in 1 .. length : step[i] # f
    BY <1>1, <1>5, <2>1, <2>2
  <2> QED BY <1>3, <1>4, <2>3 DEF N
<1> QED BY <1>6, <1>7

\* In lists that are apart, the events of a list were sent to its file.
LEMMA ListedSent ==
    ASSUME ListsApart, TypeOK, NEW f \in Files, filp[f] # "closed"
    PROVE  \A i \in DOMAIN Listed(f) : Listed(f)[i] \in Sent(f)
<1>1. PICK step : \E length \in 0 .. Cardinality(Nodes) :
              /\ step[0] = f
              /\ \A i \in 1 .. Cardinality(Nodes) : step[i] = next[step[i - 1]]
              /\ \A i \in 1 .. length : step[i] # f
              /\ Listed(f) = [i \in 1 .. length |-> step[i]]
  BY ListedWalk
<1>1a. PICK length \in 0 .. Cardinality(Nodes) :
              /\ step[0] = f
              /\ \A i \in 1 .. Cardinality(Nodes) : step[i] = next[step[i - 1]]
              /\ \A i \in 1 .. length : step[i] # f
              /\ Listed(f) = [i \in 1 .. length |-> step[i]]
  BY <1>1
<1> DEFINE N == Cardinality(Nodes)
           Out == {i \in 0 .. N : step[i] \notin Own(f)}
<1>2. N \in Nat
  BY NodesFinite
<1> HIDE DEF N
<1>3. Out = {}
  <2> SUFFICES ASSUME Out # {} PROVE FALSE
    OBVIOUS
  <2>1. PICK m \in Out : \A k \in Out : m <= k
    <3>1. Out \in SUBSET Nat
      BY <1>2
    <3> HIDE DEF Out
    <3> QED BY <3>1, LeastNat
  <2>2. m # 0 /\ m \in 0 .. N
    BY <1>1a, <2>1 DEF Own
  <2>3. step[m - 1] \in Own(f)
    BY <1>2, <2>1, <2>2
  <2>4. step[m] \in Own(f)
    BY <1>1a, <1>2, <2>2, <2>3 DEF N, ListsApart, Apart, Around
  <2> QED BY <2>1, <2>4
<1>4. \A i \in 1 .. length : step[i] \in Sent(f)
  BY <1>1a, <1>2, <1>3 DEF N, Own
<1> QED BY <1>1a, <1>4

-----------------------------------------------------------------------------
(* The initial states, and steps that change little.                       *)

LEMMA InitInv == Init => IInv
<1> SUFFICES ASSUME Init PROVE IInv
  OBVIOUS
<1>1. /\ \A f \in Files : sent[f] = <<>> /\ got[f] = <<>> /\ filp[f] = "new"
      /\ \A f \in Files : first[f] = NoNode /\ before[f] = NoNode /\ after[f] = NoNode
      /\ \A s \in Senders : pc[s] = "idle" /\ event[s] = NoNode
      /\ \A n \in Nodes : next[n] = n /\ prev[n] = n
      /\ freed = {} /\ faulty = {}
  BY DEF Init
<1>2. \A f \in Files : /\ Sent(f) = {} /\ InHand(f) = {} /\ Appending(f) = {}
                       /\ Own(f) = {f} /\ Around(f) = {f}
                       /\ \A i : Place(f, i) = f
                       /\ f \in Nodes
  BY <1>1 DEF Sent, InHand, Appending, Own, Around, Place, Nodes
<1>3. TypeOK
  BY DEF Init, TypeOK, Nodes
<1>4. SendersAt
  BY <1>1, EventFilesAssumption, SendersAssumption DEF Init, SendersAt
<1>5. EventsOnce
  BY <1>1, <1>2 DEF EventsOnce
<1>6. ReadersAt /\ ReadOnce
  BY <1>1, <1>2 DEF ReadersAt, ReaderAt, ReadOnce, ReadOf
<1>7. ListsApart /\ BackAndForth
  BY <1>1, <1>2 DEF ListsApart, Apart, BackAndForth, Facing
<1>8. Chained
  BY <1>1, <1>2 DEF Chained, Chain
<1> QED BY <1>3, <1>4, <1>5, <1>6, <1>7, <1>8 DEF IInv

\* The operators of the invariant when what they read stays.
LEMMA SentSame == UNCHANGED sent => \A f : Sent(f)' = Sent(f)
BY DEF Sent

LEMMA HandSame == UNCHANGED <<pc, file, event>> =>
    \A f : InHand(f)' = InHand(f) /\ Appending(f)' = Appending(f)
BY DEF InHand, Appending

LEMMA AroundSame ==
    ASSUME NEW f, Sent(f)' = Sent(f), InHand(f)' = InHand(f)
    PROVE  Own(f)' = Own(f) /\ Around(f)' = Around(f)
BY DEF Own, Around

LEMMA PlaceSame == UNCHANGED <<sent, got>> => \A f, i : Place(f, i)' = Place(f, i)
BY DEF Place

\* A step that only opens a file or changes who is connected.
LEMMA ConnectionInv ==
    ASSUME IInv,
           UNCHANGED <<lock, listVars, senderVars, readerVars, freed, history>>,
           filp' \in [Files -> {"new", "open", "closed"}],
           \A f \in Files : filp'[f] = filp[f] \/ (filp[f] = "new" /\ filp'[f] = "open"),
           drm_filp' \in Files \cup {NoFile},
           drm_filp' \in Files => filp'[drm_filp'] = "open",
           drm_filp' = drm_filp \/ lock = NoSender
    PROVE  IInv'
<1>0. /\ TypeOK /\ SendersAt /\ EventsOnce /\ ReadersAt /\ ListsApart /\ BackAndForth
      /\ ReadOnce /\ Chained
  BY DEF IInv
<1>1. \A f \in Files : /\ filp'[f] = "closed" <=> filp[f] = "closed"
                       /\ filp[f] = "open" => filp'[f] = "open"
                       /\ filp[f] # "new" => filp'[f] # "new"
  BY <1>0 DEF TypeOK
<1>2. \A f : /\ Sent(f)' = Sent(f) /\ InHand(f)' = InHand(f) /\ Appending(f)' = Appending(f)
             /\ Own(f)' = Own(f) /\ Around(f)' = Around(f)
             /\ \A i : Place(f, i)' = Place(f, i)
  BY SentSame, HandSame, AroundSame, PlaceSame DEF senderVars, history
<1>3. TypeOK'
  BY <1>0 DEF TypeOK, listVars, senderVars, readerVars, history, Nodes
<1>4. SendersAt'
  BY <1>0, <1>1, SendersAssumption DEF SendersAt, TypeOK, senderVars, listVars, Nodes
<1>5. EventsOnce'
  BY <1>0, <1>2 DEF EventsOnce, senderVars, history
<1>6. ReadersAt'
  BY <1>0, <1>1, <1>2 DEF ReadersAt, ReaderAt, readerVars, listVars, history
<1>7. ListsApart'
  BY <1>0, <1>1, <1>2 DEF ListsApart, Apart, senderVars, listVars
<1>8. BackAndForth'
  BY <1>0, <1>1, <1>2 DEF BackAndForth, Facing, senderVars, readerVars, listVars
<1>9. ReadOnce'
  BY <1>0, <1>1, <1>2 DEF ReadOnce, ReadOf, history
<1>10. Chained'
  BY <1>0, <1>1, <1>2 DEF Chained, Chain, senderVars, readerVars, listVars, history
<1> QED BY <1>3, <1>4, <1>5, <1>6, <1>7, <1>8, <1>9, <1>10 DEF IInv

LEMMA CloseInv ==
    ASSUME IInv, NEW f \in Files, Close(f)
    PROVE  IInv'
<1>0. /\ TypeOK /\ SendersAt /\ EventsOnce /\ ReadersAt /\ ListsApart /\ BackAndForth
      /\ ReadOnce /\ Chained
  BY DEF IInv
<1> DEFINE Unread == {Listed(f)[i] : i \in DOMAIN Listed(f)}
<1>1. /\ filp[f] = "open" /\ first[f] = NoNode /\ lock = NoSender
      /\ freed' = freed \cup Unread
      /\ drm_filp' = IF drm_filp = f THEN NoFile ELSE drm_filp
      /\ UNCHANGED <<lock, listVars, senderVars, readerVars, history>>
  BY DEF Close
<1>2. Unread \subseteq Sent(f)
  BY <1>0, <1>1, ListedSent
<1> HIDE DEF Unread
<1>3. /\ filp' = [filp EXCEPT ![f] = "closed"]
      /\ filp'[f] = "closed" /\ \A g \in Files \ {f} : filp'[g] = filp[g]
  BY <1>0 DEF Close, TypeOK
<1>4. \A g : /\ Sent(g)' = Sent(g) /\ InHand(g)' = InHand(g) /\ Appending(g)' = Appending(g)
             /\ Own(g)' = Own(g) /\ Around(g)' = Around(g)
             /\ \A i : Place(g, i)' = Place(g, i)
  BY <1>1, SentSame, HandSame, AroundSame, PlaceSame DEF senderVars, history
<1>5. TypeOK'
  <2>1. freed' \subseteq Events
    BY <1>0, <1>1, <1>2 DEF TypeOK, Sent
  <2>2. filp' \in [Files -> {"new", "open", "closed"}]
    BY <1>0, <1>3 DEF TypeOK
  <2> QED BY <1>0, <1>1, <2>1, <2>2
          DEF TypeOK, listVars, senderVars, readerVars, history, Nodes
<1>6. SendersAt'
  BY <1>0, <1>1, <1>3, EventFilesAssumption, SendersAssumption DEF SendersAt, TypeOK, senderVars, Nodes
<1>7. EventsOnce'
  BY <1>0, <1>1, <1>2, <1>4 DEF EventsOnce, senderVars, history
<1>8. ReadersAt'
  <2> SUFFICES ASSUME NEW g \in Files PROVE ReaderAt(g)'
    BY DEF ReadersAt
  <2>1. CASE g = f
    BY <1>0, <1>1, <2>1 DEF ReadersAt, ReaderAt, readerVars
  <2>2. CASE g # f
    <3>1. Sent(g) \cap Unread = {} /\ g \notin Unread
      BY <1>0, <1>2, <2>2, EventsAssumption DEF EventsOnce, Sent
    <3> QED BY <1>0, <1>1, <1>3, <1>4, <2>2, <3>1 DEF ReadersAt, ReaderAt, Own, readerVars, listVars
  <2> QED BY <2>1, <2>2
<1>9. ListsApart'
  BY <1>0, <1>1, <1>3, <1>4 DEF ListsApart, Apart, senderVars, listVars
<1>10. BackAndForth'
  <2> SUFFICES ASSUME NEW g \in Files, filp'[g] # "closed" PROVE Facing(g)'
    BY DEF BackAndForth
  <2>1. g # f /\ filp[g] # "closed"
    BY <1>3
  <2>2. Own(g) \cap Unread = {}
    BY <1>0, <1>2, <2>1, EventsAssumption DEF EventsOnce, Sent, Own
  <2>3. \A n \in Around(g) : next[n] \in Own(g)
    BY <1>0, <2>1 DEF ListsApart, Apart
  <2> QED BY <1>0, <1>1, <1>4, <2>1, <2>2, <2>3
          DEF BackAndForth, Facing, senderVars, readerVars, listVars
<1>11. ReadOnce'
  <2> SUFFICES ASSUME NEW g \in Files PROVE ReadOf(g)'
    BY DEF ReadOnce
  <2>1. filp'[g] # "closed" => g # f /\ filp[g] # "closed" /\ Sent(g) \cap Unread = {}
    BY <1>0, <1>2, <1>3 DEF EventsOnce
  <2> QED BY <1>0, <1>1, <1>4, <2>1 DEF ReadOnce, ReadOf, history
<1>12. Chained'
  BY <1>0, <1>1, <1>3, <1>4 DEF Chained, Chain, senderVars, readerVars, listVars, history
<1> QED BY <1>5, <1>6, <1>7, <1>8, <1>9, <1>10, <1>11, <1>12 DEF IInv

-----------------------------------------------------------------------------
(* The reader.                                                             *)

LEMMA ReadFirstInv ==
    ASSUME IInv, NEW f \in Files, ReadFirst(f)
    PROVE  IInv'
<1>0. /\ TypeOK /\ SendersAt /\ EventsOnce /\ ReadersAt /\ ListsApart /\ BackAndForth
      /\ ReadOnce /\ Chained
  BY DEF IInv
<1>1. /\ filp[f] = "open" /\ first[f] = NoNode /\ next[f] # f
      /\ raced' = IF Quiet(f) THEN raced ELSE raced \cup {f}
      /\ first' = [first EXCEPT ![f] = next[f]]
      /\ UNCHANGED <<filp, drm_filp, lock, listVars, senderVars, before, after, freed,
                     sent, got, faulty>>
  BY DEF ReadFirst, Enter
<1>2. \A g : /\ Sent(g)' = Sent(g) /\ InHand(g)' = InHand(g) /\ Appending(g)' = Appending(g)
             /\ Own(g)' = Own(g) /\ Around(g)' = Around(g)
             /\ \A i : Place(g, i)' = Place(g, i)
  BY <1>1, SentSame, HandSame, AroundSame, PlaceSame DEF senderVars
<1>3. /\ first'[f] = next[f] /\ \A g \in Files \ {f} : first'[g] = first[g]
  BY <1>0, <1>1 DEF TypeOK
\* The event at the head was sent to this file, and has not been read.
<1>4. /\ next[f] \in Sent(f) \ freed /\ prev[next[f]] = f /\ next[f] \in Events
      /\ after[f] = NoNode
  <2>1. f \in Around(f) /\ f \notin freed
    BY <1>0, EventsAssumption DEF Around, Own, TypeOK
  <2>2. next[f] \in Sent(f)
    BY <1>0, <1>1, <2>1 DEF ListsApart, Apart, Own
  <2>3. after[f] = NoNode
    BY <1>0, <1>1 DEF ReadersAt, ReaderAt
  <2>4. next[f] \notin freed /\ prev[next[f]] = f
    BY <1>0, <1>1, <2>1, <2>3 DEF BackAndForth, Facing
  <2> QED BY <2>2, <2>3, <2>4 DEF Sent
<1>5. TypeOK'
  <2>1. first' \in [Files -> Events \cup {NoNode}] /\ raced' \subseteq Files
    BY <1>0, <1>1, <1>4 DEF TypeOK
  <2> QED BY <1>0, <1>1, <2>1 DEF TypeOK, listVars, senderVars, Nodes
<1>6. SendersAt' /\ EventsOnce' /\ ReadOnce' /\ ListsApart'
  BY <1>0, <1>1, <1>2 DEF SendersAt, EventsOnce, ReadOnce, ReadOf, ListsApart, Apart,
                          senderVars, listVars, Nodes
<1>7. ReadersAt'
  BY <1>0, <1>1, <1>2, <1>3, <1>4 DEF ReadersAt, ReaderAt, listVars
<1>8. BackAndForth'
  BY <1>0, <1>1, <1>2, <1>3, <1>4 DEF BackAndForth, Facing, senderVars, listVars
<1>9. Chained'
  <2> SUFFICES ASSUME NEW g \in Files, g \notin raced', filp'[g] # "closed" PROVE Chain(g)'
    BY DEF Chained
  <2>1. g \notin raced /\ filp[g] # "closed" /\ Chain(g)
    BY <1>0, <1>1 DEF Chained
  <2>2. CASE g # f
    BY <1>1, <1>2, <1>3, <2>1, <2>2 DEF Chain, senderVars, listVars
  <2>3. CASE g = f
    <3>1. Appending(f) = {}
      BY <1>1, <2>3 DEF Quiet
    <3>2. Len(got[f]) \in Nat /\ Len(sent[f]) \in Nat
      BY <1>0 DEF TypeOK
    <3>3. next[f] = Place(f, Len(got[f]) + 1) /\ Len(got[f]) < Len(sent[f])
      <4>1. Place(f, Len(got[f])) = f /\ Place(f, Len(sent[f]) + 1) = f
        BY <3>2 DEF Place
      <4>2. Len(got[f]) \in Len(got[f]) .. Len(sent[f])
        BY <2>1, <2>3, <3>2 DEF Chain
      <4>3. next[f] = Place(f, Len(got[f]) + 1)
        BY <2>1, <2>3, <4>1, <4>2 DEF Chain
      <4> QED BY <1>1, <2>1, <2>3, <3>2, <4>1, <4>3 DEF Chain
    <3> QED BY <1>1, <1>2, <1>3, <1>4, <2>1, <2>3, <3>1, <3>3 DEF Chain, senderVars, listVars
  <2> QED BY <2>2, <2>3
<1> QED BY <1>5, <1>6, <1>7, <1>8, <1>9 DEF IInv

\* list_del, the way back: the next event, if any, becomes the head's neighbour.
LEMMA UnlinkBackInv ==
    ASSUME IInv, NEW f \in Files, UnlinkBack(f)
    PROVE  IInv'
<1>0. /\ TypeOK /\ SendersAt /\ EventsOnce /\ ReadersAt /\ ListsApart /\ BackAndForth
      /\ ReadOnce /\ Chained
  BY DEF IInv
<1> DEFINE e == first[f]
<1>1. /\ e # NoNode /\ after[f] = NoNode
      /\ before' = [before EXCEPT ![f] = prev[e]]
      /\ after' = [after EXCEPT ![f] = next[e]]
      /\ prev' = Write(prev, next[e], prev[e])
      /\ UNCHANGED <<filp, drm_filp, lock, next, senderVars, first, freed, history>>
  BY DEF UnlinkBack
<1>2. \A g : /\ Sent(g)' = Sent(g) /\ InHand(g)' = InHand(g) /\ Appending(g)' = Appending(g)
             /\ Own(g)' = Own(g) /\ Around(g)' = Around(g)
             /\ \A i : Place(g, i)' = Place(g, i)
  BY <1>1, SentSame, HandSame, AroundSame, PlaceSame DEF senderVars, history
<1>3. /\ filp[f] = "open" /\ e \in Sent(f) \ freed /\ e \in Events /\ prev[e] = f
      /\ e \in Around(f) /\ f \in Around(f) /\ f \notin freed
  BY <1>0, <1>1, EventsAssumption DEF ReadersAt, ReaderAt, Sent, Around, Own, TypeOK
<1>4. /\ next[e] \in Own(f) \ freed /\ next[e] # e /\ next[e] \in Nodes
      /\ next[e] # f => prev[next[e]] = e
  <2>1. next[e] \in Own(f)
    BY <1>0, <1>3 DEF ListsApart, Apart
  <2>2. next[e] \notin freed /\ (next[e] # f => prev[next[e]] = e)
    BY <1>0, <1>1, <1>3, <2>1 DEF BackAndForth, Facing
  <2>3. next[e] # e
    BY <1>3, <2>2, EventsAssumption
  <2> QED BY <2>1, <2>2, <2>3 DEF Own, Sent, Nodes
<1>5. /\ before'[f] = f /\ after'[f] = next[e]
      /\ prev'[next[e]] = f
      /\ \A n \in Nodes \ {next[e]} : prev'[n] = prev[n]
      /\ \A g \in Files \ {f} : before'[g] = before[g] /\ after'[g] = after[g]
  BY <1>0, <1>1, <1>3, <1>4 DEF TypeOK, Write
<1>6. TypeOK'
  <2>1. /\ before' \in [Files -> Nodes \cup {NoNode}] /\ after' \in [Files -> Nodes \cup {NoNode}]
        /\ prev' \in [Nodes -> Nodes]
    BY <1>0, <1>1, <1>3, <1>4 DEF TypeOK, Write, Nodes
  <2> QED BY <1>0, <1>1, <2>1 DEF TypeOK, senderVars, history, Nodes
<1>7. SendersAt' /\ EventsOnce' /\ ReadOnce'
  BY <1>0, <1>1, <1>2 DEF SendersAt, EventsOnce, ReadOnce, ReadOf, senderVars, history, Nodes
\* The one pointer that is written is of this list.
<1>8. \A g \in Files \ {f} : next[e] \notin Around(g)
  BY <1>0, <1>4, EventsAssumption DEF EventsOnce, Around, Own, Sent, InHand
<1>9. \A g \in Files : Around(g) \subseteq Nodes
  BY DEF Around, Own, Sent, InHand, Nodes
<1>10. ReadersAt'
  <2> SUFFICES ASSUME NEW g \in Files PROVE ReaderAt(g)'
    BY DEF ReadersAt
  <2>1. CASE g # f
    <3>1. ReaderAt(g) /\ Own(g) \subseteq Around(g) /\ Sent(g) \subseteq Around(g)
      BY <1>0 DEF ReadersAt, Around, Own
    <3> QED BY <1>1, <1>2, <1>5, <1>8, <1>9, <2>1, <3>1 DEF ReaderAt, history
  <2>2. CASE g = f
    <3>1. next[e] # NoNode
      BY <1>4, EventsAssumption DEF Nodes
    <3> QED BY <1>1, <1>2, <1>3, <1>4, <1>5, <1>9, <2>2, <3>1 DEF ReaderAt, history
  <2> QED BY <2>1, <2>2
<1>11. ListsApart'
  BY <1>0, <1>1, <1>2, <1>3, <1>4, <1>5, <1>8, <1>9 DEF ListsApart, Apart, senderVars
<1>12. BackAndForth'
  <2> SUFFICES ASSUME NEW g \in Files, filp[g] # "closed" PROVE Facing(g)'
    BY <1>1 DEF BackAndForth
  <2>1. Facing(g) /\ \A n \in Around(g) : next[n] \in Own(g) /\ next[n] \in Nodes
    BY <1>0, <1>9 DEF BackAndForth, ListsApart, Apart, Around
  <2>2. \A s \in Senders : pc[s] = "last" /\ file[s] = g => event[s] \in Nodes /\ event[s] # next[e]
    <3>1. \A s \in Senders : event[s] # next[e]
      BY <1>0, <1>4, EventsAssumption DEF EventsOnce, Own, TypeOK
    <3> QED BY <1>0, <3>1 DEF SendersAt, Nodes
  <2>3. CASE g # f
    <3>1. \A n \in Around(g) : next[n] # next[e]
      BY <1>8, <2>1, <2>3 DEF Around
    <3> QED BY <1>1, <1>2, <1>5, <2>1, <2>2, <2>3, <3>1 DEF Facing, senderVars, history
  <2>4. CASE g = f
    <3>1. \A n \in Around(f) \ freed : next[n] = next[e] /\ next[n] # f => n = e
      BY <1>1, <1>4, <2>1, <2>4 DEF Facing
    <3>2. after'[f] # NoNode
      BY <1>4, <1>5, EventsAssumption DEF Nodes
    <3> QED BY <1>1, <1>2, <1>5, <2>1, <2>2, <2>4, <3>1, <3>2 DEF Facing, senderVars, history
  <2> QED BY <2>3, <2>4
<1>13. Chained'
  <2> SUFFICES ASSUME NEW g \in Files, g \notin raced, filp[g] # "closed" PROVE Chain(g)'
    BY <1>1 DEF Chained, history
  <2>1. Chain(g)
    BY <1>0 DEF Chained
  <2>2. Len(got[g]) \in Nat /\ Len(sent[g]) \in Nat
    BY <1>0 DEF TypeOK
  <2>3. CASE g # f
    <3>1. \A i : Place(g, i) \in Own(g)
      BY <1>0 DEF Place, Own, Sent, TypeOK
    <3>2. g \in Own(g) /\ (after[g] # NoNode => after[g] \in Own(g))
      BY <1>0 DEF ReadersAt, ReaderAt, Own
    <3>3. \A n \in Own(g) : prev'[n] = prev[n]
      BY <1>5, <1>8, <1>9, <2>3 DEF Around
    <3> QED BY <1>1, <1>2, <1>5, <2>1, <2>3, <3>1, <3>2, <3>3 DEF Chain, senderVars, history
  <2>4. CASE g = f
    <3>1. /\ Appending(f) = {} /\ InHand(f) = {}
          /\ Len(got[f]) < Len(sent[f]) /\ e = Place(f, Len(got[f]) + 1)
      BY <1>1, <2>1, <2>4 DEF Chain, Appending, InHand
    <3>2. next[e] = Place(f, Len(got[f]) + 2)
      BY <2>1, <2>2, <2>4, <3>1 DEF Chain
    <3>3. \A i \in Len(got[f]) + 1 .. Len(sent[f]) :
             i # Len(got[f]) + 2 => Place(f, i) # next[e] /\ Place(f, i) \in Nodes
      BY <1>0, <2>2, <3>2, EventsAssumption DEF Place, EventsOnce, TypeOK, Nodes
    <3>4. \A i \in Len(got[f]) + 1 .. Len(sent[f]) :
             i # Len(got[f]) + 2 => prev'[Place(f, i)] = Place(f, i - 1)
      BY <1>5, <2>1, <2>4, <3>3 DEF Chain
    <3>5. Len(sent[f]) # Len(got[f]) + 1 => prev'[f] = Place(f, Len(sent[f]))
      <4>1. Len(sent[f]) # Len(got[f]) + 1 => next[e] # f
        BY <1>0, <2>2, <3>1, <3>2, EventsAssumption DEF Place, TypeOK
      <4>2. f \in Nodes
        BY DEF Nodes
      <4> QED BY <1>1, <1>5, <2>1, <2>4, <3>1, <4>1, <4>2 DEF Chain
    <3>6. after'[f] # NoNode /\ after'[f] = Place(f, Len(got[f]) + 2) /\ prev'[after'[f]] = f
      BY <1>4, <1>5, <3>2, EventsAssumption DEF Nodes
    <3> QED BY <1>1, <1>2, <2>1, <2>4, <3>1, <3>4, <3>5, <3>6 DEF Chain, senderVars, history
  <2> QED BY <2>3, <2>4
<1> QED BY <1>6, <1>7, <1>10, <1>11, <1>12, <1>13 DEF IInv

\* list_del, the way forth: the event is read and freed, and nobody points to it.
LEMMA UnlinkForthInv ==
    ASSUME IInv, NEW f \in Files, UnlinkForth(f)
    PROVE  IInv'
<1>0. /\ TypeOK /\ SendersAt /\ EventsOnce /\ ReadersAt /\ ListsApart /\ BackAndForth
      /\ ReadOnce /\ Chained
  BY DEF IInv
<1> DEFINE e == first[f]
           z == after[f]
<1>1. /\ z # NoNode
      /\ next' = Write(next, before[f], z)
      /\ got' = [got EXCEPT ![f] = Append(@, e)]
      /\ freed' = freed \cup {e}
      /\ first' = [first EXCEPT ![f] = NoNode]
      /\ before' = [before EXCEPT ![f] = NoNode] /\ after' = [after EXCEPT ![f] = NoNode]
      /\ UNCHANGED <<filp, drm_filp, lock, prev, senderVars, sent, raced, faulty>>
  BY DEF UnlinkForth
<1>2. \A g : /\ Sent(g)' = Sent(g) /\ InHand(g)' = InHand(g) /\ Appending(g)' = Appending(g)
             /\ Own(g)' = Own(g) /\ Around(g)' = Around(g)
  BY <1>1, SentSame, HandSame, AroundSame DEF senderVars
<1>3. /\ filp[f] = "open" /\ e \in Sent(f) \ freed /\ e \in Events /\ prev[e] = f /\ e # NoNode
      /\ before[f] = f /\ z \in Own(f) \ freed /\ z # e /\ z \in Nodes /\ (z # f => prev[z] = f)
      /\ f \notin freed /\ f \in Around(f) /\ f # e
  BY <1>0, <1>1, EventsAssumption DEF ReadersAt, ReaderAt, Sent, Around, Own, TypeOK, Nodes
<1>4. /\ next'[f] = z /\ \A n \in Nodes \ {f} : next'[n] = next[n]
      /\ first'[f] = NoNode /\ before'[f] = NoNode /\ after'[f] = NoNode
      /\ \A g \in Files \ {f} : /\ first'[g] = first[g] /\ before'[g] = before[g]
                                /\ after'[g] = after[g] /\ got'[g] = got[g]
  BY <1>0, <1>1, <1>3 DEF TypeOK, Write, Nodes
<1>5. /\ got'[f] = Append(got[f], e) /\ got'[f] \in Seq(Events)
      /\ Len(got[f]) \in Nat /\ Len(got'[f]) = Len(got[f]) + 1
      /\ got'[f][Len(got[f]) + 1] = e
      /\ \A i \in DOMAIN got[f] : got'[f][i] = got[f][i] /\ i \in DOMAIN got'[f]
      /\ DOMAIN got'[f] = DOMAIN got[f] \cup {Len(got[f]) + 1}
  <2>1. got[f] \in Seq(Events) /\ got'[f] = Append(got[f], e)
    BY <1>0, <1>1 DEF TypeOK
  <2> HIDE DEF e
  <2> QED BY <1>3, <2>1
<1>6. TypeOK'
  <2>1. got' \in [Files -> Seq(Events)]
    BY <1>0, <1>1, <1>5 DEF TypeOK
  <2>2. /\ before' \in [Files -> Nodes \cup {NoNode}] /\ after' \in [Files -> Nodes \cup {NoNode}]
        /\ first' \in [Files -> Events \cup {NoNode}]
        /\ next' \in [Nodes -> Nodes] /\ freed' \subseteq Events
    BY <1>0, <1>1, <1>3 DEF TypeOK, Write, Nodes
  <2> QED BY <1>0, <1>1, <2>1, <2>2 DEF TypeOK, senderVars, Nodes
<1>7. SendersAt' /\ EventsOnce'
  BY <1>0, <1>1, <1>2, <1>3 DEF SendersAt, EventsOnce, senderVars, Nodes
\* What is freed is of this list.
<1>8. \A g \in Files \ {f} : e \notin Around(g) /\ e \notin Sent(g) /\ f \notin Around(g)
  BY <1>0, <1>3, EventsAssumption DEF EventsOnce, Around, Own, Sent, InHand
<1>9. \A g \in Files : Around(g) \subseteq Nodes /\ Own(g) \subseteq Around(g) /\ Sent(g) \subseteq Own(g)
  BY DEF Around, Own, Sent, InHand, Nodes
<1>10. ReadersAt'
  <2> SUFFICES ASSUME NEW g \in Files PROVE ReaderAt(g)'
    BY DEF ReadersAt
  <2>1. CASE g # f
    BY <1>0, <1>1, <1>2, <1>4, <1>8, <1>9, <2>1 DEF ReadersAt, ReaderAt
  <2>2. CASE g = f
    BY <1>4, <2>2 DEF ReaderAt
  <2> QED BY <2>1, <2>2
<1>11. ListsApart'
  BY <1>0, <1>1, <1>2, <1>3, <1>4, <1>8, <1>9 DEF ListsApart, Apart, senderVars
<1>12. BackAndForth'
  <2> SUFFICES ASSUME NEW g \in Files, filp[g] # "closed" PROVE Facing(g)'
    BY <1>1 DEF BackAndForth
  <2>1. Facing(g) /\ \A n \in Around(g) : next[n] \in Own(g) /\ n \in Nodes
    BY <1>0, <1>9 DEF BackAndForth, ListsApart, Apart
  <2>2. CASE g # f
    BY <1>1, <1>2, <1>4, <1>8, <1>9, <2>1, <2>2 DEF Facing, senderVars
  <2>3. CASE g = f
    <3>1. ASSUME NEW n \in Around(f) \ freed', next'[n] # f
          PROVE  next'[n] \notin freed' /\ prev[next'[n]] = n
      <4>1. CASE n = f
        BY <1>1, <1>3, <1>4, <3>1, <4>1
      <4>2. CASE n # f
        <5>1. next'[n] = next[n] /\ n # e /\ n \notin freed
          BY <1>1, <1>4, <2>1, <2>3, <3>1, <4>2
        <5>2. next[n] \notin freed /\ prev[next[n]] = n
          BY <2>1, <2>3, <3>1, <5>1 DEF Facing
        <5> QED BY <1>1, <1>3, <4>2, <5>1, <5>2
      <4> QED BY <4>1, <4>2
    <3> QED BY <1>1, <1>2, <2>1, <2>3, <3>1 DEF Facing, senderVars
  <2> QED BY <2>2, <2>3
<1>13. ReadOnce'
  <2> SUFFICES ASSUME NEW g \in Files PROVE ReadOf(g)'
    BY DEF ReadOnce
  <2>1. ReadOf(g)
    BY <1>0 DEF ReadOnce
  <2>2. CASE g # f
    BY <1>1, <1>2, <1>4, <1>8, <2>1, <2>2 DEF ReadOf
  <2>3. CASE g = f
    <3>1. \A i \in DOMAIN got[f] : got[f][i] # e
      BY <1>3, <2>1, <2>3 DEF ReadOf
    <3> QED BY <1>1, <1>2, <1>3, <1>5, <2>1, <2>3, <3>1 DEF ReadOf
  <2> QED BY <2>2, <2>3
<1>14. Chained'
  <2> SUFFICES ASSUME NEW g \in Files, g \notin raced, filp[g] # "closed" PROVE Chain(g)'
    BY <1>1 DEF Chained
  <2>1. Chain(g)
    BY <1>0 DEF Chained
  <2>2. Len(got[g]) \in Nat /\ Len(sent[g]) \in Nat
    BY <1>0 DEF TypeOK
  <2>3. CASE g # f
    <3>1. \A i : Place(g, i)' = Place(g, i)
      BY <1>1, <1>4, <2>3 DEF Place
    <3>2. \A i : Place(g, i) \in Own(g)
      BY <1>0 DEF Place, Own, Sent, TypeOK
    <3>3. \A n \in Own(g) : next'[n] = next[n]
      BY <1>4, <1>8, <1>9, <2>3
    <3>4. \A s \in Appending(g) : event[s] \in Nodes /\ event[s] # f
      BY <1>0, EventsAssumption DEF Appending, SendersAt, Nodes
    <3> QED BY <1>1, <1>2, <1>4, <2>1, <2>3, <3>1, <3>2, <3>3, <3>4 DEF Chain, senderVars
  <2>4. CASE g = f
    <3>0. PICK n \in Nat, m \in Nat : n = Len(got[f]) /\ m = Len(sent[f])
      BY <2>2, <2>4
    <3>1. /\ Appending(f) = {} /\ InHand(f) = {} /\ n < m /\ e = Place(f, n + 1)
          /\ z = Place(f, n + 2) /\ prev[z] = f
      BY <1>1, <1>3, <2>1, <2>4, <3>0 DEF Chain, Appending, InHand
    <3>2. Len(got'[f]) = n + 1 /\ Len(sent'[f]) = m /\ sent'[f] = sent[f]
      BY <1>1, <1>5, <3>0
    <3>3. \A i : /\ Place(f, i) = IF i \in n + 1 .. m THEN sent[f][i] ELSE f
                /\ Place(f, i)' = IF i \in n + 2 .. m THEN sent[f][i] ELSE f
      BY <3>0, <3>2 DEF Place
    <3>4. e = sent[f][n + 1]
      BY <3>1, <3>3
    <3>5. \A i \in n + 2 .. m : sent[f][i] \in Nodes \ {f}
      BY <1>0, <3>0, EventsAssumption DEF TypeOK, Nodes
    <3>6. \A i \in DOMAIN got'[f] : got'[f][i] = sent'[f][i]
      BY <1>5, <2>1, <2>4, <3>0, <3>2, <3>4 DEF Chain
    <3>7. \A i \in n + 1 .. m : next'[Place(f, i)'] = Place(f, i + 1)'
      <4> TAKE i \in n + 1 .. m
      <4>1. CASE i = n + 1
        <5>1. Place(f, i)' = f /\ Place(f, i + 1)' = Place(f, n + 2)
          BY <3>1, <3>3, <4>1
        <5> QED BY <1>4, <3>1, <5>1
      <4>2. CASE i # n + 1
        <5>1. i \in n + 2 .. m /\ i \in n .. m
          BY <4>2
        <5>2. Place(f, i)' = sent[f][i] /\ Place(f, i) = sent[f][i] /\ Place(f, i + 1)' = Place(f, i + 1)
          BY <3>1, <3>3, <5>1
        <5>3. next[Place(f, i)] = Place(f, i + 1)
          BY <2>1, <2>4, <3>0, <5>1 DEF Chain
        <5> QED BY <1>4, <3>5, <5>1, <5>2, <5>3
      <4> QED BY <4>1, <4>2
    <3>8. \A i \in n + 2 .. m : prev[Place(f, i)'] = Place(f, i - 1)'
      <4> TAKE i \in n + 2 .. m
      <4>1. Place(f, i)' = sent[f][i] /\ Place(f, i) = sent[f][i]
        BY <3>1, <3>3
      <4>2. CASE i = n + 2
        <5>1. Place(f, i - 1)' = f
          BY <3>3, <4>2
        <5> QED BY <3>1, <4>1, <4>2, <5>1
      <4>3. CASE i # n + 2
        <5>1. Place(f, i - 1)' = Place(f, i - 1) /\ i \in n + 1 .. m
          BY <3>1, <3>3, <4>3
        <5>2. prev[Place(f, i)] = Place(f, i - 1)
          BY <2>1, <2>4, <3>0, <4>3, <5>1 DEF Chain
        <5> QED BY <4>1, <5>1, <5>2
      <4> QED BY <4>2, <4>3
    <3>9. prev[f] = Place(f, m)'
      <4>1. CASE m = n + 1
        <5>1. Place(f, n + 2) = f /\ Place(f, m)' = f
          BY <3>3, <4>1
        <5> QED BY <3>1, <5>1
      <4>2. CASE m # n + 1
        <5>1. Place(f, m)' = Place(f, m)
          BY <3>1, <3>3, <4>2
        <5> QED BY <2>1, <2>4, <3>0, <3>1, <4>2, <5>1 DEF Chain
      <4> QED BY <4>1, <4>2
    <3> QED
      <4>1. Len(got'[f]) <= Len(sent'[f]) /\ n + 1 + 1 = n + 2
        BY <3>1, <3>2
      <4> QED BY <1>1, <1>2, <1>4, <2>4, <3>2, <3>6, <3>7, <3>8, <3>9, <3>1, <4>1 DEF Chain, senderVars
  <2> QED BY <2>3, <2>4
<1> QED BY <1>6, <1>7, <1>10, <1>11, <1>12, <1>13, <1>14 DEF IInv

\* An event is made: nobody knows it yet.
LEMMA PrepareInv ==
    ASSUME IInv, NEW s \in Senders, NEW e \in Events, Prepare(s, e)
    PROVE  IInv'
<1>0. /\ TypeOK /\ SendersAt /\ EventsOnce /\ ReadersAt /\ ListsApart /\ BackAndForth
      /\ ReadOnce /\ Chained
  BY DEF IInv
<1>1. /\ pc[s] = "idle" /\ drm_filp \in Files /\ event' = [event EXCEPT ![s] = e]
      /\ pc' = [pc EXCEPT ![s] = "file"]
      /\ lock' = IF e \in UpdateReadies THEN s ELSE lock
      /\ e \in UpdateReadies => lock = NoSender
      /\ e \notin freed \cup faulty /\ (\A t \in Senders : event[t] # e)
      /\ \A f \in Files : e \notin Sent(f)
      /\ UNCHANGED <<filp, drm_filp, listVars, file, last, readerVars, freed, history>>
  BY <1>0 DEF Prepare, Used, Sent, TypeOK
<1>2. /\ pc'[s] = "file" /\ event'[s] = e
      /\ \A t \in Senders \ {s} : pc'[t] = pc[t] /\ event'[t] = event[t]
      /\ \A t \in Senders : t # s \/ pc'[t] \notin {"idle", "head", "last"}
  BY <1>0, <1>1 DEF TypeOK
<1>3. \A g : /\ Sent(g)' = Sent(g) /\ InHand(g)' = InHand(g) /\ Appending(g)' = Appending(g)
  BY <1>1, <1>2, SentSame DEF InHand, Appending, history
<1>4. \A g : /\ Own(g)' = Own(g) /\ Around(g)' = Around(g)
             /\ \A i : Place(g, i)' = Place(g, i)
  BY <1>1, <1>3, AroundSame, PlaceSame DEF history
<1>5. TypeOK'
  BY <1>0, <1>1 DEF TypeOK, listVars, readerVars, history, Nodes
<1>6. SendersAt'
  <2>1. \A t \in Senders \ {s} : event[t] \in UpdateReadies /\ pc[t] # "idle" => lock' = t
    BY <1>0, <1>1, SendersAssumption DEF SendersAt
  <2>2. \A t \in Senders \ {s} : lock' = t => lock = t
    BY <1>1
  <2>3. e # NoNode
    BY EventsAssumption
  <2> QED BY <1>0, <1>1, <1>2, <2>1, <2>2, <2>3 DEF SendersAt, Nodes
<1>7. EventsOnce'
  BY <1>0, <1>1, <1>2, <1>3 DEF EventsOnce, history
<1>8. ReadersAt' /\ ReadOnce'
  BY <1>0, <1>1, <1>3, <1>4 DEF ReadersAt, ReaderAt, ReadOnce, ReadOf, listVars, readerVars, history
<1>9. ListsApart' /\ BackAndForth'
  BY <1>0, <1>1, <1>2, <1>3, <1>4 DEF ListsApart, Apart, BackAndForth, Facing, listVars, readerVars
<1>10. Chained'
  <2>1. \A g \in Files : s \notin Appending(g) /\ Appending(g) \subseteq Senders
    BY <1>1 DEF Appending
  <2> QED BY <1>0, <1>1, <1>2, <1>3, <1>4, <2>1 DEF Chained, Chain, listVars, readerVars, history
<1> QED BY <1>5, <1>6, <1>7, <1>8, <1>9, <1>10 DEF IInv

\* A sender gives up: it had no list yet, or one that is gone with its file.
LEMMA FaultInv ==
    ASSUME IInv, NEW s \in Senders, pc[s] # "idle",
           pc[s] \in {"head", "last"} => filp[file[s]] = "closed",
           Fault(s), UNCHANGED <<filp, drm_filp, readerVars, freed, got>>
    PROVE  IInv'
<1>0. /\ TypeOK /\ SendersAt /\ EventsOnce /\ ReadersAt /\ ListsApart /\ BackAndForth
      /\ ReadOnce /\ Chained
  BY DEF IInv
<1>1. /\ pc' = [pc EXCEPT ![s] = "idle"] /\ file' = [file EXCEPT ![s] = NoFile]
      /\ event' = [event EXCEPT ![s] = NoNode] /\ last' = [last EXCEPT ![s] = NoNode]
      /\ lock' = IF lock = s THEN NoSender ELSE lock
      /\ faulty' = faulty \cup {event[s]} /\ event[s] \in Events
      /\ UNCHANGED <<listVars, sent, raced>>
  BY <1>0 DEF Fault, Stop, SendersAt
<1>2. /\ pc'[s] = "idle" /\ file'[s] = NoFile /\ event'[s] = NoNode /\ last'[s] = NoNode
      /\ \A t \in Senders \ {s} : /\ pc'[t] = pc[t] /\ file'[t] = file[t]
                                  /\ event'[t] = event[t] /\ last'[t] = last[t]
  BY <1>0, <1>1 DEF TypeOK
<1>3. \A g : /\ Sent(g)' = Sent(g) /\ Own(g)' = Own(g) /\ InHand(g)' \subseteq InHand(g)
             /\ \A i : Place(g, i)' = Place(g, i)
  BY <1>1, <1>2, SentSame, PlaceSame DEF InHand, Own
<1>4. \A g \in Files : filp[g] # "closed" =>
         InHand(g)' = InHand(g) /\ Appending(g)' = Appending(g) /\ s \notin Appending(g)
  BY <1>1, <1>2 DEF InHand, Appending
<1>5. \A g \in Files : filp[g] # "closed" => Around(g)' = Around(g)
  BY <1>3, <1>4 DEF Around
<1>6. TypeOK'
  BY <1>0, <1>1 DEF TypeOK, listVars, readerVars, Nodes
<1>7. SendersAt'
  <2>1. \A t \in Senders \ {s} : lock' = t <=> lock = t
    BY <1>1, SendersAssumption
  <2>2. lock' # s
    BY <1>1, SendersAssumption
  <2> QED BY <1>0, <1>1, <1>2, <2>1, <2>2 DEF SendersAt, Nodes
<1>8. EventsOnce'
  <2>1. NoNode \notin faulty' /\ \A g : NoNode \notin Sent(g)
    BY <1>0, <1>1, EventsAssumption DEF TypeOK, Sent
  <2>2. \A t \in Senders \ {s} : event[t] # event[s]
    BY <1>0, <1>1, EventsAssumption DEF EventsOnce
  <2> QED BY <1>0, <1>1, <1>2, <1>3, <2>1, <2>2 DEF EventsOnce
<1>9. ReadersAt' /\ ReadOnce'
  BY <1>0, <1>1, <1>3 DEF ReadersAt, ReaderAt, ReadOnce, ReadOf, listVars, readerVars
<1>10. ListsApart' /\ BackAndForth'
  BY <1>0, <1>1, <1>2, <1>3, <1>4, <1>5
     DEF ListsApart, Apart, BackAndForth, Facing, listVars, readerVars
<1>11. Chained'
  <2>1. \A g \in Files : Appending(g) \subseteq Senders
    BY DEF Appending
  <2> QED BY <1>0, <1>1, <1>2, <1>3, <1>4, <2>1 DEF Chained, Chain, listVars, readerVars
<1> QED BY <1>6, <1>7, <1>8, <1>9, <1>10, <1>11 DEF IInv

\* A sender sees the end of the client's list.
LEMMA TakeListInv ==
    ASSUME IInv, NEW s \in Senders, TakeList(s)
    PROVE  IInv'
<1>0. /\ TypeOK /\ SendersAt /\ EventsOnce /\ ReadersAt /\ ListsApart /\ BackAndForth
      /\ ReadOnce /\ Chained
  BY DEF IInv
<1>1. CASE drm_filp = NoFile
  BY <1>1, FaultInv DEF TakeList
<1>2. CASE drm_filp # NoFile
  <2> DEFINE f == drm_filp
  <2>1. /\ pc[s] = "file" /\ f \in Files /\ filp[f] = "open"
        /\ file' = [file EXCEPT ![s] = f] /\ last' = [last EXCEPT ![s] = prev[f]]
        /\ pc' = [pc EXCEPT ![s] = "head"]
        /\ raced' = IF Quiet(f) THEN raced ELSE raced \cup {f}
        /\ UNCHANGED <<lock, listVars, event, sent, faulty>>
        /\ UNCHANGED <<filp, drm_filp, readerVars, freed, got>>
    BY <1>0, <1>2 DEF TakeList, Enter, TypeOK, SendersAt
  <2>2. /\ pc'[s] = "head" /\ file'[s] = f /\ last'[s] = prev[f]
        /\ \A t \in Senders \ {s} : pc'[t] = pc[t] /\ file'[t] = file[t] /\ last'[t] = last[t]
    BY <1>0, <2>1 DEF TypeOK
  <2>3. \A g : /\ Sent(g)' = Sent(g) /\ InHand(g)' = InHand(g)
               /\ \A i : Place(g, i)' = Place(g, i)
    BY <2>1, <2>2, SentSame, PlaceSame DEF InHand
  <2>4. \A g : Own(g)' = Own(g) /\ Around(g)' = Around(g)
    BY <2>3, AroundSame
  <2>5. prev[f] \in Around(f) /\ prev[f] \in Nodes
    BY <1>0, <2>1 DEF ListsApart, Apart, Around, Own, TypeOK, Nodes
  <2>6. TypeOK'
    BY <1>0, <2>1, <2>5 DEF TypeOK, listVars, readerVars, Nodes
  <2>7. SendersAt'
    BY <1>0, <2>1, <2>2, <2>5 DEF SendersAt, Nodes
  <2>8. EventsOnce' /\ ReadersAt' /\ ReadOnce'
    BY <1>0, <2>1, <2>3, <2>4 DEF EventsOnce, ReadersAt, ReaderAt, ReadOnce, ReadOf,
                                  listVars, readerVars
  <2>9. ListsApart'
    BY <1>0, <2>1, <2>2, <2>3, <2>4, <2>5 DEF ListsApart, Apart, listVars
  <2>10. BackAndForth'
    BY <1>0, <2>1, <2>2, <2>3, <2>4 DEF BackAndForth, Facing, listVars, readerVars
  <2>11. Chained'
    <3> SUFFICES ASSUME NEW g \in Files, g \notin raced', filp[g] # "closed" PROVE Chain(g)'
      BY <2>1 DEF Chained
    <3>1. Chain(g) /\ Appending(g) \subseteq Senders
      BY <1>0, <2>1 DEF Chained, Appending
    <3>2. CASE g # f
      <4>1. Appending(g)' = Appending(g) /\ s \notin Appending(g)
        BY <2>1, <2>2, <3>2 DEF Appending
      <4> QED BY <2>1, <2>2, <2>3, <3>1, <4>1 DEF Chain, listVars, readerVars
    <3>3. CASE g = f
      <4>1. Appending(g) = {} /\ first[g] = NoNode /\ after[g] = NoNode
        BY <1>0, <2>1, <3>3 DEF Quiet, ReadersAt, ReaderAt
      <4>2. Appending(g)' = {s} /\ InHand(g) = {} /\ InHand(g)' = {}
        BY <2>1, <2>2, <2>3, <3>3, <4>1 DEF Appending, InHand
      <4>3. last'[s] = Place(g, Len(sent[g])) /\ pc'[s] = "head"
        BY <2>2, <3>1, <3>3, <4>1, <4>2 DEF Chain
      <4>4. /\ \A t \in Appending(g)' : last'[t] = Place(g, Len(sent[g])) /\ pc'[t] = "head"
            /\ \A t, u \in Appending(g)' : t = u
        BY <4>2, <4>3
      <4>5. UNCHANGED <<next, prev, first, before, after, sent, got>>
        BY <2>1 DEF listVars, readerVars
      <4> QED BY <2>3, <3>1, <4>1, <4>2, <4>4, <4>5 DEF Chain
    <3> QED BY <3>2, <3>3
  <2> QED BY <2>6, <2>7, <2>8, <2>9, <2>10, <2>11 DEF IInv
<1> QED BY <1>1, <1>2

\* What a sender that has seen the list holds: an event no list and no other sender
\* knows.
LEMMA EventInHand ==
    ASSUME IInv, NEW s \in Senders, pc[s] \in {"head", "last"}
    PROVE  /\ event[s] \in Events /\ event[s] \in Nodes \ Files /\ event[s] # NoNode
           /\ event[s] \notin freed /\ file[s] \in Files /\ last[s] \in Nodes
           /\ \A t \in Senders \ {s} : event[t] # event[s]
           /\ \A g \in Files : event[s] \notin Own(g)
<1>0. /\ TypeOK /\ SendersAt /\ EventsOnce
  BY DEF IInv
<1>1. event[s] \in Events /\ event[s] # NoNode /\ event[s] \in Nodes \ Files
  BY <1>0, EventsAssumption DEF SendersAt, Nodes
<1>2. \A g \in Files : event[s] \notin Sent(g)
  BY <1>0 DEF EventsOnce
<1> QED BY <1>0, <1>1, <1>2 DEF SendersAt, EventsOnce, Own

\* list_add_tail: the event and the head are linked.
LEMMA LinkHeadInv ==
    ASSUME IInv, NEW s \in Senders, LinkHead(s)
    PROVE  IInv'
<1>0. /\ TypeOK /\ SendersAt /\ EventsOnce /\ ReadersAt /\ ListsApart /\ BackAndForth
      /\ ReadOnce /\ Chained
  BY DEF IInv
<1>1. CASE filp[file[s]] = "closed"
  BY <1>1, FaultInv DEF LinkHead
<1>2. CASE filp[file[s]] # "closed"
  <2>0. PICK f \in Files, e \in Events, l \in Nodes : f = file[s] /\ e = event[s] /\ l = last[s]
    BY EventInHand DEF LinkHead
  <2>1. /\ pc[s] = "head" /\ filp[f] # "closed"
        /\ prev' = [prev EXCEPT ![f] = e, ![e] = l]
        /\ next' = [next EXCEPT ![e] = f]
        /\ pc' = [pc EXCEPT ![s] = "last"]
        /\ UNCHANGED <<lock, file, event, last, sent, raced, faulty>>
        /\ UNCHANGED <<filp, drm_filp, readerVars, freed, got>>
    BY <1>2, <2>0 DEF LinkHead
  <2>2. /\ e \notin Files /\ e # NoNode /\ e \notin freed
        /\ \A t \in Senders \ {s} : event[t] # e
        /\ \A g \in Files : e \notin Own(g) /\ e \notin InHand(g) /\ e \notin Around(g)
    <3>1. /\ e \notin Files /\ e # NoNode /\ e \notin freed
          /\ \A t \in Senders \ {s} : event[t] # e
          /\ \A g \in Files : e \notin Own(g)
      BY <2>0, <2>1, EventInHand
    <3>2. \A g \in Files : e \notin InHand(g)
      BY <2>0, <2>1, <3>1 DEF InHand
    <3> QED BY <3>1, <3>2 DEF Around
  <2>3. /\ pc'[s] = "last" /\ \A t \in Senders \ {s} : pc'[t] = pc[t]
        /\ next'[e] = f /\ \A n \in Nodes \ {e} : next'[n] = next[n]
        /\ prev'[f] = e /\ prev'[e] = l /\ \A n \in Nodes \ {e, f} : prev'[n] = prev[n]
    BY <1>0, <2>1, <2>2 DEF TypeOK, Nodes
  <2>4. \A g : /\ Sent(g)' = Sent(g) /\ Own(g)' = Own(g) /\ Appending(g)' = Appending(g)
               /\ \A i : Place(g, i)' = Place(g, i)
    BY <2>1, <2>3, SentSame, PlaceSame DEF Own, Appending
  <2>5. /\ InHand(f)' = InHand(f) \cup {e} /\ Around(f)' = Around(f) \cup {e}
        /\ \A g \in Files \ {f} : InHand(g)' = InHand(g) /\ Around(g)' = Around(g)
    <3>1. InHand(f)' = InHand(f) \cup {e}
      BY <2>0, <2>1, <2>3 DEF InHand
    <3>2. \A g \in Files \ {f} : InHand(g)' = InHand(g)
      BY <2>0, <2>1, <2>3 DEF InHand
    <3> QED BY <2>4, <3>1, <3>2 DEF Around
  <2>6. \A g \in Files : /\ Around(g) \subseteq Nodes /\ Own(g) \subseteq Around(g)
                         /\ Sent(g) \subseteq Own(g) /\ g \in Own(g)
    BY DEF Around, Own, Sent, InHand, Nodes
  <2>7. \A g \in Files \ {f} : f \notin Around(g)
    BY EventsAssumption DEF Around, Own, Sent, InHand
  <2>8. l \in Around(f)
    BY <1>0, <2>0, <2>1 DEF ListsApart, Apart
  <2>9. TypeOK'
    <3>1. next' \in [Nodes -> Nodes] /\ prev' \in [Nodes -> Nodes]
      BY <1>0, <2>1 DEF TypeOK, Nodes
    <3> QED BY <1>0, <2>1, <3>1 DEF TypeOK, readerVars, Nodes
  <2>10. SendersAt'
    <3>1. \A t \in Senders : /\ pc'[t] = "idle" <=> pc[t] = "idle"
                             /\ pc'[t] \in {"head", "last"} <=> pc[t] \in {"head", "last"}
      BY <2>1, <2>3
    <3> QED BY <1>0, <2>1, <3>1 DEF SendersAt, Nodes
  <2>11. EventsOnce' /\ ReadOnce'
    BY <1>0, <2>1, <2>4 DEF EventsOnce, ReadOnce, ReadOf
  <2>12. ReadersAt'
    <3> SUFFICES ASSUME NEW g \in Files PROVE ReaderAt(g)'
      BY DEF ReadersAt
    <3>1. ReaderAt(g)
      BY <1>0 DEF ReadersAt
    <3>2. \A n \in Sent(g) : prev'[n] = prev[n] /\ n # e
      BY <2>2, <2>3, <2>6, EventsAssumption DEF Sent
    <3>3. \A n \in Own(g) : n # g => n \in Sent(g)
      BY DEF Own
    <3> QED BY <2>1, <2>4, <3>1, <3>2, <3>3 DEF ReaderAt, readerVars
  <2>13. ListsApart'
    <3> SUFFICES ASSUME NEW g \in Files, filp[g] # "closed" PROVE Apart(g)'
      BY <2>1 DEF ListsApart
    <3>1. Apart(g)
      BY <1>0 DEF ListsApart
    <3>2. CASE g # f
      <4>1. \A n \in Around(g) : next'[n] = next[n] /\ prev'[n] = prev[n]
        BY <2>2, <2>3, <2>6, <2>7, <3>2
      <4>2. \A t \in Senders : file[t] = g => pc'[t] = pc[t]
        BY <2>0, <2>3, <3>2
      <4> QED BY <2>1, <2>4, <2>5, <3>1, <3>2, <4>1, <4>2 DEF Apart
    <3>3. CASE g = f
      <4>1. \A n \in Around(f) : next'[n] \in Own(f) /\ prev'[n] \in Around(f)'
        <5> TAKE n \in Around(f)
        <5>1. n \in Nodes \ {e} /\ next[n] \in Own(f) /\ prev[n] \in Around(f)
          BY <2>2, <2>6, <3>1, <3>3 DEF Apart
        <5> QED BY <2>3, <2>5, <5>1
      <4>2. next'[e] \in Own(f) /\ prev'[e] \in Around(f)'
        BY <2>3, <2>5, <2>6, <2>8
      <4>3. \A t \in Senders : pc'[t] \in {"head", "last"} /\ file[t] = f => last[t] \in Around(f)'
        BY <2>0, <2>1, <2>3, <2>5, <2>8, <3>1, <3>3 DEF Apart
      <4> QED BY <2>1, <2>4, <2>5, <3>3, <4>1, <4>2, <4>3 DEF Apart
    <3> QED BY <3>2, <3>3
  <2>14. BackAndForth'
    <3> SUFFICES ASSUME NEW g \in Files, filp[g] # "closed" PROVE Facing(g)'
      BY <2>1 DEF BackAndForth
    <3>1. Facing(g) /\ \A n \in Around(g) : next[n] \in Own(g) /\ n \in Nodes /\ next[n] \in Nodes
      BY <1>0, <2>6 DEF BackAndForth, ListsApart, Apart
    <3>2. \A n \in Own(g) : n # g => n # f /\ n # e
      BY <2>2, EventsAssumption DEF Own, Sent
    <3>3. \A n \in Around(g) \ freed :
             next'[n] # g => /\ next'[n] \notin freed
                             /\ (~ (n = first[g] /\ after[g] # NoNode) => prev'[next'[n]] = n)
      <4> TAKE n \in Around(g) \ freed
      <4>1. next'[n] = next[n] /\ n # e
        BY <2>2, <2>3, <3>1
      <4>2. next[n] # g => prev'[next[n]] = prev[next[n]]
        BY <2>3, <3>1, <3>2
      <4> QED BY <3>1, <4>1, <4>2 DEF Facing
    <3>4. \A t \in Senders : pc'[t] = "last" /\ file[t] = g => prev'[event[t]] = last[t]
      <4> TAKE t \in Senders
      <4>1. CASE t = s
        BY <2>0, <2>3, <4>1
      <4>2. CASE t # s
        <5>1. pc[t] = "last" => event[t] \in Nodes \ {e, f}
          BY <2>2, <4>2, EventInHand
        <5> QED BY <2>3, <3>1, <4>2, <5>1 DEF Facing
      <4> QED BY <4>1, <4>2
    <3>5. \A n \in Around(g)' : n # e => n \in Around(g)
      BY <2>5
    <3>6. e \in Around(g)' => next'[e] = g
      BY <2>2, <2>3, <2>5
    <3>7. UNCHANGED <<first, after, freed, file, last, event>>
      BY <2>1 DEF readerVars
    <3>8. \A n \in Around(g)' \ freed :
             next'[n] # g => /\ next'[n] \notin freed
                             /\ (~ (n = first[g] /\ after[g] # NoNode) => prev'[next'[n]] = n)
      BY <3>3, <3>5, <3>6
    <3> QED BY <3>4, <3>7, <3>8 DEF Facing
  <2>15. Chained'
    <3> SUFFICES ASSUME NEW g \in Files, g \notin raced, filp[g] # "closed" PROVE Chain(g)'
      BY <2>1 DEF Chained
    <3>1. Chain(g) /\ ReaderAt(g)
      BY <1>0 DEF Chained, ReadersAt
    <3>2. UNCHANGED <<first, before, after, sent, got, last, event>>
      BY <2>1 DEF readerVars
    <3>3. \A i : Place(g, i) \in Own(g) /\ Place(g, i) \in Nodes \ {e}
      <4>1. \A i : Place(g, i) \in Own(g)
        BY <1>0 DEF Place, Own, Sent, TypeOK
      <4> QED BY <2>2, <2>6, <4>1
    <3>4. CASE g # f
      <4>1. \A n \in Own(g) : next'[n] = next[n] /\ prev'[n] = prev[n]
        BY <2>2, <2>3, <2>6, <2>7, <3>4
      <4>2. \A t \in Appending(g) : /\ pc'[t] = pc[t] /\ event[t] \in Nodes \ {e, f}
                                    /\ next'[event[t]] = next[event[t]]
        <5> TAKE t \in Appending(g)
        <5>1. t \in Senders \ {s} /\ pc[t] \in {"head", "last"}
          BY <2>0, <3>4 DEF Appending
        <5>2. event[t] \in Nodes \ {e, f}
          BY <2>2, <5>1, EventInHand
        <5> QED BY <2>3, <5>1, <5>2
      <4>3. g \in Own(g) /\ (after[g] # NoNode => after[g] \in Own(g))
        BY <2>6, <3>1 DEF ReaderAt
      <4> QED BY <2>4, <2>5, <3>1, <3>2, <3>3, <3>4, <4>1, <4>2, <4>3 DEF Chain
    <3>5. CASE g = f
      <4>1. s \in Appending(g)
        BY <2>0, <2>1, <3>5 DEF Appending
      <4>2. Appending(g) = {s} /\ first[g] = NoNode /\ after[g] = NoNode
        BY <3>1, <4>1 DEF Chain, ReaderAt
      <4>3. InHand(g)' # {} /\ Appending(g)' = Appending(g)
        BY <2>4, <2>5, <3>5
      <4>4. \A i : next'[Place(g, i)] = next[Place(g, i)]
        BY <2>3, <3>3
      <4>5. \A i \in Len(got[g]) + 1 .. Len(sent[g]) : prev'[Place(g, i)] = prev[Place(g, i)]
        <5> TAKE i \in Len(got[g]) + 1 .. Len(sent[g])
        <5>1. Place(g, i) \in Events
          BY <1>0 DEF Place, TypeOK
        <5> QED BY <2>3, <3>3, <5>1, EventsAssumption
      <4>6. event[s] = e /\ next'[e] = g /\ prev'[g] = e
        BY <2>0, <2>3, <3>5
      <4> QED BY <2>4, <3>1, <3>2, <4>2, <4>3, <4>4, <4>5, <4>6 DEF Chain
    <3> QED BY <3>4, <3>5
  <2> QED BY <2>9, <2>10, <2>11, <2>12, <2>13, <2>14, <2>15 DEF IInv
<1> QED BY <1>1, <1>2

\* list_add_tail: the last event is linked to the new one, which is sent.
LEMMA LinkLastInv ==
    ASSUME IInv, NEW s \in Senders, LinkLast(s)
    PROVE  IInv'
<1>0. /\ TypeOK /\ SendersAt /\ EventsOnce /\ ReadersAt /\ ListsApart /\ BackAndForth
      /\ ReadOnce /\ Chained
  BY DEF IInv
<1>1. CASE filp[file[s]] = "closed"
  BY <1>1, FaultInv DEF LinkLast
<1>2. CASE filp[file[s]] # "closed"
  <2>0. PICK f \in Files, e \in Events, l \in Nodes : f = file[s] /\ e = event[s] /\ l = last[s]
    BY EventInHand DEF LinkLast
  <2>1. /\ pc[s] = "last" /\ filp[f] # "closed"
        /\ next' = Write(next, l, e)
        /\ sent' = [sent EXCEPT ![f] = Append(sent[f], e)]
        /\ pc' = [pc EXCEPT ![s] = "idle"] /\ file' = [file EXCEPT ![s] = NoFile]
        /\ event' = [event EXCEPT ![s] = NoNode] /\ last' = [last EXCEPT ![s] = NoNode]
        /\ lock' = IF lock = s THEN NoSender ELSE lock
        /\ UNCHANGED <<prev, raced, faulty>>
        /\ UNCHANGED <<filp, drm_filp, readerVars, freed, got>>
    BY <1>2, <2>0 DEF LinkLast, Stop
  <2>2. /\ e \notin Files /\ e # NoNode /\ e \notin freed
        /\ \A t \in Senders \ {s} : event[t] # e
        /\ \A g \in Files : e \notin Own(g)
        /\ e \in InHand(f) /\ \A g \in Files \ {f} : e \notin InHand(g)
    <3>1. /\ e \notin Files /\ e # NoNode /\ e \notin freed
          /\ \A t \in Senders \ {s} : event[t] # e
          /\ \A g \in Files : e \notin Own(g)
      BY <2>0, <2>1, EventInHand
    <3>2. e \in InHand(f) /\ \A g \in Files \ {f} : e \notin InHand(g)
      BY <2>0, <2>1, <3>1 DEF InHand
    <3> QED BY <3>1, <3>2
  <2>3. /\ pc'[s] = "idle" /\ file'[s] = NoFile /\ event'[s] = NoNode /\ last'[s] = NoNode
        /\ \A t \in Senders \ {s} : /\ pc'[t] = pc[t] /\ file'[t] = file[t]
                                    /\ event'[t] = event[t] /\ last'[t] = last[t]
        /\ next'[l] = IF l \in freed THEN next[l] ELSE e
        /\ \A n \in Nodes \ {l} : next'[n] = next[n]
    BY <1>0, <2>1 DEF TypeOK, Write
  <2>4. /\ sent'[f] = Append(sent[f], e) /\ sent'[f] \in Seq(Events)
        /\ Len(sent[f]) \in Nat /\ Len(sent'[f]) = Len(sent[f]) + 1
        /\ sent'[f][Len(sent[f]) + 1] = e
        /\ \A i \in DOMAIN sent[f] : sent'[f][i] = sent[f][i] /\ i \in DOMAIN sent'[f]
        /\ DOMAIN sent'[f] = DOMAIN sent[f] \cup {Len(sent[f]) + 1}
        /\ \A g \in Files \ {f} : sent'[g] = sent[g]
    BY <1>0, <2>1 DEF TypeOK
  <2>5. /\ Sent(f)' = Sent(f) \cup {e} /\ Own(f)' = Own(f) \cup {e}
        /\ \A g \in Files \ {f} : Sent(g)' = Sent(g) /\ Own(g)' = Own(g)
    <3>1. Sent(f)' = Sent(f) \cup {e}
      BY <2>4 DEF Sent
    <3>2. \A g \in Files \ {f} : Sent(g)' = Sent(g)
      BY <2>4 DEF Sent
    <3> QED BY <3>1, <3>2 DEF Own
  <2>6. /\ InHand(f)' = InHand(f) \ {e} /\ Around(f)' = Around(f)
        /\ \A g \in Files \ {f} : InHand(g)' = InHand(g) /\ Around(g)' = Around(g)
    <3>1. InHand(f)' = InHand(f) \ {e}
      BY <2>0, <2>2, <2>3 DEF InHand
    <3>2. \A g \in Files \ {f} : InHand(g)' = InHand(g)
      BY <2>0, <2>3 DEF InHand
    <3> QED BY <2>2, <2>5, <3>1, <3>2 DEF Around
  <2>7. \A g \in Files : /\ Around(g) \subseteq Nodes /\ Own(g) \subseteq Around(g)
                         /\ Sent(g) \subseteq Own(g) /\ g \in Own(g)
    BY DEF Around, Own, Sent, InHand, Nodes
  <2>8. l \in Around(f) /\ \A g \in Files \ {f} : l \notin Around(g)
    <3>1. l \in Around(f)
      BY <1>0, <2>0, <2>1 DEF ListsApart, Apart
    <3>2. \A g \in Files \ {f} : Sent(f) \cap Sent(g) = {} /\ Sent(f) \cap InHand(g) = {}
      BY <1>0 DEF EventsOnce, InHand
    <3>3. \A g \in Files \ {f} : InHand(f) \cap Sent(g) = {} /\ InHand(f) \cap InHand(g) = {}
      BY <1>0, EventsAssumption DEF EventsOnce, InHand
    <3>4. \A g \in Files : Sent(g) \subseteq Events /\ InHand(g) \subseteq Events
      BY DEF Sent, InHand
    <3> QED BY <3>1, <3>2, <3>3, <3>4, EventsAssumption DEF Around, Own
  <2>9. TypeOK'
    <3>1. next' \in [Nodes -> Nodes] /\ sent' \in [Files -> Seq(Events)]
      BY <1>0, <2>1, <2>4 DEF TypeOK, Write, Nodes
    <3> QED BY <1>0, <2>1, <3>1 DEF TypeOK, readerVars, Nodes
  <2>10. SendersAt'
    <3>1. \A t \in Senders \ {s} : lock' = t <=> lock = t
      BY <2>1, SendersAssumption
    <3>2. lock' # s
      BY <2>1, SendersAssumption
    <3> QED BY <1>0, <2>1, <2>3, <3>1, <3>2 DEF SendersAt, Nodes
  <2>11. EventsOnce'
    <3>1. NoNode \notin faulty /\ \A g \in Files : NoNode \notin Sent(g)'
      BY <1>0, <2>2, <2>5, EventsAssumption DEF TypeOK, Sent
    <3>2. \A t \in Senders : event'[t] \notin faulty'
      BY <1>0, <2>1, <2>3, <3>1 DEF EventsOnce
    <3>3. \A t, u \in Senders : t # u => event'[t] # event'[u] \/ event'[t] = NoNode
      BY <1>0, <2>3 DEF EventsOnce
    <3>4. \A g \in Files : /\ \A t \in Senders : event'[t] \notin Sent(g)'
                           /\ Sent(g)' \cap faulty' = {}
      <4> TAKE g \in Files
      <4>1. e \notin faulty
        BY <1>0, <2>0 DEF EventsOnce
      <4>2. Sent(g)' \subseteq Sent(g) \cup {e}
        BY <2>5
      <4> QED BY <1>0, <2>1, <2>2, <2>3, <3>1, <4>1, <4>2 DEF EventsOnce
    <3>5. \A g, h \in Files : g # h => Sent(g)' \cap Sent(h)' = {}
      BY <1>0, <2>2, <2>5, <2>7 DEF EventsOnce
    <3>6. \A g \in Files : \A i, j \in DOMAIN sent'[g] : sent'[g][i] = sent'[g][j] => i = j
      <4>1. \A i \in DOMAIN sent[f] : sent[f][i] \in Sent(f)
        BY <1>0 DEF Sent, TypeOK
      <4>2. \A i \in DOMAIN sent[f] : sent[f][i] # e
        BY <2>2, <2>7, <4>1
      <4>3. \A i, j \in DOMAIN sent'[f] : sent'[f][i] = sent'[f][j] => i = j
        <5>1. \A i, j \in DOMAIN sent[f] : sent[f][i] = sent[f][j] => i = j
          BY <1>0 DEF EventsOnce
        <5> QED BY <2>4, <4>2, <5>1
      <4>4. \A g \in Files \ {f} : \A i, j \in DOMAIN sent'[g] : sent'[g][i] = sent'[g][j] => i = j
        BY <1>0, <2>4 DEF EventsOnce
      <4> QED BY <4>3, <4>4
    <3>7. \A d \in freed : \E g \in Files : d \in Sent(g)'
      BY <1>0, <2>5 DEF EventsOnce
    <3> QED BY <2>1, <3>2, <3>3, <3>4, <3>5, <3>6, <3>7 DEF EventsOnce
  <2>12. ReadersAt'
    <3>1. \A g \in Files : Sent(g) \subseteq Sent(g)' /\ Own(g) \subseteq Own(g)'
      BY <2>5
    <3> QED BY <1>0, <2>1, <3>1 DEF ReadersAt, ReaderAt, readerVars
  <2>13. ReadOnce'
    <3>1. \A g \in Files : Sent(g)' \cap freed = Sent(g) \cap freed
      BY <2>2, <2>5
    <3> QED BY <1>0, <2>1, <3>1 DEF ReadOnce, ReadOf
  <2>14. ListsApart'
    <3> SUFFICES ASSUME NEW g \in Files, filp[g] # "closed" PROVE Apart(g)'
      BY <2>1 DEF ListsApart
    <3>1. Apart(g)
      BY <1>0 DEF ListsApart
    <3>2. \A n \in Around(g) : next'[n] \in Own(g)'
      <4> TAKE n \in Around(g)
      <4>1. next[n] \in Own(g)' /\ n \in Nodes
        BY <2>5, <2>7, <3>1 DEF Apart
      <4>2. n = l => g = f
        BY <2>8
      <4> QED BY <2>3, <2>5, <4>1, <4>2
    <3>3. Around(g)' = Around(g)
      BY <2>6
    <3>4. \A t \in Senders : pc'[t] \in {"head", "last"} => t # s
      BY <2>3
    <3> QED BY <2>1, <2>3, <3>1, <3>2, <3>3, <3>4 DEF Apart
  <2>15. BackAndForth'
    <3> SUFFICES ASSUME NEW g \in Files, filp[g] # "closed" PROVE Facing(g)'
      BY <2>1 DEF BackAndForth
    <3>1. Facing(g)
      BY <1>0 DEF BackAndForth
    <3>2. prev[e] = l
      BY <1>0, <2>0, <2>1 DEF BackAndForth, Facing
    <3>3. \A n \in Around(g) \ freed :
             next'[n] # g => /\ next'[n] \notin freed
                             /\ (~ (n = first[g] /\ after[g] # NoNode) => prev[next'[n]] = n)
      <4> TAKE n \in Around(g) \ freed
      <4>1. CASE n = l
        BY <2>2, <2>3, <3>2, <4>1
      <4>2. CASE n # l
        BY <2>3, <2>7, <3>1, <4>2 DEF Facing
      <4> QED BY <4>1, <4>2
    <3>4. Around(g)' = Around(g)
      BY <2>6
    <3>5. \A t \in Senders : pc'[t] = "last" => t # s
      BY <2>3
    <3>6. UNCHANGED <<prev, first, after, freed>>
      BY <2>1 DEF readerVars
    <3>7. \A t \in Senders : pc'[t] = "last" /\ file'[t] = g => prev[event'[t]] = last'[t]
      BY <2>3, <3>1, <3>5 DEF Facing
    <3> QED BY <3>3, <3>4, <3>6, <3>7 DEF Facing
  <2>16. Chained'
    <3> SUFFICES ASSUME NEW g \in Files, g \notin raced, filp[g] # "closed" PROVE Chain(g)'
      BY <2>1 DEF Chained
    <3>1. Chain(g) /\ ReaderAt(g)
      BY <1>0 DEF Chained, ReadersAt
    <3>2. UNCHANGED <<prev, first, before, after, got>>
      BY <2>1 DEF readerVars
    <3>3. Appending(g)' = Appending(g) \ {s}
      BY <2>3 DEF Appending
    <3>4. CASE g # f
      <4>1. /\ \A i : Place(g, i)' = Place(g, i) /\ Place(g, i) \in Own(g)
            /\ sent'[g] = sent[g]
        BY <1>0, <2>1, <2>4, <3>4 DEF Place, Own, Sent, TypeOK
      <4>2. \A n \in Around(g) : next'[n] = next[n]
        BY <2>3, <2>7, <2>8, <3>4
      <4>3. \A t \in Appending(g)' : /\ pc'[t] = pc[t] /\ last'[t] = last[t]
                                     /\ event'[t] = event[t] /\ t \in Appending(g)
                                     /\ (pc[t] = "last" => event[t] \in Around(g))
        <5> TAKE t \in Appending(g)'
        <5>1. t \in Senders \ {s} /\ t \in Appending(g)
          BY <3>3 DEF Appending
        <5>2. pc[t] = "last" => event[t] \in InHand(g)
          BY <5>1, EventInHand DEF InHand, Appending
        <5> QED BY <2>3, <5>1, <5>2 DEF Around
      <4>4. InHand(g)' = InHand(g)
        BY <2>6, <3>4
      <4> QED BY <2>7, <3>1, <3>2, <4>1, <4>2, <4>3, <4>4 DEF Chain
    <3>5. CASE g = f
      <4>0. PICK n \in Nat, m \in Nat : n = Len(got[f]) /\ m = Len(sent[f])
        BY <1>0 DEF TypeOK
      <4>1. s \in Appending(g)
        BY <2>0, <2>1, <3>5 DEF Appending
      <4>2. /\ Appending(g)' = {} /\ first[g] = NoNode /\ after[g] = NoNode
            /\ l = Place(f, m) /\ next[e] = f /\ prev[f] = e /\ n <= m
        BY <2>0, <2>1, <3>1, <3>3, <3>5, <4>0, <4>1 DEF Chain, ReaderAt
      <4>3. prev[e] = l
        BY <1>0, <2>0, <2>1 DEF BackAndForth, Facing
      <4>4. Len(got'[f]) = n /\ Len(sent'[f]) = m + 1
        BY <2>4, <3>2, <4>0
      <4>5. \A i \in 1 .. m : sent'[f][i] = sent[f][i] /\ sent[f][i] \in Sent(f)
        <5>1. DOMAIN sent[f] = 1 .. m
          BY <1>0, <4>0 DEF TypeOK
        <5>2. \A i \in DOMAIN sent[f] : sent[f][i] \in Sent(f)
          BY <1>0 DEF Sent, TypeOK
        <5> QED BY <2>4, <5>1, <5>2
      <4>6. \A i : /\ Place(f, i) = IF i \in n + 1 .. m THEN sent[f][i] ELSE f
                   /\ Place(f, i)' = IF i \in n + 1 .. m + 1 THEN sent'[f][i] ELSE f
        BY <4>0, <4>4 DEF Place
      <4>7. /\ \A i \in n .. m : Place(f, i)' = Place(f, i)
            /\ Place(f, m + 1)' = e /\ Place(f, m + 2)' = f
        <5>1. sent'[f][m + 1] = e
          BY <2>4, <4>0
        <5> QED BY <4>2, <4>5, <4>6, <5>1
      <4>8. \A i \in n .. m - 1 : Place(f, i) # l /\ Place(f, i) \in Nodes
        <5> TAKE i \in n .. m - 1
        <5>0. m \in n + 1 .. m /\ DOMAIN sent[f] = 1 .. m
          BY <1>0, <4>0 DEF TypeOK
        <5>1. l = sent[f][m] /\ m \in DOMAIN sent[f] /\ l \in Events
          <6>1. m \in 1 .. m
            BY <5>0
          <6>2. Place(f, m) = sent[f][m]
            BY <4>6, <5>0
          <6>3. sent[f] \in Seq(Events)
            BY <1>0 DEF TypeOK
          <6>4. sent[f][m] \in Events
            BY <5>0, <6>1, <6>3, ElementOfSeq
          <6> QED BY <4>2, <5>0, <6>1, <6>2, <6>4
        <5>2. Place(f, i) = f \/ (i \in DOMAIN sent[f] /\ i # m /\ Place(f, i) = sent[f][i])
          BY <4>0, <4>6
        <5> QED BY <1>0, <2>7, <5>1, <5>2, EventsAssumption DEF EventsOnce, TypeOK, Nodes
      <4>9. l \notin freed
        <5>1. CASE m = n
          <6>1. l = f
            BY <4>2, <4>6, <5>1
          <6> QED BY <1>0, <6>1, EventsAssumption DEF TypeOK
        <5>2. CASE m # n
          <6>1. l = sent[f][m] /\ m \in DOMAIN sent[f] /\ l \in Sent(f)
            BY <4>0, <4>2, <4>5, <4>6, <5>2
          <6> SUFFICES ASSUME l \in freed PROVE FALSE
            OBVIOUS
          <6>2. PICK i \in DOMAIN got[f] : got[f][i] = l
            BY <1>0, <2>1, <6>1 DEF ReadOnce, ReadOf
          <6>3. i \in 1 .. n /\ sent[f][i] = l
            BY <1>0, <3>1, <3>5, <4>0, <6>2 DEF Chain, TypeOK
          <6>4. i \in DOMAIN sent[f] /\ i # m
            BY <4>0, <4>2, <5>2, <6>3
          <6> QED BY <1>0, <6>1, <6>3, <6>4 DEF EventsOnce
        <5> QED BY <5>1, <5>2
      <4>10. \A i \in n .. m + 1 : next'[Place(f, i)'] = Place(f, i + 1)'
        <5> TAKE i \in n .. m + 1
        <5>1. CASE i \in n .. m - 1
          <6>1. next[Place(f, i)] = Place(f, i + 1)
            BY <3>1, <3>5, <4>0, <5>1 DEF Chain
          <6>2. i + 1 \in n .. m /\ i \in n .. m
            BY <5>1
          <6> QED BY <2>3, <4>7, <4>8, <5>1, <6>1, <6>2
        <5>2. CASE i = m
          BY <2>3, <4>2, <4>7, <4>9, <5>2
        <5>3. CASE i = m + 1
          <6>1. e # l /\ e \in Nodes
            BY <2>2, <4>2, <4>5, <4>6, <2>7, EventsAssumption DEF Nodes
          <6>2. i + 1 = m + 2
            BY <5>3
          <6> QED BY <2>3, <4>2, <4>7, <5>3, <6>1, <6>2
        <5> QED BY <5>1, <5>2, <5>3
      <4>11. \A i \in n + 1 .. m + 1 : prev[Place(f, i)'] = Place(f, i - 1)'
        <5> TAKE i \in n + 1 .. m + 1
        <5>1. CASE i \in n + 1 .. m
          <6>1. prev[Place(f, i)] = Place(f, i - 1)
            BY <3>1, <3>5, <4>0, <4>2, <5>1 DEF Chain
          <6>2. i - 1 \in n .. m /\ i \in n .. m
            BY <5>1
          <6> QED BY <4>7, <6>1, <6>2
        <5>2. CASE i = m + 1
          <6>1. i - 1 = m /\ m \in n .. m
            BY <4>2, <5>2
          <6> QED BY <4>2, <4>3, <4>7, <5>2, <6>1
        <5> QED BY <5>1, <5>2
      <4>12. \A i \in DOMAIN got[f] : got[f][i] = sent'[f][i]
        <5> TAKE i \in DOMAIN got[f]
        <5>1. i \in 1 .. m
          BY <1>0, <4>0, <4>2 DEF TypeOK
        <5> QED BY <3>1, <3>5, <4>5, <5>1 DEF Chain
      <4>13. n <= m + 1 /\ prev[f] = Place(f, m + 1)'
        BY <4>2, <4>7
      <4> QED BY <3>2, <3>5, <4>0, <4>2, <4>4, <4>10, <4>11, <4>12, <4>13 DEF Chain
    <3> QED BY <3>4, <3>5
  <2> QED BY <2>9, <2>10, <2>11, <2>12, <2>13, <2>14, <2>15, <2>16 DEF IInv
<1> QED BY <1>1, <1>2

-----------------------------------------------------------------------------
(* Every step.                                                             *)

LEMMA NextInv == IInv /\ [Next]_vars => IInv'
<1> SUFFICES ASSUME IInv, [Next]_vars PROVE IInv'
  OBVIOUS
<1>1. ASSUME NEW f \in Files, Open(f) PROVE IInv'
  BY <1>1, ConnectionInv DEF Open, IInv, TypeOK, SendersAt
<1>2. ASSUME NEW f \in Files, Connect(f) PROVE IInv'
  BY <1>2, ConnectionInv DEF Connect, IInv, TypeOK
<1>3. ASSUME NEW f \in Files, Disconnect(f) PROVE IInv'
  BY <1>3, ConnectionInv, EventFilesAssumption DEF Disconnect, IInv, TypeOK
<1>4. ASSUME NEW f \in Files, Close(f) PROVE IInv'
  BY <1>4, CloseInv
<1>5. ASSUME NEW f \in Files, ReaderStep(f) PROVE IInv'
  BY <1>5, ReadFirstInv, UnlinkBackInv, UnlinkForthInv DEF ReaderStep
<1>6. ASSUME NEW s \in Senders, SenderStep(s) PROVE IInv'
  BY <1>6, TakeListInv, LinkHeadInv, LinkLastInv DEF SenderStep
<1>7. ASSUME NEW s \in Senders, NEW e \in Events, Prepare(s, e) PROVE IInv'
  BY <1>7, PrepareInv
<1>8. CASE UNCHANGED vars
  BY <1>8, ConnectionInv DEF vars, IInv, TypeOK, SendersAt
<1> QED BY <1>1, <1>2, <1>3, <1>4, <1>5, <1>6, <1>7, <1>8 DEF Next

LEMMA Invariance == Spec => []IInv
BY InitInv, NextInv, PTL DEF Spec

-----------------------------------------------------------------------------
(* The theorems.                                                           *)

\* The pointers of the lists, the senders and the readers keep their types: no thread
\* of evdi_painter.c or drm_read follows a pointer that was never set.
THEOREM Typing == Spec => []TypeOK
<1>1. IInv => TypeOK
  BY DEF IInv
<1> QED BY <1>1, Invariance, PTL

\* evdi_painter_send_update_ready_if_needed always finds its client: the painter's lock,
\* which evdi_painter_connect, _disconnect and _close take, keeps the client in place
\* from the test of drm_filp to the link into its list.
THEOREM ReadyMeetsClient == Spec => []UpdateReadyMeetsClient
<1>1. Init => UpdateReadyMeetsClient
  BY DEF Init, UpdateReadyMeetsClient
<1>2. IInv /\ UpdateReadyMeetsClient /\ [Next]_vars => UpdateReadyMeetsClient'
  <2> SUFFICES ASSUME IInv, UpdateReadyMeetsClient, [Next]_vars PROVE UpdateReadyMeetsClient'
    OBVIOUS
  <2>1. ASSUME NEW s \in Senders, Fault(s), pc[s] # "idle",
               drm_filp = NoFile \/ (pc[s] \in {"head", "last"} /\ filp[file[s]] = "closed")
        PROVE  UpdateReadyMeetsClient'
    <3>1. event[s] \notin UpdateReadies
      <4> SUFFICES ASSUME event[s] \in UpdateReadies PROVE FALSE
        OBVIOUS
      <4>1. lock = s
        BY <2>1 DEF IInv, SendersAt
      <4>2. drm_filp \in Files /\ filp[drm_filp] = "open"
            /\ (pc[s] \in {"head", "last"} => file[s] = drm_filp)
        BY <4>1 DEF IInv, SendersAt
      <4> QED BY <2>1, <4>2, EventFilesAssumption
    <3> QED BY <2>1, <3>1 DEF Fault, UpdateReadyMeetsClient
  <2>2. ASSUME faulty' = faulty PROVE UpdateReadyMeetsClient'
    BY <2>2 DEF UpdateReadyMeetsClient
  <2>3. ASSUME NEW s \in Senders, SenderStep(s) PROVE UpdateReadyMeetsClient'
    BY <2>1, <2>2, <2>3 DEF SenderStep, TakeList, LinkHead, LinkLast
  <2>4. ASSUME NEW f \in Files,
               Open(f) \/ Connect(f) \/ Disconnect(f) \/ Close(f) \/ ReaderStep(f)
        PROVE  UpdateReadyMeetsClient'
    BY <2>2, <2>4 DEF Open, Connect, Disconnect, Close, ReaderStep, ReadFirst, UnlinkBack,
                      UnlinkForth, history
  <2>5. ASSUME NEW s \in Senders, NEW e \in Events, Prepare(s, e) PROVE UpdateReadyMeetsClient'
    BY <2>2, <2>5 DEF Prepare, history
  <2>6. CASE UNCHANGED vars
    BY <2>2, <2>6 DEF vars, history
  <2> QED BY <2>3, <2>4, <2>5, <2>6 DEF Next
<1> QED BY <1>1, <1>2, Invariance, PTL DEF Spec

\* The list of a file that nobody is changing, and no two threads changed at once,
\* holds what was sent and not yet read, in order.
LEMMA ListIsRest ==
    ASSUME IInv, NEW f \in Files \ raced, Quiet(f), filp[f] = "open"
    PROVE  sent[f] = got[f] \o Listed(f)
<1>0. /\ TypeOK /\ EventsOnce /\ Chain(f) /\ ReaderAt(f)
  BY DEF IInv, Chained, ReadersAt
<1>1. PICK n \in Nat, m \in Nat : n = Len(got[f]) /\ m = Len(sent[f])
  BY <1>0 DEF TypeOK
<1>2. /\ n <= m /\ sent[f] \in Seq(Events) /\ got[f] \in Seq(Events)
      /\ DOMAIN sent[f] = 1 .. m /\ DOMAIN got[f] = 1 .. n
      /\ \A i \in 1 .. n : got[f][i] = sent[f][i]
  <2>1. sent[f] \in Seq(Events) /\ got[f] \in Seq(Events)
    BY <1>0 DEF TypeOK
  <2>2. DOMAIN sent[f] = 1 .. m /\ DOMAIN got[f] = 1 .. n
    BY <1>1, <2>1
  <2> QED BY <1>0, <1>1, <2>1, <2>2 DEF Chain
<1>3. /\ \A i \in n .. m : next[Place(f, i)] = Place(f, i + 1)
      /\ \A i : Place(f, i) = IF i \in n + 1 .. m THEN sent[f][i] ELSE f
  BY <1>0, <1>1 DEF Chain, Place
<1>4. \A i \in 1 .. m : sent[f][i] \in Events /\ sent[f][i] # f /\ sent[f][i] \in Nodes
  BY <1>2, EventsAssumption DEF Nodes
<1> DEFINE N == Cardinality(Nodes)
<1>5. N \in Nat /\ IsFiniteSet(Nodes)
  BY NodesFinite
\* The list has no more places than there are nodes.
<1>6. m - n + 1 <= N
  <2> DEFINE place == [i \in n .. m |-> Place(f, i)]
  <2>1. place \in Injection(n .. m, Nodes)
    <3>1. \A i \in n .. m : Place(f, i) \in Nodes
      BY <1>3, <1>4 DEF Nodes
    <3>2. \A i, j \in n .. m : Place(f, i) = Place(f, j) => i = j
      <4> TAKE i, j \in n .. m
      <4>1. CASE i \in n + 1 .. m /\ j \in n + 1 .. m
        <5>1. Place(f, i) = sent[f][i] /\ Place(f, j) = sent[f][j]
          BY <1>3, <4>1
        <5>2. i \in DOMAIN sent[f] /\ j \in DOMAIN sent[f]
          BY <1>2, <4>1
        <5> QED BY <1>0, <5>1, <5>2 DEF EventsOnce
      <4>2. CASE i = n \/ j = n
        <5>1. Place(f, n) = f
          BY <1>3
        <5>2. \A k \in n + 1 .. m : Place(f, k) # f
          BY <1>3, <1>4
        <5> QED BY <4>2, <5>1, <5>2
      <4> QED BY <4>1, <4>2
    <3> QED BY <3>1, <3>2 DEF Injection, IsInjective
  <2>2. Cardinality(n .. m) <= N
    BY <1>5, <2>1, FS_Injection
  <2>3. Cardinality(n .. m) = m - n + 1
    BY <1>2, FS_Interval
  <2> QED BY <2>2, <2>3
<1>7. PICK step : \E length \in 0 .. N :
              /\ step[0] = f
              /\ \A i \in 1 .. N : step[i] = next[step[i - 1]]
              /\ \A i \in 1 .. length : step[i] # f
              /\ length < N => step[length + 1] = f
              /\ Listed(f) = [i \in 1 .. length |-> step[i]]
  BY ListedWalk
<1> HIDE DEF N
<1>8. PICK length \in 0 .. N :
              /\ step[0] = f
              /\ \A i \in 1 .. N : step[i] = next[step[i - 1]]
              /\ \A i \in 1 .. length : step[i] # f
              /\ length < N => step[length + 1] = f
              /\ Listed(f) = [i \in 1 .. length |-> step[i]]
  BY <1>7
<1>9. \A i \in 0 .. m - n + 1 : step[i] = Place(f, n + i)
  <2> DEFINE Off == {i \in 0 .. m - n + 1 : step[i] # Place(f, n + i)}
  <2> SUFFICES ASSUME Off # {} PROVE FALSE
    OBVIOUS
  <2>1. PICK k \in Off : \A i \in Off : k <= i
    <3>1. Off \in SUBSET Nat
      BY <1>2
    <3> HIDE DEF Off
    <3> QED BY <3>1, LeastNat
  <2>2. k # 0 /\ k \in 1 .. m - n + 1 /\ k \in 1 .. N
    <3>1. step[0] = Place(f, n)
      BY <1>3, <1>8
    <3> QED BY <1>2, <1>5, <1>6, <2>1, <3>1
  <2>3. step[k - 1] = Place(f, n + (k - 1))
    BY <1>2, <2>1, <2>2
  <2>4. next[Place(f, n + (k - 1))] = Place(f, n + k)
    <3>1. n + (k - 1) \in n .. m /\ n + (k - 1) + 1 = n + k
      BY <1>2, <2>2
    <3> QED BY <1>3, <3>1
  <2> QED BY <1>8, <2>1, <2>2, <2>3, <2>4
<1>10. \A i \in 1 .. m - n : step[i] = sent[f][n + i] /\ step[i] # f
  <2> TAKE i \in 1 .. m - n
  <2>1. n + i \in n + 1 .. m /\ n + i \in 1 .. m /\ i \in 0 .. m - n + 1
    BY <1>2
  <2> QED BY <1>3, <1>4, <1>9, <2>1
<1>11. length = m - n
  <2>1. step[m - n + 1] = f
    <3>1. n + (m - n + 1) = m + 1 /\ m - n + 1 \in 0 .. m - n + 1
      BY <1>2
    <3> QED BY <1>3, <1>9, <3>1
  <2>2. ~ (length >= m - n + 1)
    BY <1>2, <1>8, <2>1
  <2>3. length < N
    BY <1>2, <1>5, <1>6, <2>2
  <2>4. step[length + 1] = f
    BY <1>8, <2>3
  <2>5. length + 1 \notin 1 .. m - n
    BY <1>10, <2>4
  <2> QED BY <1>2, <2>2, <2>5
<1>12. Listed(f) = [i \in 1 .. m - n |-> sent[f][n + i]]
  BY <1>8, <1>10, <1>11
<1>13. /\ Listed(f) \in Seq(Events) /\ Len(Listed(f)) = m - n
       /\ \A i \in 1 .. m - n : Listed(f)[i] = sent[f][n + i]
  <2>1. \A i \in 1 .. m - n : sent[f][n + i] \in Events
    BY <1>2, <1>4
  <2> QED BY <1>2, <1>12, <2>1
<1>14. /\ got[f] \o Listed(f) \in Seq(Events) /\ Len(got[f] \o Listed(f)) = m
       /\ \A i \in 1 .. m : (got[f] \o Listed(f))[i] = sent[f][i]
  <2>1. /\ got[f] \o Listed(f) \in Seq(Events) /\ Len(got[f] \o Listed(f)) = n + (m - n)
        /\ \A i \in 1 .. n + (m - n) : (got[f] \o Listed(f))[i] =
              IF i <= n THEN got[f][i] ELSE Listed(f)[i - n]
    BY <1>1, <1>2, <1>13, ConcatProperties
  <2>2. n + (m - n) = m
    BY <1>2
  <2>3. \A i \in 1 .. m : i > n => Listed(f)[i - n] = sent[f][i]
    <3> TAKE i \in 1 .. m
    <3> HAVE i > n
    <3>1. i - n \in 1 .. m - n /\ n + (i - n) = i
      BY <1>2
    <3> QED BY <1>13, <3>1
  <2> QED BY <1>2, <2>1, <2>2, <2>3
<1> QED BY <1>1, <1>2, <1>14, SeqEqual

\* What evdi_painter_send_event appends with list_add_tail and drm_read takes off is a
\* queue per client, as long as no two threads changed its list at once; and no event is
\* ever read twice or by two clients, even then.
THEOREM QueueOrder == Spec => []ListIsQueue
<1>1. IInv => ListIsQueue
  <2> SUFFICES ASSUME IInv PROVE ListIsQueue
    OBVIOUS
  <2>1. \A f \in Files \ raced : Quiet(f) /\ filp[f] = "open" => sent[f] = got[f] \o Listed(f)
    BY ListIsRest
  <2>2. ASSUME NEW f \in Files, NEW g \in Files, NEW i \in DOMAIN got[f], NEW j \in DOMAIN got[g],
               got[f][i] = got[g][j]
        PROVE  f = g /\ i = j
    <3>1. got[f][i] \in Sent(f) /\ got[g][j] \in Sent(g)
      BY DEF IInv, ReadOnce, ReadOf
    <3>2. f = g
      BY <2>2, <3>1 DEF IInv, EventsOnce
    <3> QED BY <2>2, <3>2 DEF IInv, ReadOnce, ReadOf
  <2> QED BY <2>1, <2>2 DEF ListIsQueue
<1> QED BY <1>1, Invariance, PTL

=============================================================================
