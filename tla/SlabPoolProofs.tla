--------------------------- MODULE SlabPoolProofs ---------------------------
(***************************************************************************)
(* The proofs about SlabPool: for any pages, classes, capacities, scan     *)
(* budget and batch size, a page is in one place, the lists of a class     *)
(* hold what they should, and no page with a free slot is out of reach.    *)
(*                                                                         *)
(* The three invariants hold each other up.  A page that v8m_slab_pool_free*)
(* links into the partials was full, hence on no list (ListsSound); a page *)
(* it releases is unlinked from the only list it can be on, hence dangles  *)
(* nowhere (ListsSound again); a page that a class takes over was with the *)
(* source or parked, hence in no list of another class (PagesPartitioned). *)
(***************************************************************************)
EXTENDS SlabPool, SeqLemmas

\* The lists, with the partials as a set and without repetition.
ListInv ==
    \A c \in Classes :
        /\ current[c] # Null => class[current[c]] = c
        /\ IsInjective(partials[c])
        /\ \A p \in Range(partials[c]) : class[p] = c /\ ~ IsFull(p) /\ p # current[c]

\* The sweep writes behind the place it reads, within the array.
SweepInv ==
    op.kind = "sweep" => op.write <= op.read /\ op.read <= Len(drained) + 1

IInv == TypeOK /\ ListInv /\ SweepInv /\ PagesPartitioned /\ NoStrandedPage

\* ListsSound is ListInv with the positions spelt out.
LEMMA ListsEquiv ==
    ASSUME TypeOK
    PROVE  ListInv <=> ListsSound
  BY DEF TypeOK, ListInv, ListsSound, IsInjective, Range

LEMMA InitIInv == Init => IInv
<1> SUFFICES ASSUME Init PROVE IInv
  OBVIOUS
<1>1. TypeOK
  BY BoundsAssumption DEF Init, TypeOK, OpTypes, NoOp
<1>2. ListInv
  BY DEF Init, ListInv, IsInjective, Range
<1>3. PagesPartitioned
  BY DEF Init, PagesPartitioned, Parked, Entries
<1>4. NoStrandedPage
  BY DEF Init, NoStrandedPage
<1>5. SweepInv
  BY DEF Init, SweepInv, NoOp
<1>6. QED
  BY <1>1, <1>2, <1>3, <1>4, <1>5 DEF IInv

-----------------------------------------------------------------------------
\* The operators the actions are made of

\* Delivered counts the batch down to its end.
LEMMA DeliveredType ==
    ASSUME TypeOK, op.kind = "alloc", Delivered
    PROVE  op' \in OpTypes /\ op'.kind # "sweep"
<1>1. op \in [kind : {"alloc"}, cls : Classes, left : 1 .. MaxBatch]
  BY DEF TypeOK, OpTypes, NoOp
<1>2. CASE op.left = 1
  BY <1>2 DEF Delivered, OpTypes, NoOp
<1>3. CASE op.left # 1
  <2>1. op.left - 1 \in 1 .. MaxBatch
    BY <1>1, <1>3, BoundsAssumption
  <2>2. op' = [op EXCEPT !.left = @ - 1]
    BY <1>3 DEF Delivered
  <2>3. op' \in [kind : {"alloc"}, cls : Classes, left : 1 .. MaxBatch]
    BY <1>1, <2>1, <2>2
  <2>4. QED
    BY <2>3 DEF OpTypes
<1>4. QED
  BY <1>2, <1>3

\* A slot is taken: the page stays within its class and is not empty any more.
LEMMA SlotTaken ==
    ASSUME TypeOK, NEW p \in Pages, class[p] # Null, TakeSlot(p)
    PROVE  /\ used' \in [Pages -> SUBSET AllSlots]
           /\ used'[p] \subseteq SlotsOf[class[p]] /\ used'[p] # {}
           /\ \A q \in Pages \ {p} : used'[q] = used[q]
<1>1. PICK s \in SlotsOf[class[p]] \ used[p] : used' = [used EXCEPT ![p] = @ \cup {s}]
  BY DEF TakeSlot
<1>2. class[p] \in Classes /\ s \in AllSlots
  BY DEF TypeOK, AllSlots
<1>3. QED
  BY <1>1, <1>2 DEF TypeOK

\* Without a sweep every entry of the array counts, before and after a step.
LEMMA SameEntries ==
    ASSUME op.kind # "sweep", op'.kind # "sweep", UNCHANGED drained
    PROVE  Entries' = Entries /\ Parked' = Parked /\ SweepInv'
  BY DEF Entries, Parked, SweepInv

\* The drained cache, as its operations leave it: pushed, popped, an entry
\* released or kept by the sweep, the array cut to the kept entries.
DrainedInv ==
    /\ drained \in Seq([page : Pages, idle : Nat]) /\ Len(drained) <= DrainedCap
    /\ \A i, j \in Entries : drained[i].page = drained[j].page => i = j

LEMMA DrainedPush ==
    ASSUME DrainedInv, NEW p \in Pages, p \notin Parked, Len(drained) < DrainedCap,
           op.kind # "sweep", UNCHANGED op,
           drained' = Append(drained, [page |-> p, idle |-> 0])
    PROVE  DrainedInv' /\ Parked' = Parked \cup {p}
<1> DEFINE e == [page |-> p, idle |-> 0]
<1>0. Entries = DOMAIN drained /\ Entries' = DOMAIN drained'
  BY DEF Entries
<1>1. e \in [page : Pages, idle : Nat] /\ e.page = p
  OBVIOUS
<1> HIDE DEF e
<1>2. /\ drained' \in Seq([page : Pages, idle : Nat]) /\ Len(drained') = Len(drained) + 1
      /\ DOMAIN drained' = 1 .. Len(drained) + 1 /\ DOMAIN drained = 1 .. Len(drained)
      /\ Len(drained) \in Nat
      /\ \A i \in 1 .. Len(drained) : drained'[i] = drained[i]
      /\ drained'[Len(drained) + 1] = e
  BY <1>1 DEF DrainedInv, e
<1>3. Parked' = Parked \cup {p}
  BY <1>0, <1>1, <1>2 DEF Parked
<1>4. \A i \in DOMAIN drained : drained[i].page # p
  BY <1>0 DEF Parked
<1>5. QED
  BY <1>0, <1>1, <1>2, <1>3, <1>4, BoundsAssumption DEF DrainedInv

LEMMA DrainedCut ==
    ASSUME DrainedInv, NEW k \in DOMAIN drained, drained' = Cut(drained, k),
           op.kind # "sweep", op'.kind # "sweep"
    PROVE  /\ DrainedInv' /\ drained[k].page \in Pages \cap Parked
           /\ Parked' = Parked \ {drained[k].page}
<1> DEFINE Entry == [page : Pages, idle : Nat]
           from(n) == IF n < k THEN n ELSE n + 1
           dom == DOMAIN drained
           cut == DOMAIN drained'
<1>0. Entries = dom /\ Entries' = cut
  BY DEF Entries
<1>1. /\ drained \in Seq(Entry) /\ Len(drained) <= DrainedCap
      /\ \A i, j \in dom : drained[i].page = drained[j].page => i = j
  BY <1>0 DEF DrainedInv
<1> HIDE DEF Entry
<1>2. /\ Len(drained) \in Nat /\ dom = 1 .. Len(drained)
      /\ \A i \in dom : drained[i] \in Entry
  BY <1>1
<1>3. /\ drained' \in Seq(Entry) /\ Len(drained') = Len(drained) - 1
      /\ cut = 1 .. Len(drained) - 1
      /\ \A n \in cut : drained'[n] = drained[from(n)]
  BY <1>1, <1>2, CutElements
<1>4. /\ \A n \in cut : from(n) \in dom \ {k}
      /\ \A m, n \in cut : from(m) = from(n) => m = n
  BY <1>2, <1>3
<1>5. \A i \in dom \ {k} : \E n \in cut : from(n) = i
  <2> SUFFICES ASSUME NEW i \in dom \ {k} PROVE \E n \in cut : from(n) = i
    OBVIOUS
  <2>1. CASE i < k
    BY <1>2, <1>3, <2>1
  <2>2. CASE i > k
    <3>1. i - 1 \in cut /\ from(i - 1) = i
      BY <1>2, <1>3, <2>2
    <3>2. QED
      BY <3>1
  <2>3. QED
    BY <1>2, <2>1, <2>2
<1>6. Len(drained') <= DrainedCap
  BY <1>1, <1>2, <1>3, BoundsAssumption
<1> HIDE DEF from, dom, cut
<1>7. \A m, n \in cut : drained'[m].page = drained'[n].page => m = n
  BY <1>1, <1>3, <1>4
<1>8. DrainedInv'
  BY <1>0, <1>3, <1>6, <1>7 DEF DrainedInv, Entry
<1>9. k \in dom
  BY DEF dom
<1>10. Parked = {drained[i].page : i \in dom} /\ Parked' = {drained'[n].page : n \in cut}
  BY <1>0 DEF Parked
<1>11. {drained'[n].page : n \in cut} = {drained[i].page : i \in dom \ {k}}
  <2>1. ASSUME NEW n \in cut PROVE \E i \in dom \ {k} : drained'[n].page = drained[i].page
    BY <1>3, <1>4
  <2>2. ASSUME NEW i \in dom \ {k} PROVE \E n \in cut : drained'[n].page = drained[i].page
    BY <1>3, <1>5
  <2>3. QED
    BY <2>1, <2>2
<1>12. {drained[i].page : i \in dom \ {k}} = {drained[i].page : i \in dom} \ {drained[k].page}
  BY <1>1, <1>9
<1>13. drained[k].page \in Pages \cap Parked
  BY <1>2, <1>9, <1>10 DEF Entry
<1>14. QED
  BY <1>8, <1>10, <1>11, <1>12, <1>13

\* The sweep gives the entry it reads up, or keeps it.
LEMMA EntryReleased ==
    ASSUME DrainedInv, SweepInv, op.kind = "sweep", NEW k \in DOMAIN drained, k = op.read,
           op.write \in Nat, UNCHANGED drained,
           op'.kind = "sweep", op'.read = k + 1, op'.write = op.write
    PROVE  /\ DrainedInv' /\ SweepInv' /\ drained[k].page \in Pages \cap Parked
           /\ Parked' = Parked \ {drained[k].page}
<1> DEFINE Entry == [page : Pages, idle : Nat]
<1>1. drained \in Seq(Entry) /\ Len(drained) <= DrainedCap
  BY DEF DrainedInv
<1>2. /\ Len(drained) \in Nat /\ DOMAIN drained = 1 .. Len(drained)
      /\ drained[k] \in Entry
  <2> HIDE DEF Entry
  <2> QED BY <1>1
<1>3. k \in Entries /\ Entries' = Entries \ {k} /\ SweepInv'
  BY <1>2 DEF Entries, SweepInv
<1>4. Parked' = Parked \ {drained[k].page} /\ drained[k].page \in Pages \cap Parked
  BY <1>2, <1>3 DEF Parked, DrainedInv
<1>5. DrainedInv'
  BY <1>3 DEF DrainedInv
<1>6. QED
  BY <1>3, <1>4, <1>5

LEMMA EntryKept ==
    ASSUME DrainedInv, SweepInv, op.kind = "sweep", NEW k \in DOMAIN drained, k = op.read,
           NEW w \in Nat \ {0}, w = op.write, NEW t \in Nat,
           drained' = [drained EXCEPT ![w] = [page |-> drained[k].page, idle |-> t]],
           op'.kind = "sweep", op'.read = k + 1, op'.write = w + 1
    PROVE  DrainedInv' /\ SweepInv' /\ Parked' = Parked
<1> DEFINE Entry == [page : Pages, idle : Nat]
           e == [page |-> drained[k].page, idle |-> t]
           d == drained'
           from(i) == IF i = w THEN k ELSE i
<1>1. drained \in Seq(Entry) /\ Len(drained) <= DrainedCap
  BY DEF DrainedInv
<1>2. /\ Len(drained) \in Nat /\ DOMAIN drained = 1 .. Len(drained)
      /\ drained[k] \in Entry
  <2> HIDE DEF Entry
  <2> QED BY <1>1
<1>3. e \in Entry /\ e.page = drained[k].page /\ w \in 1 .. Len(drained) /\ w <= k
  BY <1>2 DEF SweepInv
<1>4. d = [drained EXCEPT ![w] = e]
  OBVIOUS
<1>5. d \in Seq(Entry) /\ Len(d) = Len(drained) /\ DOMAIN d = DOMAIN drained
  <2> HIDE DEF Entry, e, d
  <2> QED BY <1>1, <1>3, <1>4
<1>6. /\ Entries = {i \in DOMAIN drained : i < w \/ i >= k}
      /\ Entries' = {i \in DOMAIN drained : i < w + 1 \/ i >= k + 1}
  BY <1>5 DEF Entries
<1>7. /\ \A i \in Entries' : from(i) \in Entries /\ d[i].page = drained[from(i)].page
      /\ \A i, j \in Entries' : from(i) = from(j) => i = j
  <2>1. \A i \in DOMAIN drained : d[i] = IF i = w THEN e ELSE drained[i]
    <3> HIDE DEF e, d
    <3> QED BY <1>2, <1>3, <1>4
  <2>2. /\ Entries' \subseteq DOMAIN drained
        /\ \A i \in Entries' : from(i) \in Entries
        /\ \A i, j \in Entries' : from(i) = from(j) => i = j
    <3> HIDE DEF e, d
    <3>1. Entries' \subseteq DOMAIN drained
      BY <1>6
    <3>2. ASSUME NEW i \in Entries' PROVE from(i) \in Entries
      BY <1>2, <1>3, <1>6
    <3>3. ASSUME NEW i \in Entries', i # w PROVE i # k
      BY <1>2, <1>3, <1>6, <3>3
    <3>4. QED
      BY <3>1, <3>2, <3>3
  <2> HIDE DEF e, d
  <2>3. QED
    BY <1>3, <2>1, <2>2
<1>8. \A i \in Entries : \E j \in Entries' : from(j) = i
  <2> SUFFICES ASSUME NEW i \in Entries PROVE \E j \in Entries' : from(j) = i
    OBVIOUS
  <2>1. CASE i = k
    <3>1. w \in Entries' /\ from(w) = i
      BY <1>2, <1>3, <1>6, <2>1
    <3>2. QED BY <3>1
  <2>2. CASE i # k
    <3>1. i \in Entries' /\ from(i) = i
      BY <1>2, <1>3, <1>6, <2>2
    <3>2. QED BY <3>1
  <2>3. QED
    BY <2>1, <2>2
<1>9. DrainedInv'
  <2>1. \A i, j \in Entries' : d[i].page = d[j].page => i = j
    <3> HIDE DEF from, d
    <3> QED BY <1>7 DEF DrainedInv
  <2>2. QED
    BY <1>1, <1>5, <2>1 DEF DrainedInv
<1>10. Parked' = Parked
  <2>1. Parked = {drained[i].page : i \in Entries} /\ Parked' = {d[i].page : i \in Entries'}
    BY DEF Parked
  <2> HIDE DEF from, d
  <2>2. QED
    BY <1>7, <1>8, <2>1
<1>11. SweepInv'
  BY <1>2, <1>3, <1>5 DEF SweepInv
<1>12. QED
  BY <1>9, <1>10, <1>11

\* The sweep is over: what it kept is the array.
LEMMA ArrayCut ==
    ASSUME DrainedInv, SweepInv, op.kind = "sweep", NEW w \in Nat \ {0}, w = op.write,
           op.read \in Nat, op.read > Len(drained),
           drained' = SubSeq(drained, 1, w - 1), op'.kind # "sweep"
    PROVE  DrainedInv' /\ SweepInv' /\ Parked' = Parked
<1> DEFINE Entry == [page : Pages, idle : Nat]
           d == drained'
<1>1. drained \in Seq(Entry) /\ Len(drained) <= DrainedCap
  BY DEF DrainedInv
<1>2. Len(drained) \in Nat /\ DOMAIN drained = 1 .. Len(drained)
  <2> HIDE DEF Entry
  <2> QED BY <1>1
<1>3. w - 1 \in 0 .. Len(drained)
  BY <1>2 DEF SweepInv
<1>4. /\ d \in Seq(Entry) /\ Len(d) = w - 1 /\ DOMAIN d = 1 .. w - 1
      /\ \A i \in 1 .. w - 1 : d[i] = drained[i]
  <2> HIDE DEF Entry
  <2> QED BY <1>1, <1>3
<1>5. Entries = 1 .. w - 1 /\ Entries' = 1 .. w - 1 /\ SweepInv'
  BY <1>2, <1>3, <1>4 DEF Entries, SweepInv
<1>6. Parked' = Parked
  BY <1>4, <1>5 DEF Parked
<1>7. Len(d) <= DrainedCap
  BY <1>1, <1>2, <1>3, <1>4, BoundsAssumption
<1> HIDE DEF d
<1>8. \A i, j \in 1 .. w - 1 : d[i].page = d[j].page => i = j
  BY <1>4, <1>5 DEF DrainedInv
<1>9. DrainedInv'
  BY <1>4, <1>5, <1>7, <1>8 DEF DrainedInv, d
<1>10. QED
  BY <1>5, <1>6, <1>9

-----------------------------------------------------------------------------
\* The steps

\* Steps that only move the lock holder on.
LEMMA QuietStep ==
    ASSUME IInv, op' \in OpTypes, UNCHANGED <<source, class, used, current, partials, drained>>,
           Entries' = Entries, SweepInv'
    PROVE  IInv'
<1>1. TypeOK'
  BY DEF IInv, TypeOK
<1>2. ListInv'
  BY DEF IInv, ListInv, IsFull
<1>3. PagesPartitioned'
  <2>1. Parked' = Parked
    BY DEF Parked
  <2>2. QED
    BY <2>1 DEF IInv, PagesPartitioned
<1>4. NoStrandedPage'
  BY DEF IInv, NoStrandedPage, IsFull
<1>5. QED
  BY <1>1, <1>2, <1>3, <1>4 DEF IInv

\* Steps of the sweep: the pages in use and their lists stay as they are.
LEMMA SameInUse ==
    ASSUME IInv, UNCHANGED <<class, used, current, partials>>, op' \in OpTypes,
           DrainedInv', SweepInv', source' \in SUBSET Pages,
           source' \cup Parked' = source \cup Parked, source' \cap Parked' = {}
    PROVE  IInv'
<1>1. TypeOK'
  BY DEF IInv, TypeOK, DrainedInv
<1>2. ListInv'
  BY DEF IInv, ListInv, IsFull
<1>3. PagesPartitioned'
  BY DEF IInv, PagesPartitioned, DrainedInv
<1>4. NoStrandedPage'
  BY DEF IInv, NoStrandedPage, IsFull
<1>5. QED
  BY <1>1, <1>2, <1>3, <1>4 DEF IInv

LEMMA TryCurrentStep ==
    ASSUME IInv, NEW c \in Classes, TryCurrent(c)
    PROVE  IInv'
<1> DEFINE p == current[c]
<1>1. /\ p \in Pages /\ class[p] = c /\ c # Null /\ op.kind = "alloc"
      /\ UNCHANGED <<source, class, partials, drained>>
      /\ TypeOK /\ ListInv /\ PagesPartitioned /\ NoStrandedPage
  BY NullAssumption DEF TryCurrent, Allocating, IInv, TypeOK, ListInv
<1>2. CASE IsFull(p) /\ current' = [current EXCEPT ![c] = Null] /\ UNCHANGED <<used, op>>
  <2>1. TypeOK'
    BY <1>1, <1>2 DEF TypeOK
  <2>2. ListInv'
    <3>1. ASSUME NEW d \in Classes, NEW q \in Range(partials[d])
          PROVE  q # Null
      BY <1>1, NullAssumption DEF TypeOK, Range
    <3>2. \A d \in Classes : current'[d] = IF d = c THEN Null ELSE current[d]
      BY <1>1, <1>2 DEF TypeOK
    <3>3. QED
      BY <1>1, <1>2, <3>1, <3>2 DEF ListInv, IsFull
  <2>3. Entries' = Entries /\ Parked' = Parked /\ SweepInv'
    BY <1>1, <1>2, SameEntries
  <2>4. PagesPartitioned'
    BY <1>1, <1>2, <2>3 DEF PagesPartitioned
  <2>5. NoStrandedPage'
    BY <1>1, <1>2 DEF NoStrandedPage, IsFull, TypeOK
  <2>6. QED
    BY <2>1, <2>2, <2>3, <2>4, <2>5 DEF IInv
<1>3. CASE TakeSlot(p) /\ Delivered /\ UNCHANGED current
  <2>1. /\ used' \in [Pages -> SUBSET AllSlots]
        /\ used'[p] \subseteq SlotsOf[c] /\ used'[p] # {}
        /\ \A q \in Pages \ {p} : used'[q] = used[q]
    BY <1>1, <1>3, SlotTaken
  <2>2. op' \in OpTypes /\ op'.kind # "sweep"
    BY <1>1, <1>3, DeliveredType
  <2>3. TypeOK'
    BY <1>1, <1>3, <2>1, <2>2 DEF TypeOK
  <2>4. ListInv'
    <3>1. ASSUME NEW d \in Classes, NEW q \in Range(partials[d])
          PROVE  q \in Pages /\ q # p
      BY <1>1 DEF ListInv, TypeOK, Range
    <3>2. QED
      BY <1>1, <1>3, <2>1, <3>1 DEF ListInv, IsFull
  <2>5. Entries' = Entries /\ Parked' = Parked /\ SweepInv'
    BY <1>1, <2>2, SameEntries
  <2>6. PagesPartitioned'
    BY <1>1, <1>3, <2>1, <2>5 DEF PagesPartitioned
  <2>7. NoStrandedPage'
    BY <1>1, <1>3, <2>1 DEF NoStrandedPage, IsFull
  <2>8. QED
    BY <2>3, <2>4, <2>5, <2>6, <2>7 DEF IInv
<1>4. QED
  BY <1>2, <1>3 DEF TryCurrent

LEMMA TryPartialsStep ==
    ASSUME IInv, NEW c \in Classes, TryPartials(c)
    PROVE  IInv'
<1>0. PICK i \in DOMAIN partials[c] :
          /\ partials' = [partials EXCEPT ![c] = Cut(@, i)]
          /\ LET page == partials[c][i]
             IN  IF IsFull(page)
                   THEN UNCHANGED <<used, current, op>>
                   ELSE current' = [current EXCEPT ![c] = page] /\ TakeSlot(page) /\ Delivered
  BY DEF TryPartials
<1> DEFINE p == partials[c][i]
           rest == Cut(partials[c], i)
<1>1. /\ current[c] = Null /\ c # Null
      /\ UNCHANGED <<source, class, drained>>
      /\ TypeOK /\ ListInv /\ PagesPartitioned /\ NoStrandedPage
      /\ partials[c] \in Seq(Pages) /\ IsInjective(partials[c])
      /\ partials' = [partials EXCEPT ![c] = rest]
  BY <1>0, NullAssumption DEF TryPartials, IInv, TypeOK, ListInv
<1>2. i \in 1 .. Len(partials[c])
  BY <1>1
<1>3. /\ rest \in Seq(Pages) /\ IsInjective(rest)
      /\ Range(rest) = Range(partials[c]) \ {p}
  BY <1>1, <1>2, CutInjective
<1> HIDE DEF rest
<1>4. p \in Pages /\ p \in Range(partials[c])
  BY <1>1, <1>2 DEF Range
<1> HIDE DEF p
<1>5. class[p] = c /\ ~ IsFull(p)
  BY <1>1, <1>4 DEF ListInv
<1>6. current' = [current EXCEPT ![c] = p] /\ TakeSlot(p) /\ Delivered
  BY <1>0, <1>5 DEF p
<1>7. /\ used' \in [Pages -> SUBSET AllSlots]
      /\ used'[p] \subseteq SlotsOf[c] /\ used'[p] # {}
      /\ \A q \in Pages \ {p} : used'[q] = used[q]
  BY <1>1, <1>4, <1>5, <1>6, SlotTaken
<1>8. op' \in OpTypes /\ op'.kind # "sweep" /\ op.kind # "sweep"
  BY <1>1, <1>6, DeliveredType DEF TryPartials, Allocating
<1>9. TypeOK'
  BY <1>1, <1>3, <1>4, <1>5, <1>6, <1>7, <1>8 DEF TypeOK
<1>10. \A d \in Classes : /\ partials'[d] = IF d = c THEN rest ELSE partials[d]
                          /\ current'[d] = IF d = c THEN p ELSE current[d]
  BY <1>1, <1>6 DEF TypeOK
<1>11. ListInv'
  <2>1. ASSUME NEW d \in Classes, NEW q \in Range(partials[d])
        PROVE  q \in Pages /\ (d # c => q # p)
    BY <1>1, <1>5 DEF ListInv, TypeOK, Range
  <2>2. QED
    BY <1>1, <1>3, <1>4, <1>5, <1>7, <1>10, <2>1 DEF ListInv, IsFull
<1>12. PagesPartitioned' /\ SweepInv'
  <2>1. Entries' = Entries /\ Parked' = Parked /\ SweepInv'
    BY <1>1, <1>8, SameEntries
  <2>2. QED
    BY <1>1, <1>4, <1>5, <1>7, <2>1 DEF PagesPartitioned
<1>13. NoStrandedPage'
  <2>1. ASSUME NEW q \in Pages, class[q] # Null, used'[q] # SlotsOf[class[q]], q # p
        PROVE  q = current'[class[q]] \/ q \in Range(partials'[class[q]])
    <3>1. class[q] \in Classes /\ current[c] # q
      BY <1>1, <2>1, NullAssumption DEF TypeOK
    <3>2. q = current[class[q]] \/ q \in Range(partials[class[q]])
      BY <1>1, <1>7, <2>1 DEF NoStrandedPage, IsFull
    <3>3. QED
      BY <1>3, <1>10, <2>1, <3>1, <3>2
  <2>2. QED
    BY <1>1, <1>5, <1>10, <2>1 DEF NoStrandedPage, IsFull
<1>14. QED
  BY <1>9, <1>11, <1>12, <1>13 DEF IInv

\* What PagesPartitioned says of the drained cache is DrainedInv.
LEMMA IInvDrained ==
    ASSUME IInv PROVE DrainedInv
  BY DEF IInv, TypeOK, PagesPartitioned, DrainedInv

\* A page without a valid header is on no list.
LEMMA ReleasedOnNoList ==
    ASSUME IInv, NEW p \in Pages, class[p] = Null, NEW c \in Classes
    PROVE  current[c] # p /\ p \notin Range(partials[c])
  BY NullAssumption DEF IInv, ListInv

\* A page taken from the drained cache or from the source becomes current.
LEMMA FreshInstalled ==
    ASSUME IInv, NEW c \in Classes, Allocating(c), current[c] = Null,
           NEW p \in source \cup Parked, p \in Pages, InstallFresh(c, p),
           source' \in SUBSET Pages, DrainedInv',
           source' \cup Parked' = (source \cup Parked) \ {p}, source' \cap Parked' = {},
           UNCHANGED partials
    PROVE  IInv'
<1>1. /\ TypeOK /\ ListInv /\ PagesPartitioned /\ NoStrandedPage
      /\ class[p] = Null /\ c # Null
  BY NullAssumption DEF IInv, PagesPartitioned
<1>2. PICK s \in SlotsOf[c] : used' = [used EXCEPT ![p] = {s}]
  BY DEF InstallFresh
<1>3. /\ class' = [class EXCEPT ![p] = c] /\ current' = [current EXCEPT ![c] = p]
      /\ op' \in OpTypes /\ op'.kind # "sweep" /\ s \in AllSlots
  BY <1>1, DeliveredType DEF InstallFresh, Allocating, AllSlots
<1>4. /\ \A q \in Pages : /\ class'[q] = IF q = p THEN c ELSE class[q]
                          /\ used'[q] = IF q = p THEN {s} ELSE used[q]
      /\ \A d \in Classes : current'[d] = IF d = c THEN p ELSE current[d]
  BY <1>1, <1>2, <1>3 DEF TypeOK
<1>5. TypeOK'
  BY <1>1, <1>2, <1>3, <1>4 DEF TypeOK, DrainedInv
<1>6. ListInv'
  <2>1. ASSUME NEW d \in Classes, NEW q \in Range(partials[d])
        PROVE  q \in Pages /\ q # p
    BY <1>1, ReleasedOnNoList DEF TypeOK, Range
  <2>2. \A d \in Classes : current[d] # p /\ (current[d] # Null => current[d] \in Pages)
    BY <1>1, ReleasedOnNoList DEF TypeOK
  <2>3. QED
    BY <1>1, <1>4, <2>1, <2>2 DEF ListInv, IsFull
<1>7. PagesPartitioned'
  BY <1>1, <1>4 DEF PagesPartitioned, DrainedInv
<1>8. NoStrandedPage'
  <2>1. \A q \in Pages : class[q] # Null => class[q] \in Classes
    BY <1>1 DEF TypeOK
  <2>2. \A q \in Pages : q # current[c]
    BY NullAssumption
  <2>3. QED
    BY <1>1, <1>4, <2>1, <2>2 DEF NoStrandedPage, IsFull
<1>9. SweepInv'
  BY <1>3 DEF SweepInv
<1>10. QED
  BY <1>5, <1>6, <1>7, <1>8, <1>9 DEF IInv

LEMMA AcquireFreshPageStep ==
    ASSUME IInv, NEW c \in Classes, AcquireFreshPage(c)
    PROVE  IInv'
<1>1. /\ Allocating(c) /\ current[c] = Null /\ UNCHANGED partials
      /\ TypeOK /\ PagesPartitioned /\ DrainedInv
      /\ source \in SUBSET Pages /\ source \cap Parked = {}
      /\ op.kind = "alloc"
  BY IInvDrained DEF AcquireFreshPage, Allocating, IInv, TypeOK, PagesPartitioned
<1>2. CASE /\ drained # <<>> /\ InstallFresh(c, drained[Len(drained)].page)
           /\ drained' = Cut(drained, Len(drained)) /\ UNCHANGED source
  <2> DEFINE k == Len(drained)
             p == drained[k].page
  <2>1. k \in DOMAIN drained /\ k \in Nat
    BY <1>1, <1>2 DEF DrainedInv
  <2>2. drained' = Cut(drained, k)
    BY <1>2
  <2>3. InstallFresh(c, p) /\ op'.kind # "sweep"
    BY <1>1, <1>2, DeliveredType DEF InstallFresh
  <2>4. DrainedInv' /\ p \in Pages \cap Parked /\ Parked' = Parked \ {p}
    BY <1>1, <2>1, <2>2, <2>3, DrainedCut
  <2> HIDE DEF p
  <2>5. /\ source' \cup Parked' = (source \cup Parked) \ {p} /\ source' \cap Parked' = {}
        /\ source' \in SUBSET Pages
    BY <1>1, <1>2, <2>4
  <2>6. QED
    BY <1>1, <2>3, <2>4, <2>5, FreshInstalled
<1>3. CASE /\ \E p \in source : InstallFresh(c, p) /\ source' = source \ {p}
           /\ UNCHANGED drained
  <2>1. PICK p \in source : InstallFresh(c, p) /\ source' = source \ {p}
    BY <1>3
  <2>2. DrainedInv' /\ Parked' = Parked
    <3>1. op'.kind # "sweep"
      BY <1>1, <2>1, DeliveredType DEF InstallFresh
    <3>2. QED
      BY <1>1, <1>3, <3>1, SameEntries DEF DrainedInv
  <2>3. /\ source' \cup Parked' = (source \cup Parked) \ {p} /\ source' \cap Parked' = {}
        /\ source' \in SUBSET Pages /\ p \in Pages
    BY <1>1, <2>1, <2>2
  <2>4. QED
    BY <1>1, <2>1, <2>2, <2>3, FreshInstalled
<1>4. CASE op' = NoOp /\ UNCHANGED <<source, class, used, current, drained>>
  <2>1. op' \in OpTypes /\ op'.kind # "sweep"
    BY <1>4 DEF OpTypes, NoOp
  <2>2. Entries' = Entries /\ SweepInv'
    BY <1>1, <1>4, <2>1, SameEntries
  <2>3. QED
    BY <1>1, <1>4, <2>1, <2>2, QuietStep
<1>5. QED
  BY <1>2, <1>3, <1>4 DEF AcquireFreshPage

\* The page that lost its last object leaves the only list it can be on.
LEMMA Unlinked ==
    ASSUME IInv, NEW p \in Pages, class[p] # Null, UnlinkFromClass(class[p], p)
    PROVE  /\ current' \in [Classes -> Pages \cup {Null}]
           /\ partials' \in [Classes -> Seq(Pages)]
           /\ \A d \in Classes :
                 /\ current'[d] = IF current[d] = p THEN Null ELSE current[d]
                 /\ IsInjective(partials'[d])
                 /\ Range(partials'[d]) = Range(partials[d]) \ {p}
<1> DEFINE c == class[p]
<1>1. /\ TypeOK /\ ListInv /\ c \in Classes
      /\ p # Null /\ current \in [Classes -> Pages \cup {Null}]
      /\ partials \in [Classes -> Seq(Pages)]
  BY NullAssumption DEF IInv, TypeOK
<1>2. \A d \in Classes : /\ d # c => current[d] # p /\ p \notin Range(partials[d])
                         /\ current[d] = p => p \notin Range(partials[d])
                         /\ IsInjective(partials[d])
  BY <1>1 DEF ListInv
<1>3. CASE current[c] = p
  <2>1. current' = [current EXCEPT ![c] = Null] /\ partials' = partials
    BY <1>3 DEF UnlinkFromClass
  <2>2. QED
    BY <1>1, <1>2, <1>3, <2>1
<1>4. CASE current[c] # p
  <2>1. CASE p \notin Range(partials[c])
    <3>1. partials' = partials /\ current' = current
      BY <1>4, <2>1 DEF UnlinkFromClass
    <3>2. QED
      BY <1>1, <1>2, <1>4, <2>1, <3>1
  <2>2. CASE p \in Range(partials[c])
    <3>1. PICK i \in DOMAIN partials[c] :
              partials[c][i] = p /\ partials' = [partials EXCEPT ![c] = Cut(@, i)]
      BY <1>4, <2>2 DEF UnlinkFromClass
    <3> DEFINE rest == Cut(partials[c], i)
    <3>2. /\ rest \in Seq(Pages) /\ IsInjective(rest)
          /\ Range(rest) = Range(partials[c]) \ {p}
      BY <1>1, <1>2, <3>1, CutInjective
    <3>3. partials' = [partials EXCEPT ![c] = rest] /\ current' = current
      BY <1>4, <3>1 DEF UnlinkFromClass
    <3> HIDE DEF rest
    <3>4. QED
      BY <1>1, <1>2, <1>4, <3>2, <3>3
  <2>3. QED
    BY <2>1, <2>2
<1>5. QED
  BY <1>3, <1>4

\* A page in use that is given up is parked, or back with the source.
LEMMA Released ==
    ASSUME IInv, NEW p \in Pages, class[p] # Null, ReleaseSlabPage(p),
           op.kind # "sweep", UNCHANGED op
    PROVE  /\ DrainedInv' /\ source' \in SUBSET Pages
           /\ source' \cup Parked' = (source \cup Parked) \cup {p}
           /\ source' \cap Parked' = {}
<1>1. /\ DrainedInv /\ source \in SUBSET Pages /\ source \cap Parked = {}
      /\ p \notin source \cup Parked
  BY IInvDrained DEF IInv, TypeOK, PagesPartitioned
<1>2. CASE Len(drained) < DrainedCap
  <2>1. drained' = Append(drained, [page |-> p, idle |-> 0]) /\ source' = source
    BY <1>2 DEF ReleaseSlabPage
  <2>2. DrainedInv' /\ Parked' = Parked \cup {p}
    BY <1>1, <1>2, <2>1, DrainedPush
  <2>3. QED
    BY <1>1, <2>1, <2>2
<1>3. CASE ~ (Len(drained) < DrainedCap)
  <2>1. drained' = drained /\ source' = source \cup {p}
    BY <1>3 DEF ReleaseSlabPage
  <2>2. DrainedInv' /\ Parked' = Parked
    BY <1>1, <2>1, SameEntries DEF DrainedInv
  <2>3. QED
    BY <1>1, <2>1, <2>2
<1>4. QED
  BY <1>2, <1>3

LEMMA FreeStep ==
    ASSUME IInv, NEW p \in Pages, NEW s \in AllSlots, Free(p, s)
    PROVE  IInv'
<1> DEFINE c == class[p]
<1>1. /\ TypeOK /\ ListInv /\ PagesPartitioned /\ NoStrandedPage
      /\ s \in used[p] /\ used' = [used EXCEPT ![p] = @ \ {s}] /\ op' = op
      /\ c # Null /\ p # Null /\ op.kind # "sweep"
  BY NullAssumption DEF IInv, Free, PagesPartitioned, NoOp
<1>2. /\ c \in Classes /\ used[p] \subseteq SlotsOf[c]
      /\ \A q \in Pages : used'[q] = IF q = p THEN used[p] \ {s} ELSE used[q]
      /\ used' \in [Pages -> SUBSET AllSlots]
  BY <1>1 DEF TypeOK
<1>3. \A d \in Classes : \A q \in Range(partials[d]) : q \in Pages
  BY <1>1 DEF TypeOK, Range
<1>4. CASE used[p] = {s} /\ UnlinkFromClass(c, p) /\ ReleaseSlabPage(p)
  <2>1. /\ current' \in [Classes -> Pages \cup {Null}]
        /\ partials' \in [Classes -> Seq(Pages)]
        /\ \A d \in Classes :
              /\ current'[d] = IF current[d] = p THEN Null ELSE current[d]
              /\ IsInjective(partials'[d])
              /\ Range(partials'[d]) = Range(partials[d]) \ {p}
    BY <1>1, <1>4, Unlinked
  <2>2. /\ DrainedInv' /\ source' \in SUBSET Pages
        /\ source' \cup Parked' = (source \cup Parked) \cup {p}
        /\ source' \cap Parked' = {}
    BY <1>1, <1>4, Released
  <2>3. /\ class' \in [Pages -> Classes \cup {Null}]
        /\ \A q \in Pages : class'[q] = IF q = p THEN Null ELSE class[q]
    BY <1>1, <1>4 DEF ReleaseSlabPage, TypeOK
  <2>4. TypeOK'
    BY <1>1, <1>2, <2>1, <2>2, <2>3 DEF TypeOK, DrainedInv
  <2>5. ListInv'
    <3>1. \A d \in Classes : current[d] # Null => current[d] \in Pages
      BY <1>1 DEF TypeOK
    <3>2. \A d \in Classes : \A q \in Range(partials[d]) : q # Null
      BY <1>3, NullAssumption
    <3>3. ASSUME NEW d \in Classes, current'[d] # Null PROVE class'[current'[d]] = d
      BY <1>1, <2>1, <2>3, <3>1, <3>3 DEF ListInv
    <3>4. ASSUME NEW d \in Classes, NEW q \in Range(partials'[d])
          PROVE  class'[q] = d /\ used'[q] # SlotsOf[class'[q]] /\ q # current'[d]
      <4>1. q \in Range(partials[d]) /\ q # p /\ q \in Pages /\ q # Null
        BY <1>3, <2>1, <3>2, <3>4
      <4>2. class[q] = d /\ used[q] # SlotsOf[class[q]] /\ q # current[d]
        BY <1>1, <4>1 DEF ListInv, IsFull
      <4>3. QED
        BY <1>2, <2>1, <2>3, <4>1, <4>2
    <3>5. QED
      BY <2>1, <3>3, <3>4 DEF ListInv, IsFull
  <2>6. PagesPartitioned'
    BY <1>1, <1>2, <1>4, <2>2, <2>3 DEF PagesPartitioned, DrainedInv
  <2>7. NoStrandedPage'
    <3>1. \A q \in Pages : class[q] # Null => class[q] \in Classes
      BY <1>1 DEF TypeOK
    <3>2. QED
      BY <1>1, <1>2, <2>1, <2>3, <3>1 DEF NoStrandedPage, IsFull
  <2>8. SweepInv'
    BY <1>1 DEF SweepInv
  <2>9. QED
    BY <2>4, <2>5, <2>6, <2>7, <2>8 DEF IInv
<1>5. CASE /\ used[p] # {s} /\ UNCHANGED <<source, class, current, drained>>
           /\ partials' = IF IsFull(p) /\ current[c] # p
                            THEN [partials EXCEPT ![c] = <<p>> \o @] ELSE partials
  <2>1. /\ partials' \in [Classes -> Seq(Pages)]
        /\ \A d \in Classes :
              /\ IsInjective(partials'[d])
              /\ Range(partials'[d]) = IF d = c /\ IsFull(p) /\ current[c] # p
                                         THEN Range(partials[d]) \cup {p}
                                         ELSE Range(partials[d])
    <3>1. /\ partials \in [Classes -> Seq(Pages)]
          /\ \A d \in Classes : IsInjective(partials[d])
          /\ IsFull(p) => p \notin Range(partials[c])
      BY <1>1, <1>2 DEF ListInv, TypeOK
    <3>2. CASE IsFull(p) /\ current[c] # p
      <4> DEFINE more == <<p>> \o partials[c]
      <4>1. more \in Seq(Pages) /\ IsInjective(more) /\ Range(more) = Range(partials[c]) \cup {p}
        BY <1>2, <3>1, <3>2, ConsNew
      <4>2. partials' = [partials EXCEPT ![c] = more]
        BY <1>5, <3>2
      <4> HIDE DEF more
      <4>3. QED
        BY <1>2, <3>1, <3>2, <4>1, <4>2
    <3>3. CASE ~ (IsFull(p) /\ current[c] # p)
      BY <1>5, <3>1, <3>3
    <3>4. QED
      BY <3>2, <3>3
  <2>2. TypeOK'
    BY <1>1, <1>2, <1>5, <2>1 DEF TypeOK
  <2>3. ListInv'
    <3>1. used[p] \ {s} # SlotsOf[c]
      BY <1>1, <1>2
    <3>2. ASSUME NEW d \in Classes, NEW q \in Range(partials'[d])
          PROVE  class[q] = d /\ used'[q] # SlotsOf[class[q]] /\ q # current[d]
      <4>1. CASE q = p
        <5>1. d = c
          BY <1>1, <2>1, <3>2, <4>1 DEF ListInv
        <5>2. q # current[d]
          BY <1>1, <2>1, <3>2, <4>1, <5>1 DEF ListInv
        <5>3. QED
          BY <1>2, <3>1, <4>1, <5>1, <5>2
      <4>2. CASE q # p
        <5>1. q \in Range(partials[d]) /\ q \in Pages
          BY <1>3, <2>1, <3>2, <4>2
        <5>2. QED
          BY <1>1, <1>2, <4>2, <5>1 DEF ListInv, IsFull
      <4>3. QED
        BY <4>1, <4>2
    <3>3. /\ class' = class /\ current' = current
          /\ \A d \in Classes : /\ IsInjective(partials'[d])
                                /\ current[d] # Null => class[current[d]] = d
      BY <1>1, <1>5, <2>1 DEF ListInv
    <3>4. QED
      BY <3>2, <3>3 DEF ListInv, IsFull
  <2>4. PagesPartitioned'
    <3>1. Parked' = Parked /\ Entries' = Entries
      BY <1>1, <1>5, SameEntries
    <3>2. used[p] \ {s} # {}
      BY <1>1, <1>5
    <3>3. QED
      BY <1>1, <1>2, <1>5, <3>1, <3>2 DEF PagesPartitioned
  <2>5. NoStrandedPage'
    <3>1. \A q \in Pages : class[q] # Null => class[q] \in Classes
      BY <1>1 DEF TypeOK
    <3>2. QED
      BY <1>1, <1>2, <1>5, <2>1, <3>1 DEF NoStrandedPage, IsFull
  <2>6. SweepInv'
    BY <1>1 DEF SweepInv
  <2>7. QED
    BY <2>2, <2>3, <2>4, <2>5, <2>6 DEF IInv
<1>6. QED
  BY <1>4, <1>5 DEF Free

\* What a sweep's record holds.
LEMMA SweepType ==
    ASSUME TypeOK, op.kind = "sweep"
    PROVE  op \in [kind : {"sweep"}, max : Nat, read : Nat \ {0}, write : Nat \ {0}]
  BY DEF TypeOK, OpTypes, NoOp

LEMMA SweepEntryStep ==
    ASSUME IInv, SweepEntry
    PROVE  IInv'
<1> DEFINE k == op.read
           w == op.write
<1>1. /\ TypeOK /\ DrainedInv /\ SweepInv /\ op.kind = "sweep"
      /\ UNCHANGED <<class, used, current, partials>>
      /\ source \in SUBSET Pages /\ source \cap Parked = {}
  BY IInvDrained DEF IInv, TypeOK, PagesPartitioned, SweepEntry
<1>2. op \in [kind : {"sweep"}, max : Nat, read : Nat \ {0}, write : Nat \ {0}]
  BY <1>1, SweepType
<1>3. k \in DOMAIN drained /\ w \in Nat \ {0} /\ Ticks \in Nat
  <2>1. k \in DOMAIN drained
    BY <1>1, <1>2 DEF DrainedInv, SweepEntry
  <2> DEFINE Entry == [page : Pages, idle : Nat]
  <2>2. drained \in Seq(Entry)
    BY <1>1 DEF DrainedInv
  <2>3. drained[k] \in Entry
    <3> HIDE DEF k, Entry
    <3> QED BY <2>1, <2>2
  <2>4. Ticks \in Nat
    BY <2>3, BoundsAssumption DEF Ticks
  <2>5. QED
    BY <1>2, <2>1, <2>4
<1>4. CASE /\ source' = source \cup {drained[k].page} /\ drained' = drained
           /\ op' = [op EXCEPT !.read = @ + 1]
  <2>1. /\ op' \in OpTypes
        /\ op'.kind = "sweep" /\ op'.read = k + 1 /\ op'.write = w
    BY <1>2, <1>4 DEF OpTypes
  <2>2. /\ DrainedInv' /\ SweepInv' /\ drained[k].page \in Pages \cap Parked
        /\ Parked' = Parked \ {drained[k].page}
    BY <1>1, <1>3, <1>4, <2>1, EntryReleased
  <2>3. /\ source' \cup Parked' = source \cup Parked /\ source' \cap Parked' = {}
        /\ source' \in SUBSET Pages
    BY <1>1, <1>4, <2>2
  <2>4. QED
    BY <1>1, <2>1, <2>2, <2>3, SameInUse
<1>5. CASE /\ drained' = [drained EXCEPT ![w] = [page |-> drained[k].page, idle |-> Ticks]]
           /\ op' = [op EXCEPT !.read = @ + 1, !.write = @ + 1] /\ source' = source
  <2>1. /\ op' \in [kind : {"sweep"}, max : Nat, read : Nat \ {0}, write : Nat \ {0}]
        /\ op'.kind = "sweep" /\ op'.read = k + 1 /\ op'.write = w + 1
    <3> DEFINE one == [op EXCEPT !.read = @ + 1]
    <3>1. /\ one \in [kind : {"sweep"}, max : Nat, read : Nat \ {0}, write : Nat \ {0}]
          /\ one.read = k + 1 /\ one.write = w
      BY <1>2
    <3>2. op' = [one EXCEPT !.write = @ + 1]
      BY <1>2, <1>5
    <3> HIDE DEF one
    <3>3. QED
      BY <3>1, <3>2
  <2>2. DrainedInv' /\ SweepInv' /\ Parked' = Parked
    BY <1>1, <1>3, <1>5, <2>1, EntryKept
  <2>3. op' \in OpTypes
    BY <2>1 DEF OpTypes
  <2>4. QED
    BY <1>1, <1>5, <2>2, <2>3, SameInUse
<1>6. QED
  BY <1>4, <1>5 DEF SweepEntry

LEMMA SweepDoneStep ==
    ASSUME IInv, SweepDone
    PROVE  IInv'
<1>1. /\ TypeOK /\ DrainedInv /\ SweepInv /\ op.kind = "sweep" /\ op' = NoOp
      /\ drained' = SubSeq(drained, 1, op.write - 1) /\ op.read > Len(drained)
      /\ UNCHANGED <<source, class, used, current, partials>>
      /\ source \in SUBSET Pages /\ source \cap Parked = {}
  BY IInvDrained DEF IInv, TypeOK, PagesPartitioned, SweepDone
<1>2. op.read \in Nat /\ op.write \in Nat \ {0}
  BY <1>1, SweepType
<1>3. op' \in OpTypes /\ op'.kind # "sweep"
  BY <1>1 DEF OpTypes, NoOp
<1>4. DrainedInv' /\ SweepInv' /\ Parked' = Parked
  BY <1>1, <1>2, <1>3, ArrayCut
<1>5. QED
  BY <1>1, <1>3, <1>4, SameInUse

-----------------------------------------------------------------------------

LEMMA NextIInv ==
    ASSUME IInv, [Next]_vars
    PROVE  IInv'
<1>1. ASSUME NEW c \in Classes, NEW n \in 1 .. MaxBatch, AllocBatch(c, n) PROVE IInv'
  <2>1. op' \in OpTypes /\ op.kind # "sweep" /\ op'.kind # "sweep" /\ UNCHANGED drained
    BY <1>1 DEF AllocBatch, OpTypes, NoOp
  <2>2. Entries' = Entries /\ SweepInv'
    BY <2>1, SameEntries
  <2>3. QED
    BY <1>1, <2>1, <2>2, QuietStep DEF AllocBatch
<1>2. ASSUME NEW m \in {0, MaxIdle}, SweepIdle(m) PROVE IInv'
  <2>1. /\ op' \in OpTypes /\ UNCHANGED drained /\ op.kind # "sweep"
        /\ op'.kind = "sweep" /\ op'.read = 1 /\ op'.write = 1
    BY <1>2, BoundsAssumption DEF SweepIdle, OpTypes, NoOp
  <2>2. Len(drained) \in Nat /\ DOMAIN drained = 1 .. Len(drained)
    BY IInvDrained DEF DrainedInv
  <2>3. Entries' = Entries /\ SweepInv'
    BY <2>1, <2>2 DEF Entries, SweepInv
  <2>4. QED
    BY <1>2, <2>1, <2>3, QuietStep DEF SweepIdle
<1>3. CASE UNCHANGED vars
  <2>1. op' \in OpTypes /\ Entries' = Entries /\ SweepInv'
    BY <1>3 DEF IInv, TypeOK, vars, Entries, SweepInv
  <2>2. QED
    BY <1>3, <2>1, QuietStep DEF vars
<1>4. QED
  BY <1>1, <1>2, <1>3, TryCurrentStep, TryPartialsStep, AcquireFreshPageStep,
     FreeStep, SweepEntryStep, SweepDoneStep DEF Next

\* A page is in exactly one place, whatever the pages, the classes, the
\* capacities and the bounds: v8m_slab_pool_alloc_batch, v8m_slab_pool_free
\* and the sweeps of the drained cache neither lose a page, nor release one
\* twice, nor release one that still has an object in use.
THEOREM PagesArePartitioned == Spec => []PagesPartitioned
<1>1. Init => IInv
  BY InitIInv
<1>2. IInv /\ [Next]_vars => IInv'
  BY NextIInv
<1>3. IInv => PagesPartitioned
  BY DEF IInv
<1>4. QED
  BY <1>1, <1>2, <1>3, PTL DEF Spec

\* The lists of a class hold pages of that class only, each once, and those
\* among the partials have a free slot: the branch of TryPartials that drops
\* a full page is never taken, in the code a defence and no more.
THEOREM ListsAreSound == Spec => []ListsSound
<1>1. Init => IInv
  BY InitIInv
<1>2. IInv /\ [Next]_vars => IInv'
  BY NextIInv
<1>3. IInv => ListsSound
  BY ListsEquiv DEF IInv
<1>4. QED
  BY <1>1, <1>2, <1>3, PTL DEF Spec

\* A page in use that has a free slot can be reached from its class: no
\* order of batches and frees makes v8m_slab_pool_free forget one.
THEOREM NoPageIsStranded == Spec => []NoStrandedPage
<1>1. Init => IInv
  BY InitIInv
<1>2. IInv /\ [Next]_vars => IInv'
  BY NextIInv
<1>3. IInv => NoStrandedPage
  BY DEF IInv
<1>4. QED
  BY <1>1, <1>2, <1>3, PTL DEF Spec
=============================================================================
