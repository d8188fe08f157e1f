-------------------------- MODULE LargeCacheProofs --------------------------
(***************************************************************************)
(* The proofs about LargeCache: for any threads, regions, requests and     *)
(* capacity of the cache, every mapped region is in one place, goes with   *)
(* its own size, and is counted under the class it was allocated for.      *)
(***************************************************************************)
EXTENDS LargeCache, SetLemmas

-----------------------------------------------------------------------------
\* Lists of entries

LEMMA SeqBasics ==
    ASSUME NEW s \in Seq(Entries)
    PROVE  /\ Len(s) \in Nat /\ DOMAIN s = 1 .. Len(s)
           /\ \A i \in 1 .. Len(s) : s[i] \in Entries /\ s[i].r \in Regions /\ s[i].size \in Sizes
           /\ RegionsOf(s) \subseteq Regions
           /\ Range(s) = {s[i] : i \in 1 .. Len(s)}
<1>1. Len(s) \in Nat /\ DOMAIN s = 1 .. Len(s) /\ \A i \in 1 .. Len(s) : s[i] \in Entries
  <2> HIDE DEF Entries
  <2> QED OBVIOUS
<1>2. QED
  BY <1>1 DEF Entries, RegionsOf, Range

\* large_cache_take: an entry leaves its slot to the last one.
LEMMA SlotEmptied ==
    ASSUME NEW s \in Seq(Entries), Distinct(s), NEW i \in 1 .. Len(s)
    PROVE  /\ WithoutSlot(s, i) \in Seq(Entries) /\ Len(WithoutSlot(s, i)) = Len(s) - 1
           /\ Distinct(WithoutSlot(s, i))
           /\ RegionsOf(WithoutSlot(s, i)) = RegionsOf(s) \ {s[i].r}
           /\ Range(WithoutSlot(s, i)) \subseteq Range(s)
<1> DEFINE w == WithoutSlot(s, i)
           from(j) == IF j = i THEN Len(s) ELSE j
<1>1. /\ Len(s) \in Nat /\ DOMAIN s = 1 .. Len(s) /\ \A j \in 1 .. Len(s) : s[j] \in Entries
      /\ Range(s) = {s[j] : j \in 1 .. Len(s)}
  BY SeqBasics
<1> HIDE DEF Entries
<1>2. \A j \in 1 .. Len(s) - 1 : from(j) \in 1 .. Len(s) /\ from(j) # i
  BY <1>1
<1>3. w = [j \in 1 .. Len(s) - 1 |-> s[from(j)]]
  BY DEF WithoutSlot
<1>4. w \in Seq(Entries) /\ Len(w) = Len(s) - 1 /\ DOMAIN w = 1 .. Len(s) - 1
  <2>1. Len(s) - 1 \in Nat
    BY <1>1
  <2>2. w \in [1 .. Len(s) - 1 -> Entries]
    BY <1>1, <1>2, <1>3
  <2> HIDE DEF w
  <2>3. QED
    BY <2>1, <2>2
<1> HIDE DEF w
<1>5. \A j \in 1 .. Len(s) - 1 : w[j] = s[from(j)]
  BY <1>3
<1>6. Distinct(w)
  <2>1. ASSUME NEW j \in DOMAIN w, NEW k \in DOMAIN w, w[j].r = w[k].r
        PROVE  j = k
    <3>1. /\ j \in 1 .. Len(s) - 1 /\ k \in 1 .. Len(s) - 1
          /\ from(j) \in DOMAIN s /\ from(k) \in DOMAIN s
      BY <1>1, <1>2, <1>4, <2>1
    <3>2. s[from(j)].r = s[from(k)].r
      BY <1>5, <2>1, <3>1
    <3>3. from(j) = from(k)
      BY <3>1, <3>2 DEF Distinct
    <3>4. QED
      BY <1>1, <3>1, <3>3
  <2>2. QED
    BY <2>1 DEF Distinct
<1>7. RegionsOf(w) = RegionsOf(s) \ {s[i].r}
  <2>1. \A j \in 1 .. Len(s) : j # i => \E k \in 1 .. Len(s) - 1 : from(k) = j
    <3>1. ASSUME NEW j \in 1 .. Len(s), j # i
          PROVE  \E k \in 1 .. Len(s) - 1 : from(k) = j
      <4>1. Len(s) \in Nat
        BY <1>1
      <4>2. CASE j = Len(s)
        <5>1. i \in 1 .. Len(s) - 1 /\ from(i) = j
          BY <3>1, <4>1, <4>2
        <5>2. QED
          BY <5>1
      <4>3. CASE j # Len(s)
        <5>1. j \in 1 .. Len(s) - 1 /\ from(j) = j
          BY <3>1, <4>1, <4>3
        <5>2. QED
          BY <5>1
      <4>4. QED
        BY <4>2, <4>3
    <3>2. QED
      BY <3>1
  <2>2. ASSUME NEW x \in RegionsOf(w) PROVE x \in RegionsOf(s) \ {s[i].r}
    <3>1. PICK j \in 1 .. Len(s) - 1 : x = s[from(j)].r
      BY <1>4, <1>5, <2>2 DEF RegionsOf
    <3>2. from(j) \in DOMAIN s /\ i \in DOMAIN s /\ from(j) # i
      BY <1>1, <1>2
    <3>3. QED
      BY <3>1, <3>2 DEF RegionsOf, Distinct
  <2>3. ASSUME NEW x \in RegionsOf(s) \ {s[i].r} PROVE x \in RegionsOf(w)
    <3>1. PICK j \in 1 .. Len(s) : x = s[j].r /\ j # i
      BY <1>1, <2>3 DEF RegionsOf
    <3>2. PICK k \in 1 .. Len(s) - 1 : from(k) = j
      BY <2>1, <3>1
    <3>3. QED
      BY <1>4, <1>5, <3>1, <3>2 DEF RegionsOf
  <2>4. QED
    BY <2>2, <2>3
<1>8. Range(w) \subseteq Range(s)
  BY <1>1, <1>2, <1>4, <1>5 DEF Range
<1>9. QED
  BY <1>4, <1>6, <1>7, <1>8 DEF w

\* The first entry leaves: an eviction, or one more region unmapped.
LEMMA FirstGone ==
    ASSUME NEW s \in Seq(Entries), Distinct(s), s # <<>>
    PROVE  /\ 1 \in 1 .. Len(s) /\ s[1] \in Entries /\ s[1].r \in RegionsOf(s) /\ s[1] \in Range(s)
           /\ Tail(s) \in Seq(Entries) /\ Len(Tail(s)) = Len(s) - 1
           /\ Distinct(Tail(s))
           /\ RegionsOf(Tail(s)) = RegionsOf(s) \ {s[1].r}
           /\ Range(Tail(s)) \subseteq Range(s)
           /\ Len(s) = 1 => RegionsOf(s) = {s[1].r}
<1> DEFINE w == Tail(s)
<1>1. /\ Len(s) \in Nat /\ DOMAIN s = 1 .. Len(s) /\ \A j \in 1 .. Len(s) : s[j] \in Entries
      /\ Range(s) = {s[j] : j \in 1 .. Len(s)}
  BY SeqBasics
<1> HIDE DEF Entries
<1>2. Len(s) >= 1
  BY <1>1
<1>3. /\ w \in Seq(Entries) /\ Len(w) = Len(s) - 1 /\ DOMAIN w = 1 .. Len(s) - 1
      /\ \A j \in 1 .. Len(s) - 1 : w[j] = s[j + 1]
  BY <1>1, <1>2
<1> HIDE DEF w
<1>4. Distinct(w)
  <2>1. ASSUME NEW j \in DOMAIN w, NEW k \in DOMAIN w, w[j].r = w[k].r
        PROVE  j = k
    <3>1. /\ j \in Int /\ k \in Int /\ j + 1 \in DOMAIN s /\ k + 1 \in DOMAIN s
          /\ s[j + 1].r = s[k + 1].r
      BY <1>1, <1>3, <2>1
    <3>2. j + 1 = k + 1
      BY <3>1 DEF Distinct
    <3>3. QED
      BY <3>1, <3>2
  <2>2. QED
    BY <2>1 DEF Distinct
<1>5. RegionsOf(w) = RegionsOf(s) \ {s[1].r}
  <2>1. ASSUME NEW x \in RegionsOf(w) PROVE x \in RegionsOf(s) \ {s[1].r}
    <3>1. PICK j \in 1 .. Len(s) - 1 : x = s[j + 1].r
      BY <1>3, <2>1 DEF RegionsOf
    <3>2. j + 1 \in DOMAIN s /\ 1 \in DOMAIN s /\ j + 1 # 1
      BY <1>1, <1>2
    <3>3. QED
      BY <3>1, <3>2 DEF RegionsOf, Distinct
  <2>2. ASSUME NEW x \in RegionsOf(s) \ {s[1].r} PROVE x \in RegionsOf(w)
    <3>1. PICK j \in 1 .. Len(s) : x = s[j].r /\ j # 1
      BY <1>1, <2>2 DEF RegionsOf
    <3>2. j - 1 \in 1 .. Len(s) - 1 /\ (j - 1) + 1 = j
      BY <1>1, <3>1
    <3>3. w[j - 1] = s[j]
      BY <1>3, <3>2
    <3>4. QED
      BY <1>3, <3>1, <3>2, <3>3 DEF RegionsOf
  <2>3. QED
    BY <2>1, <2>2
<1>6. Range(w) \subseteq Range(s)
  BY <1>1, <1>3 DEF Range
<1>7. Len(s) = 1 => RegionsOf(s) = {s[1].r}
  BY <1>1 DEF RegionsOf
<1>8. 1 \in 1 .. Len(s) /\ s[1] \in Entries /\ s[1].r \in RegionsOf(s) /\ s[1] \in Range(s)
  <2>1. 1 \in 1 .. Len(s)
    BY <1>1, <1>2
  <2>2. QED
    BY <1>1, <2>1 DEF RegionsOf
<1>9. QED
  BY <1>3, <1>4, <1>5, <1>6, <1>7, <1>8 DEF w

\* An entry goes to the end of a list that does not have its region.
LEMMA EntryAdded ==
    ASSUME NEW s \in Seq(Entries), Distinct(s), NEW e \in Entries, e.r \notin RegionsOf(s)
    PROVE  /\ Append(s, e) \in Seq(Entries) /\ Len(Append(s, e)) = Len(s) + 1
           /\ Distinct(Append(s, e))
           /\ RegionsOf(Append(s, e)) = RegionsOf(s) \cup {e.r}
           /\ Range(Append(s, e)) = Range(s) \cup {e}
<1> DEFINE w == Append(s, e)
<1>1. /\ Len(s) \in Nat /\ DOMAIN s = 1 .. Len(s) /\ \A j \in 1 .. Len(s) : s[j] \in Entries
      /\ Range(s) = {s[j] : j \in 1 .. Len(s)}
  BY SeqBasics
<1> HIDE DEF Entries
<1>2. /\ w \in Seq(Entries) /\ Len(w) = Len(s) + 1 /\ DOMAIN w = 1 .. Len(s) + 1
      /\ \A j \in 1 .. Len(s) : w[j] = s[j]
      /\ w[Len(s) + 1] = e
  BY <1>1
<1> HIDE DEF w
<1>3. Distinct(w)
  BY <1>1, <1>2 DEF Distinct, RegionsOf
<1>4. RegionsOf(w) = RegionsOf(s) \cup {e.r}
  BY <1>1, <1>2 DEF RegionsOf
<1>5. Range(w) = Range(s) \cup {e}
  BY <1>1, <1>2 DEF Range
<1>6. QED
  BY <1>2, <1>3, <1>4, <1>5 DEF w

\* A list of one entry, and the empty list.
LEMMA ShortLists ==
    /\ <<>> \in Seq(Entries) /\ RegionsOf(<<>>) = {} /\ Distinct(<<>>) /\ Range(<<>>) = {}
    /\ \A e \in Entries :
          /\ <<e>> \in Seq(Entries) /\ <<e>> # <<>> /\ Len(<<e>>) = 1 /\ <<e>>[1] = e
          /\ RegionsOf(<<e>>) = {e.r} /\ Distinct(<<e>>) /\ Range(<<e>>) = {e}
<1> HIDE DEF Entries
<1>1. <<>> \in Seq(Entries) /\ RegionsOf(<<>>) = {} /\ Distinct(<<>>) /\ Range(<<>>) = {}
  BY DEF RegionsOf, Distinct, Range
<1>2. ASSUME NEW e \in Entries
      PROVE  /\ <<e>> \in Seq(Entries) /\ <<e>> # <<>> /\ Len(<<e>>) = 1 /\ <<e>>[1] = e
             /\ RegionsOf(<<e>>) = {e.r} /\ Distinct(<<e>>) /\ Range(<<e>>) = {e}
  BY DEF RegionsOf, Distinct, Range
<1>3. QED
  BY <1>1, <1>2

-----------------------------------------------------------------------------
\* The invariant

\* What a job has in hand.
Hand(j) ==
    IF j.pc \in {"idle", "map"} THEN <<>>
    ELSE IF j.pc = "stamp" THEN <<Entry(j.r, j.size)>>
    ELSE j.todo

\* The regions outside the other threads' hands.
Near(t) == held \cup RegionsOf(cache) \cup RegionsOf(InHand(t))

Placed ==
    /\ \A r \in Regions : mapped[r] # Unmapped <=>
          r \in held \cup RegionsOf(cache) \/ \E t \in Threads : r \in RegionsOf(InHand(t))
    /\ Distinct(cache) /\ held \cap RegionsOf(cache) = {}
    /\ \A t \in Threads :
          /\ Distinct(InHand(t))
          /\ RegionsOf(InHand(t)) \cap (held \cup RegionsOf(cache)) = {}
          /\ \A u \in Threads \ {t} : RegionsOf(InHand(t)) \cap RegionsOf(InHand(u)) = {}

\* A free that reaches the cache has one region, without a guard page.
JobInv ==
    \A t \in Threads : job[t].pc = "put" =>
        Len(job[t].todo) = 1 /\ mapped[job[t].todo[1].r].guard = 0

HeldInv == IsFiniteSet(held) /\ \A r \in held : meta[r].size > 0

IInv == TypeOK /\ Placed /\ SizesAgree /\ BytesInUseExact /\ JobInv /\ HeldInv

LEMMA InvariantsNamed == IInv => RegionsPartitioned /\ SizesAgree /\ BytesInUseExact
  BY DEF IInv, Placed, RegionsPartitioned

LEMMA InitIInv == Init => IInv
<1> SUFFICES ASSUME Init PROVE IInv
  OBVIOUS
<1>1. TypeOK
  <2>1. cache \in Seq(Entries) /\ Len(cache) = 0
    BY ShortLists DEF Init
  <2>2. Unmapped \in [size : Nat, guard : {0, 1}]
    BY DEF Unmapped
  <2>3. NoMeta \in [magic : BOOLEAN, tag : Tags, size : Nat, guard : {0, 1}]
    BY DEF NoMeta, Tags
  <2>4. NoJob \in Jobs
    BY DEF Jobs
  <2>5. Len(cache) <= Cap
    BY <2>1, LargeAssumption
  <2>6. QED
    BY <2>1, <2>2, <2>3, <2>4, <2>5 DEF Init, TypeOK
<1>2. cache = <<>> /\ held = {} /\ \A t \in Threads : InHand(t) = <<>> /\ job[t].pc = "idle"
  BY DEF Init, InHand, NoJob
<1>3. Placed
  BY <1>2, ShortLists DEF Placed, Init
<1>4. SizesAgree
  BY <1>2, ShortLists DEF SizesAgree
<1>5. BytesInUseExact
  <2>1. \A tag \in Tags : bytes[tag] = 0 /\ {r \in held : meta[r].tag = tag} = {}
    BY <1>2 DEF Init
  <2>2. QED
    BY <2>1, SumEmpty DEF BytesInUseExact
<1>6. JobInv /\ HeldInv
  BY <1>2, FS_EmptySet DEF JobInv, HeldInv
<1>7. QED
  BY <1>1, <1>3, <1>4, <1>5, <1>6 DEF IInv

\* What is known of a call from the place it is at.
LEMMA JobKinds ==
    ASSUME TypeOK, NEW t \in Threads
    PROVE  /\ job[t] \in Jobs /\ InHand(t) = Hand(job[t])
           /\ job[t].pc \in {"idle", "map", "stamp", "put", "unmap"}
           /\ job[t].pc = "map" => job[t] \in [pc : {"map"}, tag : Tags, size : Sizes, guard : {0, 1}]
           /\ job[t].pc = "stamp" =>
                 job[t] \in [pc : {"stamp"}, tag : Tags, size : Sizes, guard : {0, 1}, r : Regions]
           /\ job[t].pc \in {"put", "unmap"} =>
                 job[t] \in [pc : {"put", "unmap"}, todo : Seq(Entries) \ {<<>>}]
<1>1. job[t] \in Jobs
  BY DEF TypeOK
<1>2. InHand(t) = Hand(job[t])
  BY DEF InHand, Hand
<1> HIDE DEF Entries, Sizes, Tags
<1>3. QED
  BY <1>1, <1>2 DEF Jobs, NoJob

\* A hand is a list of entries.
LEMMA HandIsList ==
    ASSUME NEW j \in Jobs
    PROVE  Hand(j) \in Seq(Entries) /\ RegionsOf(Hand(j)) \subseteq Regions
<1>1. CASE j = NoJob
  BY <1>1, ShortLists DEF Hand, NoJob
<1>2. CASE j \in [pc : {"map"}, tag : Tags, size : Sizes, guard : {0, 1}]
  BY <1>2, ShortLists DEF Hand
<1>3. CASE j \in [pc : {"stamp"}, tag : Tags, size : Sizes, guard : {0, 1}, r : Regions]
  <2>1. Entry(j.r, j.size) \in Entries /\ Hand(j) = <<Entry(j.r, j.size)>>
    BY <1>3 DEF Hand, Entry, Entries
  <2>2. Hand(j) \in Seq(Entries)
    BY <2>1, ShortLists
  <2>3. QED
    BY <2>2, SeqBasics
<1>4. CASE j \in [pc : {"put", "unmap"}, todo : Seq(Entries) \ {<<>>}]
  <2> HIDE DEF Entries
  <2>1. Hand(j) \in Seq(Entries)
    BY <1>4 DEF Hand
  <2>2. QED
    BY <2>1, SeqBasics
<1>5. QED
  BY <1>1, <1>2, <1>3, <1>4 DEF Jobs

\* A step of thread t leaves the others with what they have.
LEMMA Others ==
    ASSUME TypeOK, NEW t \in Threads, NEW j, job' = [job EXCEPT ![t] = j]
    PROVE  /\ job'[t] = j /\ InHand(t)' = Hand(j)
           /\ \A u \in Threads \ {t} : job'[u] = job[u] /\ InHand(u)' = InHand(u)
<1>1. job'[t] = j /\ \A u \in Threads \ {t} : job'[u] = job[u]
  BY DEF TypeOK
<1>2. QED
  BY <1>1 DEF InHand, Hand

\* The regions move between the callers, the cache and thread t, and may be
\* mapped or unmapped on the way; the other threads' regions stay.
LEMMA Moves ==
    ASSUME IInv, NEW t \in Threads, NEW j \in Jobs, job' = [job EXCEPT ![t] = j],
           NEW near, near = held' \cup RegionsOf(cache)' \cup RegionsOf(Hand(j)),
           near \subseteq Regions,
           Distinct(cache)', Distinct(Hand(j)), held' \cap RegionsOf(cache)' = {},
           RegionsOf(Hand(j)) \cap (held' \cup RegionsOf(cache)') = {},
           \A r \in near : r \in Near(t) \/ mapped[r] = Unmapped,
           \A r \in Regions : r \in near => mapped'[r] # Unmapped,
           \A r \in Near(t) : r \notin near => mapped'[r] = Unmapped,
           \A r \in Regions : r \notin Near(t) \cup near => mapped'[r] = mapped[r]
    PROVE  Placed'
<1>1. /\ InHand(t)' = Hand(j)
      /\ \A u \in Threads \ {t} : RegionsOf(InHand(u))' = RegionsOf(InHand(u))
                                  /\ Distinct(InHand(u))' /\ InHand(u)' = InHand(u)
  <2>1. InHand(t)' = Hand(j) /\ \A u \in Threads \ {t} : InHand(u)' = InHand(u)
    BY Others DEF IInv
  <2>2. QED
    BY <2>1 DEF RegionsOf, Distinct, IInv, Placed
<1>2. RegionsOf(InHand(t))' = RegionsOf(Hand(j)) /\ Distinct(InHand(t))'
  BY <1>1 DEF RegionsOf, Distinct
<1>3. \A u \in Threads \ {t} : RegionsOf(InHand(u)) \cap (Near(t) \cup near) = {}
  <2>1. ASSUME NEW u \in Threads \ {t}, NEW r \in RegionsOf(InHand(u))
        PROVE  r \in Regions /\ mapped[r] # Unmapped /\ r \notin Near(t)
    <3>1. r \in Regions
      BY <2>1, JobKinds, HandIsList DEF IInv
    <3>2. QED
      BY <2>1, <3>1 DEF IInv, Placed, Near
  <2>2. QED
    BY <2>1
<1>4. ASSUME NEW r \in Regions
      PROVE  mapped'[r] # Unmapped <=>
                r \in held' \cup RegionsOf(cache)' \/ \E u \in Threads : r \in RegionsOf(InHand(u))'
  <2>1. (\E u \in Threads : r \in RegionsOf(InHand(u))') <=>
           r \in RegionsOf(Hand(j)) \/ \E u \in Threads \ {t} : r \in RegionsOf(InHand(u))
    BY <1>1, <1>2
  <2>2. mapped[r] # Unmapped <=> r \in Near(t) \/ \E u \in Threads \ {t} : r \in RegionsOf(InHand(u))
    BY DEF IInv, Placed, Near
  <2>3. CASE r \in near
    BY <2>1, <2>3
  <2>4. CASE r \notin near
    BY <1>3, <2>1, <2>2, <2>4
  <2>5. QED
    BY <2>3, <2>4
<1>5. ASSUME NEW u \in Threads
      PROVE  /\ Distinct(InHand(u))'
             /\ RegionsOf(InHand(u))' \cap (held' \cup RegionsOf(cache)') = {}
             /\ \A v \in Threads \ {u} : RegionsOf(InHand(u))' \cap RegionsOf(InHand(v))' = {}
  <2>1. CASE u = t
    BY <1>1, <1>2, <1>3, <2>1
  <2>2. CASE u # t
    <3>1. \A v \in Threads \ {u, t} : RegionsOf(InHand(u)) \cap RegionsOf(InHand(v)) = {}
      BY DEF IInv, Placed
    <3>2. QED
      BY <1>1, <1>2, <1>3, <2>2, <3>1
  <2>3. QED
    BY <2>1, <2>2
<1>6. QED
  BY <1>4, <1>5 DEF Placed

\* The same for the sizes: what the other threads have in hand is mapped as
\* it was.
LEMMA SizesMove ==
    ASSUME IInv, NEW t \in Threads, NEW j \in Jobs, job' = [job EXCEPT ![t] = j],
           \A e \in Range(cache') : mapped'[e.r] = [size |-> e.size, guard |-> 0],
           \A r \in held' : mapped'[r] = [size |-> meta'[r].size, guard |-> meta'[r].guard],
           \A e \in Range(Hand(j)) : mapped'[e.r].size = e.size,
           j.pc = "stamp" => mapped'[j.r].guard = j.guard,
           j.pc = "put" => Len(j.todo) = 1 /\ mapped'[j.todo[1].r].guard = 0,
           \A r \in Regions : r \notin Near(t) /\ mapped[r] # Unmapped => mapped'[r] = mapped[r]
    PROVE  SizesAgree' /\ JobInv'
<1>1. /\ job'[t] = j /\ InHand(t)' = Hand(j)
      /\ \A u \in Threads \ {t} : job'[u] = job[u] /\ InHand(u)' = InHand(u)
  BY Others DEF IInv
<1>2. ASSUME NEW u \in Threads \ {t}, NEW r \in RegionsOf(InHand(u))
      PROVE  mapped'[r] = mapped[r]
  <2>1. r \in Regions
    BY <1>2, JobKinds, HandIsList DEF IInv
  <2>2. mapped[r] # Unmapped /\ r \notin Near(t)
    BY <1>2, <2>1 DEF IInv, Placed, Near
  <2>3. QED
    BY <2>1, <2>2
<1>3. ASSUME NEW u \in Threads \ {t}, NEW e \in Range(InHand(u))
      PROVE  mapped'[e.r].size = e.size
  <2>1. e.r \in RegionsOf(InHand(u)) /\ mapped[e.r].size = e.size
    BY <1>3 DEF Range, RegionsOf, IInv, SizesAgree
  <2>2. QED
    BY <1>2, <2>1
<1>4. ASSUME NEW u \in Threads \ {t}, job[u].pc = "stamp"
      PROVE  mapped'[job[u].r].guard = job[u].guard
  <2>1. InHand(u) = <<Entry(job[u].r, job[u].size)>>
    BY <1>4 DEF InHand
  <2>2. job[u].r \in RegionsOf(InHand(u))
    <3>1. Entry(job[u].r, job[u].size) \in Entries /\ Entry(job[u].r, job[u].size).r = job[u].r
      BY <1>4, JobKinds DEF IInv, Entries, Entry
    <3>2. QED
      BY <2>1, <3>1, ShortLists
  <2>3. QED
    BY <1>2, <1>4, <2>2 DEF IInv, SizesAgree
<1>5. ASSUME NEW u \in Threads \ {t}, job[u].pc = "put"
      PROVE  Len(job[u].todo) = 1 /\ mapped'[job[u].todo[1].r].guard = 0
  <2>1. InHand(u) = job[u].todo /\ job[u].todo \in Seq(Entries)
    BY <1>5, JobKinds DEF InHand, IInv
  <2>2. Len(job[u].todo) = 1 /\ mapped[job[u].todo[1].r].guard = 0
    BY <1>5 DEF IInv, JobInv
  <2>3. job[u].todo[1].r \in RegionsOf(InHand(u))
    BY <2>1, <2>2, SeqBasics DEF RegionsOf
  <2>4. QED
    BY <1>2, <2>2, <2>3
<1>6. SizesAgree'
  <2>1. \A u \in Threads : \A e \in Range(InHand(u)') : mapped'[e.r].size = e.size
    BY <1>1, <1>3
  <2>2. \A u \in Threads : job'[u].pc = "stamp" => mapped'[job'[u].r].guard = job'[u].guard
    BY <1>1, <1>4
  <2>3. QED
    BY <2>1, <2>2 DEF SizesAgree
<1>7. JobInv'
  BY <1>1, <1>5 DEF JobInv
<1>8. QED
  BY <1>6, <1>7

\* Steps that leave the headers, the counters and the callers alone.
LEMMA CountsStay ==
    ASSUME IInv, UNCHANGED <<meta, bytes, held>>
    PROVE  BytesInUseExact' /\ HeldInv'
  BY DEF IInv, BytesInUseExact, HeldInv

\* The facts about the regions near a thread that the steps use.
LEMMA NearFacts ==
    ASSUME IInv, NEW t \in Threads
    PROVE  /\ cache \in Seq(Entries) /\ Distinct(cache) /\ RegionsOf(cache) \subseteq Regions
           /\ InHand(t) = Hand(job[t]) /\ job[t] \in Jobs /\ Distinct(InHand(t))
           /\ InHand(t) \in Seq(Entries) /\ RegionsOf(InHand(t)) \subseteq Regions
           /\ held \subseteq Regions /\ held \cap RegionsOf(cache) = {}
           /\ RegionsOf(InHand(t)) \cap (held \cup RegionsOf(cache)) = {}
           /\ \A r \in Near(t) : r \in Regions /\ mapped[r] # Unmapped
<1>1. /\ cache \in Seq(Entries) /\ InHand(t) = Hand(job[t]) /\ job[t] \in Jobs
      /\ held \subseteq Regions
  BY JobKinds DEF IInv, TypeOK
<1>2. /\ RegionsOf(cache) \subseteq Regions
      /\ InHand(t) \in Seq(Entries) /\ RegionsOf(InHand(t)) \subseteq Regions
  BY <1>1, SeqBasics, HandIsList
<1>3. \A r \in Near(t) : r \in Regions /\ mapped[r] # Unmapped
  BY <1>1, <1>2 DEF IInv, Placed, Near
<1>4. QED
  BY <1>1, <1>2, <1>3 DEF IInv, Placed

LEMMA UnmapJob ==
    ASSUME NEW s \in Seq(Entries), s # <<>>
    PROVE  /\ [pc |-> "unmap", todo |-> s] \in Jobs
           /\ Hand([pc |-> "unmap", todo |-> s]) = s
<1> DEFINE j == [pc |-> "unmap", todo |-> s]
<1>1. j \in [pc : {"put", "unmap"}, todo : Seq(Entries) \ {<<>>}]
  <2>1. s \in Seq(Entries) \ {<<>>}
    OBVIOUS
  <2> DEFINE L == Seq(Entries) \ {<<>>}
  <2>2. s \in L
    BY <2>1
  <2> HIDE DEF L
  <2>3. j \in [pc : {"put", "unmap"}, todo : L]
    BY <2>2
  <2>4. QED
    BY <2>3 DEF L
<1>2. Hand(j) = s
  BY DEF Hand
<1>3. QED
  BY <1>1, <1>2 DEF Jobs

-----------------------------------------------------------------------------
\* The steps

\* The option has no part in the invariant.
LEMMA OptionStep ==
    ASSUME IInv, UNCHANGED <<mapped, meta, cache, bytes, job, held>>, debug' \in BOOLEAN
    PROVE  IInv'
<1>1. /\ mapped' = mapped /\ meta' = meta /\ cache' = cache /\ bytes' = bytes
      /\ job' = job /\ held' = held
  OBVIOUS
<1>2. TypeOK'
  BY <1>1 DEF IInv, TypeOK
<1>3. Placed'
  <2>1. \A t \in Threads : InHand(t)' = InHand(t)
    BY <1>1 DEF InHand
  <2>2. \A t \in Threads : /\ RegionsOf(InHand(t))' = RegionsOf(InHand(t))
                           /\ Distinct(InHand(t))' <=> Distinct(InHand(t))
    BY <2>1 DEF RegionsOf, Distinct
  <2>3. RegionsOf(cache)' = RegionsOf(cache) /\ (Distinct(cache)' <=> Distinct(cache))
    BY <1>1 DEF RegionsOf, Distinct
  <2>4. mapped' = mapped /\ held' = held /\ Placed
    BY <1>1 DEF IInv
  <2>5. QED
    BY <2>2, <2>3, <2>4 DEF Placed
<1>4. SizesAgree' /\ JobInv'
  BY <1>1 DEF IInv, SizesAgree, JobInv, InHand
<1>5. QED
  BY <1>1, <1>2, <1>3, <1>4, CountsStay DEF IInv

\* An allocation takes a region of the cache.
LEMMA TakeStep ==
    ASSUME IInv, NEW t \in Threads, NEW i \in DOMAIN cache, NEW tag \in Tags, job[t] = NoJob,
           job' = [job EXCEPT ![t] = [pc |-> "stamp", tag |-> tag, size |-> cache[i].size,
                                      guard |-> 0, r |-> cache[i].r]],
           cache' = WithoutSlot(cache, i), UNCHANGED <<mapped, meta, bytes, debug, held>>
    PROVE  IInv'
<1> DEFINE e == cache[i]
           j == [pc |-> "stamp", tag |-> tag, size |-> e.size, guard |-> 0, r |-> e.r]
<1>1. /\ cache \in Seq(Entries) /\ Distinct(cache) /\ RegionsOf(cache) \subseteq Regions
      /\ held \subseteq Regions /\ held \cap RegionsOf(cache) = {}
      /\ \A r \in Near(t) : r \in Regions /\ mapped[r] # Unmapped
  BY NearFacts
<1>2. i \in 1 .. Len(cache) /\ e \in Entries /\ e.r \in Regions /\ e.size \in Sizes /\ Len(cache) \in Nat
  BY <1>1, SeqBasics
<1>3. e.r \in RegionsOf(cache) /\ e \in Range(cache)
  BY DEF RegionsOf, Range
<1>4. mapped[e.r] = [size |-> e.size, guard |-> 0]
  BY <1>3 DEF IInv, SizesAgree
<1> HIDE DEF e
<1>5. /\ j \in Jobs /\ j.pc = "stamp" /\ j.r = e.r /\ j.size = e.size /\ j.guard = 0
      /\ job' = [job EXCEPT ![t] = j]
  BY <1>2 DEF Jobs, e
<1> HIDE DEF j
<1>6. Hand(j) = <<Entry(e.r, e.size)>> /\ Entry(e.r, e.size) = e
  BY <1>2, <1>5 DEF Hand, Entry, Entries
<1>7. RegionsOf(Hand(j)) = {e.r} /\ Distinct(Hand(j)) /\ Range(Hand(j)) = {e}
  BY <1>2, <1>6, ShortLists
<1>8. /\ cache' \in Seq(Entries) /\ Len(cache') = Len(cache) - 1 /\ Distinct(cache')
      /\ RegionsOf(cache') = RegionsOf(cache) \ {e.r} /\ Range(cache') \subseteq Range(cache)
  BY <1>1, <1>2, SlotEmptied DEF e
<1>9. TypeOK'
  <2>1. Len(cache') <= Cap
    BY <1>2, <1>8, LargeAssumption DEF IInv, TypeOK
  <2>2. QED
    BY <1>5, <1>8, <2>1 DEF IInv, TypeOK
<1>10. InHand(t) = <<>> /\ Near(t) = held \cup RegionsOf(cache)
  <2>1. InHand(t) = <<>>
    BY DEF InHand, NoJob
  <2>2. QED
    BY <2>1, ShortLists DEF Near
<1> DEFINE near == held' \cup RegionsOf(cache)' \cup RegionsOf(Hand(j))
<1>11. near = Near(t) /\ near \subseteq Regions /\ mapped' = mapped
  BY <1>1, <1>3, <1>7, <1>8, <1>10 DEF RegionsOf
<1>12. Distinct(cache)' /\ RegionsOf(cache)' = RegionsOf(cache) \ {e.r}
  BY <1>8 DEF Distinct, RegionsOf
<1>13. /\ held' \cap RegionsOf(cache)' = {}
       /\ RegionsOf(Hand(j)) \cap (held' \cup RegionsOf(cache)') = {}
  BY <1>1, <1>3, <1>7, <1>12
<1> HIDE DEF near
<1>14. Placed'
  <2>1. /\ \A r \in near : r \in Near(t) \/ mapped[r] = Unmapped
        /\ \A r \in Regions : r \in near => mapped'[r] # Unmapped
        /\ \A r \in Near(t) : r \notin near => mapped'[r] = Unmapped
        /\ \A r \in Regions : r \notin Near(t) \cup near => mapped'[r] = mapped[r]
    BY <1>1, <1>11
  <2>2. QED
    BY <1>5, <1>7, <1>11, <1>12, <1>13, <2>1, Moves DEF near
<1>15. SizesAgree' /\ JobInv'
  <2>1. \A x \in Range(cache') : mapped'[x.r] = [size |-> x.size, guard |-> 0]
    BY <1>8, <1>11 DEF IInv, SizesAgree
  <2>2. \A r \in held' : mapped'[r] = [size |-> meta'[r].size, guard |-> meta'[r].guard]
    BY <1>11 DEF IInv, SizesAgree
  <2>3. /\ \A x \in Range(Hand(j)) : mapped'[x.r].size = x.size
        /\ mapped'[j.r].guard = j.guard
    BY <1>4, <1>5, <1>7, <1>11
  <2>4. QED
    BY <1>5, <1>11, <2>1, <2>2, <2>3, SizesMove
<1>16. QED
  BY <1>9, <1>14, <1>15, CountsStay DEF IInv

\* A thread without a region changes its place only: a miss, or a region that
\* could not be mapped.
LEMMA EmptyHandStep ==
    ASSUME IInv, NEW t \in Threads, NEW j \in Jobs, job[t].pc \in {"idle", "map"},
           j.pc \in {"idle", "map"}, job' = [job EXCEPT ![t] = j],
           UNCHANGED <<mapped, meta, cache, bytes, debug, held>>
    PROVE  IInv'
<1>1. /\ cache \in Seq(Entries) /\ Distinct(cache) /\ RegionsOf(cache) \subseteq Regions
      /\ held \subseteq Regions /\ held \cap RegionsOf(cache) = {}
      /\ \A r \in Near(t) : r \in Regions /\ mapped[r] # Unmapped
  BY NearFacts
<1>2. InHand(t) = <<>> /\ Hand(j) = <<>>
  BY DEF InHand, Hand
<1>3. RegionsOf(<<>>) = {} /\ Distinct(<<>>) /\ Range(<<>>) = {}
  BY ShortLists
<1>4. TypeOK'
  BY DEF IInv, TypeOK
<1> DEFINE near == held' \cup RegionsOf(cache)' \cup RegionsOf(Hand(j))
<1>5. /\ Distinct(cache)' /\ RegionsOf(cache)' = RegionsOf(cache) /\ held' = held
      /\ mapped' = mapped
  BY <1>1 DEF Distinct, RegionsOf
<1>6. near = Near(t) /\ near \subseteq Regions
  BY <1>1, <1>2, <1>3, <1>5 DEF Near
<1> HIDE DEF near
<1>7. Placed'
  <2>1. /\ \A r \in near : r \in Near(t) \/ mapped[r] = Unmapped
        /\ \A r \in Regions : r \in near => mapped'[r] # Unmapped
        /\ \A r \in Near(t) : r \notin near => mapped'[r] = Unmapped
        /\ \A r \in Regions : r \notin Near(t) \cup near => mapped'[r] = mapped[r]
    BY <1>1, <1>5, <1>6
  <2>2. /\ Distinct(Hand(j)) /\ held' \cap RegionsOf(cache)' = {}
        /\ RegionsOf(Hand(j)) \cap (held' \cup RegionsOf(cache)') = {}
    BY <1>1, <1>2, <1>3, <1>5
  <2>3. QED
    BY <1>5, <1>6, <2>1, <2>2, Moves DEF near
<1>8. SizesAgree' /\ JobInv'
  <2>1. \A x \in Range(cache') : mapped'[x.r] = [size |-> x.size, guard |-> 0]
    BY DEF IInv, SizesAgree
  <2>2. \A r \in held' : mapped'[r] = [size |-> meta'[r].size, guard |-> meta'[r].guard]
    BY DEF IInv, SizesAgree
  <2>3. \A x \in Range(Hand(j)) : mapped'[x.r].size = x.size
    BY <1>2, <1>3
  <2>4. QED
    BY <1>5, <2>1, <2>2, <2>3, SizesMove
<1>9. QED
  BY <1>4, <1>7, <1>8, CountsStay DEF IInv

LEMMA AllocBeginStep ==
    ASSUME IInv, NEW t \in Threads, NEW tag \in Tags, NEW size \in Sizes, AllocBegin(t, tag, size)
    PROVE  IInv'
<1>1. job[t] = NoJob /\ job[t].pc = "idle" /\ UNCHANGED <<mapped, meta, bytes, debug, held>>
  BY DEF AllocBegin, NoJob
<1>2. CASE ~ debug /\ \E i \in DOMAIN cache : cache[i].size = size
  <2>1. PICK i \in DOMAIN cache :
           /\ cache[i].size = size
           /\ job' = [job EXCEPT ![t] = [pc |-> "stamp", tag |-> tag, size |-> size,
                                         guard |-> 0, r |-> cache[i].r]]
           /\ cache' = WithoutSlot(cache, i)
    BY <1>2 DEF AllocBegin, Goto, Match
  <2>2. QED
    BY <1>1, <2>1, TakeStep
<1>3. CASE ~ (~ debug /\ \E i \in DOMAIN cache : cache[i].size = size)
  <2> DEFINE guard == IF debug THEN 1 ELSE 0
             j == [pc |-> "map", tag |-> tag, size |-> size + guard, guard |-> guard]
  <2>1. job' = [job EXCEPT ![t] = j] /\ UNCHANGED cache
    BY <1>3 DEF AllocBegin, Goto
  <2>2. guard \in {0, 1} /\ size + guard \in Sizes
    BY DEF Sizes
  <2> HIDE DEF guard
  <2>3. j \in Jobs /\ j.pc = "map"
    BY <2>2 DEF Jobs
  <2>4. QED
    BY <1>1, <2>1, <2>3, EmptyHandStep
<1>4. QED
  BY <1>2, <1>3

LEMMA AllocMapStep ==
    ASSUME IInv, NEW t \in Threads, AllocMap(t)
    PROVE  IInv'
<1>1. job[t].pc = "map" /\ UNCHANGED <<meta, cache, bytes, debug, held>>
  BY DEF AllocMap
<1>2. CASE job' = [job EXCEPT ![t] = NoJob] /\ UNCHANGED mapped
  <2>1. NoJob \in Jobs /\ NoJob.pc = "idle"
    BY DEF Jobs, NoJob
  <2>2. QED
    BY <1>1, <1>2, <2>1, EmptyHandStep
<1>3. ASSUME NEW r \in Regions, mapped[r] = Unmapped,
             mapped' = [mapped EXCEPT ![r] = [size |-> job[t].size, guard |-> job[t].guard]],
             job' = [job EXCEPT ![t] = [pc |-> "stamp", tag |-> job[t].tag, size |-> job[t].size,
                                        guard |-> job[t].guard, r |-> r]]
      PROVE  IInv'
  <2> DEFINE size == job[t].size
             guard == job[t].guard
             j == [pc |-> "stamp", tag |-> job[t].tag, size |-> size, guard |-> guard, r |-> r]
             e == Entry(r, size)
  <2>1. size \in Sizes /\ guard \in {0, 1} /\ job[t].tag \in Tags
    BY <1>1, JobKinds DEF IInv
  <2>2. mapped \in [Regions -> [size : Nat, guard : {0, 1}]]
    BY DEF IInv, TypeOK
  <2>3. /\ mapped'[r] = [size |-> size, guard |-> guard]
        /\ \A x \in Regions \ {r} : mapped'[x] = mapped[x]
    BY <1>3, <2>2
  <2>4. mapped'[r] # Unmapped
    BY <2>1, <2>3 DEF Unmapped, Sizes
  <2>5. TypeOK'
    <3>1. mapped' \in [Regions -> [size : Nat, guard : {0, 1}]]
      BY <1>3, <2>1, <2>2 DEF Sizes
    <3>2. j \in Jobs
      BY <2>1 DEF Jobs
    <3>3. QED
      BY <1>1, <1>3, <3>1, <3>2 DEF IInv, TypeOK
  <2>6. e \in Entries /\ e.r = r /\ e.size = size
    BY <2>1 DEF Entry, Entries
  <2>7. /\ j \in Jobs /\ j.pc = "stamp" /\ j.r = r /\ j.guard = guard /\ Hand(j) = <<e>>
        /\ job' = [job EXCEPT ![t] = j]
    BY <1>3, <2>1 DEF Jobs, Hand
  <2> HIDE DEF e, j, size, guard
  <2>8. RegionsOf(Hand(j)) = {r} /\ Distinct(Hand(j)) /\ Range(Hand(j)) = {e}
    BY <2>6, <2>7, ShortLists
  <2>9. /\ cache \in Seq(Entries) /\ Distinct(cache) /\ RegionsOf(cache) \subseteq Regions
        /\ held \subseteq Regions /\ held \cap RegionsOf(cache) = {}
        /\ \A x \in Near(t) : x \in Regions /\ mapped[x] # Unmapped
    BY NearFacts
  <2>10. Near(t) = held \cup RegionsOf(cache) /\ r \notin Near(t)
    <3>1. InHand(t) = <<>>
      BY <1>1 DEF InHand
    <3>2. QED
      BY <1>3, <2>9, <3>1, ShortLists DEF Near
  <2> DEFINE near == held' \cup RegionsOf(cache)' \cup RegionsOf(Hand(j))
  <2>11. Distinct(cache)' /\ RegionsOf(cache)' = RegionsOf(cache) /\ held' = held /\ cache' = cache
    BY <1>1, <2>9 DEF Distinct, RegionsOf
  <2>12. near = Near(t) \cup {r} /\ near \subseteq Regions
    BY <2>8, <2>9, <2>10, <2>11
  <2> HIDE DEF near
  <2>13. Placed'
    <3>1. /\ \A x \in near : x \in Near(t) \/ mapped[x] = Unmapped
          /\ \A x \in Regions : x \in near => mapped'[x] # Unmapped
          /\ \A x \in Near(t) : x \notin near => mapped'[x] = Unmapped
          /\ \A x \in Regions : x \notin Near(t) \cup near => mapped'[x] = mapped[x]
      BY <1>3, <2>3, <2>4, <2>9, <2>10, <2>12
    <3>2. /\ held' \cap RegionsOf(cache)' = {}
          /\ RegionsOf(Hand(j)) \cap (held' \cup RegionsOf(cache)') = {}
      BY <2>8, <2>9, <2>10, <2>11
    <3>3. QED
      BY <2>7, <2>8, <2>11, <2>12, <3>1, <3>2, Moves DEF near
  <2>14. SizesAgree' /\ JobInv'
    <3>1. \A x \in Range(cache) : x.r \in RegionsOf(cache)
      BY DEF Range, RegionsOf
    <3>2. \A x \in Range(cache') : mapped'[x.r] = [size |-> x.size, guard |-> 0]
      <4>1. \A x \in Range(cache) : x.r \in Regions \ {r}
        BY <2>9, <2>10, <3>1
      <4>2. \A x \in Range(cache) : mapped[x.r] = [size |-> x.size, guard |-> 0]
        BY DEF IInv, SizesAgree
      <4>3. QED
        BY <2>3, <2>11, <4>1, <4>2
    <3>3. \A x \in held' : mapped'[x] = [size |-> meta'[x].size, guard |-> meta'[x].guard]
      BY <1>1, <2>3, <2>9, <2>10, <2>11 DEF IInv, SizesAgree
    <3>4. \A x \in Range(Hand(j)) : mapped'[x.r].size = x.size
      BY <2>3, <2>6, <2>8
    <3>5. mapped'[j.r].guard = j.guard
      BY <2>3, <2>7
    <3>6. \A x \in Regions : x \notin Near(t) /\ mapped[x] # Unmapped => mapped'[x] = mapped[x]
      BY <1>3, <2>3
    <3>7. QED
      BY <2>7, <3>2, <3>3, <3>4, <3>5, <3>6, SizesMove
  <2>15. QED
    BY <1>1, <2>5, <2>13, <2>14, CountsStay DEF IInv
<1>4. QED
  BY <1>2, <1>3 DEF AllocMap, Goto

\* The counters when a region goes to a caller.
LEMMA BytesUp ==
    ASSUME IInv, NEW r \in Regions, r \notin held, NEW tag \in Tags, NEW size \in Sizes,
           NEW guard \in {0, 1},
           meta' = [meta EXCEPT ![r] = [magic |-> TRUE, tag |-> tag, size |-> size, guard |-> guard]],
           bytes' = [bytes EXCEPT ![tag] = @ + size],
           held' = held \cup {r}
    PROVE  /\ BytesInUseExact' /\ HeldInv'
           /\ meta' \in [Regions -> [magic : BOOLEAN, tag : Tags, size : Nat, guard : {0, 1}]]
           /\ bytes' \in [Tags -> Nat] /\ held' \in SUBSET Regions
<1> DEFINE f == [x \in Regions |-> meta[x].size]
           g == [x \in Regions |-> meta'[x].size]
           S(c) == {x \in held : meta[x].tag = c}
           T(c) == {x \in held' : meta'[x].tag = c}
<1>1. /\ meta \in [Regions -> [magic : BOOLEAN, tag : Tags, size : Nat, guard : {0, 1}]]
      /\ bytes \in [Tags -> Nat] /\ held \in SUBSET Regions /\ size \in Nat /\ size > 0
      /\ IsFiniteSet(held) /\ \A x \in held : meta[x].size > 0
  BY DEF IInv, TypeOK, HeldInv, Sizes
<1>2. /\ meta'[r].size = size /\ meta'[r].tag = tag
      /\ \A x \in Regions \ {r} : meta'[x] = meta[x]
      /\ meta' \in [Regions -> [magic : BOOLEAN, tag : Tags, size : Nat, guard : {0, 1}]]
  BY <1>1
<1>3. HeldInv' /\ held' \in SUBSET Regions
  <2>1. IsFiniteSet(held')
    BY <1>1, FS_AddElement
  <2>2. \A x \in held' : meta'[x].size > 0
    BY <1>1, <1>2
  <2>3. QED
    BY <1>1, <2>1, <2>2 DEF HeldInv
<1>4. bytes' \in [Tags -> Nat] /\ bytes'[tag] = bytes[tag] + size
      /\ \A c \in Tags \ {tag} : bytes'[c] = bytes[c]
  BY <1>1
<1>5. ASSUME NEW c \in Tags PROVE bytes'[c] = SumFunctionOnSet(g, T(c))
  <2>1. bytes[c] = SumFunctionOnSet(f, S(c)) /\ IsFiniteSet(S(c))
    BY <1>1, FS_Subset DEF IInv, BytesInUseExact
  <2>2. \A x \in S(c) : f[x] = g[x] /\ g[x] \in Int
    BY <1>1, <1>2
  <2>3. SumFunctionOnSet(f, S(c)) = SumFunctionOnSet(g, S(c))
    <3>1. \A x \in S(c) : f[x] = g[x]
      BY <2>2
    <3> HIDE DEF f, g, S
    <3>2. QED
      BY <2>1, <3>1, SumSame
  <2>4. CASE c = tag
    <3>1. T(c) = S(c) \cup {r} /\ r \notin S(c) /\ g[r] = size
      BY <1>1, <1>2, <2>4
    <3>2. \A x \in S(c) \cup {r} : g[x] \in Int
      BY <1>1, <2>2, <3>1
    <3> HIDE DEF f, g, S, T
    <3>3. SumFunctionOnSet(g, S(c) \cup {r}) = SumFunctionOnSet(g, S(c)) + g[r]
      BY <2>1, <3>1, <3>2, SumAdd
    <3>4. QED
      BY <1>4, <2>1, <2>3, <2>4, <3>1, <3>3
  <2>5. CASE c # tag
    <3>1. T(c) = S(c)
      BY <1>1, <1>2, <2>5
    <3> HIDE DEF f, g, S, T
    <3>2. QED
      BY <1>4, <2>1, <2>3, <2>5, <3>1
  <2>6. QED
    BY <2>4, <2>5
<1>6. BytesInUseExact'
  BY <1>5 DEF BytesInUseExact
<1>7. QED
  BY <1>2, <1>3, <1>4, <1>6

\* The counters when a caller gives a region back: the class and the size are
\* those of its header, and the counter has them.
LEMMA BytesDown ==
    ASSUME IInv, NEW r \in held,
           meta' = [meta EXCEPT ![r].magic = FALSE],
           bytes' = [bytes EXCEPT ![meta[r].tag] = @ - meta[r].size],
           held' = held \ {r}
    PROVE  /\ BytesInUseExact' /\ HeldInv'
           /\ meta' \in [Regions -> [magic : BOOLEAN, tag : Tags, size : Nat, guard : {0, 1}]]
           /\ bytes' \in [Tags -> Nat] /\ held' \in SUBSET Regions
           /\ \A x \in Regions : meta'[x].size = meta[x].size /\ meta'[x].guard = meta[x].guard
<1> DEFINE f == [x \in Regions |-> meta[x].size]
           g == [x \in Regions |-> meta'[x].size]
           tag == meta[r].tag
           S(c) == {x \in held : meta[x].tag = c}
           T(c) == {x \in held' : meta'[x].tag = c}
<1>1. /\ meta \in [Regions -> [magic : BOOLEAN, tag : Tags, size : Nat, guard : {0, 1}]]
      /\ bytes \in [Tags -> Nat] /\ held \in SUBSET Regions /\ r \in Regions
      /\ IsFiniteSet(held) /\ \A x \in held : meta[x].size > 0
  BY DEF IInv, TypeOK, HeldInv
<1>2. /\ \A x \in Regions : /\ meta'[x].size = meta[x].size /\ meta'[x].guard = meta[x].guard
                            /\ meta'[x].tag = meta[x].tag
      /\ meta' \in [Regions -> [magic : BOOLEAN, tag : Tags, size : Nat, guard : {0, 1}]]
  BY <1>1
<1>3. HeldInv' /\ held' \in SUBSET Regions
  <2>1. IsFiniteSet(held')
    BY <1>1, FS_RemoveElement
  <2>2. \A x \in held' : meta'[x].size > 0
    BY <1>1, <1>2
  <2>3. QED
    BY <1>1, <2>1, <2>2 DEF HeldInv
<1>4. tag \in Tags /\ meta[r].size \in Nat /\ bytes'[tag] = bytes[tag] - meta[r].size
      /\ \A c \in Tags \ {tag} : bytes'[c] = bytes[c]
  BY <1>1
<1>5. ASSUME NEW c \in Tags PROVE bytes'[c] = SumFunctionOnSet(g, T(c)) /\ bytes'[c] \in Nat
  <2>1. bytes[c] = SumFunctionOnSet(f, S(c)) /\ IsFiniteSet(S(c)) /\ IsFiniteSet(T(c))
    BY <1>1, <1>3, FS_Subset DEF IInv, BytesInUseExact, HeldInv
  <2>2. f = g /\ \A x \in S(c) : f[x] \in Int
    BY <1>1, <1>2
  <2>3. \A x \in T(c) : f[x] \in Nat
    BY <1>1, <1>3
  <2>4. SumFunctionOnSet(f, T(c)) \in Nat
    <3> HIDE DEF f, T
    <3> QED
      BY <2>1, <2>3, SumNat
  <2>5. CASE c = tag
    <3>1. T(c) = S(c) \ {r} /\ r \in S(c) /\ f[r] = meta[r].size
      BY <1>1, <1>2, <2>5
    <3> HIDE DEF f, g, S, T, tag
    <3>2. SumFunctionOnSet(f, S(c)) = f[r] + SumFunctionOnSet(f, S(c) \ {r})
      BY <2>1, <2>2, <3>1, SumRemove
    <3>3. QED
      BY <1>4, <2>1, <2>2, <2>4, <2>5, <3>1, <3>2
  <2>6. CASE c # tag
    <3>1. T(c) = S(c)
      BY <1>1, <1>2, <2>6
    <3> HIDE DEF f, g, S, T, tag
    <3>2. QED
      BY <1>4, <2>1, <2>2, <2>4, <2>6, <3>1
  <2>7. QED
    BY <2>5, <2>6
<1>6. BytesInUseExact'
  BY <1>5 DEF BytesInUseExact
<1>7. bytes' \in [Tags -> Nat]
  <2>1. \A c \in Tags : bytes'[c] \in Nat
    BY <1>5
  <2>2. bytes' = [c \in Tags |-> bytes'[c]]
    BY <1>1
  <2>3. QED
    BY <2>1, <2>2
<1>8. QED
  BY <1>2, <1>3, <1>6, <1>7

\* A region goes from the allocating thread to its caller.
LEMMA AllocStampStep ==
    ASSUME IInv, NEW t \in Threads, AllocStamp(t)
    PROVE  IInv'
<1> DEFINE r == job[t].r
           size == job[t].size
           guard == job[t].guard
           e == Entry(r, size)
<1>1. /\ job[t].pc = "stamp" /\ r \in Regions /\ size \in Sizes /\ guard \in {0, 1}
      /\ job[t].tag \in Tags
  BY JobKinds DEF AllocStamp, IInv
<1>2. /\ meta' = [meta EXCEPT ![r] = [magic |-> TRUE, tag |-> job[t].tag, size |-> size,
                                      guard |-> guard]]
      /\ bytes' = [bytes EXCEPT ![job[t].tag] = @ + size]
      /\ held' = held \cup {r} /\ job' = [job EXCEPT ![t] = NoJob]
      /\ mapped' = mapped /\ cache' = cache /\ debug' = debug
  BY DEF AllocStamp, Goto
<1>3. e \in Entries /\ e.r = r /\ e.size = size
  BY <1>1 DEF Entry, Entries
<1>4. InHand(t) = <<e>>
  BY <1>1 DEF InHand
<1> HIDE DEF e, r, size, guard
<1>5. RegionsOf(InHand(t)) = {r} /\ Range(InHand(t)) = {e}
  BY <1>3, <1>4, ShortLists
<1>6. /\ cache \in Seq(Entries) /\ Distinct(cache) /\ RegionsOf(cache) \subseteq Regions
      /\ held \subseteq Regions /\ held \cap RegionsOf(cache) = {}
      /\ RegionsOf(InHand(t)) \cap (held \cup RegionsOf(cache)) = {}
      /\ \A x \in Near(t) : x \in Regions /\ mapped[x] # Unmapped
  BY NearFacts
<1>7. /\ BytesInUseExact' /\ HeldInv'
      /\ meta' \in [Regions -> [magic : BOOLEAN, tag : Tags, size : Nat, guard : {0, 1}]]
      /\ bytes' \in [Tags -> Nat] /\ held' \in SUBSET Regions
  <2>1. r \notin held
    BY <1>5, <1>6
  <2>2. QED
    BY <1>1, <1>2, <2>1, BytesUp
<1>8. mapped[r].size = size /\ mapped[r].guard = guard
  <2>1. mapped[r].size = size
    BY <1>3, <1>5 DEF IInv, SizesAgree
  <2>2. mapped[r].guard = guard
    BY <1>1 DEF IInv, SizesAgree, r, guard
  <2>3. QED
    BY <2>1, <2>2
<1>9. NoJob \in Jobs /\ NoJob.pc = "idle" /\ Hand(NoJob) = <<>>
  BY DEF Jobs, NoJob, Hand
<1>10. RegionsOf(Hand(NoJob)) = {} /\ Distinct(Hand(NoJob)) /\ Range(Hand(NoJob)) = {}
  BY <1>9, ShortLists
<1>11. TypeOK'
  BY <1>2, <1>7, <1>9 DEF IInv, TypeOK
<1> DEFINE near == held' \cup RegionsOf(cache)' \cup RegionsOf(Hand(NoJob))
<1>12. Distinct(cache)' /\ RegionsOf(cache)' = RegionsOf(cache)
  BY <1>2, <1>6 DEF Distinct, RegionsOf
<1>13. near = Near(t) /\ near \subseteq Regions
  BY <1>1, <1>2, <1>5, <1>6, <1>10, <1>12 DEF Near
<1> HIDE DEF near
<1>14. Placed'
  <2>1. /\ \A x \in near : x \in Near(t) \/ mapped[x] = Unmapped
        /\ \A x \in Regions : x \in near => mapped'[x] # Unmapped
        /\ \A x \in Near(t) : x \notin near => mapped'[x] = Unmapped
        /\ \A x \in Regions : x \notin Near(t) \cup near => mapped'[x] = mapped[x]
    BY <1>2, <1>6, <1>13
  <2>2. /\ held' \cap RegionsOf(cache)' = {}
        /\ RegionsOf(Hand(NoJob)) \cap (held' \cup RegionsOf(cache)') = {}
    BY <1>2, <1>5, <1>6, <1>10, <1>12
  <2>3. QED
    BY <1>2, <1>9, <1>10, <1>12, <1>13, <2>1, <2>2, Moves DEF near
<1>15. SizesAgree' /\ JobInv'
  <2>1. \A x \in Range(cache') : mapped'[x.r] = [size |-> x.size, guard |-> 0]
    BY <1>2 DEF IInv, SizesAgree
  <2>2. \A x \in held' : mapped'[x] = [size |-> meta'[x].size, guard |-> meta'[x].guard]
    <3>1. /\ mapped \in [Regions -> [size : Nat, guard : {0, 1}]]
          /\ meta \in [Regions -> [magic : BOOLEAN, tag : Tags, size : Nat, guard : {0, 1}]]
      BY DEF IInv, TypeOK
    <3>2. ASSUME NEW x \in held
          PROVE  mapped'[x] = [size |-> meta'[x].size, guard |-> meta'[x].guard]
      <4>1. x # r /\ x \in Regions
        BY <1>5, <1>6
      <4>2. meta'[x] = meta[x]
        BY <1>2, <3>1, <4>1
      <4>3. QED
        BY <1>2, <4>2 DEF IInv, SizesAgree
    <3>3. mapped'[r] = [size |-> meta'[r].size, guard |-> meta'[r].guard]
      <4>1. meta'[r].size = size /\ meta'[r].guard = guard
        BY <1>1, <1>2, <3>1
      <4>2. QED
        BY <1>1, <1>2, <1>8, <3>1, <4>1
    <3>4. QED
      BY <1>2, <3>2, <3>3
  <2>3. \A x \in Range(Hand(NoJob)) : mapped'[x.r].size = x.size
    BY <1>10
  <2>4. QED
    BY <1>2, <1>9, <2>1, <2>2, <2>3, SizesMove
<1>16. QED
  BY <1>7, <1>11, <1>14, <1>15 DEF IInv

\* A region goes from its caller to the freeing thread.
LEMMA FreeBeginStep ==
    ASSUME IInv, NEW t \in Threads, NEW r \in Regions, FreeBegin(t, r)
    PROVE  IInv'
<1> DEFINE size == meta[r].size
           e == Entry(r, size)
           j == [pc |-> IF meta[r].guard = 0 THEN "put" ELSE "unmap", todo |-> <<e>>]
<1>1. /\ job[t] = NoJob /\ r \in held /\ held' = held \ {r}
      /\ meta' = [meta EXCEPT ![r].magic = FALSE]
      /\ bytes' = [bytes EXCEPT ![meta[r].tag] = @ - meta[r].size]
      /\ job' = [job EXCEPT ![t] = j]
      /\ mapped' = mapped /\ cache' = cache /\ debug' = debug
  BY DEF FreeBegin, Goto
<1>2. /\ BytesInUseExact' /\ HeldInv'
      /\ meta' \in [Regions -> [magic : BOOLEAN, tag : Tags, size : Nat, guard : {0, 1}]]
      /\ bytes' \in [Tags -> Nat] /\ held' \in SUBSET Regions
      /\ \A x \in Regions : meta'[x].size = meta[x].size /\ meta'[x].guard = meta[x].guard
  BY <1>1, BytesDown
<1>3. mapped[r] = [size |-> size, guard |-> meta[r].guard] /\ size \in Sizes
  <2>1. mapped[r] = [size |-> size, guard |-> meta[r].guard]
    BY <1>1 DEF IInv, SizesAgree
  <2>2. size > 0 /\ meta \in [Regions -> [magic : BOOLEAN, tag : Tags, size : Nat, guard : {0, 1}]]
    BY <1>1 DEF IInv, TypeOK, HeldInv
  <2>3. size \in Sizes
    BY <2>2 DEF Sizes
  <2>4. QED
    BY <2>1, <2>3
<1>4. e \in Entries /\ e.r = r /\ e.size = size
  BY <1>3 DEF Entry, Entries
<1> HIDE DEF e, size
<1>5. /\ <<e>> \in Seq(Entries) \ {<<>>} /\ Len(<<e>>) = 1 /\ <<e>>[1] = e
      /\ RegionsOf(<<e>>) = {r} /\ Distinct(<<e>>) /\ Range(<<e>>) = {e}
  BY <1>4, ShortLists
<1>6. j.pc \in {"put", "unmap"} /\ j.todo = <<e>> /\ (j.pc = "put" => meta[r].guard = 0)
  OBVIOUS
<1>7. j \in Jobs
  <2> HIDE DEF Entries
  <2>1. j \in [pc : {"put", "unmap"}, todo : Seq(Entries) \ {<<>>}]
    BY <1>5
  <2>2. QED
    BY <2>1 DEF Jobs
<1> HIDE DEF j
<1>8. Hand(j) = <<e>>
  BY <1>6 DEF Hand
<1>9. /\ cache \in Seq(Entries) /\ Distinct(cache) /\ RegionsOf(cache) \subseteq Regions
      /\ held \subseteq Regions /\ held \cap RegionsOf(cache) = {}
      /\ \A x \in Near(t) : x \in Regions /\ mapped[x] # Unmapped
  BY NearFacts
<1>10. Near(t) = held \cup RegionsOf(cache)
  <2>1. InHand(t) = <<>>
    BY <1>1 DEF InHand, NoJob
  <2>2. QED
    BY <2>1, ShortLists DEF Near
<1>11. TypeOK'
  BY <1>1, <1>2, <1>7 DEF IInv, TypeOK
<1> DEFINE near == held' \cup RegionsOf(cache)' \cup RegionsOf(Hand(j))
<1>12. Distinct(cache)' /\ RegionsOf(cache)' = RegionsOf(cache)
  BY <1>1, <1>9 DEF Distinct, RegionsOf
<1>13. near = Near(t) /\ near \subseteq Regions
  BY <1>1, <1>5, <1>8, <1>9, <1>10, <1>12
<1> HIDE DEF near
<1>14. Placed'
  <2>1. /\ \A x \in near : x \in Near(t) \/ mapped[x] = Unmapped
        /\ \A x \in Regions : x \in near => mapped'[x] # Unmapped
        /\ \A x \in Near(t) : x \notin near => mapped'[x] = Unmapped
        /\ \A x \in Regions : x \notin Near(t) \cup near => mapped'[x] = mapped[x]
    BY <1>1, <1>9, <1>13
  <2>2. /\ held' \cap RegionsOf(cache)' = {}
        /\ RegionsOf(Hand(j)) \cap (held' \cup RegionsOf(cache)') = {}
    BY <1>1, <1>5, <1>8, <1>9, <1>12
  <2>3. Distinct(Hand(j)) /\ job' = [job EXCEPT ![t] = j]
    BY <1>1, <1>5, <1>8
  <2>4. near = held' \cup RegionsOf(cache)' \cup RegionsOf(Hand(j))
    BY DEF near
  <2>5. QED
    BY <1>7, <1>12, <1>13, <2>1, <2>2, <2>3, <2>4, Moves
<1>15. SizesAgree' /\ JobInv'
  <2>1. \A x \in Range(cache') : mapped'[x.r] = [size |-> x.size, guard |-> 0]
    BY <1>1 DEF IInv, SizesAgree
  <2>2. \A x \in held' : mapped'[x] = [size |-> meta'[x].size, guard |-> meta'[x].guard]
    <3>1. ASSUME NEW x \in held'
          PROVE  mapped'[x] = [size |-> meta'[x].size, guard |-> meta'[x].guard]
      <4>1. x \in held /\ x \in Regions
        BY <1>1, <1>9, <3>1
      <4>2. mapped[x] = [size |-> meta[x].size, guard |-> meta[x].guard]
        BY <4>1 DEF IInv, SizesAgree
      <4>3. QED
        BY <1>1, <1>2, <4>1, <4>2
    <3>2. QED
      BY <3>1
  <2>3. \A x \in Range(Hand(j)) : mapped'[x.r].size = x.size
    BY <1>1, <1>3, <1>4, <1>5, <1>8
  <2>4. j.pc = "put" => Len(j.todo) = 1 /\ mapped'[j.todo[1].r].guard = 0
    BY <1>1, <1>3, <1>4, <1>5, <1>6
  <2>5. j.pc # "stamp"
    BY <1>6
  <2>6. QED
    BY <1>1, <1>7, <2>1, <2>2, <2>3, <2>4, <2>5, SizesMove
<1>16. QED
  BY <1>2, <1>11, <1>14, <1>15 DEF IInv

\* A region goes from the freeing thread to the cache; when the cache is full,
\* the thread gets the first entry in exchange.
LEMMA FreePutStep ==
    ASSUME IInv, NEW t \in Threads, FreePut(t)
    PROVE  IInv'
<1> DEFINE full == Len(cache) = Cap
           kept == IF full THEN Tail(cache) ELSE cache
           e == job[t].todo[1]
           j == IF full THEN [pc |-> "unmap", todo |-> <<cache[1]>>] ELSE NoJob
<1>1. /\ job[t].pc = "put" /\ cache' = Append(kept, e) /\ job' = [job EXCEPT ![t] = j]
      /\ mapped' = mapped /\ meta' = meta /\ bytes' = bytes /\ debug' = debug /\ held' = held
  BY DEF FreePut, Goto
<1>2. /\ cache \in Seq(Entries) /\ Distinct(cache) /\ RegionsOf(cache) \subseteq Regions
      /\ InHand(t) \in Seq(Entries) /\ Distinct(InHand(t))
      /\ held \subseteq Regions /\ held \cap RegionsOf(cache) = {}
      /\ RegionsOf(InHand(t)) \cap (held \cup RegionsOf(cache)) = {}
      /\ \A x \in Near(t) : x \in Regions /\ mapped[x] # Unmapped
  BY NearFacts
<1>3. InHand(t) = job[t].todo /\ Len(InHand(t)) = 1 /\ mapped[e.r].guard = 0
  BY <1>1 DEF InHand, IInv, JobInv
<1>4. InHand(t) # <<>> /\ e = InHand(t)[1]
  BY <1>2, <1>3
<1> HIDE DEF e
<1>5. e \in Entries /\ e \in Range(InHand(t)) /\ RegionsOf(InHand(t)) = {e.r}
  BY <1>2, <1>3, <1>4, FirstGone
<1>6. e.r \in Regions /\ e.r \notin held /\ e.r \notin RegionsOf(cache)
  <2>1. e.r \in Near(t)
    BY <1>5 DEF Near
  <2>2. QED
    BY <1>2, <1>5, <2>1
<1>7. mapped[e.r] = [size |-> e.size, guard |-> 0]
  <2>1. mapped[e.r].size = e.size
    BY <1>5 DEF IInv, SizesAgree
  <2>2. mapped \in [Regions -> [size : Nat, guard : {0, 1}]]
    BY DEF IInv, TypeOK
  <2>3. QED
    BY <1>3, <1>6, <2>1, <2>2
<1>8. Len(cache) \in Nat /\ Len(cache) <= Cap /\ Cap \in Nat /\ Cap > 0
  BY <1>2, SeqBasics, LargeAssumption DEF IInv, TypeOK
\* What the thread has in hand afterwards, and what the cache keeps.
<1>9. /\ kept \in Seq(Entries) /\ Distinct(kept) /\ Len(kept) < Cap
      /\ Range(kept) \subseteq Range(cache) /\ j \in Jobs /\ j.pc \notin {"stamp", "put"}
      /\ Distinct(Hand(j)) /\ Range(Hand(j)) \subseteq Range(cache)
      /\ RegionsOf(kept) \cup RegionsOf(Hand(j)) = RegionsOf(cache)
      /\ RegionsOf(kept) \cap RegionsOf(Hand(j)) = {}
  <2>1. CASE full
    <3>1. cache # <<>>
      BY <1>2, <1>8, <2>1
    <3>2. /\ cache[1] \in Entries /\ cache[1].r \in RegionsOf(cache) /\ cache[1] \in Range(cache)
          /\ Tail(cache) \in Seq(Entries) /\ Len(Tail(cache)) = Len(cache) - 1
          /\ Distinct(Tail(cache)) /\ RegionsOf(Tail(cache)) = RegionsOf(cache) \ {cache[1].r}
          /\ Range(Tail(cache)) \subseteq Range(cache)
      BY <1>2, <3>1, FirstGone
    <3>3. /\ <<cache[1]>> \in Seq(Entries) \ {<<>>} /\ RegionsOf(<<cache[1]>>) = {cache[1].r}
          /\ Distinct(<<cache[1]>>) /\ Range(<<cache[1]>>) = {cache[1]}
      BY <3>2, ShortLists
    <3>4. kept = Tail(cache) /\ j = [pc |-> "unmap", todo |-> <<cache[1]>>]
      BY <2>1
    <3>5. j.pc = "unmap"
      BY <3>4
    <3>6. j \in Jobs /\ Hand(j) = <<cache[1]>>
      BY <3>3, <3>4, UnmapJob
    <3>7. Len(kept) < Cap
      BY <1>8, <2>1, <3>2, <3>4
    <3> HIDE DEF j, kept
    <3>8. QED
      BY <3>2, <3>3, <3>4, <3>5, <3>6, <3>7
  <2>2. CASE ~ full
    <3>1. kept = cache /\ j = NoJob
      BY <2>2
    <3>2. NoJob \in Jobs /\ NoJob.pc = "idle" /\ Hand(NoJob) = <<>>
      BY DEF Jobs, NoJob, Hand
    <3>3. RegionsOf(<<>>) = {} /\ Distinct(<<>>) /\ Range(<<>>) = {}
      BY ShortLists
    <3>4. Len(cache) < Cap
      BY <1>8, <2>2
    <3>5. QED
      BY <1>2, <3>1, <3>2, <3>3, <3>4
  <2>3. QED
    BY <2>1, <2>2
<1> HIDE DEF j, kept, full
<1>10. /\ cache' \in Seq(Entries) /\ Len(cache') = Len(kept) + 1 /\ Distinct(cache')
       /\ RegionsOf(cache') = RegionsOf(kept) \cup {e.r} /\ Range(cache') = Range(kept) \cup {e}
  <2>1. e.r \notin RegionsOf(kept)
    BY <1>6, <1>9
  <2>2. QED
    BY <1>1, <1>5, <1>9, <2>1, EntryAdded
<1>11. TypeOK'
  <2>1. Len(cache') <= Cap
    <3>1. Len(kept) \in Nat
      BY <1>9, SeqBasics
    <3>2. QED
      BY <1>8, <1>9, <1>10, <3>1
  <2>2. QED
    BY <1>1, <1>9, <1>10, <2>1 DEF IInv, TypeOK
<1>12. Distinct(cache)' /\ RegionsOf(cache)' = RegionsOf(kept) \cup {e.r}
  BY <1>10 DEF Distinct, RegionsOf
<1> DEFINE near == held' \cup RegionsOf(cache)' \cup RegionsOf(Hand(j))
<1>13. near = Near(t) /\ near \subseteq Regions
  BY <1>1, <1>2, <1>5, <1>6, <1>9, <1>12 DEF Near
<1>14. near = held' \cup RegionsOf(cache)' \cup RegionsOf(Hand(j))
  OBVIOUS
<1> HIDE DEF near
<1>15. Placed'
  <2>1. /\ \A x \in near : x \in Near(t) \/ mapped[x] = Unmapped
        /\ \A x \in Regions : x \in near => mapped'[x] # Unmapped
        /\ \A x \in Near(t) : x \notin near => mapped'[x] = Unmapped
        /\ \A x \in Regions : x \notin Near(t) \cup near => mapped'[x] = mapped[x]
    BY <1>1, <1>2, <1>13
  <2>2. /\ held' \cap RegionsOf(cache)' = {}
        /\ RegionsOf(Hand(j)) \cap (held' \cup RegionsOf(cache)') = {}
    BY <1>1, <1>2, <1>6, <1>9, <1>12
  <2>3. j \in Jobs /\ job' = [job EXCEPT ![t] = j] /\ Distinct(Hand(j))
    BY <1>1, <1>9
  <2>4. QED
    BY <1>12, <1>13, <1>14, <2>1, <2>2, <2>3, Moves
<1>16. SizesAgree' /\ JobInv'
  <2>1. \A x \in Range(cache) : mapped'[x.r] = [size |-> x.size, guard |-> 0]
    BY <1>1 DEF IInv, SizesAgree
  <2>2. \A x \in Range(cache') : mapped'[x.r] = [size |-> x.size, guard |-> 0]
    BY <1>1, <1>7, <1>9, <1>10, <2>1
  <2>3. \A x \in held' : mapped'[x] = [size |-> meta'[x].size, guard |-> meta'[x].guard]
    BY <1>1 DEF IInv, SizesAgree
  <2>4. \A x \in Range(Hand(j)) : mapped'[x.r].size = x.size
    <3>1. \A x \in Range(cache) : mapped'[x.r].size = x.size
      <4>1. \A n : [size |-> n, guard |-> 0].size = n
        OBVIOUS
      <4>2. QED
        BY <2>1, <4>1, Zenon
    <3>2. QED
      BY <1>9, <3>1
  <2>5. /\ j \in Jobs /\ job' = [job EXCEPT ![t] = j] /\ j.pc # "stamp" /\ j.pc # "put"
        /\ mapped' = mapped
    BY <1>1, <1>9
  <2>6. QED
    BY <2>2, <2>3, <2>4, <2>5, SizesMove
<1>17. BytesInUseExact' /\ HeldInv'
  BY <1>1, CountsStay
<1>18. QED
  BY <1>11, <1>15, <1>16, <1>17 DEF IInv

\* The entries of the cache go to the draining thread.
LEMMA DrainStep ==
    ASSUME IInv, NEW t \in Threads, Drain(t)
    PROVE  IInv'
<1> DEFINE j == [pc |-> "unmap", todo |-> cache]
<1>1. /\ job[t] = NoJob /\ cache # <<>> /\ cache' = <<>> /\ job' = [job EXCEPT ![t] = j]
      /\ mapped' = mapped /\ meta' = meta /\ bytes' = bytes /\ debug' = debug /\ held' = held
  BY DEF Drain, Goto
<1>2. /\ cache \in Seq(Entries) /\ Distinct(cache) /\ RegionsOf(cache) \subseteq Regions
      /\ held \subseteq Regions /\ held \cap RegionsOf(cache) = {}
      /\ \A x \in Near(t) : x \in Regions /\ mapped[x] # Unmapped
  BY NearFacts
<1>3. j.pc = "unmap" /\ Hand(j) = cache
  BY <1>1, <1>2, UnmapJob
<1>4. j \in Jobs
  BY <1>1, <1>2, UnmapJob
<1> HIDE DEF j
<1>5. /\ cache' \in Seq(Entries) /\ Len(cache') = 0 /\ RegionsOf(cache') = {} /\ Distinct(cache')
      /\ Range(cache') = {}
  BY <1>1, ShortLists
<1>6. Near(t) = held \cup RegionsOf(cache)
  <2>1. InHand(t) = <<>>
    BY <1>1 DEF InHand, NoJob
  <2>2. QED
    BY <2>1, ShortLists DEF Near
<1>7. TypeOK'
  <2>1. Len(cache') <= Cap
    BY <1>5, LargeAssumption
  <2>2. QED
    BY <1>1, <1>4, <1>5, <2>1 DEF IInv, TypeOK
<1>8. Distinct(cache)' /\ RegionsOf(cache)' = {}
  BY <1>5 DEF Distinct, RegionsOf
<1> DEFINE near == held' \cup RegionsOf(cache)' \cup RegionsOf(Hand(j))
<1>9. near = Near(t) /\ near \subseteq Regions
  BY <1>1, <1>2, <1>3, <1>6, <1>8
<1>10. near = held' \cup RegionsOf(cache)' \cup RegionsOf(Hand(j))
  OBVIOUS
<1> HIDE DEF near
<1>11. Placed'
  <2>1. /\ \A x \in near : x \in Near(t) \/ mapped[x] = Unmapped
        /\ \A x \in Regions : x \in near => mapped'[x] # Unmapped
        /\ \A x \in Near(t) : x \notin near => mapped'[x] = Unmapped
        /\ \A x \in Regions : x \notin Near(t) \cup near => mapped'[x] = mapped[x]
    BY <1>1, <1>2, <1>9
  <2>2. /\ held' \cap RegionsOf(cache)' = {} /\ Distinct(Hand(j))
        /\ RegionsOf(Hand(j)) \cap (held' \cup RegionsOf(cache)') = {}
    BY <1>1, <1>2, <1>3, <1>8
  <2>3. job' = [job EXCEPT ![t] = j]
    BY <1>1
  <2>4. QED
    BY <1>4, <1>8, <1>9, <1>10, <2>1, <2>2, <2>3, Moves
<1>12. SizesAgree' /\ JobInv'
  <2>1. \A x \in Range(cache') : mapped'[x.r] = [size |-> x.size, guard |-> 0]
    BY <1>5
  <2>2. \A x \in held' : mapped'[x] = [size |-> meta'[x].size, guard |-> meta'[x].guard]
    BY <1>1 DEF IInv, SizesAgree
  <2>3. \A x \in Range(Hand(j)) : mapped'[x.r].size = x.size
    <3>1. \A x \in Range(cache) : mapped[x.r] = [size |-> x.size, guard |-> 0]
      BY DEF IInv, SizesAgree
    <3>2. \A x \in Range(cache) : mapped[x.r].size = x.size
      <4>1. \A n : [size |-> n, guard |-> 0].size = n
        OBVIOUS
      <4>2. QED
        BY <3>1, <4>1, Zenon
    <3>3. QED
      BY <1>1, <1>3, <3>2
  <2>4. job' = [job EXCEPT ![t] = j] /\ j.pc # "stamp" /\ j.pc # "put" /\ mapped' = mapped
    BY <1>1, <1>3
  <2>5. QED
    BY <1>4, <2>1, <2>2, <2>3, <2>4, SizesMove
<1>13. BytesInUseExact' /\ HeldInv'
  BY <1>1, CountsStay
<1>14. QED
  BY <1>7, <1>11, <1>12, <1>13 DEF IInv

\* The page heap takes the first region a thread has to unmap.
LEMMA UnmapStep ==
    ASSUME IInv, NEW t \in Threads, Unmap(t)
    PROVE  IInv'
<1> DEFINE todo == job[t].todo
           e == todo[1]
           j == IF Len(todo) = 1 THEN NoJob ELSE [job[t] EXCEPT !.todo = Tail(@)]
<1>1. /\ job[t].pc = "unmap" /\ mapped' = [mapped EXCEPT ![e.r] = Unmapped]
      /\ job' = [job EXCEPT ![t] = j]
      /\ cache' = cache /\ meta' = meta /\ bytes' = bytes /\ debug' = debug /\ held' = held
  BY DEF Unmap, HeapFree, Goto
<1>2. /\ cache \in Seq(Entries) /\ Distinct(cache) /\ RegionsOf(cache) \subseteq Regions
      /\ InHand(t) \in Seq(Entries) /\ Distinct(InHand(t))
      /\ held \subseteq Regions /\ held \cap RegionsOf(cache) = {}
      /\ RegionsOf(InHand(t)) \cap (held \cup RegionsOf(cache)) = {}
      /\ \A x \in Near(t) : x \in Regions /\ mapped[x] # Unmapped
  BY NearFacts
<1>3. InHand(t) = todo
  BY <1>1 DEF InHand
<1>4. todo # <<>> /\ job[t] = [pc |-> "unmap", todo |-> todo]
  <2>1. job[t] \in [pc : {"put", "unmap"}, todo : Seq(Entries) \ {<<>>}]
    BY <1>1, JobKinds DEF IInv
  <2> HIDE DEF Entries
  <2>2. QED
    BY <1>1, <2>1
<1> HIDE DEF todo
<1>5. /\ e \in Entries /\ e.r \in RegionsOf(todo)
      /\ Tail(todo) \in Seq(Entries) /\ Len(Tail(todo)) = Len(todo) - 1 /\ Distinct(Tail(todo))
      /\ RegionsOf(Tail(todo)) = RegionsOf(todo) \ {e.r}
      /\ Range(Tail(todo)) \subseteq Range(todo)
      /\ Len(todo) = 1 => RegionsOf(todo) = {e.r}
  BY <1>2, <1>3, <1>4, FirstGone
<1>6. e.r \in Near(t) /\ e.r \in Regions /\ e.r \notin held /\ e.r \notin RegionsOf(cache)
  <2>1. e.r \in Near(t)
    BY <1>3, <1>5 DEF Near
  <2>2. QED
    BY <1>2, <1>3, <1>5, <2>1
<1>7. /\ j \in Jobs /\ j.pc \in {"idle", "unmap"} /\ Distinct(Hand(j))
      /\ RegionsOf(Hand(j)) = RegionsOf(todo) \ {e.r} /\ Range(Hand(j)) \subseteq Range(todo)
  <2>1. CASE Len(todo) = 1
    <3>1. j = NoJob
      BY <2>1
    <3>2. NoJob \in Jobs /\ NoJob.pc = "idle" /\ Hand(NoJob) = <<>>
      BY DEF Jobs, NoJob, Hand
    <3>3. RegionsOf(<<>>) = {} /\ Distinct(<<>>) /\ Range(<<>>) = {}
      BY ShortLists
    <3>4. RegionsOf(todo) \ {e.r} = {}
      BY <1>5, <2>1
    <3>5. QED
      BY <3>1, <3>2, <3>3, <3>4
  <2>2. CASE Len(todo) # 1
    <3>1. j = [pc |-> "unmap", todo |-> Tail(todo)]
      <4>1. j = [job[t] EXCEPT !.todo = Tail(todo)]
        BY <2>2 DEF todo
      <4> DEFINE q == job[t]
                 rest == Tail(todo)
      <4>2. q = [pc |-> "unmap", todo |-> todo] /\ j = [q EXCEPT !.todo = rest]
        BY <1>4, <4>1
      <4> HIDE DEF q, rest, j
      <4>3. j = [pc |-> "unmap", todo |-> rest]
        BY <4>2
      <4>4. QED
        BY <4>3 DEF rest
    <3>2. Tail(todo) # <<>>
      <4>1. Len(todo) \in Nat
        BY <1>2, <1>3, SeqBasics
      <4>2. Len(Tail(todo)) # 0
        BY <1>5, <2>2, <4>1
      <4>3. Len(<<>>) = 0
        OBVIOUS
      <4>4. QED
        BY <4>2, <4>3, Zenon
    <3>3. j \in Jobs /\ Hand(j) = Tail(todo)
      BY <1>5, <3>1, <3>2, UnmapJob
    <3>4. j.pc = "unmap"
      BY <3>1
    <3>5. QED
      BY <1>5, <3>3, <3>4
  <2>3. QED
    BY <2>1, <2>2
<1> HIDE DEF j, e
<1>8. mapped \in [Regions -> [size : Nat, guard : {0, 1}]]
  BY DEF IInv, TypeOK
<1>9. mapped'[e.r] = Unmapped /\ \A x \in Regions \ {e.r} : mapped'[x] = mapped[x]
  BY <1>1, <1>6, <1>8
<1>10. TypeOK'
  <2>1. mapped' \in [Regions -> [size : Nat, guard : {0, 1}]]
    BY <1>1, <1>8 DEF Unmapped
  <2>2. QED
    BY <1>1, <1>7, <2>1 DEF IInv, TypeOK
<1>11. Distinct(cache)' /\ RegionsOf(cache)' = RegionsOf(cache)
  BY <1>1, <1>2 DEF Distinct, RegionsOf
<1> DEFINE near == held' \cup RegionsOf(cache)' \cup RegionsOf(Hand(j))
<1>12. near = Near(t) \ {e.r} /\ near \subseteq Regions
  <2>1. near = Near(t) \ {e.r}
    BY <1>1, <1>3, <1>6, <1>7, <1>11 DEF Near
  <2>2. QED
    BY <1>2, <2>1
<1>13. near = held' \cup RegionsOf(cache)' \cup RegionsOf(Hand(j))
  OBVIOUS
<1> HIDE DEF near
<1>14. Placed'
  <2>1. /\ \A x \in near : x \in Near(t) \/ mapped[x] = Unmapped
        /\ \A x \in Regions : x \in near => mapped'[x] # Unmapped
        /\ \A x \in Near(t) : x \notin near => mapped'[x] = Unmapped
        /\ \A x \in Regions : x \notin Near(t) \cup near => mapped'[x] = mapped[x]
    BY <1>2, <1>6, <1>9, <1>12
  <2>2. /\ held' \cap RegionsOf(cache)' = {}
        /\ RegionsOf(Hand(j)) \cap (held' \cup RegionsOf(cache)') = {}
    BY <1>1, <1>2, <1>3, <1>7, <1>11
  <2>3. j \in Jobs /\ job' = [job EXCEPT ![t] = j] /\ Distinct(Hand(j))
    BY <1>1, <1>7
  <2>4. QED
    BY <1>11, <1>12, <1>13, <2>1, <2>2, <2>3, Moves
<1>15. SizesAgree' /\ JobInv'
  <2>1. \A x \in Range(cache') : mapped'[x.r] = [size |-> x.size, guard |-> 0]
    <3>1. \A x \in Range(cache) : x.r \in RegionsOf(cache)
      BY DEF Range, RegionsOf
    <3>2. \A x \in Range(cache) : x.r \in Regions \ {e.r}
      BY <1>2, <1>6, <3>1
    <3>3. \A x \in Range(cache) : mapped[x.r] = [size |-> x.size, guard |-> 0]
      BY DEF IInv, SizesAgree
    <3>4. QED
      BY <1>1, <1>9, <3>2, <3>3
  <2>2. \A x \in held' : mapped'[x] = [size |-> meta'[x].size, guard |-> meta'[x].guard]
    BY <1>1, <1>2, <1>6, <1>9 DEF IInv, SizesAgree
  <2>3. \A x \in Range(Hand(j)) : mapped'[x.r].size = x.size
    <3>1. \A x \in Range(Hand(j)) : x.r \in RegionsOf(Hand(j))
      BY DEF Range, RegionsOf
    <3>2. RegionsOf(Hand(j)) \subseteq Regions
      BY <1>7, HandIsList
    <3>3. \A x \in Range(Hand(j)) : x.r \in Regions \ {e.r}
      BY <1>7, <3>1, <3>2
    <3>4. \A x \in Range(Hand(j)) : mapped[x.r].size = x.size
      BY <1>3, <1>7 DEF IInv, SizesAgree
    <3>5. QED
      BY <1>9, <3>3, <3>4
  <2>4. \A x \in Regions : x \notin Near(t) /\ mapped[x] # Unmapped => mapped'[x] = mapped[x]
    BY <1>6, <1>9
  <2>5. j \in Jobs /\ job' = [job EXCEPT ![t] = j] /\ j.pc # "stamp" /\ j.pc # "put"
    BY <1>1, <1>7
  <2>6. QED
    BY <2>1, <2>2, <2>3, <2>4, <2>5, SizesMove
<1>16. BytesInUseExact' /\ HeldInv'
  BY <1>1, CountsStay
<1>17. QED
  BY <1>10, <1>14, <1>15, <1>16 DEF IInv

-----------------------------------------------------------------------------

LEMMA NextIInv == IInv /\ [Next]_vars => IInv'
<1> SUFFICES ASSUME IInv, [Next]_vars PROVE IInv'
  OBVIOUS
<1>1. CASE SetDebug
  <2>1. UNCHANGED <<mapped, meta, cache, bytes, job, held>> /\ debug' \in BOOLEAN
    BY <1>1 DEF SetDebug
  <2>2. QED
    BY <2>1, OptionStep
<1>2. ASSUME NEW t \in Threads, NEW req \in Requests, AllocBegin(t, req[1], req[2])
      PROVE  IInv'
  <2>1. req[1] \in Tags /\ req[2] \in Sizes
    BY <1>2, LargeAssumption DEF Sizes
  <2>2. QED
    BY <1>2, <2>1, AllocBeginStep
<1>3. ASSUME NEW t \in Threads, AllocMap(t) PROVE IInv'
  BY <1>3, AllocMapStep
<1>4. ASSUME NEW t \in Threads, AllocStamp(t) PROVE IInv'
  BY <1>4, AllocStampStep
<1>5. ASSUME NEW t \in Threads, NEW r \in Regions, FreeBegin(t, r) PROVE IInv'
  BY <1>5, FreeBeginStep
<1>6. ASSUME NEW t \in Threads, FreePut(t) PROVE IInv'
  BY <1>6, FreePutStep
<1>7. ASSUME NEW t \in Threads, Drain(t) PROVE IInv'
  BY <1>7, DrainStep
<1>8. ASSUME NEW t \in Threads, Unmap(t) PROVE IInv'
  BY <1>8, UnmapStep
<1>9. CASE UNCHANGED vars
  <2>1. UNCHANGED <<mapped, meta, cache, bytes, job, held>> /\ debug' = debug
    BY <1>9 DEF vars
  <2>2. debug' \in BOOLEAN
    BY <2>1 DEF IInv, TypeOK
  <2>3. QED
    BY <2>1, <2>2, OptionStep
<1>10. QED
  BY <1>1, <1>2, <1>3, <1>4, <1>5, <1>6, <1>7, <1>8, <1>9 DEF Next

LEMMA Invariance == Spec => []IInv
  BY InitIInv, NextIInv, PTL DEF Spec

\* Whatever allocations, frees, evictions and drains overlap, every mapped
\* region is with its caller, in one slot of the cache, or with one thread:
\* v8m_large_alloc never hands out a region twice and none is lost.
THEOREM RegionsArePartitioned == Spec => []RegionsPartitioned
  BY Invariance, InvariantsNamed, PTL

\* The size in a region's header, in its slot or in a free under way is the
\* one it was mapped with, and the cache has no guarded region, although
\* V8M_OPT_DEBUG is switched at any time.
THEOREM RecycledSizesAgree == Spec => []SizesAgree
  BY Invariance, InvariantsNamed, PTL

\* v8m_large_bytes_in_use and v8m_huge_bytes_in_use are the sizes of the
\* regions in the callers' hands, class by class; neither goes below zero.
THEOREM BytesAreExact == Spec => []BytesInUseExact
  BY Invariance, InvariantsNamed, PTL
=============================================================================
