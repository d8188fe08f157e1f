-------------------------- MODULE RegionMapProofs ---------------------------
(***************************************************************************)
(* The proof about RegionMap: where the stores of a writer stay behind its *)
(* first increment of the counter (on x86_64), every answer of the         *)
(* ownership check was true at some instant of the call, for any threads,  *)
(* regions, capacity and number of retries.                                *)
(*                                                                         *)
(* The argument is the seqlock's: an even counter that a reader finds      *)
(* unchanged means that the array was not being stored to since, so that   *)
(* what the binary search has learnt of the slots below low and from high  *)
(* on is true of the map; the search is then exact because the map is      *)
(* sorted and its ranges are disjoint.                                     *)
(***************************************************************************)
EXTENDS RegionMap, SeqLemmas

\* The ranges follow each other and do not overlap.
Sorted(m) == \A i, j \in DOMAIN m : i < j => m[i].end <= m[j].start

\* The counter is odd just while a writer stores, and has room for the
\* increments still to come.
WriterInv ==
    \/ writer = NoWriter /\ seq % 2 = 0
    \/ /\ writer \in [phase : {"locked"}, map : Seq(Regions)] /\ Sorted(writer.map)
       /\ seq % 2 = 0 /\ seq + 2 <= MaxSeq
    \/ /\ writer \in [phase : {"storing"}, map : Seq(Regions)] /\ Sorted(writer.map)
       /\ seq % 2 = 1 /\ seq + 1 <= MaxSeq

\* A cached answer is true as long as the counter has not moved.
CacheInv(c) ==
    /\ c.seq <= seq /\ c.seq % 2 = 0
    /\ c.seq = seq => c.result = Owns(c.page)

\* What a reader has learnt is true as long as the counter has not moved.
SearchInv(q) ==
    /\ q.low <= q.high /\ q.high <= q.count
    /\ q.seq1 = seq => /\ q.high <= Len(map)
                       /\ \A i \in 1 .. q.low : map[i].start <= q.page
                       /\ \A i \in q.high + 1 .. Len(map) : q.page < map[i].start

QueryInv(q, c, s) ==
    /\ q.pc # "idle" => Owns(q.page) \in s
    /\ q.pc = "cached" => c.page = q.page
    /\ q.pc \in {"count", "search", "seq2"} =>
          q.retry < Retries /\ q.seq1 <= seq /\ q.seq1 % 2 = 0
    /\ q.pc = "search" => SearchInv(q)
    /\ q.pc = "seq2" /\ q.seq1 = seq => q.owned = Owns(q.page)

ThreadInv(q, c, v, s) ==
    /\ v # None => v \in s
    /\ CacheInv(c)
    /\ QueryInv(q, c, s)

IInv ==
    /\ ~ EarlyStores
    /\ TypeOK
    /\ Sorted(map)
    /\ WriterInv
    /\ \A t \in Threads : ThreadInv(query[t], cache[t], verdict[t], seen[t])

LEMMA InvariantNamed == IInv => OwnsExact
  BY DEF IInv, ThreadInv, OwnsExact

LEMMA OwnsBoolean ==
    ASSUME NEW m, NEW p
    PROVE  OwnsIn(m, p) \in BOOLEAN
  BY DEF OwnsIn

LEMMA InitIInv == ~ EarlyStores /\ Init => IInv
<1> SUFFICES ASSUME ~ EarlyStores, Init PROVE IInv
  OBVIOUS
<1>1. NoQuery \in Queries
  BY MapBounds DEF NoQuery, Queries
<1>2. map = <<>> /\ map \in Seq(Regions) /\ Len(map) = 0 /\ DOMAIN map = {}
  BY DEF Init
<1>3. TypeOK
  BY <1>1, <1>2, MapBounds DEF Init, TypeOK
<1>4. Sorted(map) /\ WriterInv
  BY <1>2 DEF Init, Sorted, WriterInv
<1>5. Owns(0) = FALSE
  BY <1>2 DEF Owns, OwnsIn
<1>6. ASSUME NEW t \in Threads
      PROVE  ThreadInv(query[t], cache[t], verdict[t], seen[t])
  <2>1. /\ query[t] = NoQuery /\ verdict[t] = None
        /\ cache[t] = [page |-> 0, seq |-> 0, result |-> FALSE] /\ seq = 0
    BY DEF Init
  <2>2. CacheInv(cache[t])
    <3>1. cache[t].page = 0 /\ cache[t].seq = 0 /\ cache[t].result = FALSE /\ seq = 0
      BY <2>1
    <3>2. cache[t].result = Owns(cache[t].page)
      BY <1>5, <3>1, Zenon
    <3>3. QED
      BY <3>1, <3>2 DEF CacheInv
  <2>3. QueryInv(query[t], cache[t], seen[t])
    BY <2>1 DEF QueryInv, NoQuery
  <2>4. QED
    BY <2>1, <2>2, <2>3 DEF ThreadInv
<1>7. QED
  BY <1>3, <1>4, <1>6 DEF IInv

-----------------------------------------------------------------------------
\* The steps of a writer

\* Inserting a range that overlaps none at its lower bound keeps the order.
LEMMA InsertSorted ==
    ASSUME map \in Seq(Regions), Sorted(map), NEW r \in Regions, NEW i \in 1 .. Len(map) + 1,
           \A j \in DOMAIN map : map[j].end <= r.start \/ r.end <= map[j].start,
           LowerBound(r.start, i)
    PROVE  /\ Insert(map, i, r) \in Seq(Regions) /\ Len(Insert(map, i, r)) = Len(map) + 1
           /\ Sorted(Insert(map, i, r))
<1> DEFINE m == Insert(map, i, r)
<1>1. /\ m \in Seq(Regions) /\ Len(m) = Len(map) + 1 /\ DOMAIN m = 1 .. Len(map) + 1
      /\ \A j \in 1 .. Len(m) : m[j] = IF j < i THEN map[j] ELSE IF j = i THEN r ELSE map[j - 1]
  BY InsertElements
<1>2. Len(map) \in Nat /\ DOMAIN map = 1 .. Len(map)
  BY LenProperties
<1>3. /\ \A q \in Regions : q.start \in Nat /\ q.end \in Nat /\ q.start < q.end
      /\ \A j \in 1 .. Len(map) : map[j] \in Regions
  BY RegionsAssumption, ElementOfSeq
<1> HIDE DEF m
<1>4. \A j \in 1 .. i - 1 : map[j].end <= r.start
  BY <1>2, <1>3 DEF LowerBound
<1>5. \A j \in i .. Len(map) : r.end <= map[j].start
  <2>1. ASSUME NEW j \in i .. Len(map)
        PROVE  map[j].start >= r.start
    <3>1. i \in 1 .. Len(map) /\ j \in 1 .. Len(map) /\ map[i].start >= r.start
      BY <1>2, <2>1 DEF LowerBound
    <3>2. i < j => map[i].end <= map[j].start
      BY <1>2, <3>1 DEF Sorted
    <3>3. QED
      BY <1>2, <1>3, <3>1, <3>2
  <2>2. QED
    BY <1>2, <1>3, <2>1
<1>6. ASSUME NEW j \in DOMAIN m, NEW k \in DOMAIN m, j < k
      PROVE  m[j].end <= m[k].start
  <2>1. j \in 1 .. Len(m) /\ k \in 1 .. Len(m)
    BY <1>1
  <2>2. CASE k < i
    BY <1>1, <1>2, <1>6, <2>1, <2>2 DEF Sorted
  <2>3. CASE k = i
    BY <1>1, <1>2, <1>4, <1>6, <2>1, <2>3
  <2>4. CASE k > i /\ j < i
    <3>1. m[j] = map[j] /\ m[k] = map[k - 1] /\ j \in DOMAIN map /\ k - 1 \in DOMAIN map /\ j < k - 1
      BY <1>1, <1>2, <1>6, <2>1, <2>4
    <3>2. QED
      BY <3>1 DEF Sorted
  <2>5. CASE k > i /\ j = i
    BY <1>1, <1>2, <1>5, <1>6, <2>1, <2>5
  <2>6. CASE k > i /\ j > i
    <3>1. /\ m[j] = map[j - 1] /\ m[k] = map[k - 1]
          /\ j - 1 \in DOMAIN map /\ k - 1 \in DOMAIN map /\ j - 1 < k - 1
      BY <1>1, <1>2, <1>6, <2>1, <2>6
    <3>2. QED
      BY <3>1 DEF Sorted
  <2>7. QED
    BY <1>2, <2>1, <2>2, <2>3, <2>4, <2>5, <2>6
<1>7. QED
  BY <1>1, <1>6 DEF Sorted, m

LEMMA CutSorted ==
    ASSUME map \in Seq(Regions), Sorted(map), NEW i \in 1 .. Len(map)
    PROVE  /\ Cut(map, i) \in Seq(Regions) /\ Len(Cut(map, i)) = Len(map) - 1
           /\ Sorted(Cut(map, i))
<1> DEFINE m == Cut(map, i)
<1>1. /\ m \in Seq(Regions) /\ Len(m) = Len(map) - 1 /\ DOMAIN m = 1 .. Len(map) - 1
      /\ \A j \in 1 .. Len(m) : m[j] = IF j < i THEN map[j] ELSE map[j + 1]
  BY CutElements
<1>2. Len(map) \in Nat /\ DOMAIN map = 1 .. Len(map)
  BY LenProperties
<1> HIDE DEF m
<1>3. ASSUME NEW j \in DOMAIN m, NEW k \in DOMAIN m, j < k
      PROVE  m[j].end <= m[k].start
  <2> DEFINE a == IF j < i THEN j ELSE j + 1
             b == IF k < i THEN k ELSE k + 1
  <2>1. m[j] = map[a] /\ m[k] = map[b]
    BY <1>1
  <2>2. a \in DOMAIN map /\ b \in DOMAIN map /\ a < b
    BY <1>1, <1>2, <1>3
  <2> HIDE DEF a, b
  <2>3. QED
    BY <2>1, <2>2 DEF Sorted
<1>4. QED
  BY <1>1, <1>3 DEF Sorted, m

\* A writer takes the lock with the array that it will store.
LEMMA WriterLocks ==
    ASSUME IInv, NEW m \in Seq(Regions), Len(m) <= Capacity, Sorted(m),
           writer' = [phase |-> "locked", map |-> m], seq % 2 = 0, seq + 2 <= MaxSeq,
           UNCHANGED <<map, seq, query, cache, verdict, seen>>
    PROVE  IInv'
<1>1. TypeOK'
  BY DEF IInv, TypeOK
<1>2. Sorted(map)' /\ WriterInv'
  BY DEF IInv, Sorted, WriterInv
<1>3. ASSUME NEW t \in Threads
      PROVE  ThreadInv(query[t], cache[t], verdict[t], seen[t])'
  <2>1. ThreadInv(query[t], cache[t], verdict[t], seen[t])
    BY DEF IInv
  <2>2. QED
    BY <2>1 DEF ThreadInv, CacheInv, QueryInv, SearchInv, Owns
<1>4. QED
  BY <1>1, <1>2, <1>3 DEF IInv

\* Once the counter has moved, what was learnt before claims nothing.
LEMMA CounterMoves ==
    ASSUME TypeOK, NEW t \in Threads, ThreadInv(query[t], cache[t], verdict[t], seen[t]),
           seq' \in Nat, seq < seq', UNCHANGED <<query, cache, verdict>>,
           seen[t] \subseteq seen'[t],
           query[t].pc # "idle" => Owns(query[t].page)' \in seen'[t]
    PROVE  ThreadInv(query[t], cache[t], verdict[t], seen[t])'
<1> DEFINE q == query[t]
           c == cache[t]
<1>1. q.seq1 \in Nat /\ c.seq \in Nat /\ seq \in Nat
  BY MapBounds DEF TypeOK, Queries
<1>2. c.seq <= seq' /\ c.seq # seq' /\ c.seq % 2 = 0
  BY <1>1 DEF ThreadInv, CacheInv
<1>3. CacheInv(c)'
  BY <1>2 DEF CacheInv
<1>4. QueryInv(q, c, seen[t])'
  BY <1>1 DEF ThreadInv, QueryInv, SearchInv
<1>5. QED
  BY <1>3, <1>4 DEF ThreadInv

LEMMA RegisterStep ==
    ASSUME IInv, NEW r \in Regions, Register(r)
    PROVE  IInv'
<1>1. PICK i \in 1 .. Len(map) + 1 :
         LowerBound(r.start, i) /\ writer' = [phase |-> "locked", map |-> Insert(map, i, r)]
  BY DEF Register
<1> DEFINE m == Insert(map, i, r)
<1>2. /\ writer = NoWriter /\ seq + 2 <= MaxSeq /\ Len(map) < Capacity
      /\ UNCHANGED <<map, seq, query, cache, verdict, seen>>
      /\ map \in Seq(Regions) /\ Sorted(map) /\ TypeOK
      /\ \A j \in DOMAIN map : map[j].end <= r.start \/ r.end <= map[j].start
  BY DEF Register, rvars, IInv, TypeOK
<1>3. m \in Seq(Regions) /\ Len(m) = Len(map) + 1 /\ Sorted(m)
  BY <1>1, <1>2, InsertSorted
<1>4. seq % 2 = 0
  BY <1>2 DEF IInv, WriterInv, NoWriter
<1> HIDE DEF m
<1>5. Len(m) <= Capacity
  BY <1>2, <1>3, LenProperties, MapBounds
<1>6. /\ writer' = [phase |-> "locked", map |-> m]
  BY <1>1 DEF m
<1>7. QED
  BY <1>2, <1>3, <1>4, <1>5, <1>6, WriterLocks

LEMMA UnregisterStep ==
    ASSUME IInv, NEW r \in Regions, Unregister(r)
    PROVE  IInv'
<1>1. PICK i \in 1 .. Len(map) : writer' = [phase |-> "locked", map |-> Cut(map, i)]
  BY DEF Unregister
<1> DEFINE m == Cut(map, i)
<1>2. /\ writer = NoWriter /\ seq + 2 <= MaxSeq
      /\ UNCHANGED <<map, seq, query, cache, verdict, seen>>
      /\ map \in Seq(Regions) /\ Sorted(map) /\ Len(map) <= Capacity
  BY DEF Unregister, rvars, IInv, TypeOK
<1>3. m \in Seq(Regions) /\ Len(m) = Len(map) - 1 /\ Sorted(m)
  BY <1>1, <1>2, CutSorted
<1>4. seq % 2 = 0
  BY <1>2 DEF IInv, WriterInv, NoWriter
<1> HIDE DEF m
<1>5. Len(m) <= Capacity
  BY <1>2, <1>3, LenProperties, MapBounds
<1>6. /\ writer' = [phase |-> "locked", map |-> m]
  BY <1>1 DEF m
<1>7. QED
  BY <1>2, <1>3, <1>4, <1>5, <1>6, WriterLocks

LEMMA BeginWriteStep ==
    ASSUME IInv, BeginWrite
    PROVE  IInv'
<1>1. /\ writer.phase = "locked" /\ seq' = seq + 1 /\ writer' = [writer EXCEPT !.phase = "storing"]
      /\ UNCHANGED <<map, query, cache, verdict, seen>>
  BY DEF BeginWrite, rvars
<1>2. /\ writer \in [phase : {"locked"}, map : Seq(Regions)] /\ Sorted(writer.map)
      /\ seq % 2 = 0 /\ seq + 2 <= MaxSeq
  BY <1>1 DEF IInv, WriterInv, NoWriter
<1>3. seq \in 0 .. MaxSeq /\ MaxSeq \in Nat /\ TypeOK
  BY MapBounds DEF IInv, TypeOK
<1>4. seq' \in 0 .. MaxSeq /\ seq' % 2 = 1 /\ seq' + 1 <= MaxSeq /\ seq < seq'
  BY <1>1, <1>2, <1>3
<1>5. /\ writer' \in [phase : {"storing"}, map : Seq(Regions)] /\ writer'.map = writer.map
      /\ writer'.phase = "storing" /\ Len(writer.map) <= Capacity
  <2>1. Len(writer.map) <= Capacity
    BY <1>1, <1>3 DEF TypeOK, NoWriter
  <2>2. writer \in [phase : {"locked"}, map : Seq(Regions)]
    BY <1>2
  <2>3. QED
    BY <1>1, <2>1, <2>2
<1>6. TypeOK'
  BY <1>1, <1>2, <1>3, <1>4, <1>5 DEF TypeOK
<1>7. Sorted(map)' /\ WriterInv'
  BY <1>1, <1>2, <1>4, <1>5 DEF IInv, Sorted, WriterInv
<1>8. ASSUME NEW t \in Threads
      PROVE  ThreadInv(query[t], cache[t], verdict[t], seen[t])'
  <2>1. ThreadInv(query[t], cache[t], verdict[t], seen[t])
    BY DEF IInv
  <2>2. Owns(query[t].page)' = Owns(query[t].page) /\ seen[t] = seen'[t]
    BY <1>1 DEF Owns
  <2>3. query[t].pc # "idle" => Owns(query[t].page)' \in seen'[t]
    BY <2>1, <2>2 DEF ThreadInv, QueryInv
  <2>4. seq' \in Nat /\ seq < seq' /\ UNCHANGED <<query, cache, verdict>>
    BY <1>1, <1>3, <1>4
  <2>5. QED
    BY <1>3, <2>1, <2>2, <2>3, <2>4, CounterMoves
<1>9. QED
  BY <1>6, <1>7, <1>8 DEF IInv

LEMMA EndWriteStep ==
    ASSUME IInv, EndWrite
    PROVE  IInv'
<1>1. /\ writer.phase = "storing" /\ map' = writer.map /\ seq' = seq + 1 /\ writer' = NoWriter
      /\ UNCHANGED <<query, cache, verdict>>
      /\ seen' = [t \in Threads |-> IF query[t].pc = "idle" THEN seen[t]
                                    ELSE seen[t] \cup {OwnsIn(writer.map, query[t].page)}]
  BY DEF EndWrite, rvars
<1>2. /\ writer \in [phase : {"storing"}, map : Seq(Regions)] /\ Sorted(writer.map)
      /\ seq % 2 = 1 /\ seq + 1 <= MaxSeq
  BY <1>1 DEF IInv, WriterInv, NoWriter
<1>3. seq \in 0 .. MaxSeq /\ MaxSeq \in Nat /\ TypeOK
  BY MapBounds DEF IInv, TypeOK
<1>4. seq' \in 0 .. MaxSeq /\ seq' % 2 = 0 /\ seq < seq'
  BY <1>1, <1>2, <1>3
<1>5. map' \in Seq(Regions) /\ Len(map') <= Capacity
  BY <1>1, <1>2, <1>3 DEF TypeOK, NoWriter
<1>6. seen' \in [Threads -> SUBSET BOOLEAN]
  <2>1. \A t \in Threads : seen[t] \in SUBSET BOOLEAN /\ OwnsIn(writer.map, query[t].page) \in BOOLEAN
    BY <1>3, OwnsBoolean DEF TypeOK
  <2>2. QED
    BY <1>1, <2>1
<1>7. TypeOK'
  BY <1>1, <1>3, <1>4, <1>5, <1>6 DEF TypeOK
<1>8. Sorted(map)' /\ WriterInv'
  BY <1>1, <1>2, <1>4 DEF Sorted, WriterInv
<1>9. ASSUME NEW t \in Threads
      PROVE  ThreadInv(query[t], cache[t], verdict[t], seen[t])'
  <2>1. /\ seen[t] \subseteq seen'[t]
        /\ query[t].pc # "idle" => OwnsIn(writer.map, query[t].page) \in seen'[t]
    BY <1>1
  <2>2. Owns(query[t].page)' = OwnsIn(writer.map, query[t].page)
    BY <1>1 DEF Owns
  <2>3. ThreadInv(query[t], cache[t], verdict[t], seen[t])
    BY DEF IInv
  <2>4. QED
    BY <1>1, <1>3, <1>4, <2>1, <2>2, <2>3, CounterMoves
<1>10. QED
  BY <1>7, <1>8, <1>9 DEF IInv

-----------------------------------------------------------------------------
\* The steps of a reader

Caches == [page : Pages \cup {0}, seq : 0 .. MaxSeq, result : BOOLEAN]

\* A reader changes nothing but its own locals, cache and answer.
LEMMA ReaderStep ==
    ASSUME IInv, NEW t \in Threads, UNCHANGED <<map, seq, writer>>,
           NEW q \in Queries, query' = [query EXCEPT ![t] = q],
           NEW c \in Caches, cache' = [cache EXCEPT ![t] = c],
           NEW v \in BOOLEAN \cup {None}, verdict' = [verdict EXCEPT ![t] = v],
           NEW s \in SUBSET BOOLEAN, seen' = [seen EXCEPT ![t] = s],
           ThreadInv(q, c, v, s)
    PROVE  IInv'
<1>1. TypeOK'
  BY DEF IInv, TypeOK, Caches
<1>2. Sorted(map)' /\ WriterInv'
  BY DEF IInv, Sorted, WriterInv
<1>3. ASSUME NEW u \in Threads
      PROVE  ThreadInv(query[u], cache[u], verdict[u], seen[u])'
  <2>1. \E a, b, w, z : /\ ThreadInv(a, b, w, z)
                        /\ query'[u] = a /\ cache'[u] = b /\ verdict'[u] = w /\ seen'[u] = z
    <3>1. CASE u = t
      BY <3>1 DEF IInv, TypeOK
    <3>2. CASE u # t
      BY <3>2 DEF IInv, TypeOK
    <3>3. QED
      BY <3>1, <3>2
  <2>2. QED
    BY <2>1 DEF ThreadInv, CacheInv, QueryInv, SearchInv, Owns
<1>4. QED
  BY <1>1, <1>2, <1>3 DEF IInv

\* Most steps change only the locals.
LEMMA LocalStep ==
    ASSUME IInv, NEW t \in Threads, UNCHANGED <<map, seq, writer, cache, verdict, seen>>,
           NEW q \in Queries, query' = [query EXCEPT ![t] = q],
           QueryInv(q, cache[t], seen[t])
    PROVE  IInv'
<1>1. /\ cache[t] \in Caches /\ verdict[t] \in BOOLEAN \cup {None} /\ seen[t] \in SUBSET BOOLEAN
      /\ cache' = [cache EXCEPT ![t] = cache[t]]
      /\ verdict' = [verdict EXCEPT ![t] = verdict[t]]
      /\ seen' = [seen EXCEPT ![t] = seen[t]]
  BY DEF IInv, TypeOK, Caches
<1>2. ThreadInv(q, cache[t], verdict[t], seen[t])
  BY DEF IInv, ThreadInv
<1>3. QED
  BY <1>1, <1>2, ReaderStep

\* What is known of the locals of a thread.
LEMMA Locals ==
    ASSUME IInv, NEW t \in Threads
    PROVE  /\ query[t] \in Queries /\ QueryInv(query[t], cache[t], seen[t])
           /\ cache[t] \in Caches /\ CacheInv(cache[t])
           /\ seen[t] \in SUBSET BOOLEAN /\ seq \in 0 .. MaxSeq
  BY DEF IInv, TypeOK, ThreadInv, Caches

\* While the counter is where the reader found it, no writer has stored.
LEMMA Quiet ==
    ASSUME IInv, seq % 2 = 0
    PROVE  Images = {map} /\ ~ InFlux
  BY DEF IInv, WriterInv, Images, InFlux, NoWriter

\* The answer is given, and the call is over.
LEMMA ReturnStep ==
    ASSUME IInv, NEW t \in Threads, NEW answer \in BOOLEAN, Return(t, answer), answer \in seen[t],
           UNCHANGED <<map, seq, writer, seen>>,
           NEW c \in Caches, CacheInv(c), cache' = [cache EXCEPT ![t] = c]
    PROVE  IInv'
<1>1. NoQuery \in Queries /\ NoQuery.pc = "idle"
  BY MapBounds DEF NoQuery, Queries
<1>2. seen[t] \in SUBSET BOOLEAN /\ seen' = [seen EXCEPT ![t] = seen[t]]
  BY DEF IInv, TypeOK
<1>3. QueryInv(NoQuery, c, seen[t])
  BY <1>1 DEF QueryInv
<1>4. ThreadInv(NoQuery, c, answer, seen[t])
  BY <1>3 DEF ThreadInv
<1>5. /\ query' = [query EXCEPT ![t] = NoQuery] /\ verdict' = [verdict EXCEPT ![t] = answer]
      /\ answer \in BOOLEAN \cup {None}
  BY DEF Return
<1>6. QED
  BY <1>1, <1>2, <1>4, <1>5, ReaderStep

LEMMA OwnsFastStep ==
    ASSUME IInv, NEW t \in Threads, NEW p \in Pages, OwnsFast(t, p)
    PROVE  IInv'
<1> DEFINE next == IF cache[t].page = p THEN "cached" ELSE "seq1"
           a == [query[t] EXCEPT !.page = p]
           q == [a EXCEPT !.pc = next]
<1>1. /\ query' = [query EXCEPT ![t] = q] /\ verdict' = [verdict EXCEPT ![t] = None]
      /\ seen' = [seen EXCEPT ![t] = {Owns(p)}] /\ UNCHANGED <<map, seq, writer, cache>>
  BY DEF OwnsFast, IInv, TypeOK
<1>2. q \in Queries /\ q.pc = next /\ q.page = p
  BY Locals DEF Queries
<1>3. QueryInv(q, cache[t], {Owns(p)})
  BY <1>2 DEF QueryInv
<1>4. {Owns(p)} \in SUBSET BOOLEAN
  BY OwnsBoolean DEF Owns
<1>5. cache' = [cache EXCEPT ![t] = cache[t]] /\ cache[t] \in Caches /\ CacheInv(cache[t])
  BY <1>1, Locals DEF IInv, TypeOK
<1> HIDE DEF q
<1>6. ThreadInv(q, cache[t], None, {Owns(p)})
  BY <1>3, <1>5 DEF ThreadInv
<1>7. QED
  BY <1>1, <1>2, <1>4, <1>5, <1>6, ReaderStep

LEMMA TryCacheStep ==
    ASSUME IInv, NEW t \in Threads, TryCache(t)
    PROVE  IInv'
<1> DEFINE q == [query[t] EXCEPT !.pc = "seq1"]
<1>1. query[t].pc = "cached" /\ UNCHANGED <<map, seq, writer, cache, seen>>
  BY DEF TryCache
<1>2. /\ query[t] \in Queries /\ QueryInv(query[t], cache[t], seen[t])
      /\ cache[t] \in Caches /\ CacheInv(cache[t])
  BY Locals
<1>3. CASE seq = cache[t].seq /\ seq % 2 = 0
  <2>1. Return(t, cache[t].result)
    BY <1>3 DEF TryCache
  <2>2. cache[t].result \in seen[t]
    BY <1>1, <1>2, <1>3 DEF QueryInv, CacheInv
  <2>3. cache[t].result \in BOOLEAN /\ cache' = [cache EXCEPT ![t] = cache[t]]
    BY <1>1, <1>2 DEF Caches, IInv, TypeOK
  <2>4. QED
    BY <1>1, <1>2, <2>1, <2>2, <2>3, ReturnStep
<1>4. CASE ~ (seq = cache[t].seq /\ seq % 2 = 0)
  <2>1. query' = [query EXCEPT ![t] = q] /\ verdict' = verdict
    BY <1>4 DEF TryCache, IInv, TypeOK
  <2>2. q \in Queries /\ q.pc = "seq1" /\ q.page = query[t].page
    BY <1>2 DEF Queries
  <2> HIDE DEF q
  <2>3. QueryInv(q, cache[t], seen[t])
    BY <1>1, <1>2, <2>2 DEF QueryInv
  <2>4. QED
    BY <1>1, <2>1, <2>2, <2>3, LocalStep
<1>5. QED
  BY <1>3, <1>4

LEMMA LoadSeqStep ==
    ASSUME IInv, NEW t \in Threads, LoadSeq(t)
    PROVE  IInv'
<1>1. query[t].pc = "seq1" /\ UNCHANGED <<map, seq, writer, cache, verdict, seen>>
  BY DEF LoadSeq
<1>2. query[t] \in Queries /\ QueryInv(query[t], cache[t], seen[t]) /\ seq \in 0 .. MaxSeq
  BY Locals
<1>3. CASE query' = [query EXCEPT ![t].pc = "slow"]
  <2> DEFINE q == [query[t] EXCEPT !.pc = "slow"]
  <2>1. query' = [query EXCEPT ![t] = q]
    BY <1>3 DEF IInv, TypeOK
  <2>2. q \in Queries /\ q.pc = "slow" /\ q.page = query[t].page
    BY <1>2 DEF Queries
  <2> HIDE DEF q
  <2>3. QueryInv(q, cache[t], seen[t])
    BY <1>1, <1>2, <2>2 DEF QueryInv
  <2>4. QED
    BY <1>1, <2>1, <2>2, <2>3, LocalStep
<1>4. CASE query[t].retry < Retries /\ query' = [query EXCEPT ![t].retry = @ + 1]
  <2> DEFINE q == [query[t] EXCEPT !.retry = @ + 1]
  <2>1. query' = [query EXCEPT ![t] = q]
    BY <1>4 DEF IInv, TypeOK
  <2>2. query[t].retry + 1 \in 0 .. Retries
    BY <1>2, <1>4, MapBounds DEF Queries
  <2>3. q \in Queries /\ q.pc = "seq1" /\ q.page = query[t].page
    BY <1>1, <1>2, <2>2 DEF Queries
  <2> HIDE DEF q
  <2>4. QueryInv(q, cache[t], seen[t])
    BY <1>1, <1>2, <2>3 DEF QueryInv
  <2>5. QED
    BY <1>1, <2>1, <2>3, <2>4, LocalStep
<1>5. CASE /\ query[t].retry < Retries /\ seq % 2 = 0
           /\ query' = [query EXCEPT ![t].seq1 = seq, ![t].pc = "count"]
  <2> DEFINE a == [query[t] EXCEPT !.seq1 = seq]
             q == [a EXCEPT !.pc = "count"]
  <2>1. query' = [query EXCEPT ![t] = q]
    BY <1>5 DEF IInv, TypeOK
  <2>2. /\ q \in Queries /\ q.pc = "count" /\ q.page = query[t].page
        /\ q.seq1 = seq /\ q.retry = query[t].retry
    BY <1>2 DEF Queries
  <2> HIDE DEF q
  <2>3. QueryInv(q, cache[t], seen[t])
    BY <1>1, <1>2, <1>5, <2>2, MapBounds DEF QueryInv
  <2>4. QED
    BY <1>1, <2>1, <2>2, <2>3, LocalStep
<1>6. QED
  BY <1>3, <1>4, <1>5 DEF LoadSeq

\* A writer's array keeps to the capacity, too.
LEMMA ImageBounds ==
    ASSUME IInv, NEW m \in Images
    PROVE  m \in Seq(Regions) /\ Len(m) \in 0 .. Capacity
<1>1. m \in Seq(Regions) /\ Len(m) <= Capacity
  BY DEF IInv, TypeOK, Images, InFlux, NoWriter
<1>2. QED
  BY <1>1, LenProperties, MapBounds

LEMMA LoadCountStep ==
    ASSUME IInv, NEW t \in Threads, LoadCount(t)
    PROVE  IInv'
<1>1. query[t].pc = "count" /\ UNCHANGED <<map, seq, writer, cache, verdict, seen>>
  BY DEF LoadCount
<1>2. query[t] \in Queries /\ QueryInv(query[t], cache[t], seen[t]) /\ seq \in 0 .. MaxSeq
  BY Locals
<1>3. PICK m \in Images :
         query' = [query EXCEPT ![t].count = Len(m), ![t].low = 0, ![t].high = Len(m),
                                ![t].pc = "search"]
  BY DEF LoadCount
<1>4. Len(m) \in 0 .. Capacity
  BY ImageBounds
<1> DEFINE k == Len(m)
           a == [query[t] EXCEPT !.count = k]
           b == [a EXCEPT !.low = 0]
           c == [b EXCEPT !.high = k]
           q == [c EXCEPT !.pc = "search"]
<1>5. query' = [query EXCEPT ![t] = q]
  BY <1>3 DEF IInv, TypeOK
<1> HIDE DEF k
<1>6. k \in 0 .. Capacity /\ 0 \in 0 .. Capacity
  BY <1>4, MapBounds DEF k
<1>7. /\ q \in Queries /\ q.pc = "search" /\ q.page = query[t].page /\ q.seq1 = query[t].seq1
      /\ q.low = 0 /\ q.high = k /\ q.count = k /\ q.retry = query[t].retry
  BY <1>2, <1>6 DEF Queries
<1> HIDE DEF q
<1>8. SearchInv(q)
  <2>1. ASSUME q.seq1 = seq PROVE k = Len(map)
    <3>1. seq % 2 = 0
      BY <1>1, <1>2, <1>7, <2>1 DEF QueryInv
    <3>2. QED
      BY <3>1, Quiet DEF k
  <2>2. Len(map) \in Nat
    BY LenProperties DEF IInv, TypeOK
  <2>3. QED
    BY <1>6, <1>7, <2>1, <2>2, MapBounds DEF SearchInv
<1>9. QueryInv(q, cache[t], seen[t])
  BY <1>1, <1>2, <1>7, <1>8 DEF QueryInv
<1>10. QED
  BY <1>1, <1>5, <1>7, <1>9, LocalStep

\* A load from a quiet array returns the region at the slot.
LEMMA QuietLoad ==
    ASSUME IInv, seq % 2 = 0, NEW i \in Nat, i < Len(map), NEW r \in Loads(i)
    PROVE  r = map[i + 1]
<1>1. Images = {map}
  BY Quiet
<1>2. QED
  BY <1>1 DEF Loads

LEMMA LocalTypes ==
    ASSUME NEW q \in Queries
    PROVE  /\ q.low \in 0 .. Capacity /\ q.high \in 0 .. Capacity /\ q.count \in 0 .. Capacity
           /\ q.page \in Nat /\ q.seq1 \in Nat
<1>1. /\ q.low \in 0 .. Capacity /\ q.high \in 0 .. Capacity /\ q.count \in 0 .. Capacity
      /\ q.page \in Pages \cup {0} /\ q.seq1 \in 0 .. MaxSeq
  BY DEF Queries
<1>2. q.page \in Nat
  <2>1. q.page \in Pages \cup {0}
    BY <1>1
  <2>2. 0 \in Nat
    OBVIOUS
  <2>3. QED
    BY <2>1, <2>2, PagesAssumption, Zenon
<1>3. q.seq1 \in Nat
  <2>1. MaxSeq \in Nat
    BY MapBounds
  <2>2. QED
    BY <1>1, <2>1
<1>4. QED
  BY <1>1, <1>2, <1>3

LEMMA SearchStepStep ==
    ASSUME IInv, NEW t \in Threads, SearchStep(t)
    PROVE  IInv'
<1> DEFINE old == query[t]
           mid == Mid(t)
<1>1. /\ old.pc = "search" /\ old.low < old.high
      /\ UNCHANGED <<map, seq, writer, cache, verdict, seen>>
  BY DEF SearchStep
<1>2. old \in Queries /\ QueryInv(old, cache[t], seen[t]) /\ seq \in 0 .. MaxSeq /\ SearchInv(old)
  BY <1>1, Locals DEF QueryInv
<1>3. PICK r \in Loads(mid) :
         query' = IF r.start <= old.page THEN [query EXCEPT ![t].low = mid + 1]
                                         ELSE [query EXCEPT ![t].high = mid]
  BY DEF SearchStep
<1>4. /\ old.low \in 0 .. Capacity /\ old.high \in 0 .. Capacity /\ old.count \in 0 .. Capacity
      /\ old.page \in Nat /\ old.seq1 \in Nat
  BY <1>2, LocalTypes
<1>5. mid \in Nat /\ old.low <= mid /\ mid < old.high
  BY <1>1, <1>4, MapBounds DEF Mid
<1>6. /\ map \in Seq(Regions) /\ Len(map) \in Nat /\ DOMAIN map = 1 .. Len(map)
      /\ \A i \in 1 .. Len(map) : map[i].start \in Nat /\ map[i].end \in Nat /\ map[i].start < map[i].end
  BY LenProperties, ElementOfSeq, RegionsAssumption DEF IInv, TypeOK
<1>7. old.seq1 = seq => old.high <= Len(map) /\ r = map[mid + 1]
  <2>1. ASSUME old.seq1 = seq PROVE seq % 2 = 0 /\ old.high <= Len(map)
    BY <1>1, <1>2, <2>1 DEF QueryInv, SearchInv
  <2>2. QED
    BY <1>4, <1>5, <1>6, <2>1, QuietLoad
<1> HIDE DEF mid, old
<1>8. CASE r.start <= old.page
  <2> DEFINE q == [old EXCEPT !.low = mid + 1]
  <2>1. query' = [query EXCEPT ![t] = q]
    BY <1>3, <1>8 DEF old, IInv, TypeOK
  <2>2. mid + 1 \in 0 .. Capacity
    BY <1>4, <1>5, MapBounds
  <2>3. /\ q \in Queries /\ q.pc = "search" /\ q.page = old.page /\ q.seq1 = old.seq1
        /\ q.low = mid + 1 /\ q.high = old.high /\ q.count = old.count /\ q.retry = old.retry
    BY <1>1, <1>2, <2>2 DEF Queries
  <2> HIDE DEF q
  <2>4. ASSUME q.seq1 = seq, NEW i \in 1 .. mid + 1
        PROVE  map[i].start <= old.page
    <3>1. mid + 1 \in 1 .. Len(map) /\ map[mid + 1].start <= old.page
      BY <1>4, <1>5, <1>6, <1>7, <1>8, <2>3, <2>4
    <3>2. i \in 1 .. Len(map) /\ (i < mid + 1 => map[i].end <= map[mid + 1].start)
      <4>1. i \in 1 .. Len(map) /\ i \in DOMAIN map /\ mid + 1 \in DOMAIN map
        BY <1>5, <1>6, <3>1
      <4>2. QED
        BY <4>1 DEF IInv, Sorted
    <3>3. /\ map[i].start \in Nat /\ map[i].end \in Nat /\ map[i].start < map[i].end
          /\ map[mid + 1].start \in Nat /\ map[mid + 1].end \in Nat
          /\ map[mid + 1].start < map[mid + 1].end
      BY <1>6, <3>1, <3>2
    <3>4. CASE i = mid + 1
      BY <3>1, <3>4
    <3>5. CASE i # mid + 1
      <4>1. old.page \in Nat /\ i < mid + 1
        BY <1>4, <1>5, <3>2, <3>5
      <4>2. QED
        BY <3>1, <3>2, <3>3, <4>1
    <3>6. QED
      BY <3>4, <3>5
  <2>5. SearchInv(q)
    BY <1>2, <1>4, <1>5, <2>3, <2>4 DEF SearchInv
  <2>6. QueryInv(q, cache[t], seen[t])
    BY <1>1, <1>2, <2>3, <2>5 DEF QueryInv
  <2>7. QED
    BY <1>1, <2>1, <2>3, <2>6, LocalStep
<1>9. CASE ~ (r.start <= old.page)
  <2> DEFINE q == [old EXCEPT !.high = mid]
  <2>1. query' = [query EXCEPT ![t] = q]
    BY <1>3, <1>9 DEF old, IInv, TypeOK
  <2>2. mid \in 0 .. Capacity
    BY <1>4, <1>5, MapBounds
  <2>3. /\ q \in Queries /\ q.pc = "search" /\ q.page = old.page /\ q.seq1 = old.seq1
        /\ q.low = old.low /\ q.high = mid /\ q.count = old.count /\ q.retry = old.retry
    BY <1>1, <1>2, <2>2 DEF Queries
  <2> HIDE DEF q
  <2>4. ASSUME q.seq1 = seq, NEW i \in mid + 1 .. Len(map)
        PROVE  old.page < map[i].start
    <3>1. mid + 1 \in 1 .. Len(map) /\ old.page < map[mid + 1].start
      BY <1>4, <1>5, <1>6, <1>7, <1>9, <2>3, <2>4
    <3>2. i \in 1 .. Len(map) /\ (mid + 1 < i => map[mid + 1].end <= map[i].start)
      <4>1. i \in 1 .. Len(map) /\ i \in DOMAIN map /\ mid + 1 \in DOMAIN map
        BY <1>5, <1>6, <3>1
      <4>2. QED
        BY <4>1 DEF IInv, Sorted
    <3>3. /\ map[i].start \in Nat /\ map[i].end \in Nat /\ map[i].start < map[i].end
          /\ map[mid + 1].start \in Nat /\ map[mid + 1].end \in Nat
          /\ map[mid + 1].start < map[mid + 1].end
      BY <1>6, <3>1, <3>2
    <3>4. CASE i = mid + 1
      BY <3>1, <3>4
    <3>5. CASE i # mid + 1
      <4>1. old.page \in Nat /\ mid + 1 < i
        BY <1>4, <1>5, <3>2, <3>5
      <4>2. QED
        BY <3>1, <3>2, <3>3, <4>1
    <3>6. QED
      BY <3>4, <3>5
  <2>5. SearchInv(q)
    BY <1>2, <1>4, <1>5, <1>6, <2>3, <2>4 DEF SearchInv
  <2>6. QueryInv(q, cache[t], seen[t])
    BY <1>1, <1>2, <2>3, <2>5 DEF QueryInv
  <2>7. QED
    BY <1>1, <2>1, <2>3, <2>6, LocalStep
<1>10. QED
  BY <1>8, <1>9

\* The region that the search ends at decides.
LEMMA SearchDecides ==
    ASSUME IInv, NEW p \in Nat, NEW k \in 0 .. Len(map),
           \A i \in 1 .. k : map[i].start <= p,
           \A i \in k + 1 .. Len(map) : p < map[i].start
    PROVE  Owns(p) <=> k > 0 /\ p < map[k].end
<1>1. /\ map \in Seq(Regions) /\ Len(map) \in Nat /\ DOMAIN map = 1 .. Len(map)
      /\ \A i \in 1 .. Len(map) : map[i].start \in Nat /\ map[i].end \in Nat /\ map[i].start < map[i].end
  BY LenProperties, ElementOfSeq, RegionsAssumption DEF IInv, TypeOK
<1>2. ASSUME NEW i \in DOMAIN map, Covers(map[i], p)
      PROVE  i = k
  <2>1. i \in 1 .. Len(map) /\ map[i].start <= p /\ p < map[i].end
    BY <1>1, <1>2 DEF Covers
  <2>2. i <= k
    BY <1>1, <2>1
  <2>3. i < k => map[i].end <= map[k].start /\ map[k].start <= p
    BY <1>1, <2>1 DEF IInv, Sorted
  <2>4. QED
    BY <1>1, <2>1, <2>2, <2>3
<1>3. k > 0 => k \in DOMAIN map /\ map[k].start <= p
  BY <1>1
<1>4. QED
  BY <1>1, <1>2, <1>3 DEF Owns, OwnsIn, Covers

LEMMA SearchEndStep ==
    ASSUME IInv, NEW t \in Threads, SearchEnd(t)
    PROVE  IInv'
<1> DEFINE old == query[t]
<1>1. /\ old.pc = "search" /\ old.low >= old.high
      /\ UNCHANGED <<map, seq, writer, cache, verdict, seen>>
  BY DEF SearchEnd
<1>2. old \in Queries /\ QueryInv(old, cache[t], seen[t]) /\ seq \in 0 .. MaxSeq /\ SearchInv(old)
  BY <1>1, Locals DEF QueryInv
<1>3. PICK ok \in BOOLEAN :
         /\ query' = [query EXCEPT ![t].owned = ok, ![t].pc = "seq2"]
         /\ \/ old.low = 0 /\ ok = FALSE
            \/ old.low > 0 /\ \E r, s \in Loads(old.low - 1) :
                                 ok = (r.start <= old.page /\ old.page < s.end)
  <2>1. CASE old.low = 0 /\ query' = [query EXCEPT ![t].owned = FALSE, ![t].pc = "seq2"]
    BY <2>1
  <2>2. CASE old.low > 0 /\ \E r, s \in Loads(old.low - 1) :
                query' = [query EXCEPT ![t].owned = r.start <= old.page /\ old.page < s.end,
                                       ![t].pc = "seq2"]
    <3>1. PICK r, s \in Loads(old.low - 1) :
             query' = [query EXCEPT ![t].owned = r.start <= old.page /\ old.page < s.end,
                                    ![t].pc = "seq2"]
      BY <2>2
    <3> DEFINE ok == (r.start <= old.page /\ old.page < s.end)
    <3>2. ok \in BOOLEAN /\ query' = [query EXCEPT ![t].owned = ok, ![t].pc = "seq2"]
      BY <3>1
    <3>3. WITNESS ok \in BOOLEAN
    <3>4. QED
      BY <2>2, <3>1, <3>2
  <2>3. QED
    BY <2>1, <2>2, Zenon DEF SearchEnd
<1>4. /\ old.low \in 0 .. Capacity /\ old.high \in 0 .. Capacity
      /\ old.page \in Nat /\ old.seq1 \in Nat
  BY <1>2, LocalTypes
<1> DEFINE a == [old EXCEPT !.owned = ok]
           q == [a EXCEPT !.pc = "seq2"]
<1>5. query' = [query EXCEPT ![t] = q]
  BY <1>3 DEF IInv, TypeOK
<1>6. /\ q \in Queries /\ q.pc = "seq2" /\ q.page = old.page /\ q.seq1 = old.seq1
      /\ q.owned = ok /\ q.retry = old.retry
  BY <1>2, <1>3 DEF Queries
<1> HIDE DEF q, old
<1>7. ASSUME old.seq1 = seq
      PROVE  ok = Owns(old.page)
  <2>1. /\ seq % 2 = 0 /\ old.low = old.high /\ old.high <= Len(map)
        /\ \A i \in 1 .. old.low : map[i].start <= old.page
        /\ \A i \in old.low + 1 .. Len(map) : old.page < map[i].start
    BY <1>1, <1>2, <1>4, <1>7, MapBounds DEF QueryInv, SearchInv
  <2>2. Len(map) \in Nat /\ old.low \in 0 .. Len(map)
    BY <1>4, <2>1, LenProperties, MapBounds DEF IInv, TypeOK
  <2>3. Owns(old.page) <=> old.low > 0 /\ old.page < map[old.low].end
    BY <1>4, <2>1, <2>2, SearchDecides
  <2>4. ok <=> old.low > 0 /\ old.page < map[old.low].end
    <3>1. CASE old.low = 0
      BY <1>3, <3>1
    <3>2. CASE old.low > 0
      <4>1. PICK r, s \in Loads(old.low - 1) : ok = (r.start <= old.page /\ old.page < s.end)
        BY <1>3, <3>2
      <4>2. old.low - 1 \in Nat /\ old.low - 1 < Len(map) /\ (old.low - 1) + 1 = old.low
        BY <2>2, <3>2
      <4>3. r = map[old.low] /\ s = map[old.low]
        BY <2>1, <4>2, QuietLoad
      <4>4. map[old.low].start <= old.page
        BY <2>1, <2>2, <3>2
      <4>5. QED
        BY <3>2, <4>1, <4>3, <4>4
    <3>3. QED
      BY <2>2, <3>1, <3>2
  <2>5. Owns(old.page) \in BOOLEAN /\ (ok <=> Owns(old.page))
    BY <2>3, <2>4, OwnsBoolean DEF Owns
  <2>6. QED
    BY <2>5, Zenon
<1>8. QueryInv(q, cache[t], seen[t])
  BY <1>1, <1>2, <1>6, <1>7 DEF QueryInv
<1>9. QED
  BY <1>1, <1>5, <1>6, <1>8, LocalStep

LEMMA ValidateStep ==
    ASSUME IInv, NEW t \in Threads, Validate(t)
    PROVE  IInv'
<1> DEFINE old == query[t]
<1>1. old.pc = "seq2" /\ UNCHANGED <<map, seq, writer, seen>>
  BY DEF Validate
<1>2. /\ old \in Queries /\ QueryInv(old, cache[t], seen[t]) /\ seq \in 0 .. MaxSeq
      /\ old.retry < Retries /\ old.seq1 % 2 = 0
  BY <1>1, Locals DEF QueryInv
<1>3. CASE seq = old.seq1
  <2> DEFINE c == [page |-> old.page, seq |-> seq, result |-> old.owned]
  <2>1. Return(t, old.owned) /\ cache' = [cache EXCEPT ![t] = c]
    BY <1>3 DEF Validate, Accept
  <2>2. old.owned = Owns(old.page) /\ old.owned \in seen[t] /\ old.owned \in BOOLEAN
    BY <1>1, <1>2, <1>3 DEF QueryInv, Queries
  <2>3. c \in Caches /\ c.seq = seq /\ c.result = old.owned /\ c.page = old.page
    BY <1>2 DEF Caches, Queries
  <2>4. CacheInv(c)
    <3> HIDE DEF c
    <3> QED
      BY <1>2, <1>3, <2>2, <2>3, MapBounds DEF CacheInv
  <2> HIDE DEF c
  <2>5. QED
    BY <1>1, <2>1, <2>2, <2>3, <2>4, ReturnStep
<1>4. CASE seq # old.seq1
  <2> DEFINE a == [old EXCEPT !.retry = @ + 1]
             q == [a EXCEPT !.pc = "seq1"]
  <2>1. query' = [query EXCEPT ![t] = q] /\ UNCHANGED <<cache, verdict>>
    BY <1>4 DEF Validate, IInv, TypeOK
  <2>2. old.retry + 1 \in 0 .. Retries
    BY <1>2, MapBounds DEF Queries
  <2>3. q \in Queries /\ q.pc = "seq1" /\ q.page = old.page
    BY <1>2, <2>2 DEF Queries
  <2> HIDE DEF q
  <2>4. QueryInv(q, cache[t], seen[t])
    BY <1>1, <1>2, <2>3 DEF QueryInv
  <2>5. QED
    BY <1>1, <2>1, <2>3, <2>4, LocalStep
<1>5. QED
  BY <1>3, <1>4

LEMMA SlowOwnsStep ==
    ASSUME IInv, NEW t \in Threads, SlowOwns(t)
    PROVE  IInv'
<1> DEFINE answer == Owns(query[t].page)
<1>1. /\ query[t].pc = "slow" /\ Return(t, answer)
      /\ UNCHANGED <<map, seq, writer, cache, seen>>
  BY DEF SlowOwns
<1>2. answer \in seen[t] /\ cache[t] \in Caches /\ CacheInv(cache[t])
  BY <1>1, Locals DEF QueryInv
<1>3. answer \in BOOLEAN
  BY OwnsBoolean DEF Owns
<1>4. cache' = [cache EXCEPT ![t] = cache[t]]
  BY <1>1 DEF IInv, TypeOK
<1> HIDE DEF answer
<1>5. QED
  BY <1>1, <1>2, <1>3, <1>4, ReturnStep

-----------------------------------------------------------------------------
\* The theorem

LEMMA NextIInv == IInv /\ [Next]_vars => IInv'
<1> SUFFICES ASSUME IInv, [Next]_vars PROVE IInv'
  OBVIOUS
<1>1. ASSUME NEW r \in Regions, Register(r) \/ Unregister(r)
      PROVE  IInv'
  BY <1>1, RegisterStep, UnregisterStep
<1>2. CASE BeginWrite \/ EndWrite
  BY <1>2, BeginWriteStep, EndWriteStep
<1>3. ASSUME NEW t \in Threads, Read(t)
      PROVE  IInv'
  BY <1>3, OwnsFastStep, TryCacheStep, LoadSeqStep, LoadCountStep, SearchStepStep,
     SearchEndStep, ValidateStep, SlowOwnsStep DEF Read
<1>4. CASE UNCHANGED vars
  BY <1>4 DEF vars, rvars, IInv, TypeOK, Sorted, WriterInv, ThreadInv, CacheInv, QueryInv,
     SearchInv, Owns
<1>5. QED
  BY <1>1, <1>2, <1>3, <1>4 DEF Next

\* v8m_page_heap_owns_fast, which takes no lock, answers what v8m_page_heap_owns
\* would have answered at some instant of the call, whether the answer comes
\* from the thread's cache, from a search between two equal and even loads of
\* g_region_seq, or from the locked fallback, and however many writers insert
\* and remove regions meanwhile; provided the stores of a writer do not overtake
\* its first increment of the counter.
THEOREM OwnershipIsExact == Spec /\ ~ EarlyStores => []OwnsExact
<1>1. IInv => OwnsExact
  BY InvariantNamed
<1>2. QED
  BY <1>1, InitIInv, NextIInv, PTL DEF Spec
=============================================================================
