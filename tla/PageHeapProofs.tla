--------------------------- MODULE PageHeapProofs ---------------------------
(***************************************************************************)
(* The proofs about PageHeap: for any threads, ranges, sizes, nodes and    *)
(* capacity of the region map, the map agrees with the address space, and  *)
(* the per-node counters with the map.                                     *)
(*                                                                         *)
(* What makes the two inductive is what v8m_page_heap_alloc and            *)
(* v8m_page_heap_free know of their range between two critical sections    *)
(* (JobInv): that it is registered, or not yet, or no longer, and bound to *)
(* a node or not, although the tick stamps and migrates regions meanwhile. *)
(***************************************************************************)
EXTENDS PageHeap, SetLemmas

Owned ==
    /\ held \subseteq Registered
    /\ \A r \in Ranges :
          /\ r \in Registered => space[r] = "mapped"
          /\ space[r] = "mapped" => r \in held \/ \E t \in Threads : Busy(t, r)
          /\ \A t \in Threads : Busy(t, r) =>
                r \notin held /\ space[r] = "mapped" /\ \A u \in Threads \ {t} : ~ Busy(u, r)

JobInv ==
    \A t \in Threads :
        LET j == job[t]
        IN  /\ j.pc \in {"promote", "bind", "record", "account"} => j.r \in Registered
            /\ j.pc \in {"register", "unaccount", "unmap"} => j.r \notin Registered
            /\ j.pc \in {"promote", "bind", "record"} => region[j.r].node = Unbound
            /\ j.pc = "account" => region[j.r].node # Unbound

WithinCapacity == Cardinality(Registered) <= Capacity

IInv == TypeOK /\ Owned /\ JobInv /\ WithinCapacity /\ NodeBytesExact

LEMMA InvariantsNamed == IInv => MapMatchesSpace /\ NodeBytesExact
  BY DEF IInv, Owned, WithinCapacity, MapMatchesSpace

LEMMA NodesFinite ==
    /\ IsFiniteSet(Nodes) /\ Nodes \subseteq Nat
    /\ 0 \in Nodes /\ NumNodes \in Nat \ {0} /\ ByteMod \in Nat \ {0}
  BY FS_Interval, HeapAssumption DEF Nodes

LEMMA InitIInv == Init => IInv
<1> SUFFICES ASSUME Init PROVE IInv
  OBVIOUS
<1>1. TypeOK
  BY HeapAssumption DEF Init, TypeOK, Jobs, NoRegion, NoJob, NoTick, Nodes
<1>2. Registered = {} /\ held = {} /\ \A t \in Threads : job[t] = NoJob
  BY DEF Init, Registered, NoRegion
<1>3. Owned
  BY <1>2 DEF Init, Owned, Busy
<1>4. JobInv
  BY <1>2 DEF JobInv, NoJob
<1>5. WithinCapacity
  BY <1>2, FS_EmptySet, HeapAssumption DEF WithinCapacity
<1>6. NodeBytesExact
  <2>1. \A n \in Nodes :
            /\ Stamped(n) = {} /\ Pending("account", n) = {} /\ Pending("unaccount", n) = {}
            /\ bytes[n] = 0 /\ moved[n] = 0
    BY <1>2 DEF Init, Stamped, Pending, Busy
  <2>2. SumFunctionOnSet(SizeOf, {}) = 0
    BY SumEmpty
  <2>3. (0 + 0 + SumFunctionOnSet(SizeOf, {})) % ByteMod
            = (SumFunctionOnSet(SizeOf, {}) + SumFunctionOnSet(SizeOf, {})) % ByteMod
    BY <2>2
  <2>4. QED
    BY <2>1, <2>3, Zenon DEF NodeBytesExact
<1>7. QED
  BY <1>1, <1>3, <1>4, <1>5, <1>6 DEF IInv

-----------------------------------------------------------------------------
\* Threads at work

\* What is known of a call from the place it is at.
LEMMA JobKinds ==
    ASSUME TypeOK, NEW t \in Threads
    PROVE  /\ job[t] \in Jobs
           /\ job[t] # NoJob <=> job[t].pc # "idle"
           /\ job[t].pc \in {"register", "promote", "bind"} =>
                 job[t] \in [pc : {"register", "promote", "bind"}, r : Ranges]
           /\ job[t].pc \in {"record", "account"} =>
                 job[t] \in [pc : {"record", "account"}, r : Ranges, node : Nodes]
           /\ job[t].pc \in {"unaccount", "unmap"} =>
                 job[t] \in [pc : {"unaccount", "unmap"}, r : Ranges, node : Nodes \cup {Unbound}]
  BY DEF TypeOK, Jobs, NoJob

\* A step of thread t leaves the others at their ranges.
LEMMA BusyNext ==
    ASSUME TypeOK, NEW t \in Threads, NEW j, job' = [job EXCEPT ![t] = j]
    PROVE  /\ \A u \in Threads : job'[u] = IF u = t THEN j ELSE job[u]
           /\ \A u \in Threads, q \in Ranges :
                 Busy(u, q)' <=> IF u = t THEN j # NoJob /\ j.r = q ELSE Busy(u, q)
  BY DEF TypeOK, Busy

-----------------------------------------------------------------------------
\* The account of a node

\* The counters and the sizes, as whole numbers.
LEMMA AccountsAreInts ==
    ASSUME TypeOK
    PROVE  /\ \A n \in Nodes : bytes[n] \in Int /\ moved[n] \in Int
           /\ \A r \in Ranges : SizeOf[r] \in Int
<1>1. \A n \in Nodes : bytes[n] \in 0 .. ByteMod - 1 /\ moved[n] \in 0 .. ByteMod - 1
  BY DEF TypeOK
<1>2. QED
  BY <1>1, NodesFinite, HeapAssumption

Weigh(b, r) == IF b THEN SizeOf[r] ELSE 0

\* What range r adds to the bytes that a counter should hold, for the ranges
\* stamped, to be added and to be subtracted.
Tally(r, S, A, U) == (Weigh(r \in S, r) + Weigh(r \in U, r)) - Weigh(r \in A, r)

Bytes(S) == SumFunctionOnSet(SizeOf, S)

\* Two sets of ranges that agree on all ranges but r.
Agree(X, Y, r) == \A q \in Ranges \ {r} : q \in Y <=> q \in X

LEMMA BytesDiffer ==
    ASSUME NEW X \in SUBSET Ranges, NEW Y \in SUBSET Ranges, NEW r \in Ranges, Agree(X, Y, r)
    PROVE  /\ Bytes(X) \in Int /\ Bytes(Y) \in Int /\ SizeOf[r] \in Int
           /\ Bytes(Y) + Weigh(r \in X, r) = Bytes(X) + Weigh(r \in Y, r)
<1>1. IsFiniteSet(X) /\ IsFiniteSet(Y) /\ \A q \in Ranges : SizeOf[q] \in Int
  <2>1. IsFiniteSet(Ranges) /\ \A q \in Ranges : SizeOf[q] \in Int
    BY HeapAssumption
  <2>2. QED
    BY <2>1, FS_Subset
<1>2. Bytes(X) \in Int /\ Bytes(Y) \in Int
  <2>1. (\A q \in X : SizeOf[q] \in Int) /\ (\A q \in Y : SizeOf[q] \in Int)
    BY <1>1
  <2>2. SumFunctionOnSet(SizeOf, X) \in Int /\ SumFunctionOnSet(SizeOf, Y) \in Int
    BY <1>1, <2>1, SumRemove
  <2>3. QED
    BY <2>2 DEF Bytes
<1>3. CASE r \in X <=> r \in Y
  <2>1. X = Y
    BY <1>3 DEF Agree
  <2>2. QED
    BY <1>1, <1>2, <2>1 DEF Weigh
<1>4. CASE r \in X /\ r \notin Y
  <2>1. Y = X \ {r}
    BY <1>4 DEF Agree
  <2>2. Bytes(X) = SizeOf[r] + Bytes(Y)
    BY <1>1, <1>4, <2>1, SumRemove DEF Bytes
  <2>3. QED
    BY <1>1, <1>2, <1>4, <2>2 DEF Weigh
<1>5. CASE r \notin X /\ r \in Y
  <2>1. X = Y \ {r}
    BY <1>5 DEF Agree
  <2>2. Bytes(Y) = SizeOf[r] + Bytes(X)
    BY <1>1, <1>5, <2>1, SumRemove DEF Bytes
  <2>3. QED
    BY <1>1, <1>2, <1>5, <2>2 DEF Weigh
<1>6. QED
  BY <1>3, <1>4, <1>5

\* The account of node n is balanced if one side has B and A, the other S and U.
Balanced(B, A, S, U) == Congruent(B + A, S + U, ByteMod)

\* It stays balanced when both sides move by the same amount.
LEMMA BalanceMoves ==
    ASSUME NEW B \in Int, NEW A \in Int, NEW S \in Int, NEW U \in Int, Balanced(B, A, S, U),
           NEW B2 \in Int, NEW A2 \in Int, NEW S2 \in Int, NEW U2 \in Int,
           NEW d \in Int, NEW d2 \in Int, Congruent(B2 + d, B + d2, ByteMod),
           (S2 + U2) - A2 = ((S + U) - A) + (d2 - d)
    PROVE  Balanced(B2, A2, S2, U2)
<1> DEFINE c == (A2 - B) - d
<1>1. ByteMod \in Nat \ {0} /\ c \in Int /\ Congruent(c, c, ByteMod)
  BY HeapAssumption DEF Congruent
<1>2. Congruent((B + A) + (B2 + d), (S + U) + (B + d2), ByteMod)
  BY <1>1, CongruentSum DEF Balanced
<1>3. Congruent(((B + A) + (B2 + d)) + (c - A), ((S + U) + (B + d2)) + (c - A), ByteMod)
  <2>1. c - A \in Int /\ Congruent(c - A, c - A, ByteMod)
    BY <1>1 DEF Congruent
  <2>2. (B + A) + (B2 + d) \in Int /\ (S + U) + (B + d2) \in Int
    OBVIOUS
  <2> HIDE DEF c
  <2>3. QED
    BY <1>1, <1>2, <2>1, <2>2, CongruentSum
<1>4. /\ ((B + A) + (B2 + d)) + (c - A) = B2 + A2
      /\ ((S + U) + (B + d2)) + (c - A) = S2 + U2
  OBVIOUS
<1>5. QED
  BY <1>3, <1>4 DEF Balanced

\* A step that concerns range r only, and moves the counter as it moves what
\* the range adds to it, keeps the account.
LEMMA AccountMoves ==
    ASSUME NEW r \in Ranges, NEW B \in Int, NEW B2 \in Int,
           NEW S \in SUBSET Ranges, NEW A \in SUBSET Ranges, NEW U \in SUBSET Ranges,
           NEW S2 \in SUBSET Ranges, NEW A2 \in SUBSET Ranges, NEW U2 \in SUBSET Ranges,
           Balanced(B, Bytes(A), Bytes(S), Bytes(U)),
           Agree(S, S2, r), Agree(A, A2, r), Agree(U, U2, r),
           Congruent(B2 + Tally(r, S, A, U), B + Tally(r, S2, A2, U2), ByteMod)
    PROVE  Balanced(B2, Bytes(A2), Bytes(S2), Bytes(U2))
<1>1. /\ Bytes(S) \in Int /\ Bytes(S2) \in Int /\ SizeOf[r] \in Int
      /\ Bytes(S2) + Weigh(r \in S, r) = Bytes(S) + Weigh(r \in S2, r)
  BY BytesDiffer
<1>2. /\ Bytes(A) \in Int /\ Bytes(A2) \in Int
      /\ Bytes(A2) + Weigh(r \in A, r) = Bytes(A) + Weigh(r \in A2, r)
  BY BytesDiffer
<1>3. /\ Bytes(U) \in Int /\ Bytes(U2) \in Int
      /\ Bytes(U2) + Weigh(r \in U, r) = Bytes(U) + Weigh(r \in U2, r)
  BY BytesDiffer
<1> DEFINE s == Weigh(r \in S, r)
           s2 == Weigh(r \in S2, r)
           a == Weigh(r \in A, r)
           a2 == Weigh(r \in A2, r)
           u == Weigh(r \in U, r)
           u2 == Weigh(r \in U2, r)
           d == Tally(r, S, A, U)
           d2 == Tally(r, S2, A2, U2)
<1>4. /\ s \in Int /\ s2 \in Int /\ a \in Int /\ a2 \in Int /\ u \in Int /\ u2 \in Int
      /\ d = (s + u) - a /\ d2 = (s2 + u2) - a2
  BY <1>1 DEF Weigh, Tally
<1>5. /\ d \in Int /\ d2 \in Int
      /\ (Bytes(S2) + Bytes(U2)) - Bytes(A2) = ((Bytes(S) + Bytes(U)) - Bytes(A)) + (d2 - d)
  <2> HIDE DEF s, s2, a, a2, u, u2, d, d2
  <2>1. /\ Bytes(S2) + s = Bytes(S) + s2 /\ Bytes(A2) + a = Bytes(A) + a2
        /\ Bytes(U2) + u = Bytes(U) + u2
    BY <1>1, <1>2, <1>3 DEF s, s2, a, a2, u, u2
  <2>2. QED
    BY <1>1, <1>2, <1>3, <1>4, <2>1
<1> HIDE DEF d, d2
<1>6. Congruent(B2 + d, B + d2, ByteMod)
  BY DEF d, d2
<1>7. QED
  BY <1>1, <1>2, <1>3, <1>5, <1>6, BalanceMoves

\* What range r adds to the account of node n.
Due(n, r) == Tally(r, Stamped(n), Pending("account", n), Pending("unaccount", n))

\* A step at range r: the other ranges' part stays, and the counters move as
\* the part of r does.
Elsewhere(r) ==
    \A n \in Nodes :
        /\ Agree(Stamped(n), Stamped(n)', r)
        /\ Agree(Pending("account", n), Pending("account", n)', r)
        /\ Agree(Pending("unaccount", n), Pending("unaccount", n)', r)

CountersFollow(r) ==
    \A n \in Nodes : Congruent((bytes'[n] + moved'[n]) + Due(n, r),
                               (bytes[n] + moved[n]) + Due(n, r)', ByteMod)

LEMMA AccountsMove ==
    ASSUME IInv, TypeOK', NEW r \in Ranges, Elsewhere(r), CountersFollow(r)
    PROVE  NodeBytesExact'
<1> SUFFICES ASSUME NEW n \in Nodes
             PROVE  Balanced(bytes'[n] + moved'[n], Bytes(Pending("account", n)'),
                             Bytes(Stamped(n)'), Bytes(Pending("unaccount", n)'))
  BY DEF NodeBytesExact, Balanced, Congruent, Bytes
<1> DEFINE B == bytes[n] + moved[n]
           B2 == bytes'[n] + moved'[n]
           S == Stamped(n)
           S2 == Stamped(n)'
           A == Pending("account", n)
           A2 == Pending("account", n)'
           U == Pending("unaccount", n)
           U2 == Pending("unaccount", n)'
<1>1. B \in Int /\ B2 \in Int
  <2>1. /\ bytes[n] \in 0 .. ByteMod - 1 /\ moved[n] \in 0 .. ByteMod - 1
        /\ bytes'[n] \in 0 .. ByteMod - 1 /\ moved'[n] \in 0 .. ByteMod - 1
    BY DEF IInv, TypeOK
  <2>2. QED
    BY <2>1, NodesFinite
<1>2. /\ S \in SUBSET Ranges /\ A \in SUBSET Ranges /\ U \in SUBSET Ranges
      /\ S2 \in SUBSET Ranges /\ A2 \in SUBSET Ranges /\ U2 \in SUBSET Ranges
  BY DEF Stamped, Registered, Pending
<1>3. Balanced(B, Bytes(A), Bytes(S), Bytes(U))
  BY DEF IInv, NodeBytesExact, Balanced, Congruent, Bytes
<1>4. Congruent(B2 + Tally(r, S, A, U), B + Tally(r, S2, A2, U2), ByteMod)
  BY DEF CountersFollow, Due
<1>5. Agree(S, S2, r) /\ Agree(A, A2, r) /\ Agree(U, U2, r)
  BY DEF Elsewhere
<1> HIDE DEF B, B2, S, S2, A, A2, U, U2
<1>6. Balanced(B2, Bytes(A2), Bytes(S2), Bytes(U2))
  BY <1>1, <1>2, <1>3, <1>4, <1>5, AccountMoves
<1>7. QED
  BY <1>6 DEF B2, S2, A2, U2

-----------------------------------------------------------------------------
\* The steps of the background tick

\* A tick may move a bound region to another node and clear stamps.  Which
\* ranges are registered, and which are bound, stays as it is.
LEMMA TickOwned ==
    ASSUME IInv, UNCHANGED <<space, job, held>>,
           \A r \in Ranges : /\ region'[r].reg = region[r].reg
                             /\ region'[r].node = Unbound <=> region[r].node = Unbound
    PROVE  /\ Owned' /\ JobInv' /\ WithinCapacity' /\ Registered' = Registered
           /\ \A pc, n : Pending(pc, n)' = Pending(pc, n)
<1>1. Registered' = Registered
  BY DEF Registered
<1>2. \A t \in Threads, r \in Ranges : Busy(t, r)' <=> Busy(t, r)
  BY DEF Busy
<1>3. Owned'
  BY <1>1, <1>2 DEF IInv, Owned
<1>4. JobInv'
  <2>1. ASSUME NEW t \in Threads, job[t].pc \in {"promote", "bind", "record", "account"}
        PROVE  job[t].r \in Ranges
    BY <2>1, JobKinds DEF IInv
  <2>2. QED
    BY <1>1, <2>1 DEF IInv, JobInv
<1>5. \A pc, n : Pending(pc, n)' = Pending(pc, n)
  BY <1>2 DEF Pending
<1>6. QED
  BY <1>1, <1>3, <1>4, <1>5 DEF IInv, WithinCapacity

LEMMA TickStep ==
    ASSUME IInv, TypeOK', UNCHANGED <<space, bytes, job, held, moved>>,
           \A r \in Ranges : region'[r].reg = region[r].reg /\ region'[r].node = region[r].node
    PROVE  IInv'
<1>1. /\ Owned' /\ JobInv' /\ WithinCapacity' /\ Registered' = Registered
      /\ \A pc, n : Pending(pc, n)' = Pending(pc, n)
  BY TickOwned
<1>2. \A n \in Nodes : Stamped(n)' = Stamped(n)
  BY <1>1 DEF Stamped, Registered
<1>3. NodeBytesExact'
  BY <1>1, <1>2 DEF IInv, NodeBytesExact
<1>4. QED
  BY <1>1, <1>3 DEF IInv

Ticks ==
    {NoTick, [pc |-> "sweep"]} \cup [pc : {"migrate"}, from : Nodes]
       \cup [pc : {"load", "flag"}, n : Nodes, snap : [Nodes -> 0 .. ByteMod - 1]]
       \cup [pc : {"scan", "advise"}, i : Nat]

LEMMA TickKinds ==
    ASSUME TypeOK
    PROVE  /\ tick \in Ticks
           /\ tick.pc = "migrate" => tick \in [pc : {"migrate"}, from : Nodes]
           /\ tick.pc \in {"load", "flag"} =>
                 tick \in [pc : {"load", "flag"}, n : Nodes, snap : [Nodes -> 0 .. ByteMod - 1]]
           /\ tick.pc \in {"scan", "advise"} => tick \in [pc : {"scan", "advise"}, i : Nat]
  BY DEF TypeOK, Ticks, NoTick

\* Steps that move only the tick, and the flags of the nodes.
LEMMA TickAlone ==
    ASSUME IInv, tick' \in Ticks, suppressed' \in [Nodes -> BOOLEAN],
           UNCHANGED <<space, region, bytes, job, held, moved>>
    PROVE  IInv'
<1>1. TypeOK'
  BY DEF IInv, TypeOK, Ticks
<1>2. QED
  BY <1>1, TickStep

LEMMA TickBeginStep ==
    ASSUME IInv, TickBegin
    PROVE  IInv'
<1>1. [n \in Nodes |-> 0] \in [Nodes -> 0 .. ByteMod - 1]
  BY NodesFinite
<1>2. tick' \in Ticks
  BY <1>1, NodesFinite DEF TickBegin, Ticks
<1>3. QED
  BY <1>2, TickAlone DEF TickBegin, IInv, TypeOK

LEMMA BalanceLoadStep ==
    ASSUME IInv, BalanceLoad
    PROVE  IInv'
<1>1. tick \in [pc : {"load", "flag"}, n : Nodes, snap : [Nodes -> 0 .. ByteMod - 1]]
  BY TickKinds DEF BalanceLoad, IInv
<1>2. (tick.n + 1) % NumNodes \in Nodes
  BY <1>1, NodesFinite DEF Nodes
<1>3. [tick.snap EXCEPT ![tick.n] = bytes[tick.n]] \in [Nodes -> 0 .. ByteMod - 1]
  BY <1>1 DEF IInv, TypeOK
<1>4. tick' \in Ticks
  BY <1>2, <1>3 DEF BalanceLoad, Ticks
<1>5. QED
  BY <1>4, TickAlone DEF BalanceLoad, IInv, TypeOK

\* The pass over the counters finds a most loaded node.
LEMMA MostLoadedNode ==
    ASSUME NEW snap \in [Nodes -> 0 .. ByteMod - 1]
    PROVE  MostLoaded(snap) \in Nodes
<1> DEFINE values == {snap[n] : n \in Nodes}
           most == {n \in Nodes : \A m \in Nodes : snap[m] <= snap[n]}
<1>1. IsFiniteSet(values) /\ values \subseteq Int /\ values # {}
  <2>1. [n \in Nodes |-> snap[n]] \in Surjection(Nodes, values)
    BY DEF Surjection
  <2>2. IsFiniteSet(values)
    BY <2>1, NodesFinite, FS_Surjection
  <2>3. QED
    BY <2>2, NodesFinite
<1> HIDE DEF values
<1>2. PICK v \in values : \A w \in values : w <= v
  BY <1>1, GreatestInteger
<1>3. most # {} /\ most \subseteq Nat
  BY <1>2, NodesFinite DEF values
<1> HIDE DEF most
<1>4. Min(most) \in most
  BY <1>3, LeastChosen DEF Min
<1>5. QED
  BY <1>4 DEF most, MostLoaded

LEMMA BalanceFlagStep ==
    ASSUME IInv, BalanceFlag
    PROVE  IInv'
<1> DEFINE n == tick.n
           most == MostLoaded(tick.snap)
<1>1. tick \in [pc : {"load", "flag"}, n : Nodes, snap : [Nodes -> 0 .. ByteMod - 1]]
  BY TickKinds DEF BalanceFlag, IInv
<1>2. most \in Nodes
  BY <1>1, MostLoadedNode
<1>3. \/ tick' = [pc |-> "migrate", from |-> most] \/ tick' = [pc |-> "sweep"]
      \/ n + 1 < NumNodes /\ tick' = [tick EXCEPT !.n = n + 1]
  BY DEF BalanceFlag
<1> HIDE DEF most
<1>4. n + 1 < NumNodes => n + 1 \in Nodes
  BY <1>1, NodesFinite DEF Nodes
<1>5. tick' \in Ticks
  BY <1>1, <1>2, <1>3, <1>4 DEF Ticks
<1>6. suppressed' \in [Nodes -> BOOLEAN]
  <2>1. \E b \in BOOLEAN : suppressed' = [suppressed EXCEPT ![n] = b]
    BY DEF BalanceFlag
  <2>2. QED
    BY <2>1 DEF IInv, TypeOK
<1>7. QED
  BY <1>5, <1>6, TickAlone DEF BalanceFlag

\* A counter that is kept modulo ByteMod.
LEMMA Reduced ==
    ASSUME NEW x \in Int, NEW y \in Int
    PROVE  x % ByteMod \in 0 .. ByteMod - 1 /\ Congruent((x % ByteMod) + y, x + y, ByteMod)
<1>1. ByteMod \in Nat \ {0} /\ Congruent(y, y, ByteMod)
  BY HeapAssumption DEF Congruent
<1>2. x % ByteMod \in 0 .. ByteMod - 1 /\ Congruent(x % ByteMod, x, ByteMod)
  BY <1>1, CongruentMod
<1> DEFINE m == x % ByteMod
<1>3. m \in Int
  BY <1>1, <1>2
<1> HIDE DEF m
<1>4. Congruent(m + y, x + y, ByteMod)
  BY <1>1, <1>2, <1>3, CongruentSum DEF m
<1>5. QED
  BY <1>2, <1>4 DEF m

\* What is moved to a node by a migration.
LEMMA MovedByType ==
    ASSUME TypeOK, NEW from \in Nodes, NEW to \in Nodes, NEW size \in Int
    PROVE  MovedBy(from, to, size) \in [Nodes -> 0 .. ByteMod - 1]
<1>1. \A n \in Nodes : moved[n] \in 0 .. ByteMod - 1 /\ moved[n] \in Int
  BY AccountsAreInts DEF TypeOK
<1>2. \A n \in Nodes : /\ (moved[n] + size) % ByteMod \in 0 .. ByteMod - 1
                       /\ (moved[n] - size) % ByteMod \in 0 .. ByteMod - 1
  <2> SUFFICES ASSUME NEW n \in Nodes
               PROVE  /\ (moved[n] + size) % ByteMod \in 0 .. ByteMod - 1
                      /\ (moved[n] - size) % ByteMod \in 0 .. ByteMod - 1
    OBVIOUS
  <2>1. moved[n] + size \in Int /\ moved[n] - size \in Int /\ 0 \in Int
    BY <1>1
  <2>2. QED
    BY <2>1, Reduced
<1>3. QED
  BY <1>1, <1>2 DEF MovedBy

LEMMA MigrateStep ==
    ASSUME IInv, MigrateOneRegion
    PROVE  IInv'
<1> DEFINE found == {r \in Registered : region[r].node = tick.from}
           from == tick.from
           least == Min(found)
<1>1. tick' \in Ticks /\ UNCHANGED <<space, bytes, suppressed, job, held>> /\ TypeOK
  BY DEF MigrateOneRegion, Ticks, IInv
<1>2. CASE UNCHANGED <<region, moved>>
  BY <1>1, <1>2, TickAlone DEF TypeOK
<1>3. CASE /\ found # {}
           /\ \E to \in Nodes \ {tick.from} : /\ region' = [region EXCEPT ![least].node = to]
                                              /\ moved' = MovedBy(tick.from, to, SizeOf[least])
  <2>1. found \subseteq Nat /\ found \subseteq Ranges
    BY HeapAssumption DEF Registered
  <2>2. from \in Nodes
    BY <1>1, TickKinds DEF MigrateOneRegion
  <2>3. PICK x \in found : x = least
    <3> HIDE DEF found
    <3> QED
      BY <1>3, <2>1, LeastChosen DEF Min
  <2>4. PICK to \in Nodes \ {from} : /\ region' = [region EXCEPT ![x].node = to]
                                     /\ moved' = MovedBy(from, to, SizeOf[x])
    BY <1>3, <2>3
  <2>5. /\ x \in Ranges /\ x \in Registered /\ region[x].node = from /\ from # Unbound
        /\ SizeOf[x] \in Int
    BY <2>1, <2>2, <2>3, HeapAssumption
  <2> HIDE DEF least, from, found
  <2>6. TypeOK'
    <3>1. moved' \in [Nodes -> 0 .. ByteMod - 1]
      BY <1>1, <2>2, <2>4, <2>5, MovedByType
    <3>2. QED
      BY <1>1, <2>4, <2>5, <3>1 DEF TypeOK, Ticks
  <2>7. \A r \in Ranges : /\ region'[r].reg = region[r].reg
                          /\ region'[r].node = IF r = x THEN to ELSE region[r].node
    BY <1>1, <2>4, <2>5 DEF TypeOK
  <2>8. /\ Owned' /\ JobInv' /\ WithinCapacity' /\ Registered' = Registered
        /\ \A pc, n : Pending(pc, n)' = Pending(pc, n)
    <3>1. \A r \in Ranges : /\ region'[r].reg = region[r].reg
                            /\ region'[r].node = Unbound <=> region[r].node = Unbound
      BY <2>2, <2>5, <2>7, HeapAssumption
    <3>2. QED
      BY <1>1, <3>1, TickOwned
  <2>9. \A n \in Nodes : /\ \A q \in Ranges \ {x} : q \in Stamped(n)' <=> q \in Stamped(n)
                         /\ x \in Stamped(n) <=> n = from
                         /\ x \in Stamped(n)' <=> n = to
    BY <2>5, <2>7, <2>8 DEF Stamped, Registered
  <2>10. ASSUME NEW n \in Nodes
         PROVE  Congruent((bytes'[n] + moved'[n]) + Due(n, x), (bytes[n] + moved[n]) + Due(n, x)', ByteMod)
    <3> DEFINE w == SizeOf[x]
               p == Weigh(x \in Pending("unaccount", n), x)
               a == Weigh(x \in Pending("account", n), x)
               b == bytes[n]
               v == moved[n]
    <3>1. b \in Int /\ v \in Int /\ w \in Int /\ bytes'[n] = b
      BY <1>1, <2>5, AccountsAreInts
    <3>2. p \in Int /\ a \in Int
      BY <2>5 DEF Weigh
    <3>3. /\ Due(n, x) = ((IF n = from THEN w ELSE 0) + p) - a
          /\ Due(n, x)' = ((IF n = to THEN w ELSE 0) + p) - a
      <4>1. /\ Pending("account", n)' = Pending("account", n)
            /\ Pending("unaccount", n)' = Pending("unaccount", n)
        BY <2>8
      <4>2. /\ Due(n, x) = (Weigh(x \in Stamped(n), x) + p) - a
            /\ Due(n, x)' = (Weigh(x \in Stamped(n)', x) + p) - a
        BY <4>1 DEF Due, Tally
      <4>3. QED
        BY <2>9, <4>2 DEF Weigh
    <3>4. moved'[n] = CASE n = to -> (v + w) % ByteMod
                        [] n = from -> (v - w) % ByteMod
                        [] OTHER -> v
      BY <2>4 DEF MovedBy
    <3> HIDE DEF w, p, a, b, v
    <3>5. CASE n = to
      <4> DEFINE m == (v + w) % ByteMod
      <4>1. Congruent(m + ((b + p) - a), (v + w) + ((b + p) - a), ByteMod) /\ m \in 0 .. ByteMod - 1
        <5>1. v + w \in Int /\ (b + p) - a \in Int
          BY <3>1, <3>2
        <5>2. QED
          BY <5>1, Reduced
      <4>2. m \in Int /\ moved'[n] = m /\ n # from
        BY <2>4, <3>4, <3>5, <4>1, NodesFinite
      <4> HIDE DEF m
      <4>3. /\ (bytes'[n] + moved'[n]) + Due(n, x) = m + ((b + p) - a)
            /\ (b + v) + Due(n, x)' = (v + w) + ((b + p) - a)
        BY <3>1, <3>2, <3>3, <3>5, <4>2
      <4>4. QED
        BY <4>1, <4>3 DEF b, v
    <3>6. CASE n = from
      <4> DEFINE m == (v - w) % ByteMod
      <4>1. /\ Congruent(m + (((b + w) + p) - a), (v - w) + (((b + w) + p) - a), ByteMod)
            /\ m \in 0 .. ByteMod - 1
        <5>1. v - w \in Int /\ ((b + w) + p) - a \in Int
          BY <3>1, <3>2
        <5>2. QED
          BY <5>1, Reduced
      <4>2. m \in Int /\ moved'[n] = m /\ n # to
        BY <2>4, <3>4, <3>6, <4>1, NodesFinite
      <4> HIDE DEF m
      <4>3. /\ (bytes'[n] + moved'[n]) + Due(n, x) = m + (((b + w) + p) - a)
            /\ (b + v) + Due(n, x)' = (v - w) + (((b + w) + p) - a)
        BY <3>1, <3>2, <3>3, <3>6, <4>2
      <4>4. QED
        BY <4>1, <4>3 DEF b, v
    <3>7. CASE n # to /\ n # from
      BY <3>1, <3>3, <3>4, <3>7 DEF Congruent, b, v
    <3>8. QED
      BY <3>5, <3>6, <3>7
  <2>11. NodeBytesExact'
    <3>1. Elsewhere(x) /\ CountersFollow(x)
      <4>1. Elsewhere(x)
        BY <2>8, <2>9 DEF Elsewhere, Agree
      <4>2. QED
        BY <2>10, <4>1 DEF CountersFollow
    <3>2. QED
      BY <2>5, <2>6, <3>1, AccountsMove
  <2>12. QED
    BY <2>6, <2>8, <2>11 DEF IInv
<1>4. QED
  BY <1>2, <1>3 DEF MigrateOneRegion

LEMMA AgeStep ==
    ASSUME IInv, NEW r \in Ranges, Age(r)
    PROVE  IInv'
<1>1. TypeOK'
  BY DEF Age, IInv, TypeOK
<1>2. \A q \in Ranges : region'[q].reg = region[q].reg /\ region'[q].node = region[q].node
  BY DEF Age, IInv, TypeOK
<1>3. QED
  BY <1>1, <1>2, TickStep DEF Age

LEMMA SweepScanStep ==
    ASSUME IInv, SweepScan
    PROVE  IInv'
<1> DEFINE next == {r \in Cold : IndexOf(r) >= tick.i}
           x == Min(next)
<1>1. UNCHANGED <<space, bytes, suppressed, job, held, moved>> /\ TypeOK
  BY DEF SweepScan, IInv
<1>2. CASE next = {}
  <2>1. tick' \in Ticks /\ UNCHANGED region
    BY <1>2 DEF SweepScan, Ticks
  <2>2. QED
    BY <1>1, <2>1, TickAlone DEF TypeOK
<1>3. CASE next # {}
  <2>1. next \subseteq Nat /\ next \subseteq Ranges
    BY HeapAssumption DEF Cold, Registered
  <2>2. x \in next
    <3> HIDE DEF next
    <3> QED
      BY <1>3, <2>1, LeastChosen DEF Min
  <2>3. /\ region' = [region EXCEPT ![x].stamp = "none"]
        /\ tick' = [pc |-> "advise", i |-> IndexOf(x)]
    BY <1>3 DEF SweepScan
  <2>4. x \in Ranges
    BY <2>1, <2>2
  <2> HIDE DEF x
  <2>5. IndexOf(x) \in Nat
    <3>1. IsFiniteSet({s \in Registered : s < x})
      BY HeapAssumption, FS_Subset DEF Registered
    <3>2. QED
      BY <3>1, FS_CardinalityType DEF IndexOf
  <2>6. tick' \in Ticks
    BY <2>3, <2>5 DEF Ticks
  <2>7. TypeOK'
    BY <1>1, <2>3, <2>4, <2>6 DEF TypeOK, Ticks
  <2>8. \A q \in Ranges : region'[q].reg = region[q].reg /\ region'[q].node = region[q].node
    BY <1>1, <2>3, <2>4 DEF TypeOK
  <2>9. QED
    BY <1>1, <2>7, <2>8, TickStep
<1>4. QED
  BY <1>2, <1>3

LEMMA SweepBeginStep ==
    ASSUME IInv, SweepBegin
    PROVE  IInv'
<1>1. tick' \in Ticks
  BY DEF SweepBegin, Ticks
<1>2. QED
  BY <1>1, TickAlone DEF SweepBegin, IInv, TypeOK

LEMMA SweepAdviseStep ==
    ASSUME IInv, SweepAdvise
    PROVE  IInv'
<1>1. tick \in [pc : {"scan", "advise"}, i : Nat]
  BY TickKinds DEF SweepAdvise, IInv
<1>2. tick' \in [pc : {"scan", "advise"}, i : Nat]
  <2> DEFINE s == [tick EXCEPT !.pc = "scan"]
  <2>1. s \in [pc : {"scan", "advise"}, i : Nat] /\ tick.i + 1 \in Nat
    BY <1>1
  <2>2. tick' = [s EXCEPT !.i = tick.i + 1]
    BY DEF SweepAdvise
  <2> HIDE DEF s
  <2>3. QED
    BY <2>1, <2>2
<1>3. tick' \in Ticks
  BY <1>2 DEF Ticks
<1>4. QED
  BY <1>3, TickAlone DEF SweepAdvise, IInv, TypeOK

-----------------------------------------------------------------------------
\* The steps of v8m_page_heap_alloc and v8m_page_heap_free

\* A step of thread t at range r leaves the other ranges' part in the accounts
\* as it is; that of r depends on its entry and on the call.
LEMMA DueNext ==
    ASSUME TypeOK, NEW t \in Threads, NEW r \in Ranges, NEW j, job' = [job EXCEPT ![t] = j],
           \A q \in Ranges \ {r} : region'[q] = region[q],
           job[t] = NoJob \/ job[t].r = r, j = NoJob \/ j.r = r,
           \A u \in Threads \ {t} : ~ Busy(u, r), NEW n \in Nodes
    PROVE  /\ \A q \in Ranges \ {r} :
                 /\ q \in Stamped(n)' <=> q \in Stamped(n)
                 /\ q \in Pending("account", n)' <=> q \in Pending("account", n)
                 /\ q \in Pending("unaccount", n)' <=> q \in Pending("unaccount", n)
           /\ r \in Stamped(n) <=> region[r].reg /\ region[r].node = n
           /\ r \in Stamped(n)' <=> region'[r].reg /\ region'[r].node = n
           /\ \A pc \in {"account", "unaccount"} :
                 /\ r \in Pending(pc, n) <=> job[t].pc = pc /\ job[t].node = n
                 /\ r \in Pending(pc, n)' <=> j.pc = pc /\ j.node = n
<1>1. /\ \A u \in Threads : job'[u] = IF u = t THEN j ELSE job[u]
      /\ \A u \in Threads, q \in Ranges :
            Busy(u, q)' <=> IF u = t THEN j # NoJob /\ j.r = q ELSE Busy(u, q)
  BY BusyNext
<1>2. /\ \A q \in Ranges \ {r} : q \in Stamped(n)' <=> q \in Stamped(n)
      /\ r \in Stamped(n) <=> region[r].reg /\ region[r].node = n
      /\ r \in Stamped(n)' <=> region'[r].reg /\ region'[r].node = n
  BY DEF Stamped, Registered
<1>3. ASSUME NEW pc \in {"account", "unaccount"}
      PROVE  /\ \A q \in Ranges \ {r} : q \in Pending(pc, n)' <=> q \in Pending(pc, n)
             /\ r \in Pending(pc, n) <=> job[t].pc = pc /\ job[t].node = n
             /\ r \in Pending(pc, n)' <=> j.pc = pc /\ j.node = n
  <2>1. \A q \in Ranges : q \in Pending(pc, n)' <=>
            \E u \in Threads : Busy(u, q)' /\ job'[u].pc = pc /\ job'[u].node = n
    BY DEF Pending
  <2>2. \A q \in Ranges \ {r} : q \in Pending(pc, n)' <=> q \in Pending(pc, n)
    BY <1>1, <2>1 DEF Pending, Busy
  <2>3. r \in Pending(pc, n) <=> job[t].pc = pc /\ job[t].node = n
    BY <1>3 DEF Pending, Busy, NoJob
  <2>4. r \in Pending(pc, n)' <=> j.pc = pc /\ j.node = n
    BY <1>1, <1>3, <2>1 DEF NoJob
  <2>5. QED
    BY <2>2, <2>3, <2>4
<1>4. QED
  BY <1>2, <1>3

\* The thread goes on with its range, which nobody else is at.
LEMMA SameRange ==
    ASSUME IInv, NEW t \in Threads, NEW r \in Ranges, Busy(t, r),
           NEW j \in Jobs, j # NoJob, j.r = r, job' = [job EXCEPT ![t] = j],
           UNCHANGED <<space, held>>, \A q \in Ranges \ {r} : region'[q] = region[q],
           j.pc \in {"promote", "bind", "record", "account"} => region'[r].reg,
           j.pc \in {"register", "unaccount", "unmap"} => ~ region'[r].reg,
           j.pc \in {"promote", "bind", "record"} => region'[r].node = Unbound,
           j.pc = "account" => region'[r].node # Unbound
    PROVE  Owned' /\ JobInv'
<1>1. /\ \A u \in Threads : job'[u] = IF u = t THEN j ELSE job[u]
      /\ \A u \in Threads, q \in Ranges : Busy(u, q)' <=> Busy(u, q)
  <2>1. /\ \A u \in Threads : job'[u] = IF u = t THEN j ELSE job[u]
        /\ \A u \in Threads, q \in Ranges :
              Busy(u, q)' <=> IF u = t THEN j # NoJob /\ j.r = q ELSE Busy(u, q)
    BY BusyNext DEF IInv
  <2>2. QED
    BY <2>1 DEF Busy
<1>2. /\ \A q \in Ranges \ {r} : q \in Registered' <=> q \in Registered
      /\ r \in Registered' <=> region'[r].reg
  BY DEF Registered
<1>3. r \notin held /\ space[r] = "mapped" /\ \A u \in Threads \ {t} : ~ Busy(u, r)
  BY DEF IInv, Owned
<1>4. Owned'
  <2>1. held \subseteq Ranges
    BY DEF IInv, TypeOK
  <2>2. QED
    BY <1>1, <1>2, <1>3, <2>1 DEF IInv, Owned
<1>5. JobInv'
  <2>1. ASSUME NEW u \in Threads \ {t}, job[u].pc # "idle"
        PROVE  job[u].r \in Ranges \ {r}
    <3>1. job[u] # NoJob /\ job[u].r \in Ranges
      BY <2>1, JobKinds DEF IInv, Jobs, NoJob
    <3>2. QED
      BY <1>3, <3>1 DEF Busy
  <2>2. QED
    BY <1>1, <1>2, <2>1 DEF IInv, JobInv
<1>6. QED
  BY <1>4, <1>5

\* What holds of the range that a thread is at.
LEMMA AtRange ==
    ASSUME IInv, NEW t \in Threads, job[t].pc # "idle"
    PROVE  /\ job[t] # NoJob /\ job[t].r \in Ranges /\ Busy(t, job[t].r)
           /\ job[t].r \notin held /\ space[job[t].r] = "mapped"
           /\ \A u \in Threads \ {t} : ~ Busy(u, job[t].r)
<1>1. job[t] # NoJob /\ job[t].r \in Ranges
  BY JobKinds DEF IInv, Jobs, NoJob
<1>2. Busy(t, job[t].r)
  BY <1>1 DEF Busy
<1>3. QED
  BY <1>1, <1>2 DEF IInv, Owned

\* What range r, with entry e and the call j at it, adds to the account of n.
Share(n, r, e, j) ==
    (Weigh(e.reg /\ e.node = n, r) + Weigh(j.pc = "unaccount" /\ j.node = n, r))
        - Weigh(j.pc = "account" /\ j.node = n, r)

\* A step of thread t, which goes on with call j, at range r and nowhere else.
WorksAt(t, r, j) ==
    /\ job' = [job EXCEPT ![t] = j]
    /\ \A q \in Ranges \ {r} : region'[q] = region[q]
    /\ job[t] = NoJob \/ job[t].r = r
    /\ j = NoJob \/ j.r = r
    /\ \A u \in Threads \ {t} : ~ Busy(u, r)
    /\ moved' = moved

\* The step moves the counters as it moves the shares.
SharesFollow(t, r, j) ==
    \A n \in Nodes : Congruent((bytes'[n] + moved[n]) + Share(n, r, region[r], job[t]),
                               (bytes[n] + moved[n]) + Share(n, r, region'[r], j), ByteMod)

\* The step leaves the shares as they are.
SharesStay(t, r, j) ==
    \A n \in Nodes : Share(n, r, region'[r], j) = Share(n, r, region[r], job[t])

LEMMA SharesMove ==
    ASSUME IInv, TypeOK', NEW t \in Threads, NEW r \in Ranges, NEW j,
           WorksAt(t, r, j), SharesFollow(t, r, j)
    PROVE  NodeBytesExact'
<1>1. TypeOK /\ moved' = moved
  BY DEF IInv, WorksAt
<1>2. ASSUME NEW n \in Nodes
      PROVE  /\ \A q \in Ranges \ {r} :
                    /\ q \in Stamped(n)' <=> q \in Stamped(n)
                    /\ q \in Pending("account", n)' <=> q \in Pending("account", n)
                    /\ q \in Pending("unaccount", n)' <=> q \in Pending("unaccount", n)
             /\ Due(n, r) = Share(n, r, region[r], job[t])
             /\ Due(n, r)' = Share(n, r, region'[r], j)
  <2>1. /\ \A q \in Ranges \ {r} :
              /\ q \in Stamped(n)' <=> q \in Stamped(n)
              /\ q \in Pending("account", n)' <=> q \in Pending("account", n)
              /\ q \in Pending("unaccount", n)' <=> q \in Pending("unaccount", n)
        /\ r \in Stamped(n) <=> region[r].reg /\ region[r].node = n
        /\ r \in Stamped(n)' <=> region'[r].reg /\ region'[r].node = n
        /\ \A pc \in {"account", "unaccount"} :
              /\ r \in Pending(pc, n) <=> job[t].pc = pc /\ job[t].node = n
              /\ r \in Pending(pc, n)' <=> j.pc = pc /\ j.node = n
    BY <1>1, DueNext DEF WorksAt
  <2>2. Due(n, r) = Share(n, r, region[r], job[t])
    BY <2>1 DEF Due, Tally, Share, Weigh
  <2>3. Due(n, r)' = Share(n, r, region'[r], j)
    BY <2>1 DEF Due, Tally, Share, Weigh
  <2>4. QED
    BY <2>1, <2>2, <2>3
<1>3. Elsewhere(r)
  BY <1>2 DEF Elsewhere, Agree
<1>4. CountersFollow(r)
  BY <1>1, <1>2 DEF CountersFollow, SharesFollow
<1>5. QED
  BY <1>3, <1>4, AccountsMove

\* Between two changes of the counters the shares stay.
LEMMA SameShares ==
    ASSUME IInv, TypeOK', NEW t \in Threads, NEW r \in Ranges, NEW j,
           WorksAt(t, r, j), SharesStay(t, r, j), bytes' = bytes
    PROVE  NodeBytesExact'
<1>1. SharesFollow(t, r, j)
  BY DEF SharesStay, SharesFollow, Congruent
<1>2. QED
  BY <1>1, SharesMove

\* An entry without a node and a call outside the accounting have no share.
LEMMA NoShare ==
    ASSUME NEW e, e.reg => e.node = Unbound, NEW j, j.pc \notin {"account", "unaccount"},
           NEW n \in Nodes, NEW r
    PROVE  Share(n, r, e, j) = 0
<1>1. n # Unbound
  BY HeapAssumption
<1>2. QED
  BY <1>1 DEF Share, Weigh

\* The thread has finished with its range, which a caller now holds, or
\* which is gone.
LEMMA RangeDone ==
    ASSUME IInv, NEW t \in Threads, NEW r \in Ranges, Busy(t, r), job' = [job EXCEPT ![t] = NoJob],
           region' = region,
           \/ r \in Registered /\ held' = held \cup {r} /\ space' = space
           \/ r \notin Registered /\ held' = held /\ space' = Unmapped(r)
    PROVE  Owned' /\ JobInv' /\ WithinCapacity'
<1>1. /\ \A u \in Threads : job'[u] = IF u = t THEN NoJob ELSE job[u]
      /\ \A u \in Threads, q \in Ranges : Busy(u, q)' <=> u # t /\ Busy(u, q)
  <2>1. /\ \A u \in Threads : job'[u] = IF u = t THEN NoJob ELSE job[u]
        /\ \A u \in Threads, q \in Ranges :
              Busy(u, q)' <=> IF u = t THEN NoJob # NoJob /\ NoJob.r = q ELSE Busy(u, q)
    BY BusyNext DEF IInv
  <2>2. QED
    BY <2>1
<1>2. Registered' = Registered /\ held \subseteq Ranges
  BY DEF Registered, IInv, TypeOK
<1>3. /\ r \notin held /\ space[r] = "mapped" /\ \A u \in Threads \ {t} : ~ Busy(u, r)
      /\ \A q \in Ranges \ {r} : ~ Busy(t, q)
  BY DEF IInv, Owned, Busy
<1>4. \A q \in Ranges : q # r => space'[q] = space[q]
  BY DEF Unmapped, IInv, TypeOK
<1>5. r \notin Registered => space'[r] # "mapped"
  BY DEF Unmapped, IInv, TypeOK
<1>6. Owned'
  <2>1. held' \subseteq Registered'
    BY <1>2 DEF IInv, Owned
  <2>2. ASSUME NEW q \in Ranges
        PROVE  /\ q \in Registered' => space'[q] = "mapped"
               /\ space'[q] = "mapped" => q \in held' \/ \E u \in Threads : Busy(u, q)'
               /\ \A u \in Threads : Busy(u, q)' =>
                     /\ q \notin held' /\ space'[q] = "mapped"
                     /\ \A v \in Threads \ {u} : ~ Busy(v, q)'
    <3>1. CASE q = r
      BY <1>1, <1>2, <1>3, <1>5, <3>1 DEF IInv, Owned
    <3>2. CASE q # r
      BY <1>1, <1>2, <1>3, <1>4, <3>2 DEF IInv, Owned
    <3>3. QED
      BY <3>1, <3>2
  <2>3. QED
    BY <2>1, <2>2 DEF Owned
<1>7. JobInv'
  BY <1>1, <1>2 DEF IInv, JobInv, NoJob
<1>8. QED
  BY <1>2, <1>6, <1>7 DEF IInv, WithinCapacity

LEMMA MapStep ==
    ASSUME IInv, NEW t \in Threads, NEW r \in Ranges, Map(t, r)
    PROVE  IInv'
<1> DEFINE j == [pc |-> "register", r |-> r]
<1>1. /\ job[t] = NoJob /\ space[r] = "free" /\ space' = [space EXCEPT ![r] = "mapped"]
      /\ job' = [job EXCEPT ![t] = j] /\ UNCHANGED <<region, bytes, suppressed, tick, held, moved>>
      /\ TypeOK
  BY DEF Map, CanMap, IInv
<1>2. j \in Jobs /\ j # NoJob /\ j.r = r /\ j.pc = "register"
  BY DEF Jobs, NoJob
<1> HIDE DEF j
<1>3. /\ \A u \in Threads : job'[u] = IF u = t THEN j ELSE job[u]
      /\ \A u \in Threads, q \in Ranges :
            Busy(u, q)' <=> IF u = t THEN j # NoJob /\ j.r = q ELSE Busy(u, q)
  BY <1>1, BusyNext
<1>4. /\ r \notin Registered /\ r \notin held /\ \A u \in Threads : ~ Busy(u, r)
      /\ Registered' = Registered
  BY <1>1 DEF IInv, Owned, Registered
<1>5. TypeOK'
  BY <1>1, <1>2 DEF TypeOK
<1>6. Owned'
  <2>1. \A q \in Ranges : space'[q] = IF q = r THEN "mapped" ELSE space[q]
    BY <1>1 DEF TypeOK
  <2>2. \A q \in Ranges : ~ Busy(t, q)
    BY <1>1 DEF Busy
  <2>3. held' = held /\ held \subseteq Registered
    BY <1>1 DEF IInv, Owned
  <2>4. ASSUME NEW q \in Ranges
        PROVE  /\ q \in Registered' => space'[q] = "mapped"
               /\ space'[q] = "mapped" => q \in held' \/ \E u \in Threads : Busy(u, q)'
               /\ \A u \in Threads : Busy(u, q)' =>
                     /\ q \notin held' /\ space'[q] = "mapped"
                     /\ \A v \in Threads \ {u} : ~ Busy(v, q)'
    <3>1. CASE q = r
      BY <1>2, <1>3, <1>4, <2>1, <2>3, <3>1
    <3>2. CASE q # r
      <4>1. \A u \in Threads : Busy(u, q)' <=> Busy(u, q)
        BY <1>2, <1>3, <2>2, <3>2
      <4>2. QED
        BY <1>4, <2>1, <2>3, <3>2, <4>1 DEF IInv, Owned
    <3>3. QED
      BY <3>1, <3>2
  <2>5. QED
    BY <1>4, <2>3, <2>4 DEF Owned
<1>7. JobInv'
  BY <1>1, <1>2, <1>3, <1>4 DEF IInv, JobInv
<1>8. NodeBytesExact'
  <2>1. ~ region[r].reg /\ region' = region /\ job[t].pc = "idle"
    BY <1>1, <1>4 DEF Registered, NoJob
  <2>2. \A n \in Nodes : Share(n, r, region'[r], j) = 0 /\ Share(n, r, region[r], job[t]) = 0
    BY <1>2, <2>1, NoShare
  <2>3. QED
    <3>1. WorksAt(t, r, j) /\ SharesStay(t, r, j) /\ bytes' = bytes
      BY <1>1, <1>2, <1>4, <2>2 DEF WorksAt, SharesStay
    <3>2. QED
      BY <1>5, <3>1, SameShares
<1>9. QED
  BY <1>4, <1>5, <1>6, <1>7, <1>8 DEF IInv, WithinCapacity

LEMMA RegisterStep ==
    ASSUME IInv, NEW t \in Threads, Register(t)
    PROVE  IInv'
<1> DEFINE r == job[t].r
           entry == [NoRegion EXCEPT !.reg = TRUE]
           j == [job[t] EXCEPT !.pc = "promote"]
<1>1. /\ job[t].pc = "register" /\ TypeOK
      /\ UNCHANGED <<space, bytes, suppressed, tick, held, moved>>
      /\ job[t] \in [pc : {"register", "promote", "bind"}, r : Ranges]
  BY JobKinds DEF Register, IInv
<1>2. /\ r \in Ranges /\ Busy(t, r) /\ \A u \in Threads \ {t} : ~ Busy(u, r)
      /\ r \notin Registered
  BY <1>1, AtRange DEF IInv, JobInv
<1>3. CASE Cardinality(Registered) < Capacity
  <2>1. /\ region' = [region EXCEPT ![r] = entry]
        /\ job' = [job EXCEPT ![t].pc = "promote"]
    BY <1>3 DEF Register
  <2>2. job' = [job EXCEPT ![t] = j] /\ j \in Jobs /\ j # NoJob /\ j.r = r /\ j.pc = "promote"
    BY <1>1, <2>1 DEF Jobs, NoJob
  <2>3. /\ entry \in [reg : BOOLEAN, node : Nodes \cup {Unbound}, stamp : {"none", "fresh", "cold"}]
        /\ entry.reg /\ entry.node = Unbound
    BY DEF NoRegion
  <2> HIDE DEF r, j, entry
  <2>4. TypeOK'
    <3>1. region' \in [Ranges -> [reg : BOOLEAN, node : Nodes \cup {Unbound},
                                 stamp : {"none", "fresh", "cold"}]]
      BY <1>1, <1>2, <2>1, <2>3 DEF TypeOK
    <3>2. QED
      BY <1>1, <2>2, <3>1 DEF TypeOK
  <2>5. /\ \A q \in Ranges \ {r} : region'[q] = region[q]
        /\ region'[r].reg /\ region'[r].node = Unbound
    BY <1>1, <1>2, <2>1, <2>3 DEF TypeOK
  <2>6. Owned' /\ JobInv'
    <3>1. UNCHANGED <<space, held>>
      BY <1>1
    <3>2. QED
      BY <1>2, <2>2, <2>5, <3>1, SameRange
  <2>7. WithinCapacity'
    <3>1. Registered' = Registered \cup {r}
      BY <1>2, <2>5 DEF Registered
    <3>2. IsFiniteSet(Registered)
      BY HeapAssumption, FS_Subset DEF Registered
    <3>3. Cardinality(Registered') = Cardinality(Registered) + 1 /\ Cardinality(Registered) \in Nat
      BY <1>2, <3>1, <3>2, FS_AddElement, FS_CardinalityType
    <3>4. QED
      BY <1>3, <3>3, HeapAssumption DEF WithinCapacity
  <2>8. NodeBytesExact'
    <3>1. ~ region[r].reg /\ job[t].r = r
      BY <1>2 DEF Registered, r
    <3>2. \A n \in Nodes : Share(n, r, region'[r], j) = 0 /\ Share(n, r, region[r], job[t]) = 0
      BY <1>1, <2>2, <2>5, <3>1, NoShare
    <3>3. QED
      <4>1. WorksAt(t, r, j) /\ SharesStay(t, r, j) /\ bytes' = bytes
        BY <1>1, <1>2, <2>2, <2>5, <3>1, <3>2 DEF WorksAt, SharesStay
      <4>2. QED
        BY <1>2, <2>4, <4>1, SameShares
  <2>9. QED
    BY <2>4, <2>6, <2>7, <2>8 DEF IInv
<1>4. CASE ~ (Cardinality(Registered) < Capacity)
  <2> DEFINE k == [pc |-> "unmap", r |-> r, node |-> Unbound]
  <2>1. region' = region /\ job' = [job EXCEPT ![t] = k] /\ ~ region[r].reg
    BY <1>2, <1>4 DEF Register, Registered
  <2>2. k \in Jobs /\ k # NoJob /\ k.r = r /\ k.pc = "unmap" /\ job[t].r = r
    BY <1>2 DEF Jobs, NoJob
  <2> HIDE DEF r, k
  <2>3. TypeOK'
    BY <1>1, <2>1, <2>2 DEF TypeOK
  <2>4. Owned' /\ JobInv'
    BY <1>1, <1>2, <2>1, <2>2, SameRange
  <2>5. NodeBytesExact'
    <3>1. \A n \in Nodes : Share(n, r, region'[r], k) = 0 /\ Share(n, r, region[r], job[t]) = 0
      BY <1>1, <2>1, <2>2, NoShare
    <3>2. QED
      <4>1. WorksAt(t, r, k) /\ SharesStay(t, r, k) /\ bytes' = bytes
        BY <1>1, <1>2, <2>1, <2>2, <3>1 DEF WorksAt, SharesStay
      <4>2. QED
        BY <1>2, <2>3, <4>1, SameShares
  <2>6. QED
    BY <2>1, <2>3, <2>4, <2>5 DEF IInv, WithinCapacity, Registered
<1>5. QED
  BY <1>3, <1>4

LEMMA PromoteStep ==
    ASSUME IInv, NEW t \in Threads, NEW promote \in BOOLEAN, Promote(t, promote)
    PROVE  IInv'
<1> DEFINE r == job[t].r
           j == [job[t] EXCEPT !.pc = "bind"]
<1>1. /\ job[t].pc = "promote" /\ TypeOK /\ UNCHANGED <<space, bytes, suppressed, tick, held, moved>>
      /\ job[t] \in [pc : {"register", "promote", "bind"}, r : Ranges]
      /\ job' = [job EXCEPT ![t].pc = "bind"]
  BY JobKinds DEF Promote, IInv
<1>2. /\ r \in Ranges /\ Busy(t, r) /\ \A u \in Threads \ {t} : ~ Busy(u, r)
      /\ r \in Registered /\ region[r].node = Unbound
  BY <1>1, AtRange DEF IInv, JobInv
<1>3. job' = [job EXCEPT ![t] = j] /\ j \in Jobs /\ j # NoJob /\ j.r = r /\ j.pc = "bind"
  BY <1>1 DEF Jobs, NoJob
<1>4. region' = region \/ region' = [region EXCEPT ![r].stamp = "fresh"]
  BY DEF Promote
<1> HIDE DEF r, j
<1>5. TypeOK'
  <2>1. region' \in [Ranges -> [reg : BOOLEAN, node : Nodes \cup {Unbound},
                               stamp : {"none", "fresh", "cold"}]]
    BY <1>1, <1>2, <1>4 DEF TypeOK
  <2>2. QED
    BY <1>1, <1>3, <2>1 DEF TypeOK
<1>6. /\ \A q \in Ranges \ {r} : region'[q] = region[q]
      /\ region[r].reg /\ region'[r].reg /\ region'[r].node = Unbound
  BY <1>1, <1>2, <1>4 DEF TypeOK, Registered
<1>7. Registered' = Registered /\ job[t].r = r
  BY <1>6 DEF Registered, r
<1>8. Owned' /\ JobInv'
  <2>1. UNCHANGED <<space, held>>
    BY <1>1
  <2>2. QED
    BY <1>2, <1>3, <1>6, <2>1, SameRange
<1>9. NodeBytesExact'
  <2>1. \A n \in Nodes : Share(n, r, region'[r], j) = 0 /\ Share(n, r, region[r], job[t]) = 0
    BY <1>1, <1>2, <1>3, <1>6, NoShare
  <2>2. QED
    <3>1. WorksAt(t, r, j) /\ SharesStay(t, r, j) /\ bytes' = bytes
      BY <1>1, <1>2, <1>3, <1>6, <1>7, <2>1 DEF WorksAt, SharesStay
    <3>2. QED
      BY <1>2, <1>5, <3>1, SameShares
<1>10. QED
  BY <1>5, <1>7, <1>8, <1>9 DEF IInv, WithinCapacity

LEMMA BindStep ==
    ASSUME IInv, NEW t \in Threads, NEW n \in 0 .. NumNodes, Bind(t, n)
    PROVE  IInv'
<1> DEFINE r == job[t].r
<1>1. job[t].pc = "bind" /\ TypeOK /\ UNCHANGED <<space, region, bytes, suppressed, tick, moved>>
  BY DEF Bind, IInv
<1>2. /\ r \in Ranges /\ Busy(t, r) /\ \A u \in Threads \ {t} : ~ Busy(u, r)
      /\ r \in Registered /\ region[r].reg /\ region[r].node = Unbound
  BY <1>1, AtRange DEF IInv, JobInv, Registered
<1>3. CASE BindFails(t)
  <2>1. job' = [job EXCEPT ![t] = NoJob] /\ held' = held \cup {r}
    BY <1>3 DEF BindFails
  <2>2. TypeOK'
    BY <1>1, <1>2, <2>1 DEF TypeOK, Jobs
  <2>3. Owned' /\ JobInv' /\ WithinCapacity'
    BY <1>1, <1>2, <2>1, RangeDone
  <2>4. NodeBytesExact'
    <3>1. \A m \in Nodes : Share(m, r, region'[r], NoJob) = 0 /\ Share(m, r, region[r], job[t]) = 0
      <4>1. NoJob.pc = "idle" /\ region' = region
        BY <1>1 DEF NoJob
      <4>2. QED
        BY <1>1, <1>2, <4>1, NoShare
    <3>2. QED
      <4>1. WorksAt(t, r, NoJob) /\ SharesStay(t, r, NoJob) /\ bytes' = bytes
        BY <1>1, <1>2, <2>1, <3>1 DEF WorksAt, SharesStay
      <4>2. QED
        BY <1>2, <2>2, <4>1, SameShares
  <2>5. QED
    BY <2>2, <2>3, <2>4 DEF IInv
<1>4. CASE /\ n < NumNodes /\ held' = held
           /\ \E m \in Target(n) : job' = [job EXCEPT ![t] = [pc |-> "record", r |-> r, node |-> m]]
  <2>1. PICK m \in Target(n) : job' = [job EXCEPT ![t] = [pc |-> "record", r |-> r, node |-> m]]
    BY <1>4
  <2>2. m \in Nodes
    BY <1>4, NodesFinite DEF Target, Nodes
  <2> DEFINE j == [pc |-> "record", r |-> r, node |-> m]
  <2>3. j \in Jobs /\ j # NoJob /\ j.r = r /\ j.pc = "record" /\ job' = [job EXCEPT ![t] = j]
    BY <1>2, <2>1, <2>2 DEF Jobs, NoJob
  <2> HIDE DEF j, r
  <2>4. TypeOK'
    BY <1>1, <1>2, <1>4, <2>3 DEF TypeOK
  <2>5. Owned' /\ JobInv'
    BY <1>1, <1>2, <1>4, <2>3, SameRange
  <2>6. NodeBytesExact'
    <3>1. region' = region /\ job[t].r = r
      BY <1>1 DEF r
    <3>2. \A q \in Nodes : Share(q, r, region'[r], j) = 0 /\ Share(q, r, region[r], job[t]) = 0
      BY <1>1, <1>2, <2>3, <3>1, NoShare
    <3>3. QED
      <4>1. WorksAt(t, r, j) /\ SharesStay(t, r, j) /\ bytes' = bytes
        BY <1>1, <1>2, <2>3, <3>1, <3>2 DEF WorksAt, SharesStay
      <4>2. QED
        BY <1>2, <2>4, <4>1, SameShares
  <2>7. QED
    BY <1>1, <2>4, <2>5, <2>6 DEF IInv, WithinCapacity, Registered
<1>5. QED
  BY <1>3, <1>4 DEF Bind

LEMMA RecordNodeStep ==
    ASSUME IInv, NEW t \in Threads, RecordNode(t)
    PROVE  IInv'
<1> DEFINE r == job[t].r
           n == job[t].node
           j == [job[t] EXCEPT !.pc = "account"]
<1>1. /\ job[t].pc = "record" /\ TypeOK /\ UNCHANGED <<space, bytes, suppressed, tick, held, moved>>
      /\ job[t] \in [pc : {"record", "account"}, r : Ranges, node : Nodes]
      /\ job' = [job EXCEPT ![t].pc = "account"] /\ region' = [region EXCEPT ![r].node = n]
  BY JobKinds DEF RecordNode, IInv
<1>2. /\ r \in Ranges /\ Busy(t, r) /\ \A u \in Threads \ {t} : ~ Busy(u, r)
      /\ r \in Registered /\ region[r].reg /\ region[r].node = Unbound
      /\ n \in Nodes /\ n # Unbound
  BY <1>1, AtRange, HeapAssumption DEF IInv, JobInv, Registered
<1>3. /\ job' = [job EXCEPT ![t] = j] /\ j \in Jobs /\ j # NoJob /\ j.r = r
      /\ j.pc = "account" /\ j.node = n
  BY <1>1 DEF Jobs, NoJob
<1>4. TypeOK'
  <2> HIDE DEF r, n, j
  <2>1. region' \in [Ranges -> [reg : BOOLEAN, node : Nodes \cup {Unbound},
                               stamp : {"none", "fresh", "cold"}]]
    BY <1>1, <1>2 DEF TypeOK
  <2>2. QED
    BY <1>1, <1>3, <2>1 DEF TypeOK
<1>5. /\ \A q \in Ranges \ {r} : region'[q] = region[q]
      /\ region'[r].reg /\ region'[r].node = n
  BY <1>1, <1>2 DEF TypeOK
<1>6. Registered' = Registered
  BY <1>2, <1>5 DEF Registered
<1> HIDE DEF r, n, j
<1>7. Owned' /\ JobInv'
  <2>1. UNCHANGED <<space, held>>
    BY <1>1
  <2>2. QED
    BY <1>2, <1>3, <1>5, <2>1, SameRange
<1>8. NodeBytesExact'
  <2>1. SizeOf[r] \in Int /\ job[t].r = r
    <3>1. \A q \in Ranges : SizeOf[q] \in Int
      BY HeapAssumption
    <3>2. QED
      BY <1>2, <3>1 DEF r
  <2>2. \A m \in Nodes : Share(m, r, region[r], job[t]) = 0
    BY <1>1, <1>2, NoShare
  <2>3. \A m \in Nodes : Share(m, r, region'[r], j) = 0
    BY <1>3, <1>5, <2>1 DEF Share, Weigh
  <2>4. QED
    <3>1. WorksAt(t, r, j) /\ SharesStay(t, r, j) /\ bytes' = bytes
      BY <1>1, <1>2, <1>3, <1>5, <2>1, <2>2, <2>3 DEF WorksAt, SharesStay
    <3>2. QED
      BY <1>2, <1>4, <3>1, SameShares
<1>9. QED
  BY <1>4, <1>6, <1>7, <1>8 DEF IInv, WithinCapacity

\* A counter moves by z where the shares do.
LEMMA CounterMoves ==
    ASSUME TypeOK, NEW n \in Nodes, NEW z \in Int, NEW s \in Int,
           bytes' = [bytes EXCEPT ![n] = (@ + z) % ByteMod]
    PROVE  /\ bytes' \in [Nodes -> 0 .. ByteMod - 1]
           /\ Congruent((bytes'[n] + moved[n]) + s, (bytes[n] + moved[n]) + (s + z), ByteMod)
<1> DEFINE m == (bytes[n] + z) % ByteMod
           y == moved[n] + s
<1>1. bytes[n] \in Int /\ moved[n] \in Int
  BY AccountsAreInts
<1>2. bytes[n] + z \in Int /\ y \in Int
  BY <1>1
<1>3. m \in 0 .. ByteMod - 1 /\ Congruent(m + y, (bytes[n] + z) + y, ByteMod)
  BY <1>2, Reduced
<1>4. m \in Int
  BY <1>3, NodesFinite
<1> HIDE DEF m
<1>5. bytes'[n] = m /\ bytes' \in [Nodes -> 0 .. ByteMod - 1]
  BY <1>3 DEF TypeOK, m
<1>6. /\ (bytes'[n] + moved[n]) + s = m + y
      /\ (bytes[n] + moved[n]) + (s + z) = (bytes[n] + z) + y
  BY <1>1, <1>4, <1>5
<1>7. QED
  BY <1>3, <1>5, <1>6

LEMMA AccountStep ==
    ASSUME IInv, NEW t \in Threads, Account(t)
    PROVE  IInv'
<1> DEFINE r == job[t].r
           n == job[t].node
<1>1. /\ job[t].pc = "account" /\ TypeOK /\ UNCHANGED <<space, region, suppressed, tick, moved>>
      /\ job[t] \in [pc : {"record", "account"}, r : Ranges, node : Nodes]
      /\ bytes' = [bytes EXCEPT ![n] = (@ + SizeOf[r]) % ByteMod]
      /\ held' = held \cup {r} /\ job' = [job EXCEPT ![t] = NoJob]
  BY JobKinds DEF Account, IInv
<1>2. /\ r \in Ranges /\ n \in Nodes /\ Busy(t, r) /\ \A u \in Threads \ {t} : ~ Busy(u, r)
      /\ r \in Registered /\ region[r].reg /\ region[r].node # Unbound
  BY <1>1, AtRange DEF IInv, JobInv, Registered
<1>3. SizeOf[r] \in Int /\ \A m \in Nodes : bytes[m] \in Int /\ moved[m] \in Int
  BY <1>1, <1>2, AccountsAreInts
<1>4. TypeOK'
  <2>1. 0 \in Int /\ NoJob \in Jobs
    BY DEF Jobs
  <2> HIDE DEF r, n
  <2>2. bytes' \in [Nodes -> 0 .. ByteMod - 1]
    BY <1>1, <1>2, <1>3, <2>1, CounterMoves
  <2>3. QED
    BY <1>1, <1>2, <2>1, <2>2 DEF TypeOK
<1>5. Owned' /\ JobInv' /\ WithinCapacity'
  <2>1. region' = region /\ space' = space /\ held' = held \cup {r}
    BY <1>1
  <2>2. job' = [job EXCEPT ![t] = NoJob]
    BY <1>1
  <2>3. QED
    BY <1>2, <2>1, <2>2, RangeDone
<1>6. \A m \in Nodes : /\ Share(m, r, region'[r], NoJob) \in Int
                       /\ Share(m, r, region[r], job[t]) \in Int
                       /\ Share(m, r, region'[r], NoJob) =
                             Share(m, r, region[r], job[t]) + (IF m = n THEN SizeOf[r] ELSE 0)
  <2>1. NoJob.pc = "idle" /\ region' = region /\ job[t].pc = "account" /\ job[t].node = n
    BY <1>1 DEF NoJob
  <2> HIDE DEF r, n
  <2> DEFINE w(m) == Weigh(region[r].reg /\ region[r].node = m, r)
  <2>2. ASSUME NEW m \in Nodes
        PROVE  /\ w(m) \in Int
               /\ Share(m, r, region'[r], NoJob) = w(m)
               /\ Share(m, r, region[r], job[t]) = w(m) - (IF m = n THEN SizeOf[r] ELSE 0)
    <3>1. w(m) \in Int
      BY <1>3 DEF Weigh
    <3>2. /\ Weigh(NoJob.pc = "unaccount" /\ NoJob.node = m, r) = 0
          /\ Weigh(NoJob.pc = "account" /\ NoJob.node = m, r) = 0
          /\ Weigh(job[t].pc = "unaccount" /\ job[t].node = m, r) = 0
          /\ Weigh(job[t].pc = "account" /\ job[t].node = m, r) = IF m = n THEN SizeOf[r] ELSE 0
      BY <2>1 DEF Weigh
    <3>3. /\ Share(m, r, region'[r], NoJob) = (w(m) + 0) - 0
          /\ Share(m, r, region[r], job[t]) = (w(m) + 0) - (IF m = n THEN SizeOf[r] ELSE 0)
      BY <2>1, <3>2, Zenon DEF Share
    <3> HIDE DEF w
    <3>4. QED
      BY <1>3, <3>1, <3>3
  <2> HIDE DEF w
  <2>3. QED
    BY <1>3, <2>2
<1>7. ASSUME NEW m \in Nodes
      PROVE  Congruent((bytes'[m] + moved[m]) + Share(m, r, region[r], job[t]),
                       (bytes[m] + moved[m]) + Share(m, r, region'[r], NoJob), ByteMod)
  <2>1. bytes' = [bytes EXCEPT ![n] = (@ + SizeOf[r]) % ByteMod]
    BY <1>1
  <2> HIDE DEF r, n
  <2>2. CASE m = n
    BY <1>1, <1>2, <1>3, <1>6, <2>1, <2>2, CounterMoves
  <2>3. CASE m # n
    <3>1. bytes'[m] = bytes[m]
      BY <1>1, <2>1, <2>3 DEF TypeOK
    <3>2. Share(m, r, region'[r], NoJob) = Share(m, r, region[r], job[t])
      BY <1>6, <2>3
    <3>3. QED
      BY <3>1, <3>2 DEF Congruent
  <2>4. QED
    BY <2>2, <2>3
<1>8. NodeBytesExact'
  <2>1. region' = region /\ moved' = moved /\ job[t].r = r
    BY <1>1
  <2>2. job' = [job EXCEPT ![t] = NoJob]
    BY <1>1
  <2> HIDE DEF r, n
  <2>3. QED
    <3>1. WorksAt(t, r, NoJob) /\ SharesFollow(t, r, NoJob)
      BY <1>2, <1>7, <2>1, <2>2 DEF WorksAt, SharesFollow
    <3>2. QED
      BY <1>2, <1>4, <3>1, SharesMove
<1>9. QED
  BY <1>4, <1>5, <1>8 DEF IInv

LEMMA UnregisterStep ==
    ASSUME IInv, NEW t \in Threads, NEW r \in Ranges, Unregister(t, r)
    PROVE  IInv'
<1> DEFINE n == region[r].node
           j == [pc |-> "unaccount", r |-> r, node |-> n]
<1>1. /\ job[t] = NoJob /\ r \in held /\ held' = held \ {r} /\ TypeOK
      /\ region' = [region EXCEPT ![r] = NoRegion] /\ job' = [job EXCEPT ![t] = j]
      /\ UNCHANGED <<space, bytes, suppressed, tick, moved>>
  BY DEF Unregister, IInv
<1>2. n \in Nodes \cup {Unbound}
  BY <1>1 DEF TypeOK
<1> HIDE DEF n
<1>3. j \in Jobs /\ j # NoJob /\ j.r = r /\ j.pc = "unaccount" /\ j.node = n
  BY <1>2 DEF Jobs, NoJob
<1>4. NoRegion \in [reg : BOOLEAN, node : Nodes \cup {Unbound}, stamp : {"none", "fresh", "cold"}]
  BY DEF NoRegion
<1> HIDE DEF j
<1>5. TypeOK'
  BY <1>1, <1>3, <1>4 DEF TypeOK
<1>6. /\ \A q \in Ranges \ {r} : region'[q] = region[q]
      /\ ~ region'[r].reg
  BY <1>1 DEF TypeOK, NoRegion
<1>7. /\ r \in Registered /\ region[r].reg /\ space[r] = "mapped" /\ \A u \in Threads : ~ Busy(u, r)
      /\ Registered' = Registered \ {r}
  BY <1>1, <1>6 DEF IInv, Owned, Registered
<1>8. /\ \A u \in Threads : job'[u] = IF u = t THEN j ELSE job[u]
      /\ \A u \in Threads, q \in Ranges :
            Busy(u, q)' <=> IF u = t THEN j # NoJob /\ j.r = q ELSE Busy(u, q)
  BY <1>1, BusyNext
<1>9. Owned'
  <2>1. \A q \in Ranges : ~ Busy(t, q)
    BY <1>1 DEF Busy
  <2>2. held' \subseteq Registered' /\ space' = space /\ held' = held \ {r}
    BY <1>1, <1>7 DEF IInv, Owned
  <2>3. ASSUME NEW q \in Ranges
        PROVE  /\ q \in Registered' => space'[q] = "mapped"
               /\ space'[q] = "mapped" => q \in held' \/ \E u \in Threads : Busy(u, q)'
               /\ \A u \in Threads : Busy(u, q)' =>
                     /\ q \notin held' /\ space'[q] = "mapped"
                     /\ \A v \in Threads \ {u} : ~ Busy(v, q)'
    <3>1. CASE q = r
      BY <1>3, <1>7, <1>8, <2>2, <3>1
    <3>2. CASE q # r
      <4>1. \A u \in Threads : Busy(u, q)' <=> Busy(u, q)
        BY <1>3, <1>8, <2>1, <3>2
      <4>2. QED
        BY <1>7, <2>2, <3>2, <4>1 DEF IInv, Owned
    <3>3. QED
      BY <3>1, <3>2
  <2>4. QED
    BY <2>2, <2>3 DEF Owned
<1>10. JobInv'
  <2>1. ASSUME NEW u \in Threads \ {t}, job[u].pc # "idle"
        PROVE  job[u].r \in Ranges \ {r}
    <3>1. job[u] # NoJob /\ job[u].r \in Ranges
      BY <2>1, JobKinds DEF IInv, Jobs, NoJob
    <3>2. QED
      BY <1>7, <3>1 DEF Busy
  <2>2. r \notin Registered'
    BY <1>7
  <2>3. /\ job'[t] = j /\ j.pc = "unaccount" /\ j.r = r
        /\ \A u \in Threads \ {t} : job'[u] = job[u]
    BY <1>3, <1>8
  <2>4. \A q \in Ranges \ {r} : region'[q] = region[q] /\ (q \in Registered' <=> q \in Registered)
    BY <1>6, <1>7
  <2>5. QED
    BY <2>1, <2>2, <2>3, <2>4 DEF IInv, JobInv
<1>11. WithinCapacity'
  <2>1. IsFiniteSet(Registered)
    BY HeapAssumption, FS_Subset DEF Registered
  <2>2. Cardinality(Registered') = Cardinality(Registered) - 1 /\ Cardinality(Registered) \in Nat
    BY <1>7, <2>1, FS_RemoveElement, FS_CardinalityType
  <2>3. QED
    BY <2>2, HeapAssumption DEF IInv, WithinCapacity
<1>12. NodeBytesExact'
  <2>1. job[t].pc = "idle"
    BY <1>1 DEF NoJob
  <2>2. \A u \in Threads \ {t} : ~ Busy(u, r)
    BY <1>7
  <2>3. QED
    <3>1. SizeOf[r] \in Int
      BY HeapAssumption
    <3>2. \A m \in Nodes : Share(m, r, region'[r], j) = Share(m, r, region[r], job[t])
      BY <1>3, <1>6, <1>7, <2>1, <3>1 DEF Share, Weigh, n
    <3>3. QED
      <4>1. WorksAt(t, r, j) /\ SharesStay(t, r, j) /\ bytes' = bytes
        BY <1>1, <1>3, <1>6, <2>2, <3>2 DEF WorksAt, SharesStay
      <4>2. QED
        BY <1>5, <4>1, SameShares
<1>13. QED
  BY <1>5, <1>9, <1>10, <1>11, <1>12 DEF IInv

LEMMA UnaccountStep ==
    ASSUME IInv, NEW t \in Threads, Unaccount(t)
    PROVE  IInv'
<1> DEFINE r == job[t].r
           n == job[t].node
           j == [job[t] EXCEPT !.pc = "unmap"]
<1>1. /\ job[t].pc = "unaccount" /\ TypeOK /\ UNCHANGED <<space, region, suppressed, tick, held, moved>>
      /\ job[t] \in [pc : {"unaccount", "unmap"}, r : Ranges, node : Nodes \cup {Unbound}]
      /\ bytes' = IF n = Unbound THEN bytes
                  ELSE [bytes EXCEPT ![n] = (@ - SizeOf[r]) % ByteMod]
      /\ job' = [job EXCEPT ![t].pc = "unmap"]
  BY JobKinds DEF Unaccount, IInv
<1>2. /\ r \in Ranges /\ Busy(t, r) /\ \A u \in Threads \ {t} : ~ Busy(u, r)
      /\ ~ region[r].reg /\ n \in Nodes \cup {Unbound}
  BY <1>1, AtRange DEF IInv, JobInv, Registered
<1>3. job' = [job EXCEPT ![t] = j] /\ j \in Jobs /\ j # NoJob /\ j.r = r /\ j.pc = "unmap"
  BY <1>1 DEF Jobs, NoJob
<1>4. SizeOf[r] \in Int /\ \A m \in Nodes : bytes[m] \in Int /\ moved[m] \in Int
  BY <1>1, <1>2, AccountsAreInts
<1> DEFINE z == 0 - SizeOf[r]
<1>5. /\ bytes' \in [Nodes -> 0 .. ByteMod - 1]
      /\ n # Unbound => bytes' = [bytes EXCEPT ![n] = (@ + z) % ByteMod] /\ n \in Nodes
  <2>1. CASE n = Unbound
    BY <1>1, <2>1 DEF TypeOK
  <2>2. CASE n # Unbound
    <3>1. bytes' = [bytes EXCEPT ![n] = (@ - SizeOf[r]) % ByteMod] /\ n \in Nodes
      BY <1>1, <1>2, <2>2
    <3> HIDE DEF r, n
    <3>2. bytes[n] - SizeOf[r] = bytes[n] + z /\ z \in Int /\ 0 \in Int
      BY <1>4, <3>1
    <3>3. bytes' = [bytes EXCEPT ![n] = (@ + z) % ByteMod]
      BY <3>1, <3>2
    <3> HIDE DEF z
    <3>4. QED
      BY <1>1, <3>1, <3>2, <3>3, CounterMoves
  <2>3. QED
    BY <2>1, <2>2
<1>6. TypeOK'
  <2> HIDE DEF r, n, j
  <2> QED
    BY <1>1, <1>3, <1>5 DEF TypeOK
<1>7. Owned' /\ JobInv'
  <2>1. UNCHANGED <<space, held>> /\ \A q \in Ranges : region'[q] = region[q]
    BY <1>1
  <2>2. j.pc = "unmap" /\ ~ region'[r].reg
    BY <1>1, <1>2, <1>3
  <2> HIDE DEF r, n, j
  <2>3. QED
    BY <1>2, <1>3, <2>1, <2>2, SameRange
<1>8. \A m \in Nodes : /\ Share(m, r, region'[r], j) \in Int
                       /\ Share(m, r, region[r], job[t]) \in Int
                       /\ Share(m, r, region'[r], j) =
                             Share(m, r, region[r], job[t]) + (IF m = n THEN z ELSE 0)
  <2>1. region' = region /\ job[t].pc = "unaccount" /\ job[t].node = n
    BY <1>1
  <2> HIDE DEF r, n, j
  <2>2. ASSUME NEW m \in Nodes
        PROVE  /\ Share(m, r, region'[r], j) = 0
               /\ Share(m, r, region[r], job[t]) = IF m = n THEN SizeOf[r] ELSE 0
    BY <1>2, <1>3, <1>4, <2>1 DEF Share, Weigh
  <2>3. QED
    BY <1>4, <2>2
<1>9. ASSUME NEW m \in Nodes
      PROVE  Congruent((bytes'[m] + moved[m]) + Share(m, r, region[r], job[t]),
                       (bytes[m] + moved[m]) + Share(m, r, region'[r], j), ByteMod)
  <2>1. bytes' = IF n = Unbound THEN bytes
                 ELSE [bytes EXCEPT ![n] = (@ - SizeOf[r]) % ByteMod]
    BY <1>1
  <2>2. z \in Int /\ m # Unbound
    <3> HIDE DEF r, n, j
    <3> QED
      BY <1>4, HeapAssumption
  <2> HIDE DEF r, n, j, z
  <2>3. CASE m = n
    BY <1>1, <1>5, <1>8, <2>2, <2>3, CounterMoves
  <2>4. CASE m # n
    <3>1. bytes'[m] = bytes[m]
      BY <1>1, <2>1, <2>4 DEF TypeOK
    <3>2. Share(m, r, region'[r], j) = Share(m, r, region[r], job[t])
      BY <1>8, <2>4
    <3>3. QED
      BY <3>1, <3>2 DEF Congruent
  <2>5. QED
    BY <2>3, <2>4
<1>10. NodeBytesExact'
  <2>1. region' = region /\ moved' = moved /\ job[t].r = r
    BY <1>1
  <2> HIDE DEF r, n, j, z
  <2>2. QED
    <3>1. WorksAt(t, r, j) /\ SharesFollow(t, r, j)
      BY <1>2, <1>3, <1>9, <2>1 DEF WorksAt, SharesFollow
    <3>2. QED
      BY <1>2, <1>6, <3>1, SharesMove
<1>11. QED
  BY <1>1, <1>6, <1>7, <1>10 DEF IInv, WithinCapacity, Registered

LEMMA UnmapStep ==
    ASSUME IInv, NEW t \in Threads, Unmap(t)
    PROVE  IInv'
<1> DEFINE r == job[t].r
<1>1. /\ job[t].pc = "unmap" /\ TypeOK /\ UNCHANGED <<region, bytes, suppressed, tick, held, moved>>
      /\ space' = Unmapped(r) /\ job' = [job EXCEPT ![t] = NoJob]
  BY DEF Unmap, IInv
<1>2. /\ r \in Ranges /\ Busy(t, r) /\ \A u \in Threads \ {t} : ~ Busy(u, r)
      /\ r \notin Registered /\ ~ region[r].reg
  BY <1>1, AtRange DEF IInv, JobInv, Registered
<1>3. TypeOK'
  BY <1>1, <1>2 DEF TypeOK, Unmapped, Jobs
<1>4. Owned' /\ JobInv' /\ WithinCapacity'
  BY <1>1, <1>2, RangeDone
<1>5. NodeBytesExact'
  <2>1. NoJob.pc = "idle" /\ region' = region
    BY <1>1 DEF NoJob
  <2>2. \A n \in Nodes : Share(n, r, region'[r], NoJob) = 0 /\ Share(n, r, region[r], job[t]) = 0
    BY <1>1, <1>2, <2>1, NoShare
  <2>3. QED
    <3>1. WorksAt(t, r, NoJob) /\ SharesStay(t, r, NoJob) /\ bytes' = bytes
      BY <1>1, <1>2, <2>1, <2>2 DEF WorksAt, SharesStay
    <3>2. QED
      BY <1>2, <1>3, <3>1, SameShares
<1>6. QED
  BY <1>3, <1>4, <1>5 DEF IInv

-----------------------------------------------------------------------------
\* The theorems

LEMMA NextIInv == IInv /\ [Next]_vars => IInv'
<1> SUFFICES ASSUME IInv, [Next]_vars PROVE IInv'
  OBVIOUS
<1>1. ASSUME NEW t \in Threads, NEW r \in Ranges, Map(t, r) \/ Unregister(t, r)
      PROVE  IInv'
  BY <1>1, MapStep, UnregisterStep
<1>2. ASSUME NEW t \in Threads,
             Register(t) \/ RecordNode(t) \/ Account(t) \/ Unaccount(t) \/ Unmap(t)
      PROVE  IInv'
  BY <1>2, RegisterStep, RecordNodeStep, AccountStep, UnaccountStep, UnmapStep
<1>3. ASSUME NEW t \in Threads, NEW promote \in BOOLEAN, Promote(t, promote)
      PROVE  IInv'
  BY <1>3, PromoteStep
<1>4. ASSUME NEW t \in Threads, NEW n \in 0 .. NumNodes, Bind(t, n)
      PROVE  IInv'
  BY <1>4, BindStep
<1>5. ASSUME NEW r \in Ranges, Age(r)
      PROVE  IInv'
  BY <1>5, AgeStep
<1>6. CASE TickBegin \/ BalanceLoad \/ BalanceFlag \/ MigrateOneRegion
  BY <1>6, TickBeginStep, BalanceLoadStep, BalanceFlagStep, MigrateStep
<1>7. CASE SweepBegin \/ SweepScan \/ SweepAdvise
  BY <1>7, SweepBeginStep, SweepScanStep, SweepAdviseStep
<1>8. CASE UNCHANGED vars
  <2>1. TypeOK'
    BY <1>8 DEF IInv, TypeOK, vars
  <2>2. QED
    BY <1>8, <2>1, TickStep DEF vars
<1>9. QED
  BY <1>1, <1>2, <1>3, <1>4, <1>5, <1>6, <1>7, <1>8 DEF Next

\* What a caller of v8m_page_heap_alloc holds is registered, what is registered
\* is mapped, and a mapped range is in the hands of a caller or of exactly one
\* thread inside page_heap_alloc or page_heap_free, whichever threads map, free
\* and age regions and migrate them at the same time.
THEOREM MapMatchesAddressSpace == Spec => []MapMatchesSpace
<1>1. IInv => MapMatchesSpace
  BY InvariantsNamed
<1>2. QED
  BY <1>1, InitIInv, NextIInv, PTL DEF Spec

\* The byte counter of a node is, modulo the width of its word, the bytes of
\* the regions stamped with the node, corrected by what migrations have
\* restamped and by the calls between their two updates: page_heap_free
\* subtracts a region's bytes once and from the node it is stamped with.
THEOREM NodeBytesAreExact == Spec => []NodeBytesExact
<1>1. IInv => NodeBytesExact
  BY InvariantsNamed
<1>2. QED
  BY <1>1, InitIInv, NextIInv, PTL DEF Spec
=============================================================================
