------------------------------ MODULE PageHeap ------------------------------
(***************************************************************************)
(* The page heap (src/src/v8m_page_heap.c): mapping and unmapping regions, *)
(* their entries in the region map, the bytes accounted to each NUMA node, *)
(* and the two passes the background thread makes over the regions, the    *)
(* THP age sweep and the NUMA rebalancing.                                 *)
(*                                                                         *)
(* Everything under one g_region_lock section is one step (RegionMap       *)
(* models the map's own readers and writers); between two sections other   *)
(* threads may run.  Ranges are address ranges that the kernel hands out,  *)
(* named by their position in the address space; Anchor are the carves of  *)
(* the anchor reservation, which is bump-only.                             *)
(***************************************************************************)
EXTENDS Integers, FiniteSets, FiniteSetsExt

CONSTANTS
    Threads,
    Ranges,      \* address ranges, as natural numbers
    Anchor,      \* the ranges inside the anchor reservation
    SizeOf,      \* [Ranges -> Nat \ {0}]
    NumNodes,    \* NUMA nodes
    Capacity,    \* V8M_REGION_MAP_CAPACITY
    ByteMod,     \* 2^64 in the code
    Unbound      \* V8M_REGION_NODE_UNBOUND

Nodes == 0 .. NumNodes - 1

ASSUME HeapAssumption ==
    /\ Ranges \subseteq Nat /\ IsFiniteSet(Ranges)
    /\ Anchor \subseteq Ranges
    /\ \A r \in Ranges : SizeOf[r] \in Nat \ {0}
    /\ NumNodes \in Nat \ {0}
    /\ Capacity \in Nat
    /\ ByteMod \in Nat \ {0}
    /\ Unbound \notin Nodes

VARIABLES
    space,       \* what the kernel has at each range
    region,      \* the region map: node and THP stamp of registered ranges
    bytes,       \* v8m_per_node_bytes
    suppressed,  \* v8m_per_node_suppressed
    job,         \* the call each thread is in
    tick,        \* the tick the background thread is in: rebalance, then sweep
    held,        \* history: ranges in the hands of the callers
    moved        \* history: bytes that migrations stamped onto each node, net

vars == <<space, region, bytes, suppressed, job, tick, held, moved>>

NoRegion == [reg |-> FALSE, node |-> Unbound, stamp |-> "none"]
NoJob == [pc |-> "idle"]
NoTick == [pc |-> "idle"]

Registered == {r \in Ranges : region[r].reg}

Init ==
    /\ space = [r \in Ranges |-> "free"]
    /\ region = [r \in Ranges |-> NoRegion]
    /\ bytes = [n \in Nodes |-> 0]
    /\ suppressed = [n \in Nodes |-> FALSE]
    /\ job = [t \in Threads |-> NoJob]
    /\ tick = NoTick
    /\ held = {}
    /\ moved = [n \in Nodes |-> 0]

-----------------------------------------------------------------------------
\* The kernel and the anchor reservation.

\* mmap, or the next carve of the anchor.
CanMap(r) ==
    /\ space[r] = "free"
    /\ r \in Anchor => \A s \in Anchor : s < r => space[s] # "free"

\* munmap, or v8m_anchor_reservation_release: a carve is never reused.
Unmapped(r) == [space EXCEPT ![r] = IF r \in Anchor THEN "dead" ELSE "free"]

-----------------------------------------------------------------------------
\* v8m_page_heap_alloc

Map(t, r) ==
    /\ job[t] = NoJob
    /\ CanMap(r)
    /\ space' = [space EXCEPT ![r] = "mapped"]
    /\ job' = [job EXCEPT ![t] = [pc |-> "register", r |-> r]]
    /\ UNCHANGED <<region, bytes, suppressed, tick, held, moved>>

\* A full region map undoes the allocation; the mapping goes in a step of its own.
Register(t) ==
    /\ job[t].pc = "register"
    /\ LET r == job[t].r
       IN  IF Cardinality(Registered) < Capacity
             THEN /\ region' = [region EXCEPT ![r] = [NoRegion EXCEPT !.reg = TRUE]]
                  /\ job' = [job EXCEPT ![t].pc = "promote"]
             ELSE /\ job' = [job EXCEPT ![t] = [pc |-> "unmap", r |-> r, node |-> Unbound]]
                  /\ UNCHANGED region
    /\ UNCHANGED <<space, bytes, suppressed, tick, held, moved>>

\* The THP advice of a huge-page-sized region; carves are not stamped.
Promote(t, promote) ==
    /\ job[t].pc = "promote"
    /\ promote => job[t].r \notin Anchor
    /\ region' = IF promote THEN [region EXCEPT ![job[t].r].stamp = "fresh"] ELSE region
    /\ job' = [job EXCEPT ![t].pc = "bind"]
    /\ UNCHANGED <<space, bytes, suppressed, tick, held, moved>>

\* bind_to_local_node: the local node, or another one while it is suppressed.
Target(n) ==
    IF suppressed[n] /\ \E m \in Nodes \ {n} : ~ suppressed[m]
      THEN {m \in Nodes \ {n} : ~ suppressed[m]}
      ELSE {n}

\* Without NUMA, on a node the topology does not count, or when mbind fails,
\* the region stays unbound and the call returns.
BindFails(t) ==
    /\ job' = [job EXCEPT ![t] = NoJob]
    /\ held' = held \cup {job[t].r}

\* n is the node that the CPU table gives for the calling thread.
Bind(t, n) ==
    /\ job[t].pc = "bind"
    /\ \/ BindFails(t)
       \/ /\ n < NumNodes
          /\ \E m \in Target(n) :
                job' = [job EXCEPT ![t] = [pc |-> "record", r |-> job[t].r, node |-> m]]
          /\ UNCHANGED held
    /\ UNCHANGED <<space, region, bytes, suppressed, tick, moved>>

\* Mutant: the region is stamped with the node the thread now runs on, not
\* with the one that was chosen and is accounted for.
RecordNodeCurrent(t) ==
    /\ job[t].pc = "record"
    /\ \E n \in Nodes : region' = [region EXCEPT ![job[t].r].node = n]
    /\ job' = [job EXCEPT ![t].pc = "account"]
    /\ UNCHANGED <<space, bytes, suppressed, tick, held, moved>>

RecordNode(t) ==
    /\ job[t].pc = "record"
    /\ region' = [region EXCEPT ![job[t].r].node = job[t].node]
    /\ job' = [job EXCEPT ![t].pc = "account"]
    /\ UNCHANGED <<space, bytes, suppressed, tick, held, moved>>

Account(t) ==
    /\ job[t].pc = "account"
    /\ bytes' = [bytes EXCEPT ![job[t].node] = (@ + SizeOf[job[t].r]) % ByteMod]
    /\ held' = held \cup {job[t].r}
    /\ job' = [job EXCEPT ![t] = NoJob]
    /\ UNCHANGED <<space, region, suppressed, tick, moved>>

-----------------------------------------------------------------------------
\* v8m_page_heap_free

Sweeping == tick.pc \in {"scan", "advise"}

\* Mutant: the free returns the addresses to the kernel before the entry is gone.
UnregisterAfterUnmap(t, r) ==
    /\ job[t] = NoJob
    /\ r \in held
    /\ held' = held \ {r}
    /\ space' = Unmapped(r)
    /\ job' = [job EXCEPT ![t] = [pc |-> "unaccount", r |-> r, node |-> region[r].node]]
    /\ UNCHANGED <<region, bytes, suppressed, tick, moved>>

Unregister(t, r) ==
    /\ job[t] = NoJob
    /\ r \in held
    /\ held' = held \ {r}
    /\ region' = [region EXCEPT ![r] = NoRegion]
    /\ job' = [job EXCEPT ![t] = [pc |-> "unaccount", r |-> r, node |-> region[r].node]]
    /\ UNCHANGED <<space, bytes, suppressed, tick, moved>>

Unaccount(t) ==
    /\ job[t].pc = "unaccount"
    /\ bytes' = IF job[t].node = Unbound THEN bytes
                ELSE [bytes EXCEPT ![job[t].node] = (@ - SizeOf[job[t].r]) % ByteMod]
    /\ job' = [job EXCEPT ![t].pc = "unmap"]
    /\ UNCHANGED <<space, region, suppressed, tick, held, moved>>

Unmap(t) ==
    /\ job[t].pc = "unmap"
    /\ space' = Unmapped(job[t].r)
    /\ job' = [job EXCEPT ![t] = NoJob]
    /\ UNCHANGED <<region, bytes, suppressed, tick, held, moved>>

-----------------------------------------------------------------------------
\* v8m_page_heap_numa_rebalance, called by the background tick

\* get_numa_balance reads the counters one by one.  A host with one node goes
\* straight to the sweep.
TickBegin ==
    /\ tick = NoTick
    /\ tick' = IF NumNodes > 1
                 THEN [pc |-> "load", n |-> 0, snap |-> [n \in Nodes |-> 0]]
                 ELSE [pc |-> "sweep"]
    /\ UNCHANGED <<space, region, bytes, suppressed, job, held, moved>>

BalanceLoad ==
    /\ tick.pc = "load"
    /\ LET n == tick.n
       IN  tick' = [pc |-> IF n + 1 < NumNodes THEN "load" ELSE "flag",
                    n |-> (n + 1) % NumNodes,
                    snap |-> [tick.snap EXCEPT ![n] = bytes[n]]]
    /\ UNCHANGED <<space, region, bytes, suppressed, job, held, moved>>

\* The first node with the most bytes.
MostLoaded(snap) ==
    Min({n \in Nodes : \A m \in Nodes : snap[m] <= snap[n]})

\* More than 150 % of the average.
Imbalanced(snap) ==
    LET total == SumFunctionOnSet(snap, Nodes) % ByteMod
    IN  (snap[MostLoaded(snap)] * 2) % ByteMod > ((total \div NumNodes) * 3) % ByteMod

\* The flags are exchanged one by one.
BalanceFlag ==
    /\ tick.pc = "flag"
    /\ LET n == tick.n
           imbalanced == Imbalanced(tick.snap)
           most == MostLoaded(tick.snap)
       IN  /\ suppressed' = [suppressed EXCEPT ![n] = imbalanced /\ n = most]
           /\ tick' = IF n + 1 < NumNodes THEN [tick EXCEPT !.n = n + 1]
                      ELSE IF imbalanced THEN [pc |-> "migrate", from |-> most]
                      ELSE [pc |-> "sweep"]
    /\ UNCHANGED <<space, region, bytes, job, held, moved>>

\* A region of that many bytes has changed its stamp.
MovedBy(from, to, size) ==
    [n \in Nodes |-> CASE n = to -> (moved[n] + size) % ByteMod
                       [] n = from -> (moved[n] - size) % ByteMod
                       [] OTHER -> moved[n]]

\* migrate_one_region: the first region of the node is stamped with the
\* fallback node; which one that is depends on the distances, and without
\* one nothing moves.  The counters stay.
MigrateOneRegion ==
    /\ tick.pc = "migrate"
    /\ tick' = [pc |-> "sweep"]
    /\ LET found == {r \in Registered : region[r].node = tick.from}
       IN  \/ UNCHANGED <<region, moved>>
           \/ /\ found # {}
              /\ \E to \in Nodes \ {tick.from} :
                    /\ region' = [region EXCEPT ![Min(found)].node = to]
                    /\ moved' = MovedBy(tick.from, to, SizeOf[Min(found)])
    /\ UNCHANGED <<space, bytes, suppressed, job, held>>

-----------------------------------------------------------------------------
\* v8m_page_heap_thp_age_sweep, the last call of the tick

\* Time passes, and the next sweep will find the region past the threshold; a
\* sweep reads the clock once, so that nothing ages while it runs.
Age(r) ==
    /\ ~ Sweeping
    /\ region[r].stamp = "fresh"
    /\ region' = [region EXCEPT ![r].stamp = "cold"]
    /\ UNCHANGED <<space, bytes, suppressed, job, tick, held, moved>>

Cold == {r \in Registered : region[r].stamp = "cold"}

\* The index of r in the sorted region map.
IndexOf(r) == Cardinality({s \in Registered : s < r})

SweepBegin ==
    /\ tick.pc = "sweep"
    /\ tick' = [pc |-> "scan", i |-> 0]
    /\ UNCHANGED <<space, region, bytes, suppressed, job, held, moved>>

\* Under the lock: on to the next cold region, whose stamp is cleared; the tick ends
\* when none is left.
SweepScan ==
    /\ tick.pc = "scan"
    /\ LET next == {r \in Cold : IndexOf(r) >= tick.i}
       IN  IF next = {}
             THEN tick' = NoTick /\ UNCHANGED region
             ELSE LET r == Min(next)
                  IN  /\ region' = [region EXCEPT ![r].stamp = "none"]
                      /\ tick' = [pc |-> "advise", i |-> IndexOf(r)]
    /\ UNCHANGED <<space, bytes, suppressed, job, held, moved>>

\* madvise(MADV_NOHUGEPAGE), outside the lock.
SweepAdvise ==
    /\ tick.pc = "advise"
    /\ tick' = [tick EXCEPT !.pc = "scan", !.i = @ + 1]
    /\ UNCHANGED <<space, region, bytes, suppressed, job, held, moved>>

Next ==
    \/ \E t \in Threads :
          \/ \E r \in Ranges : Map(t, r) \/ Unregister(t, r)
          \/ Register(t)
          \/ \E promote \in BOOLEAN : Promote(t, promote)
          \/ \E n \in 0 .. NumNodes : Bind(t, n)
          \/ RecordNode(t)
          \/ Account(t)
          \/ Unaccount(t)
          \/ Unmap(t)
    \/ \E r \in Ranges : Age(r)
    \/ TickBegin \/ BalanceLoad \/ BalanceFlag \/ MigrateOneRegion
    \/ SweepBegin \/ SweepScan \/ SweepAdvise

Spec == Init /\ [][Next]_vars

-----------------------------------------------------------------------------
\* Properties.

Jobs ==
    {NoJob} \cup [pc : {"register", "promote", "bind"}, r : Ranges]
            \cup [pc : {"record", "account"}, r : Ranges, node : Nodes]
            \cup [pc : {"unaccount", "unmap"}, r : Ranges, node : Nodes \cup {Unbound}]

\* The types of the variables: no counter leaves its word and no node that the
\* topology does not count is recorded.
TypeOK ==
    /\ space \in [Ranges -> {"free", "mapped", "dead"}]
    /\ region \in [Ranges -> [reg : BOOLEAN, node : Nodes \cup {Unbound},
                              stamp : {"none", "fresh", "cold"}]]
    /\ bytes \in [Nodes -> 0 .. ByteMod - 1]
    /\ suppressed \in [Nodes -> BOOLEAN]
    /\ job \in [Threads -> Jobs]
    /\ tick \in {NoTick, [pc |-> "sweep"]} \cup [pc : {"migrate"}, from : Nodes]
          \cup [pc : {"load", "flag"}, n : Nodes, snap : [Nodes -> 0 .. ByteMod - 1]]
          \cup [pc : {"scan", "advise"}, i : Nat]
    /\ held \in SUBSET Ranges
    /\ moved \in [Nodes -> 0 .. ByteMod - 1]

\* Thread t is at work on range r.
Busy(t, r) == job[t] # NoJob /\ job[t].r = r

\* The region map and the address space agree: what a caller holds is
\* registered, so that the ownership test knows it, and what is registered is
\* mapped.  A mapped range that no caller holds is in the hands of exactly one
\* thread inside page_heap_alloc or page_heap_free: the way out of a full map
\* leaks nothing, and a range the kernel hands out again is never confused
\* with its former tenant.
MapMatchesSpace ==
    /\ TypeOK
    /\ held \subseteq Registered
    /\ Cardinality(Registered) <= Capacity
    /\ \A r \in Ranges :
          /\ r \in Registered => space[r] = "mapped"
          /\ space[r] = "mapped" => r \in held \/ \E t \in Threads : Busy(t, r)
          /\ \A t \in Threads : Busy(t, r) =>
                r \notin held /\ space[r] = "mapped" /\ \A u \in Threads \ {t} : ~ Busy(u, r)

\* The regions that carry the stamp of node n.
Stamped(n) == {r \in Registered : region[r].node = n}

\* The regions a thread has yet to add to, or to take from, node n's counter.
Pending(pc, n) ==
    {r \in Ranges : \E t \in Threads : Busy(t, r) /\ job[t].pc = pc /\ job[t].node = n}

\* Each node's counter holds the bytes of the regions stamped with the node,
\* but for the additions and subtractions under way and for what migrations
\* have restamped: the fetch_add of bind_and_account is matched by one
\* fetch_sub of page_heap_free, whatever ran between the two.  The migrations
\* are the only source of drift: while none has happened, the counter and the
\* node fields agree as bind_and_account wants it, and together the counters
\* are exact at all times.
NodeBytesExact ==
    \A n \in Nodes :
        LET Bytes(S) == SumFunctionOnSet(SizeOf, S)
        IN  (bytes[n] + moved[n] + Bytes(Pending("account", n))) % ByteMod
              = (Bytes(Stamped(n)) + Bytes(Pending("unaccount", n))) % ByteMod
=============================================================================
