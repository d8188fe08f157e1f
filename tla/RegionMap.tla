----------------------------- MODULE RegionMap ------------------------------
(***************************************************************************)
(* The region map of the page heap (src/src/v8m_page_heap.c): an array of  *)
(* disjoint address ranges sorted by start, changed under g_region_lock    *)
(* and read without it by v8m_page_heap_owns_fast through a seqlock.       *)
(*                                                                         *)
(* A writer announces itself by making g_region_seq odd.  The accesses of  *)
(* readers and writers to the array race: while a writer may be storing, a *)
(* load returns the old or the new contents of the slot.  With EarlyStores *)
(* the stores of a writer may become visible before its first increment of *)
(* the counter, which a release increment does not forbid (on x86_64 it is *)
(* a full barrier and they cannot).                                        *)
(*                                                                         *)
(* Addresses are counted in pages of V8M_PAGE_SIZE: every region starts    *)
(* and ends on such a page.                                                *)
(***************************************************************************)
EXTENDS Integers, Lists

CONSTANTS
    Threads,      \* threads that ask for ownership
    Regions,      \* address ranges [start, end) the kernel may map
    Pages,        \* pages asked about
    Capacity,     \* V8M_REGION_MAP_CAPACITY
    Retries,      \* attempts of owns_fast before it gives up
    MaxSeq,       \* bound: number of increments of the sequence counter
    EarlyStores,
    None

ASSUME RegionsAssumption ==
    Regions \subseteq {r \in [start : Nat, end : Nat] : r.start < r.end}
ASSUME PagesAssumption == Pages \subseteq Nat
ASSUME MapBounds ==
    /\ Capacity \in Nat \ {0}
    /\ Retries \in Nat \ {0}
    /\ MaxSeq \in Nat
    /\ EarlyStores \in BOOLEAN
    /\ None \notin Nat \cup BOOLEAN

VARIABLES
    map,      \* g_regions[0 .. g_region_count)
    seq,      \* g_region_seq
    writer,   \* the holder of g_region_lock that changes the map
    query,    \* the locals of each thread's call of owns_fast
    cache,    \* v8m_owns_cache_page_base, _seq and _result of each thread
    verdict,  \* the answer of the last call
    seen      \* history: true answers at some instant of the call

rvars == <<query, cache, verdict>>
vars == <<map, seq, writer, rvars, seen>>

NoWriter == [phase |-> "none"]
NoQuery == [pc |-> "idle", page |-> 0, seq1 |-> 0, count |-> 0,
            low |-> 0, high |-> 0, owned |-> FALSE, retry |-> 0]

Init ==
    /\ map = <<>>
    /\ seq = 0
    /\ writer = NoWriter
    /\ query = [t \in Threads |-> NoQuery]
    /\ cache = [t \in Threads |-> [page |-> 0, seq |-> 0, result |-> FALSE]]
    /\ verdict = [t \in Threads |-> None]
    /\ seen = [t \in Threads |-> {}]

Covers(r, p) == r.start <= p /\ p < r.end
OwnsIn(m, p) == \E i \in DOMAIN m : Covers(m[i], p)
Owns(p) == OwnsIn(map, p)

-----------------------------------------------------------------------------
\* Writers.

\* region_lower_bound, counted from 1: the first region that starts at or
\* after the given address.
LowerBound(start, i) ==
    /\ \A j \in 1 .. i - 1 : map[j].start < start
    /\ i <= Len(map) => map[i].start >= start

\* region_register_with_flags, for a range that was just mapped; -1 when the
\* map is full changes nothing.
Register(r) ==
    /\ writer = NoWriter
    /\ seq + 2 <= MaxSeq
    /\ \A i \in DOMAIN map : map[i].end <= r.start \/ r.end <= map[i].start
    /\ Len(map) < Capacity
    /\ \E i \in 1 .. Len(map) + 1 :
          /\ LowerBound(r.start, i)
          /\ writer' = [phase |-> "locked", map |-> Insert(map, i, r)]
    /\ UNCHANGED <<map, seq, rvars, seen>>

\* region_unregister_with_flags of a registered range; any other start
\* changes nothing.
Unregister(r) ==
    /\ writer = NoWriter
    /\ seq + 2 <= MaxSeq
    /\ \E i \in 1 .. Len(map) :
          /\ LowerBound(r.start, i)
          /\ map[i].start = r.start
          /\ writer' = [phase |-> "locked", map |-> Cut(map, i)]
    /\ UNCHANGED <<map, seq, rvars, seen>>

BeginWrite ==
    /\ writer.phase = "locked"
    /\ seq' = seq + 1
    /\ writer' = [writer EXCEPT !.phase = "storing"]
    /\ UNCHANGED <<map, rvars, seen>>

\* The change is complete and the counter even again.
EndWrite ==
    /\ writer.phase = "storing"
    /\ map' = writer.map
    /\ seq' = seq + 1
    /\ writer' = NoWriter
    /\ seen' = [t \in Threads |->
                   IF query[t].pc = "idle" THEN seen[t]
                   ELSE seen[t] \cup {OwnsIn(writer.map, query[t].page)}]
    /\ UNCHANGED rvars

-----------------------------------------------------------------------------
\* Readers: v8m_page_heap_owns_fast, then v8m_page_heap_owns if it gives up.

InFlux == writer.phase = "storing" \/ (EarlyStores /\ writer.phase = "locked")

\* What the array may look like to a reader: each slot as it was or as it
\* will be, while a writer is storing.
Images == IF InFlux THEN {map, writer.map} ELSE {map}

\* What a load of slot i (from 0) may return; the slots past the end hold
\* leftovers of earlier regions.
Loads(i) == UNION {IF i < Len(m) THEN {m[i + 1]} ELSE Regions : m \in Images}

Return(t, answer) ==
    /\ verdict' = [verdict EXCEPT ![t] = answer]
    /\ query' = [query EXCEPT ![t] = NoQuery]

OwnsFast(t, p) ==
    /\ query[t].pc = "idle"
    /\ query' = [query EXCEPT ![t].page = p,
                              ![t].pc = IF cache[t].page = p THEN "cached" ELSE "seq1"]
    /\ verdict' = [verdict EXCEPT ![t] = None]
    /\ seen' = [seen EXCEPT ![t] = {Owns(p)}]
    /\ UNCHANGED <<map, seq, writer, cache>>

\* Same page as the last query and no writer since.
TryCache(t) ==
    /\ query[t].pc = "cached"
    /\ IF seq = cache[t].seq /\ seq % 2 = 0
         THEN Return(t, cache[t].result)
         ELSE /\ query' = [query EXCEPT ![t].pc = "seq1"]
              /\ UNCHANGED verdict
    /\ UNCHANGED <<map, seq, writer, cache, seen>>

LoadSeq(t) ==
    /\ query[t].pc = "seq1"
    /\ \/ /\ query[t].retry = Retries
          /\ query' = [query EXCEPT ![t].pc = "slow"]
       \/ /\ query[t].retry < Retries /\ seq % 2 = 1
          /\ query' = [query EXCEPT ![t].retry = @ + 1]
       \/ /\ query[t].retry < Retries /\ seq % 2 = 0
          /\ query' = [query EXCEPT ![t].seq1 = seq, ![t].pc = "count"]
    /\ UNCHANGED <<map, seq, writer, cache, verdict, seen>>

LoadCount(t) ==
    /\ query[t].pc = "count"
    /\ \E m \in Images :
          query' = [query EXCEPT ![t].count = Len(m), ![t].low = 0, ![t].high = Len(m),
                                 ![t].pc = "search"]
    /\ UNCHANGED <<map, seq, writer, cache, verdict, seen>>

Mid(t) == query[t].low + (query[t].high - query[t].low) \div 2

\* One step of the binary search for the last region that starts at or
\* before the page.
SearchStep(t) ==
    /\ query[t].pc = "search"
    /\ query[t].low < query[t].high
    /\ \E r \in Loads(Mid(t)) :
          query' = IF r.start <= query[t].page THEN [query EXCEPT ![t].low = Mid(t) + 1]
                                              ELSE [query EXCEPT ![t].high = Mid(t)]
    /\ UNCHANGED <<map, seq, writer, cache, verdict, seen>>

SearchEnd(t) ==
    /\ query[t].pc = "search"
    /\ query[t].low >= query[t].high
    /\ \/ /\ query[t].low = 0
          /\ query' = [query EXCEPT ![t].owned = FALSE, ![t].pc = "seq2"]
       \/ /\ query[t].low > 0
          /\ \E r, s \in Loads(query[t].low - 1) :  \* start and end are two loads
                query' = [query EXCEPT
                             ![t].owned = r.start <= query[t].page /\ query[t].page < s.end,
                             ![t].pc = "seq2"]
    /\ UNCHANGED <<map, seq, writer, cache, verdict, seen>>

\* The verdict stands and is cached for the next query of the same page.
Accept(t) ==
    /\ cache' = [cache EXCEPT ![t] =
                    [page |-> query[t].page, seq |-> seq, result |-> query[t].owned]]
    /\ Return(t, query[t].owned)

\* Mutant: the counter is not read a second time.
ValidateNever(t) ==
    /\ query[t].pc = "seq2"
    /\ Accept(t)
    /\ UNCHANGED <<map, seq, writer, seen>>

Validate(t) ==
    /\ query[t].pc = "seq2"
    /\ IF seq = query[t].seq1
         THEN Accept(t)
         ELSE /\ query' = [query EXCEPT ![t].retry = @ + 1, ![t].pc = "seq1"]
              /\ UNCHANGED <<cache, verdict>>
    /\ UNCHANGED <<map, seq, writer, seen>>

\* v8m_page_heap_owns, under the lock.
SlowOwns(t) ==
    /\ query[t].pc = "slow"
    /\ writer = NoWriter
    /\ Return(t, Owns(query[t].page))
    /\ UNCHANGED <<map, seq, writer, cache, seen>>

Read(t) ==
    \/ \E p \in Pages : OwnsFast(t, p)
    \/ TryCache(t)
    \/ LoadSeq(t)
    \/ LoadCount(t)
    \/ SearchStep(t)
    \/ SearchEnd(t)
    \/ Validate(t)
    \/ SlowOwns(t)

Next ==
    \/ \E r \in Regions : Register(r) \/ Unregister(r)
    \/ BeginWrite
    \/ EndWrite
    \/ \E t \in Threads : Read(t)

Spec == Init /\ [][Next]_vars

-----------------------------------------------------------------------------
\* Properties.

Queries ==
    [pc : {"idle", "cached", "seq1", "count", "search", "seq2", "slow"},
     page : Pages \cup {0}, seq1 : 0 .. MaxSeq, count : 0 .. Capacity,
     low : 0 .. Capacity, high : 0 .. Capacity, owned : BOOLEAN, retry : 0 .. Retries]

\* The types of the variables: the array and the retries keep to their bounds.
TypeOK ==
    /\ map \in Seq(Regions) /\ Len(map) <= Capacity
    /\ seq \in 0 .. MaxSeq
    /\ \/ writer = NoWriter
       \/ /\ writer.phase \in {"locked", "storing"}
          /\ writer.map \in Seq(Regions) /\ Len(writer.map) <= Capacity
    /\ query \in [Threads -> Queries]
    /\ cache \in [Threads -> [page : Pages \cup {0}, seq : 0 .. MaxSeq, result : BOOLEAN]]
    /\ verdict \in [Threads -> BOOLEAN \cup {None}]
    /\ seen \in [Threads -> SUBSET BOOLEAN]

\* Every answer of the ownership check, from the cache, the lock-free search
\* or the locked one, was true at some instant of the call.
OwnsExact ==
    /\ TypeOK
    /\ \A t \in Threads : verdict[t] # None => verdict[t] \in seen[t]
=============================================================================
