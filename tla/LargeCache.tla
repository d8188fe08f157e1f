----------------------------- MODULE LargeCache -----------------------------
(***************************************************************************)
(* Large and Huge allocations and their recycle cache                      *)
(* (src/src/v8m_large.c): a freed region stays mapped in a small cache,    *)
(* from where an allocation of the same mmap_size takes it.                *)
(*                                                                         *)
(* Sizes count V8M_PAGE_SIZE units; a size includes the header.  Under     *)
(* DEBUG a region ends in a guard page and bypasses the cache.  The page   *)
(* heap's calls are atomic here: PageHeap and RegionMap model their inside.*)
(* Unmapping a region, by a free, an eviction or a drain, happens outside  *)
(* the cache's lock, one region at a time.                                 *)
(***************************************************************************)
EXTENDS Integers, Lists

CONSTANTS
    Threads,
    Regions,     \* address ranges the page heap may map
    Requests,    \* pairs of a class tag and a size
    Cap          \* V8M_LARGE_CACHE_CAP

Tags == {"large", "huge"}

ASSUME LargeAssumption ==
    /\ Requests \subseteq Tags \X (Nat \ {0})
    /\ Cap \in Nat \ {0}

VARIABLES
    mapped,      \* the page heap: size of each mapped region, and its guard
    meta,        \* the header of each region
    cache,       \* g_large_cache, up to g_large_cache_count
    bytes,       \* v8m_large_bytes_in_use and v8m_huge_bytes_in_use
    debug,       \* V8M_OPT_DEBUG
    job,         \* the call each thread is in
    held         \* history: the regions in the callers' hands

vars == <<mapped, meta, cache, bytes, debug, job, held>>

Unmapped == [size |-> 0, guard |-> 0]
NoMeta == [magic |-> FALSE, tag |-> "large", size |-> 0, guard |-> 0]
NoJob == [pc |-> "idle"]

Entry(r, size) == [r |-> r, size |-> size]

Init ==
    /\ mapped = [r \in Regions |-> Unmapped]
    /\ meta = [r \in Regions |-> NoMeta]
    /\ cache = <<>>
    /\ bytes = [tag \in Tags |-> 0]
    /\ debug = FALSE
    /\ job = [t \in Threads |-> NoJob]
    /\ held = {}

\* v8m_set_option(V8M_OPT_DEBUG, ...), at any time.
SetDebug ==
    /\ debug' = ~ debug
    /\ UNCHANGED <<mapped, meta, cache, bytes, job, held>>

-----------------------------------------------------------------------------
\* large_cache_take, large_cache_put and the page heap

Goto(t, j) == job' = [job EXCEPT ![t] = j]

\* The entry leaves slot i, the last entry moves into it.
WithoutSlot(s, i) ==
    [j \in 1 .. Len(s) - 1 |-> IF j = i THEN s[Len(s)] ELSE s[j]]

\* The first slot that holds an entry of the size.
Match(size, i) ==
    /\ cache[i].size = size
    /\ \A j \in 1 .. i - 1 : cache[j].size # size

\* v8m_page_heap_free
HeapFree(r) == mapped' = [mapped EXCEPT ![r] = Unmapped]

-----------------------------------------------------------------------------
\* large_alloc_with_offset

\* The option is read, and without DEBUG the cache is tried.
AllocBegin(t, tag, size) ==
    /\ job[t] = NoJob
    /\ LET guard == IF debug THEN 1 ELSE 0
       IN  IF ~ debug /\ \E i \in DOMAIN cache : cache[i].size = size
             THEN \E i \in DOMAIN cache :
                     /\ Match(size, i)
                     /\ Goto(t, [pc |-> "stamp", tag |-> tag, size |-> size, guard |-> guard,
                                 r |-> cache[i].r])
                     /\ cache' = WithoutSlot(cache, i)
             ELSE /\ Goto(t, [pc |-> "map", tag |-> tag, size |-> size + guard, guard |-> guard])
                  /\ UNCHANGED cache
    /\ UNCHANGED <<mapped, meta, bytes, debug, held>>

\* v8m_page_heap_alloc and the guard page; either may fail.
AllocMap(t) ==
    /\ job[t].pc = "map"
    /\ \/ /\ Goto(t, NoJob)
          /\ UNCHANGED mapped
       \/ \E r \in Regions :
             /\ mapped[r] = Unmapped
             /\ mapped' = [mapped EXCEPT ![r] = [size |-> job[t].size, guard |-> job[t].guard]]
             /\ Goto(t, [pc |-> "stamp", tag |-> job[t].tag, size |-> job[t].size,
                         guard |-> job[t].guard, r |-> r])
    /\ UNCHANGED <<meta, cache, bytes, debug, held>>

\* Mutant: the header of a recycled region keeps its old class.
AllocStampKeepsTag(t) ==
    /\ job[t].pc = "stamp"
    /\ LET j == job[t]
       IN  /\ meta' = [meta EXCEPT ![j.r] = [magic |-> TRUE, tag |-> meta[j.r].tag,
                                             size |-> j.size, guard |-> j.guard]]
           /\ bytes' = [bytes EXCEPT ![j.tag] = @ + j.size]
           /\ held' = held \cup {j.r}
    /\ Goto(t, NoJob)
    /\ UNCHANGED <<mapped, cache, debug>>

AllocStamp(t) ==
    /\ job[t].pc = "stamp"
    /\ LET j == job[t]
       IN  /\ meta' = [meta EXCEPT ![j.r] = [magic |-> TRUE, tag |-> j.tag, size |-> j.size,
                                             guard |-> j.guard]]
           /\ bytes' = [bytes EXCEPT ![j.tag] = @ + j.size]
           /\ held' = held \cup {j.r}
    /\ Goto(t, NoJob)
    /\ UNCHANGED <<mapped, cache, debug>>

-----------------------------------------------------------------------------
\* v8m_large_free

\* Mutant: the option of the moment decides, not the region's own guard.
FreeBeginByOption(t, r) ==
    /\ job[t] = NoJob
    /\ r \in held
    /\ held' = held \ {r}
    /\ meta' = [meta EXCEPT ![r].magic = FALSE]
    /\ bytes' = [bytes EXCEPT ![meta[r].tag] = @ - meta[r].size]
    /\ Goto(t, [pc |-> IF debug THEN "unmap" ELSE "put",
                todo |-> <<Entry(r, meta[r].size)>>])
    /\ UNCHANGED <<mapped, cache, debug>>

FreeBegin(t, r) ==
    /\ job[t] = NoJob
    /\ r \in held
    /\ held' = held \ {r}
    /\ meta' = [meta EXCEPT ![r].magic = FALSE]
    /\ bytes' = [bytes EXCEPT ![meta[r].tag] = @ - meta[r].size]
    /\ Goto(t, [pc |-> IF meta[r].guard = 0 THEN "put" ELSE "unmap",
                todo |-> <<Entry(r, meta[r].size)>>])
    /\ UNCHANGED <<mapped, cache, debug>>

\* A full cache evicts slot 0, which the caller unmaps.
FreePut(t) ==
    /\ job[t].pc = "put"
    /\ LET full == Len(cache) = Cap
           kept == IF full THEN Tail(cache) ELSE cache
           e == job[t].todo[1]
       IN  /\ cache' = Append(kept, e)
           /\ Goto(t, IF full THEN [pc |-> "unmap", todo |-> <<cache[1]>>] ELSE NoJob)
    /\ UNCHANGED <<mapped, meta, bytes, debug, held>>

\* Mutant: the count is not reset.
DrainKeepsCount(t) ==
    /\ job[t] = NoJob
    /\ cache # <<>>
    /\ Goto(t, [pc |-> "unmap", todo |-> cache])
    /\ UNCHANGED <<mapped, meta, cache, bytes, debug, held>>

\* v8m_large_cache_drain takes a snapshot of the entries.
Drain(t) ==
    /\ job[t] = NoJob
    /\ cache # <<>>
    /\ Goto(t, [pc |-> "unmap", todo |-> cache])
    /\ cache' = <<>>
    /\ UNCHANGED <<mapped, meta, bytes, debug, held>>

\* v8m_page_heap_free of a guarded region, an evicted one, or a drained one.
Unmap(t) ==
    /\ job[t].pc = "unmap"
    /\ HeapFree(job[t].todo[1].r)
    /\ Goto(t, IF Len(job[t].todo) = 1 THEN NoJob ELSE [job[t] EXCEPT !.todo = Tail(@)])
    /\ UNCHANGED <<meta, cache, bytes, debug, held>>

Next ==
    \/ SetDebug
    \/ \E t \in Threads :
          \/ \E req \in Requests : AllocBegin(t, req[1], req[2])
          \/ AllocMap(t)
          \/ AllocStamp(t)
          \/ \E r \in Regions : FreeBegin(t, r)
          \/ FreePut(t)
          \/ Drain(t)
          \/ Unmap(t)

Spec == Init /\ [][Next]_vars

-----------------------------------------------------------------------------
\* Properties.

\* The regions a thread is at work on.
InHand(t) ==
    IF job[t].pc \in {"idle", "map"} THEN <<>>
    ELSE IF job[t].pc = "stamp" THEN <<Entry(job[t].r, job[t].size)>>
    ELSE job[t].todo

Sizes == Nat \ {0}
Entries == [r : Regions, size : Sizes]
Jobs ==
    {NoJob} \cup [pc : {"map"}, tag : Tags, size : Sizes, guard : {0, 1}]
            \cup [pc : {"stamp"}, tag : Tags, size : Sizes, guard : {0, 1}, r : Regions]
            \cup [pc : {"put", "unmap"}, todo : Seq(Entries) \ {<<>>}]

\* The types of the variables; the cache never outgrows its array.
TypeOK ==
    /\ mapped \in [Regions -> [size : Nat, guard : {0, 1}]]
    /\ meta \in [Regions -> [magic : BOOLEAN, tag : Tags, size : Nat, guard : {0, 1}]]
    /\ cache \in Seq(Entries) /\ Len(cache) <= Cap
    /\ bytes \in [Tags -> Nat]
    /\ debug \in BOOLEAN
    /\ job \in [Threads -> Jobs]
    /\ held \in SUBSET Regions

RegionsOf(s) == {s[i].r : i \in DOMAIN s}
Distinct(s) == \A i, j \in DOMAIN s : s[i].r = s[j].r => i = j

\* Every mapped region is in exactly one place: in its caller's hands, in one
\* slot of the cache, or with one thread that is taking it, putting it or
\* unmapping it.  Nothing is handed out twice and nothing is lost, whatever
\* allocations, frees, evictions and drains overlap.
RegionsPartitioned ==
    /\ TypeOK
    /\ \A r \in Regions : mapped[r] # Unmapped <=>
          r \in held \cup RegionsOf(cache) \/ \E t \in Threads : r \in RegionsOf(InHand(t))
    /\ Distinct(cache) /\ held \cap RegionsOf(cache) = {}
    /\ \A t \in Threads :
          /\ Distinct(InHand(t))
          /\ RegionsOf(InHand(t)) \cap (held \cup RegionsOf(cache)) = {}
          /\ \A u \in Threads \ {t} : RegionsOf(InHand(t)) \cap RegionsOf(InHand(u)) = {}

\* The size that goes with a region, in its header, in a slot or in a free
\* under way, is the size it was mapped with, and a region in the cache has no
\* guard page: what an allocation takes from the cache is as large as it needs
\* and accessible to the end, although DEBUG may be switched at any time.
SizesAgree ==
    /\ \A e \in Range(cache) : mapped[e.r] = [size |-> e.size, guard |-> 0]
    /\ \A r \in held : mapped[r] = [size |-> meta[r].size, guard |-> meta[r].guard]
    /\ \A t \in Threads : \A e \in Range(InHand(t)) : mapped[e.r].size = e.size
    /\ \A t \in Threads : job[t].pc = "stamp" => mapped[job[t].r].guard = job[t].guard

\* The bytes in use are those of the regions in the callers' hands, by the
\* class each was allocated under, even when a region is recycled from one
\* class to the other.
BytesInUseExact ==
    \A tag \in Tags :
        bytes[tag] = SumFunctionOnSet([r \in Regions |-> meta[r].size],
                                      {r \in held : meta[r].tag = tag})
=============================================================================
