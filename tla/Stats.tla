------------------------------- MODULE Stats --------------------------------
(***************************************************************************)
(* What the library counts: the allocation and free counters of            *)
(* src/src/v8m_dispatch.c and the lifetime tracker of                      *)
(* src/src/v8m_thread_cache.c.  A thread counts in its cache, or in the    *)
(* global counters when it has none; the caches are linked in a registry   *)
(* for the readers, and a cache that goes away is unlinked and then folded *)
(* into the globals.                                                       *)
(*                                                                         *)
(* A book holds all of it.  The operators say what a call of one thread    *)
(* does to the book, so that an action of the API can do several of them;  *)
(* "classed" is the sum of the three lifetime classes' counters.           *)
(***************************************************************************)
EXTENDS Integers, FiniteSetsExt

CONSTANTS
    Threads,
    SampleRate,    \* V8M_LIFETIME_SAMPLE_RATE
    RingSize,      \* V8M_LIFETIME_RING_SIZE
    Buckets,       \* V8M_LIFETIME_BUCKETS
    None

Lifetime == {"recorded", "completed", "evicted", "classed"}
Counters == {"alloc", "free"} \cup Lifetime
Zero == [k \in Counters |-> 0]
Plus(f, g) == [k \in Counters |-> f[k] + g[k]]

\* The tracker's part of struct v8m_thread_cache, as get_or_create clears it.
FreshCache ==
    [count |-> Zero, tick |-> 0, pos |-> 0,
     ring |-> [i \in 0 .. RingSize - 1 |-> None],
     site |-> [i \in 0 .. Buckets - 1 |-> 0]]

\* events and dropped are history: what was counted, and the samples that were
\* still open in a cache when it went away.
NewBook ==
    [cache |-> [t \in Threads |-> None], latched |-> {}, registry |-> {},
     global |-> Zero, events |-> Zero, dropped |-> 0, wasReset |-> FALSE]

HasCache(b, t) == b.cache[t] # None
Open(c) == {i \in 0 .. RingSize - 1 : c.ring[i] # None}

-----------------------------------------------------------------------------
\* Counting

\* v8m_dispatch_record_alloc, v8m_dispatch_record_free_cache.
Record(b, t, k) ==
    LET counted == [b EXCEPT !.events[k] = @ + 1]
    IN  IF HasCache(b, t)
            THEN [counted EXCEPT !.cache[t].count[k] = @ + 1]
            ELSE [counted EXCEPT !.global[k] = @ + 1]

\* v8m_thread_cache_get_or_create: the cache's own memory is an allocation of a
\* thread that has no cache yet.
Create(b, t) ==
    IF HasCache(b, t) \/ t \in b.latched
        THEN b
        ELSE [Record(b, t, "alloc") EXCEPT !.cache[t] = FreshCache,
                                          !.registry = @ \cup {t}]

\* registry_unregister_and_fold, the part under the registry's lock.
Unlink(b, t) == [b EXCEPT !.registry = @ \ {t}]

\* Mutant: the fold forgets the free counter.
CarriedAllocsOnly(c) == [c.count EXCEPT !["free"] = 0]

\* What a cache leaves behind.
Carried(c) == c.count

\* registry_unregister_and_fold, the part after the lock is released, and
\* t_cache = NULL after it.
Fold(b, t) ==
    [b EXCEPT !.global = Plus(@, Carried(b.cache[t])),
              !.dropped = @ + Cardinality(Open(b.cache[t])),
              !.cache[t] = None]

-----------------------------------------------------------------------------
\* The lifetime tracker

\* Mutant: an overwritten sample is not counted as evicted.
EvictsNothing(c) == 0

\* The next sample takes the place of an open one.
Evicts(c) == IF c.ring[c.pos] = None THEN 0 ELSE 1

\* v8m_thread_cache_lifetime_record_alloc, of block p allocated at pc.
LifetimeRecordAlloc(b, t, p, pc) ==
    LET c == b.cache[t]
        tick == (c.tick + 1) % SampleRate
        sampled == [c EXCEPT !.tick = tick, !.ring[c.pos] = [p |-> p, pc |-> pc],
                             !.pos = (@ + 1) % RingSize, !.count["recorded"] = @ + 1,
                             !.count["evicted"] = @ + Evicts(c)]
    IN  IF ~ HasCache(b, t) THEN b
        ELSE IF tick # 0 THEN [b EXCEPT !.cache[t].tick = tick]
        ELSE [b EXCEPT !.cache[t] = sampled, !.events["recorded"] = @ + 1,
                       !.events["evicted"] = @ + Evicts(c)]

\* The buckets in the order in which a call site's probe visits them.
Probe(pc, step) == ((pc \div 16) + step) % Buckets
Key(pc) == IF pc = 0 THEN 1 ELSE pc

\* The steps of pc's probe that meet key k.
Meets(site, pc, k) == {s \in 0 .. Buckets - 1 : site[Probe(pc, s)] = k}

\* Mutant: the probe starts at the last bucket.
BucketForLast(site, pc) ==
    LET fit == {i \in 0 .. Buckets - 1 : site[i] \in {0, Key(pc)}}
    IN  IF fit = {} THEN None ELSE Max(fit)

\* lifetime_bucket_for: the call site's bucket, or the empty one it claims.
BucketFor(site, pc) ==
    LET steps == Meets(site, Key(pc), Key(pc)) \cup Meets(site, Key(pc), 0)
    IN  IF steps = {} THEN None ELSE Probe(Key(pc), Min(steps))

\* The lookup of v8m_thread_cache_lifetime_classify, which gives up at the first
\* empty bucket and passes over the buckets of other sites.
Classify(site, pc) ==
    LET own == Meets(site, Key(pc), Key(pc))
        before == {s \in Meets(site, Key(pc), 0) : \A o \in own : s < o}
    IN  IF own = {} \/ before # {} THEN None ELSE Probe(Key(pc), Min(own))

\* v8m_thread_cache_lifetime_record_free, of block p; timed says whether the
\* two readings of the clock can be subtracted.
LifetimeRecordFree(b, t, p, timed) ==
    LET c == b.cache[t]
        hits == {i \in Open(c) : c.ring[i].p = p}
        i == Min(hits)
        pc == c.ring[i].pc
        k == BucketFor(c.site, pc)
        closed == [c EXCEPT !.ring[i] = None, !.count["completed"] = @ + 1]
        classed == [closed EXCEPT !.count["classed"] = @ + 1,
                                  !.site = IF k = None THEN @ ELSE [@ EXCEPT ![k] = Key(pc)]]
    IN  IF ~ HasCache(b, t) THEN b
        ELSE IF hits = {} THEN b
        ELSE IF timed
            THEN [b EXCEPT !.cache[t] = classed, !.events["completed"] = @ + 1,
                           !.events["classed"] = @ + 1]
            ELSE [b EXCEPT !.cache[t] = closed, !.events["completed"] = @ + 1]

-----------------------------------------------------------------------------
\* Reading and resetting

\* The sum over the registry that every reader forms under its lock.
Walk(b) ==
    [k \in Counters |-> MapThenSumSet(LAMBDA t : b.cache[t].count[k], b.registry)]

\* v8m_dispatch_reset_alloc_free_counts, first half.
ResetGlobals(b) ==
    [b EXCEPT !.global["alloc"] = 0, !.global["free"] = 0, !.wasReset = TRUE]

\* v8m_thread_cache_reset_alloc_free_counts.  The owners increment these
\* counters without the lock and without atomics: the caches in kept are those
\* whose owner's store came last.
ResetCaches(b, kept) ==
    [b EXCEPT !.cache = [t \in Threads |->
        IF t \in b.registry \ kept
            THEN [b.cache[t] EXCEPT !.count["alloc"] = 0, !.count["free"] = 0]
            ELSE b.cache[t]]]

-----------------------------------------------------------------------------
VARIABLE book

Owners == {t \in Threads : HasCache(book, t)}
Total(k) == book.global[k] + MapThenSumSet(LAMBDA t : book.cache[t].count[k], Owners)

\* Nothing is counted twice or lost when caches come and go: the globals and
\* the caches together, the unlinked ones that are not folded yet included, add
\* up to what was counted.  Once somebody has reset the counters, allocations
\* and frees are at most that.
CountsConserved ==
    \A k \in Counters :
        IF book.wasReset /\ k \in {"alloc", "free"}
            THEN Total(k) <= book.events[k]
            ELSE Total(k) = book.events[k]

\* Every sample the tracker recorded was completed by its free, overwritten, or
\* is still open, in a cache or in one that went away with it; and the three
\* classes hold no more samples than were completed, as v8malloc.h says of
\* struct v8m_lifetime_stats.
SamplesConserved ==
    /\ Total("recorded") = Total("completed") + Total("evicted") + book.dropped
           + MapThenSumSet(LAMBDA t : Cardinality(Open(book.cache[t])), Owners)
    /\ Total("classed") <= Total("completed")

\* A call site that has a bucket is found by the lookup that classifies it: the
\* probe of v8m_thread_cache_lifetime_classify, which stops at the first empty
\* bucket, ends where lifetime_bucket_for put the site, and no site has two.
CallSitesFound ==
    \A t \in Owners : \A i \in 0 .. Buckets - 1 :
        LET site == book.cache[t].site
        IN  site[i] # 0 => Classify(site, site[i]) = i

=============================================================================
