# A TLA+ model of v8malloc

v8malloc is a general-purpose `malloc` in C. This directory models the parts of
it that change state under concurrency or through long sequences of calls,
checks them with TLC on small instances, and proves with TLAPS, for every size, what
matters most about the lock-free L2 cache, the slab pool, the cache of large regions, the
region map and the page heap. Paths like `v8m_large.c` are relative to
`src/src/`.

`PROJECT.json` lists the components, the runs, the source lines behind every
definition (`map`), a mutant for every checked property, the findings, the
hazards, and the theorems.

    tlc -config MCSlabPool.cfg MCSlabPool      # one run
    tlapm CoreCacheProofs.tla                  # the proofs of one module

## The system

An object goes through several tiers. The first one that can serve a request
does.

    Tiny, Small     bins of the thread's cache (L1)
                    -> lock-free stacks of the CPU (L2), own, then stolen
                    -> slab pool (a lock; pages by size class)
                    -> NUMA pool (huge pages cut into pages of V8M_PAGE_SIZE)
                    -> page heap
    Medium          medium bins of the thread's cache
                    -> buddy pool (a lock; arenas of power-of-two blocks)
                    -> page heap
    Large, Huge     recycle cache (a lock) -> page heap

Objects of the lifetime arenas (ephemeral, short, long; chosen by call site)
use slab pools of their own and bypass L1 and L2.

### Inventory

| part | state | operations | what makes it hard |
| --- | --- | --- | --- |
| thread cache, `v8m_thread_cache.c` | a structure per thread in TLS and under a pthread key; bins with capacities; medium bins; a registry list; the latch `t_in_destructor` | create, hit, refill, overflow, GC tick, drain, release, destroy at exit | the structure is a block of the pool it caches; exit order; capacities shrink under a bin |
| dispatcher, `v8m_dispatch.c` | the pools, the L2 array | route alloc and free, refill from L2, steal, drain L2, background tick, fork hooks | several tiers touched in steps, other threads in between |
| L2 cache, `v8m_core_cache.c` | per CPU and class a head word: pointer and 16-bit tag | push, push_batch, pop, pop_batch, steal_batch | ABA; links in user memory; compare-and-swap failures |
| slab pool, `v8m_slab_pool.c` | per class `current` and `partials`; `drained` array with ages | alloc, alloc_batch, free, sweep_idle, purge | pages on no list, on two lists, released under a live slot |
| slab pages, `v8m_slab_tiny.c`, `v8m_slab_small.c` | bitmap and hint, or a list through the free slots; `used_count` | init, alloc, free | header, list and bitmap are updated separately |
| NUMA pool, `v8m_numa_pool.c` | per node partial and full huge pages, bitmaps, a counter | acquire and release a page | the huge page goes with its last page |
| buddy arena and pool, `v8m_buddy.c`, `v8m_buddy_pool.c` | per level free lists in the blocks, split and alloc bitmaps; per arena in_use, drained, idle ticks | alloc, free, deferred coalescing, `MADV_DONTNEED`, sweep_idle | bookkeeping lives in memory that is given back |
| large objects, `v8m_large.c` | header of a region; recycle cache; bytes in use by class | alloc, free, drain | DEBUG changes the layout at run time; two classes share one cache |
| page heap, `v8m_page_heap.c` | region map; per-node bytes; suppressed flags; anchor | alloc, free, advise, migrate, rebalance, age sweep, owns | seqlock readers; the map and the kernel change in separate steps |
| background thread, `v8m_bg_purge.c` | running and stop flags, a condition variable, hook | start, loop, stop, fork handlers | lost wake-ups, join |
| public API, `v8m_api.c` | init state, soft limit, DEBUG ring | malloc family, purge, thread calls, constructor, destructor, fork handlers | fork with every lock, re-entrance |
| refill controller, lifetime tracker, predictor | moving averages and rings per cache | called on the slow paths | heuristics: they choose among legal moves |
| bump, bootstrap, signal-safe allocators | an offset into a static buffer | allocate by fetch-and-add | offset moves past the end |
| size classes | tables | lookup, replacement by an option | a table replaced at run time |
| statistics, diagnostics, pprof, config, poison, libc hooks, arch | counters, options, reports | read-only or independent atomics | sums of counters that move |

### What correct means

1. An object is in one place: with the user, in one bin, one stack, one page, one
   hand. Nothing is lost and nothing is handed out twice.
2. Memory is given back to the kernel only when no live object lies in it.
3. Two live objects do not overlap.
4. The lock-free readers (ownership test, L2) answer as if they were atomic.
5. Caches and bins stay within their bounds.
6. Counters that decide something (bytes of a node, bytes in use) are exact.
7. A child of a fork can allocate; locks are not waited for in a circle; the
   destructor returns; idle memory goes back.

## The modules

| module | source | state | one action per |
| --- | --- | --- | --- |
| `CoreCache` | `v8m_core_cache.c` | heads, links, locals of every thread; history `stk`, `age` | load, link access, compare-and-swap |
| `NodeStacks` | what the header promises | stacks as sequences, nodes owned | atomic push of a chain, atomic pop |
| `Lists` | shifts within an array, unlinking | none: cutting and inserting, as operators | |
| `SeqLemmas`, `SetLemmas` | | | lemmas about sequences, finite sets and sums |
| `CoreCacheProofs`, `SlabPoolProofs`, `LargeCacheProofs`, `RegionMapProofs`, `PageHeapProofs` | | | proofs about the module of that name |
| `SlabPool` | `v8m_slab_pool.c` | page lists, drained array, used slots | operation; loops by iteration |
| `SlabPages` | `v8m_slab_tiny.c`, `v8m_slab_small.c`, `v8m_numa_pool.c` | bitmaps, hints, links, huge-page lists | operation |
| `Buddy`, `BuddyPool` | `v8m_buddy.c`, `v8m_buddy_pool.c` | an arena is a record (operators in `Buddy`); the array of arenas | operation; coalescing by merge |
| `LargeCache` | `v8m_large.c` | mapped regions, headers, cache, bytes | section between two locks |
| `RegionMap` | `v8m_page_heap.c` (map) | array, sequence counter, locals and cache of each reader | load of a reader, increment of a writer |
| `PageHeap` | `v8m_page_heap.c` (rest) | address space, stamps, per-node bytes | section under the region lock, system call |
| `Tiers` | `v8m_dispatch.c`, `v8m_thread_cache.c`, `v8m_api.c` | caches, L2 stacks, pools, calls under way | step of a call between two shared accesses |
| `SizeClass` | `v8m_size_class.c`, `v8m_size_class.h` | none: the table and the lookup are operators | |
| `Bump` | `v8m_bump.c`, `v8m_bootstrap.c`, `v8m_signal_safe.c` | none: the fetch-and-add on an offset of bounded width, as operators | |
| `Stats` | counters, lifetime ring and call-site table of `v8m_thread_cache.c` | none: what a record of counters becomes, as operators | |
| `Api` | `v8m_api.c`, `v8m_config.c`, with the routing of `v8m_dispatch.c` | init state, options, static arenas, live blocks and contents, DEBUG rings, counters of each cache and the globals | public call; cache exit and snapshot by step |
| `Process` | `v8m_api.c`, `v8m_bg_purge.c`, locking of all modules | who holds which mutex, the flags of the purge thread | lock, unlock, wait, fork |

How they fit together. `Tiers` composes L1, L2, slab pool and buddy pool and treats
each call into a lower part as atomic. That is what the parts' own modules are
about: the slab and buddy pools work under one lock, and `CoreCache` is shown to
implement atomic stacks. `SlabPool` leaves open which slot of a page is handed
out and takes pages from an abstract source; `SlabPages` decides the slot and is the
source. `LargeCache` takes mapping as atomic; `PageHeap` splits it, and takes an
update of the map as atomic, which `RegionMap` splits. `Process` takes from every
module only the order of its locks. `Api` stands above `Tiers`: it takes what the
dispatcher hands out as fresh blocks of the size and alignment that the routing
gives, and is about what happens around them: which allocator serves a call
in each init state and in a signal handler, what a pointer is taken for when it
comes back, what is copied, what is counted.

Conventions. A variable carries the name of the field or global it models. A call that
spans several steps has a program counter in a record (`job`, `op`, `query`). `\E` over
a small set stands for inputs and for decisions of heuristics. The type invariant of a
module is the first conjunct of one of its invariants. Definitions introduced
by a `Mutant` comment are faulty variants used only to show that a property can fail.

## The runs

| run | shows | bounds |
| --- | --- | --- |
| `core_cache` | no stale link is installed, no node is lost or popped twice, and the stack implements `NodeStacks` | 2 threads, 1 CPU, 3 nodes, 4 tags, chains of 2 |
| `slab_pool` | pages partitioned, lists sound, no page with free slots stranded, every parked page leaves | 2 classes (2 and 3 slots), 3 pages, cache of 2, age 2 of at most 3, scan budget 2 |
| `slab_pages` | bitmaps, free lists and counts exact, slots placed apart, huge pages released exactly when empty | 2 nodes, 2 huge pages of 2, 1 single page |
| `buddy_pool` | live blocks disjoint, bookkeeping intact, one pass merges all, the use-after-free detector raises no false alarm | 2 arenas of 4 units, 3 levels, both options free |
| `large_cache` | regions partitioned, sizes agree, bytes exact | 2 threads, 3 regions, cache of 2, DEBUG switched at any time |
| `region_map` | every lock-free answer was true during the call | 1 reader, ranges of 1 and 2 pages among 4, 8 increments, 2 retries |
| `page_heap` | map and address space agree, each node's bytes exact up to migrations | 2 threads, 3 ranges (1 in the anchor), map of 1, 2 nodes, counters mod 8 |
| `tiers` | every object in one place, arenas apart, bins bounded, no cache after exit | 2 threads, 2 CPUs, 2 slots, 1 lifetime slot, 3 blocks |
| `tiers_release_key` | *violated*: the pthread key names a freed structure | the same |
| `api` | memory handed out once and fit for the request, least size class, contents kept by realloc, no false double-free alarm, counters and samples conserved, call sites found, snapshots never too high | 2 threads and a signal handler, `size_t` of 2^24, 4 calls (3 of them other than allocation and free), rings of 2, 2 buckets, sample rate 1 |
| `aligned_request` | *violated*: a block of `posix_memalign` is not aligned as asked | 2 calls, one request |
| `process` | child sound, mutual exclusion, fork releases, shutdown completes, calls return | 1 worker, 1 forker, purge thread, destructor |

Why the bounds are enough for the cases that matter:

- *L2*: ABA needs a thread that sleeps between load and compare-and-swap while
  another one pops, pops again and pushes the first node back. Three nodes and
  two threads do that. Four tags leave room for the three operations of the
  scenario before the wrap. The proof removes the bound.
- *Slab pool*: three pages and two classes give a full `current`, a partial and a
  parked page at once, pages that change class, a full drained cache, and a
  choice for the max-pick within the scan budget. A sweep of two parked pages of different
  age releases one and moves the other down; ages stop at 3 as the code's stop
  at `UINT32_MAX`.
- *Slab pages*: two words of two bits make the hint move back and forth; two huge
  pages on two nodes give full, partial and released ones, and one single page
  the fallback to the page heap.
- *Buddy*: three levels are the least with a split in the middle and a merge that
  goes up two levels; two arenas let one drain while the other serves.
- *Region map*: four pages give maps of up to three regions, so the binary search
  takes several loads and the shift of a writer moves entries under it. Eight
  increments are four changes during a search of two attempts.
- *Page heap*: a map of one entry makes registration fail with the range mapped, to be
  unmapped in a step of its own;
  counters modulo 8 make a subtraction below zero visible.
- *Large*: requests of two classes with one size share an entry; three regions
  overfill the cache of two.
- *Tiers*: bins of capacity 1 and 2 overflow, batches of 1 and 2 are cut short, a
  cache structure takes one of three blocks so that the medium bin (capacity 1)
  fills and overflows while a structure lives.
- *Api*: the sizes and alignments are those of the program, so that the routing meets
  its real boundaries; 24 bits of `size_t` are the least that hold the largest class
  and still let `calloc(4096, 4096)` overflow. The requests reach a slab class, an
  aligned block, a large region and a refusal. Three calls beside the
  allocations and frees let a cache exit during a snapshot, DEBUG be switched
  between a free and the next allocation, and a signal handler ask for 40000 bytes of the 65536
  of its arena three times: the second request moves the offset past the end, and the third
  finds it there. Rings of 2 are overrun by 3 frees.
- *Process*: one worker meets the forker, the purge thread and the destructor in every
  order. Two workers are beyond the run as far as liveness goes: TLC did not finish
  in 25 minutes. The invariants alone, with `Workers = {w1, w2}` and `Spec`, hold in
  2,929,372 states. That two workers do not wait for each other in a circle rests
  on the operations as they are modelled: each nests a pool's lock, then a node's, then
  one lock of the page heap at a time, so no two nest in opposite orders.

Symmetry (threads, nodes, regions, huge pages) is used in runs with invariants
and in `core_cache`, whose refinement has no fairness. No run with a liveness property
uses it. Deadlock is checked everywhere except in `process`, where the process
ends after the destructor, and in `api`, where it ends or aborts and the number of
calls is bounded.

### Fairness

- `slab_pool`: weak fairness on the steps of an operation that holds the lock,
  since a thread in a critical section of this pool waits for nothing. Strong
  fairness on the idle sweep: the background thread ticks for ever and gets the
  lock although others take it in between. `ParkedPageLeaves` needs no more.
- `process`: strong fairness on each thread's steps, that is, a thread that can go
  on does, and one that waits for a mutex that is free again and again gets it.
  A pthread mutex does not promise more than progress of some waiter; starvation
  by barging is excluded by this assumption. Calls, forks and the destructor
  itself are not fair: nobody has to make them. The timed wait may end at any
  time, as in `pthread_cond_timedwait`.
- No liveness is claimed for `Tiers`. `drain_local_l2` loops until the stack is
  empty, which the code does not bound when other threads keep pushing. None is claimed
  for `Api`: its calls are single steps, and the one loop, the walk over the caches,
  holds the registry lock.

## Findings

Two runs show a disagreement between the code and what its documentation says.

- `tiers_release_key`: `v8m_thread_cache_release_local` does not clear the pthread key.
  When the free of the structure does not create a new cache, the key names freed
  memory at thread exit. The exit of a thread in `Tiers` is guarded by the key naming
  the cache, so the other properties are about executions in which this does not
  happen.
- `aligned_request`: a request for an alignment of at most 16 goes to the slab classes as it
  is, and the classes of 8, 24, 40 and 56 bytes place their slots without
  padding. `posix_memalign(&p, 16, 24)` returns a multiple of 8 that is not one of 16
  half of the time. `BlocksServe`, in `api`, states the alignment above 16.

Other behaviour met while modelling:

- *Buddy*: with deferred coalescing an arena can drain while split. `MADV_DONTNEED`
  then zeroes the links of its free lists, and coalescing finds only the
  first block of each. The arena no longer serves its largest block until
  the idle sweep releases it. `BuddyPool` records such arenas in `torn`;
  `BookkeepingIntact` and `OnePassMergesAll` are about the others,
  `LiveBlocksDisjoint` about all.
- *Use-after-free detector*: it is latched when first used, since it cannot follow
  V8M_OPT_DEBUG at run time (`v8m_debug.c`). The pool however asks the option itself
  whether to keep the frames of a drained arena. A program that starts with DEBUG and switches
  it off loses the poison of the next arena that drains, and the next allocation from it
  aborts. `zeroed` records such arenas and `NoFalseUseAfterFree` excepts them.
- *L2*: `v8m_core_cache_pop` reads the link before the compare-and-swap claims the
  node, although the comment in `pop_batch` says it is claimed first. The value
  is discarded when the head has moved, so the stack is correct; the read itself
  touches memory that may have another owner.
- *Page heap*: `migrate_one_region` restamps a region and leaves the per-node bytes. A
  node's counter is then off by what was migrated to or from it, for good, and may wrap.
  The history variable `moved` adds that up, and `NodeBytesExact` says that nothing else
  makes a counter drift.
- *realloc*: of a signal-safe pointer, and of any pointer after the destructor, it believes
  the old block to have 0 bytes and copies nothing. `ContentsKept` is about the others.
- *DEBUG switched at run time*: what was freed while the ring was off is not in it, and what was
  allocated while it was off is not taken out of it, so that a later free of such an
  address is reported as a double free. The flag that the fast path tests is stored after the option;
  an allocation in between has the same effect. Two calls of `v8m_config_set` at once can leave
  the flag stale for good. `NoFalseAlarm` is stated for programs that do not switch DEBUG.
- *Counters*: a cache that exits is unlinked first and added to the globals later. The lifetime
  snapshot reads the globals first and may miss it; the allocation totals walk the
  caches first and may count it twice. A reset races with the owners' plain increments. Hits of the inline
  path of malloc are not counted while the frees are.
- *Lifetime ring*: a block freed by another thread leaves its sample open until it is overwritten.
- *Errors*: beyond the alignment limits the calls set ENOMEM where the header says EINVAL.
- *release_thread*: the free of the cache structure, the last step, may create a new cache.
- *Region map*: a writer announces itself with a release increment, which orders
  what precedes it, not the stores that follow. With `EarlyStores = TRUE`, the
  order of a weakly ordered machine, TLC finds `OwnsExact` violated. The run has
  `EarlyStores = FALSE`: on x86_64 the increment is a full barrier.
- *Fork*: the handlers read the init state and the anchor's flag anew each time.
  If the anchor is created between prepare and parent, the parent unlocks a mutex
  it has not locked, so `Exclusive` leaves the anchor's out. If the
  destructor runs in between, the pools' locks stay held for good; `ForkReleases` says that
  nothing else has that effect, and that the ring's lock is never among them. All calls are
  then served by the bootstrap allocator, which takes no lock.
- *Shutdown*: `v8m_thread_cache_module_shutdown` clears the thread's cache and then frees the
  structure, through the library's own `free`, while the state is still READY. That free may make
  a new cache and register it; the destructor leaves it behind.
- *Overflow of a bin*: it drains the refill batch, not half of the bin. `BinBounded`
  states the bound that results.

## The proofs

All theorems hold for every value of the constants that the `ASSUME`s of a module admit.
Each follows from an inductive invariant, `IInv`, with a lemma for every action; the
operators have lemmas of their own. `SeqLemmas` is about sequences as arrays and lists (cutting,
inserting, reversing, absence of repetitions), `SetLemmas` about sums over finite sets. The whole takes
about 20 minutes.

| theorem | states | of the code |
| --- | --- | --- |
| `CoreCacheCorrect`, `CoreCacheImplementsNodeStacks` | invariants and refinement | push, pop, steal of the L2 stacks |
| `PagesArePartitioned`, `ListsAreSound`, `NoPageIsStranded` | the invariants of `slab_pool` | page lists and parked pages |
| `RegionsArePartitioned`, `RecycledSizesAgree`, `BytesAreExact` | the invariants of `large_cache` | recycling of large regions |
| `OwnershipIsExact` | the invariant of `region_map`, when `~ EarlyStores` | the lock-free ownership test |
| `MapMatchesAddressSpace`, `NodeBytesAreExact` | the invariants of `page_heap` | the region map against the kernel, bytes per node |

### The L2 cache

`CoreCacheProofs` is about `CoreCache` with any sets of threads, CPUs and nodes, any
batch length and any number of tags.

- `CoreCacheCorrect`: `Spec => [](TypeOK /\ StacksLinked /\ ObservationsFresh /\ NodesPartitioned)`.
- `CoreCacheImplementsNodeStacks`: `Spec => ImplementsNodeStacks`, with the history variable `stk`
  for the abstract stacks and `Held` for the nodes a thread owns.

Assumptions on constants: there are at least two tags, a batch has at least one
node, and `Null` and `Payload` are different and not nodes.

One assumption is part of the specification. A compare-and-swap happens only if no
other thread would then have slept through `TagMod` successful operations on its stack
(`NoTagWrap`, a conjunct of `SwapHead`). The code has 2^16 tags and its header accepts
the wrap as improbable. Nothing is proved about executions in which a thread sleeps
through a whole round of tags.

The argument. None of the properties is inductive alone: whether a
compare-and-swap puts the right link in place depends on the observation being
fresh, which depends on the tag; whether it keeps the stack linked depends on the
chain being private and linked. The inductive invariant `IInv` is the conjunction of

- `TypeOK` and `Control` (what the program counter says about the locals);
- `ObservationsFresh`: the head's tag is the observed one plus the number of operations
  since (`age`, modulo `TagMod`), and with `age` 0 the head is the observed one and the
  link read is current. With `NoTagWrap`, equal heads imply `age` 0;
- `ChainsLinked`: a chain being pushed is linked, its tail to the observed head;
- `StacksLinked`: the links from the head spell `stk`;
- `NodesPartitioned`: every node is in one place.

Each conjunct has its own step lemma with a case for every action. `SwapFresh` (a successful
swap had a fresh observation) and `PopTakesTop` (so the node popped is the top and the
new head the second) are what they share. `AbstractStep` maps each successful swap to
`Push` or `Pop` of `NodeStacks`, `Get` and `Put` to themselves and all else to a stutter.

### The slab pool

`SlabPoolProofs`: any pages and classes, any finite, non-empty set of slots for each class, any
capacity of the cache of parked pages, any scan budget, batch and ages. The three properties hold
each other up. A page that a free links into the partials was full, hence on no
list (`ListsSound`); a page that is released is unlinked from the only list it can be on; a
page that a class takes over was with the source or parked, hence on no list of another class
(`PagesPartitioned`). `IInv` adds `SweepInv`: the sweep writes behind the place it reads, so that the
entries not yet read are intact while the array holds stale ones in between.

### The cache of large regions

`LargeCacheProofs`: any threads, regions and requests, any capacity, DEBUG switched at any time.
`IInv` adds what a call knows of the region it carries between two locks (`Placed`, `JobInv`). That sizes agree
rests on the guard page: a region with one never enters the cache, whatever DEBUG is by then.

### The region map

`RegionMapProofs`: any readers, regions, capacity and number of retries. The hypothesis
`~ EarlyStores` says that a writer's stores stay behind its first increment, as they do on
x86_64; without it the property is false (see above). `IInv` says that the map is sorted and
disjoint, that the counter is odd just while a writer stores, and what a search
has learnt: as long as the counter is the one it started with, the entries below `low` start at or before the page
and those from `high` on after it. A cached answer is true while the counter stands.

### The page heap

`PageHeapProofs`: any threads, nodes and capacity, any finite set of ranges with any sizes, counters of any
width. `IInv` adds `JobInv`, what `v8m_page_heap_alloc` and `v8m_page_heap_free` know of
their range between two critical sections (registered or not, bound or not), although the
background tick stamps and migrates regions meanwhile. The counters are then a matter of sums: each step
moves a node's counter and the bytes stamped with it by the same amount, or accounts for the
difference in `moved` or in what a call has yet to add or subtract.

### Only model-checked

The modules without a proof module (`SlabPages`, `Buddy`, `BuddyPool`, `Tiers`, `SizeClass`, `Bump`, `Stats`,
`Api`, `Process`); liveness, since the prover does not handle fairness and ENABLED (`ParkedPageLeaves`,
`ShutdownCompletes`, `CallsReturn`); what a recursive function computes for every
input.

## Not modelled

- Refill controller, adaptive capacities, the averages behind a lifetime class, THP and NUMA
  thresholds, the prefetch table: their decisions are arbitrary choices in the models that
  depend on them, so the results hold whatever they decide. Their own arithmetic is not. The
  counts by lifetime class are one sum, and the clock never reads 0.
- The size histogram, `v8m_get_stats` and the other reports, `ptr_info`, diagnostics, pprof:
  they copy counters and change nothing that the allocator acts on.
- The remote free queue: no code of the library pushes on it.
- `v8m_size_class_install_table`, alignments of 1 GiB and more, `malloc_trim`, and what an OOM
  handler allocates itself.
- The poison of slab slots. A slab page is stamped when it is formatted, and a parked page, which
  has lost its frames, is formatted again before use.
- libc and C++ entry points, libc fallback, architecture layer, parsing of `/sys` and of the
  environment: thunks without state, or I/O.
- Weak memory, except in `RegionMap`: atomics are sequentially consistent.

## Plan

The order in which the project has been built and is to go on. Done:

1. `CoreCache` with `NodeStacks`, runs, proofs.
2. The pools under it: `SlabPool`, `BuddyPool`, `SlabPages`.
3. Large regions and the page heap: `LargeCache`, `RegionMap`, `PageHeap`.
4. The composition of the tiers (`Tiers`) and of the locks (`Process`).
5. Allocation without a cache: `Bump`, and which allocator serves a call in each init state.
6. `SizeClass`: lookup and table, checked against the least class that fits.
7. The API above the tiers (`Api`): the malloc family, the OOM handler's guard, the DEBUG ring.
8. The lifetime ring, the call-site table and the counters folded at thread exit (`Stats`).
9. The use-after-free detector, in `Buddy` and `BuddyPool`.

10. Proofs about `SlabPool`, `LargeCache`, `RegionMap` and `PageHeap`.

Next, modelling:

11. Refinement: `SlabPages` implements the page source and the pages of `SlabPool`;
    `SlabPool`, `BuddyPool` and `LargeCache` implement a set-valued pool, which `Tiers` uses.

Next, proofs, in this order:

12. `Tiers`: `EveryObjectOnce` as a partition, `ArenasApart`, `NoCacheAfterExit`.
13. `SlabPages`: `PagesBacked`.
