------------------------------- MODULE Tiers --------------------------------
(***************************************************************************)
(* The tiers an object passes through (src/src/v8m_dispatch.c,             *)
(* src/src/v8m_thread_cache.c and the malloc and free of src/src/v8m_api.c)*)
(*                                                                         *)
(*     the user  <->  bins of a thread's cache  <->  L2 stack of a CPU     *)
(*                                              <->  slab pool             *)
(*     the user  <->  medium bin of the cache   <->  buddy pool            *)
(*                                                                         *)
(* A thread's cache is made on first use, lives in a block of the buddy    *)
(* pool that it allocates and frees like any other, and goes when the      *)
(* thread exits or releases it.                                            *)
(*                                                                         *)
(* The slab pool, the buddy pool and a push or a pop on an L2 stack are    *)
(* atomic here: SlabPool, BuddyPool and CoreCache model their inside.  The *)
(* steps of a call between them interleave with those of other threads.    *)
(* Size classes share nothing, so there is one small class and one medium  *)
(* class.  A bin is the sequence of its objects, the head first; nothing   *)
(* pushes on the remote queue of a cache, which therefore stays empty.     *)
(***************************************************************************)
EXTENDS Integers, SequencesExt

CONSTANTS
    Threads,
    Cpus,        \* CPUs that have an L2 cache
    Slots,       \* small objects of the default arena
    Lifetime,    \* small objects of the lifetime arenas
    Blocks,      \* blocks of the medium class
    Caps,        \* bin capacities the adaptive controller chooses from
    DefaultCap,  \* V8M_BIN_CAPACITY_DEFAULT
    Batches,     \* batch sizes the refill controller chooses from
    DrainBatch,  \* V8M_DISPATCH_L2_BATCH
    MediumCap,   \* k_medium_bin_caps of the class
    None

ASSUME TiersAssumption ==
    /\ Caps \subseteq Nat \ {0} /\ DefaultCap \in Caps
    /\ Batches \subseteq Nat \ {0} /\ Batches # {}
    /\ {DrainBatch, MediumCap} \subseteq Nat \ {0}
    /\ Slots \cap Lifetime = {} /\ Slots \cap Blocks = {} /\ Lifetime \cap Blocks = {}

VARIABLES
    slab,        \* free slots of the default slab pool
    slab_lifetime,
    buddy,       \* free blocks of the buddy pool
    l2,          \* the L2 stack of each CPU
    cache,       \* v8m_t_cache of each thread
    key,         \* the value the thread has set for g_destructor_key
    latched,     \* t_in_destructor
    soft,        \* a soft limit is armed
    job,         \* the call each thread is in
    live         \* history: the objects in the users' hands

vars == <<slab, slab_lifetime, buddy, l2, cache, key, latched, soft, job, live>>
pools == <<slab, slab_lifetime, buddy, l2>>
thread == <<cache, key, latched>>

NoJob == [op |-> "none"]

\* v8m_thread_cache_get_or_create, once block b has been allocated for it.
FreshCache(b) == [struct |-> b, bin |-> <<>>, cap |-> DefaultCap, medium |-> <<>>]

Init ==
    /\ slab = Slots /\ slab_lifetime = Lifetime /\ buddy = Blocks
    /\ l2 = [k \in Cpus |-> <<>>]
    /\ cache = [t \in Threads |-> None]
    /\ key = [t \in Threads |-> None]
    /\ latched = [t \in Threads |-> FALSE]
    /\ soft = FALSE
    /\ job = [t \in Threads |-> NoJob]
    /\ live = {}

-----------------------------------------------------------------------------
\* Steps that calls share.

Goto(t, j) == job' = [job EXCEPT ![t] = j]
At(t, where) == job[t] # NoJob /\ job[t].pc = where
SetCache(t, c) == cache' = [cache EXCEPT ![t] = c]

\* The capacity after a call that may have run the GC tick.
Capacities(c) == {c.cap} \cup Caps

\* The call returns object x to the user.
Return(t, x) ==
    /\ live' = live \cup {x}
    /\ Goto(t, NoJob)

\* Where a call that needs the cache goes on: it makes one first, and does
\* without when the thread is past its destructor.
WithCache(j, c, gone) ==
    [j EXCEPT !.pc = CASE c # None -> "cached"
                       [] c = None /\ gone -> "direct"
                       [] OTHER -> "create"]

\* v8m_thread_cache_get_or_create allocates the structure (from the buddy
\* pool, for t_in_create keeps the inner call off the cache) and installs it.
\* The allocation may fail, and the call goes on without a cache.
Create(t) ==
    /\ At(t, "create")
    /\ \/ \E b \in buddy :
             /\ buddy' = buddy \ {b}
             /\ SetCache(t, FreshCache(b))
             /\ key' = [key EXCEPT ![t] = b]
             /\ Goto(t, IF job[t].op = "init" THEN NoJob ELSE [job[t] EXCEPT !.pc = "cached"])
       \/ /\ Goto(t, IF job[t].op = "init" THEN NoJob ELSE [job[t] EXCEPT !.pc = "direct"])
          /\ UNCHANGED <<buddy, cache, key>>
    /\ UNCHANGED <<slab, slab_lifetime, l2, latched, soft, live>>

\* v8m_init_thread
InitThread(t) ==
    /\ job[t] = NoJob /\ cache[t] = None /\ ~ latched[t]
    /\ Goto(t, [op |-> "init", pc |-> "create"])
    /\ UNCHANGED <<pools, thread, soft, live>>

-----------------------------------------------------------------------------
\* malloc of a small size

MallocJob == [op |-> "malloc", pc |-> "cached", chain |-> <<>>, retried |-> FALSE]

\* A hit in the bin, on the inlined path or in try_tlc_fast_paths.
MallocHit(t) ==
    /\ job[t] = NoJob
    /\ cache[t] # None /\ cache[t].bin # <<>>
    /\ \E n \in Capacities(cache[t]) :
          SetCache(t, [cache[t] EXCEPT !.bin = Tail(@), !.cap = n])
    /\ Return(t, Head(cache[t].bin))
    /\ UNCHANGED <<pools, key, latched, soft>>

\* A miss.
Malloc(t) ==
    /\ job[t] = NoJob
    /\ cache[t] # None => cache[t].bin = <<>>
    /\ Goto(t, WithCache(MallocJob, cache[t], latched[t]))
    /\ UNCHANGED <<pools, thread, soft, live>>

\* The batch size is computed, and the L2 cache of the current CPU chosen.
MallocL2(t, k, n) ==
    /\ At(t, "cached") /\ job[t].op = "malloc"
    /\ Goto(t, [want |-> n, cpu |-> k] @@ [job[t] EXCEPT !.pc = "local"])
    /\ UNCHANGED <<pools, thread, soft, live>>

\* v8m_core_cache_pop_batch takes one node after the other.
PopNode(t) ==
    /\ At(t, "local") \/ At(t, "steal") \/ At(t, "drain")
    /\ LET j == job[t]
       IN  /\ Len(j.chain) < j.want /\ l2[j.cpu] # <<>>
           /\ Goto(t, [j EXCEPT !.chain = Append(@, Head(l2[j.cpu]))])
           /\ l2' = [l2 EXCEPT ![j.cpu] = Tail(@)]
    /\ UNCHANGED <<slab, slab_lifetime, buddy, thread, soft, live>>

\* v8m_thread_cache_install_chain, and the head of the bin to the user.
InstallChain(t, chain) ==
    /\ \E n \in Capacities(cache[t]) :
          SetCache(t, [cache[t] EXCEPT !.bin = Tail(chain) \o @, !.cap = n])
    /\ Return(t, Head(chain))

\* Mutant: a batch cut short by an empty stack is dropped.
PopDoneDrops(t) ==
    /\ At(t, "local") \/ At(t, "steal")
    /\ LET j == job[t]
       IN  /\ Len(j.chain) = j.want \/ l2[j.cpu] = <<>>
           /\ IF Len(j.chain) = j.want
                THEN InstallChain(t, j.chain)
                ELSE /\ \/ /\ j.pc = "local"
                           /\ \E k \in Cpus \ {j.cpu} : Goto(t, [j EXCEPT !.pc = "steal", !.cpu = k, !.chain = <<>>])
                        \/ Goto(t, [j EXCEPT !.pc = "refill", !.chain = <<>>])
                     /\ UNCHANGED <<cache, live>>
    /\ UNCHANGED <<pools, key, latched, soft>>

\* The batch is complete or the stack empty; with nothing popped the own
\* stack is followed by the donor the hint names, if it is another CPU, and
\* the donor by the slab pool.
PopDone(t) ==
    /\ At(t, "local") \/ At(t, "steal")
    /\ LET j == job[t]
       IN  /\ Len(j.chain) = j.want \/ l2[j.cpu] = <<>>
           /\ IF j.chain # <<>>
                THEN InstallChain(t, j.chain)
                ELSE /\ \/ /\ j.pc = "local"
                           /\ \E k \in Cpus \ {j.cpu} : Goto(t, [j EXCEPT !.pc = "steal", !.cpu = k])
                        \/ Goto(t, [j EXCEPT !.pc = "refill"])
                     /\ UNCHANGED <<cache, live>>
    /\ UNCHANGED <<pools, key, latched, soft>>

\* v8m_slab_pool_alloc_batch yields up to the batch, or nothing.
Refill(t) ==
    /\ At(t, "refill")
    /\ \/ \E n \in 1 .. job[t].want : \E chain \in [1 .. n -> slab] :
             /\ IsInjective(chain)
             /\ slab' = slab \ Range(chain)
             /\ InstallChain(t, chain)
       \/ /\ Goto(t, [job[t] EXCEPT !.pc = "direct"])
          /\ UNCHANGED <<slab, cache, live>>
    /\ UNCHANGED <<slab_lifetime, buddy, l2, key, latched, soft>>

\* v8m_slab_pool_alloc, past the cache.  When it fails the OOM handler may
\* ask for one more attempt of the whole dispatch.
MallocDirect(t) ==
    /\ At(t, "direct") /\ job[t].op = "malloc"
    /\ \/ \E x \in slab : slab' = slab \ {x} /\ Return(t, x)
       \/ /\ Goto(t, NoJob)
          /\ UNCHANGED <<slab, live>>
       \/ /\ ~ job[t].retried
          /\ Goto(t, WithCache([MallocJob EXCEPT !.retried = TRUE], cache[t], latched[t]))
          /\ UNCHANGED <<slab, live>>
    /\ UNCHANGED <<slab_lifetime, buddy, l2, thread, soft>>

-----------------------------------------------------------------------------
\* malloc of a medium size

MallocMediumHit(t) ==
    /\ job[t] = NoJob
    /\ cache[t] # None /\ cache[t].medium # <<>>
    /\ SetCache(t, [cache[t] EXCEPT !.medium = Tail(@)])
    /\ Return(t, Head(cache[t].medium))
    /\ UNCHANGED <<pools, key, latched, soft>>

MallocMedium(t) ==
    /\ job[t] = NoJob
    /\ cache[t] # None => cache[t].medium = <<>>
    /\ Goto(t, WithCache([MallocJob EXCEPT !.op = "medium"], cache[t], latched[t]))
    /\ UNCHANGED <<pools, thread, soft, live>>

\* v8m_buddy_pool_alloc; with the OOM handler as above.
MallocBuddy(t) ==
    /\ At(t, "cached") \/ At(t, "direct")
    /\ job[t].op = "medium"
    /\ \/ \E b \in buddy : buddy' = buddy \ {b} /\ Return(t, b)
       \/ /\ Goto(t, NoJob)
          /\ UNCHANGED <<buddy, live>>
       \/ /\ ~ job[t].retried
          /\ Goto(t, WithCache([job[t] EXCEPT !.retried = TRUE], cache[t], latched[t]))
          /\ UNCHANGED <<buddy, live>>
    /\ UNCHANGED <<slab, slab_lifetime, l2, thread, soft>>

\* v8m_dispatch_alloc_aligned takes over-aligned objects past the cache.
AlignedAlloc(t) ==
    /\ job[t] = NoJob
    /\ \E x \in slab \cup buddy :
          /\ slab' = slab \ {x}
          /\ buddy' = buddy \ {x}
          /\ live' = live \cup {x}
    /\ UNCHANGED <<slab_lifetime, l2, thread, soft, job>>

\* A call site that arena_for_caller routes to a lifetime arena.
LifetimeAlloc(t) ==
    /\ job[t] = NoJob
    /\ \E x \in slab_lifetime :
          /\ slab_lifetime' = slab_lifetime \ {x}
          /\ live' = live \cup {x}
    /\ UNCHANGED <<slab, buddy, l2, thread, soft, job>>

-----------------------------------------------------------------------------
\* free

\* Mutant: the arena of the page is not looked at.
FreeJobAnyArena(op, x, c, gone) ==
    LET j == [op |-> op, pc |-> "direct", obj |-> x, chain |-> <<>>]
    IN  IF x \in Blocks /\ soft THEN j ELSE WithCache(j, c, gone)

\* v8m_dispatch_free: a slot of a lifetime arena goes straight to its pool, and
\* so does a block while a soft limit is armed.
FreeJob(op, x, c, gone) ==
    LET j == [op |-> op, pc |-> "direct", obj |-> x, chain |-> <<>>]
    IN  IF x \in Lifetime \/ (x \in Blocks /\ soft) THEN j ELSE WithCache(j, c, gone)

Free(t, x) ==
    /\ job[t] = NoJob
    /\ live' = live \ {x}
    /\ Goto(t, FreeJob("free", x, cache[t], latched[t]))
    /\ UNCHANGED <<pools, thread, soft>>

\* v8m_slab_pool_free or v8m_buddy_pool_free, past the cache.
FreeDirect(t) ==
    /\ At(t, "direct") /\ job[t].op \in {"free", "release", "exit"}
    /\ LET x == job[t].obj
       IN  /\ slab' = slab \cup ({x} \cap Slots)
           /\ slab_lifetime' = slab_lifetime \cup ({x} \cap Lifetime)
           /\ buddy' = buddy \cup ({x} \cap Blocks)
    /\ Goto(t, NoJob)
    /\ UNCHANGED <<l2, thread, soft, live>>

\* Mutant: the bin is full when it has passed its capacity.
PushSlotLate(t) ==
    /\ At(t, "cached") /\ job[t].op = "free" /\ job[t].obj \notin Blocks
    /\ \E n \in Capacities(cache[t]), batch \in Batches : \E limit \in {cache[t].cap, n} :
          LET bin == <<job[t].obj>> \o cache[t].bin
              over == IF Len(bin) <= limit THEN 0 ELSE Min({batch, Len(bin)})
          IN  /\ SetCache(t, [cache[t] EXCEPT !.bin = SubSeq(bin, over + 1, Len(bin)), !.cap = n])
              /\ Goto(t, IF over = 0 THEN NoJob
                         ELSE [op |-> "free", pc |-> "overflow", chain |-> SubSeq(bin, 1, over)])
    /\ UNCHANGED <<pools, key, latched, soft, live>>

\* v8m_thread_cache_free, and the batch slab_overflow_to_l2_or_slab takes off a
\* bin that has reached its capacity (of before or after a GC tick).
PushSlot(t) ==
    /\ At(t, "cached") /\ job[t].op = "free" /\ job[t].obj \notin Blocks
    /\ \E n \in Capacities(cache[t]), batch \in Batches : \E limit \in {cache[t].cap, n} :
          LET bin == <<job[t].obj>> \o cache[t].bin
              over == IF Len(bin) < limit THEN 0 ELSE Min({batch, Len(bin)})
          IN  /\ SetCache(t, [cache[t] EXCEPT !.bin = SubSeq(bin, over + 1, Len(bin)), !.cap = n])
              /\ Goto(t, IF over = 0 THEN NoJob
                         ELSE [op |-> "free", pc |-> "overflow", chain |-> SubSeq(bin, 1, over)])
    /\ UNCHANGED <<pools, key, latched, soft, live>>

\* The batch goes to the L2 stack of the CPU that owns its first page, or, where
\* there is none, slot by slot to the slab pool.
Overflow(t) ==
    /\ At(t, "overflow")
    /\ \/ \E k \in Cpus :
             /\ l2' = [l2 EXCEPT ![k] = job[t].chain \o @]
             /\ Goto(t, NoJob)
       \/ /\ Goto(t, [job[t] EXCEPT !.pc = "return"])
          /\ UNCHANGED l2
    /\ UNCHANGED <<slab, slab_lifetime, buddy, thread, soft, live>>

\* v8m_thread_cache_medium_free: a full bin leaves the block to the buddy pool.
PushBlock(t) ==
    /\ At(t, "cached") /\ job[t].op \in {"free", "release"} /\ job[t].obj \in Blocks
    /\ IF Len(cache[t].medium) < MediumCap
         THEN /\ SetCache(t, [cache[t] EXCEPT !.medium = <<job[t].obj>> \o @])
              /\ UNCHANGED buddy
         ELSE /\ buddy' = buddy \cup {job[t].obj}
              /\ UNCHANGED cache
    /\ Goto(t, NoJob)
    /\ UNCHANGED <<slab, slab_lifetime, l2, key, latched, soft, live>>

-----------------------------------------------------------------------------
\* Draining: v8m_purge and v8m_purge_thread, v8m_release_thread, thread exit

\* What follows on pc in the drain of op.
After(op, pc) ==
    CASE op = "purge" /\ pc = "bins" -> "blocks"
      [] op = "purge" /\ pc = "blocks" -> "l2"
      [] op = "release" /\ pc = "bins" -> "l2"
      [] op = "release" /\ pc = "drain" -> "blocks"
      [] op = "release" /\ pc = "blocks" -> "drop"
      [] op = "exit" /\ pc = "bins" -> "blocks"
      [] op = "exit" /\ pc = "blocks" -> "drop"
      [] OTHER -> "end"

DrainJob(t, op) == [op |-> op, pc |-> IF cache[t] = None THEN "l2" ELSE "bins"]

Continue(t, pc) ==
    Goto(t, IF pc = "end" \/ (cache[t] = None /\ pc = "blocks") THEN NoJob
            ELSE [op |-> job[t].op, pc |-> pc])

\* A call of v8m_purge, v8m_purge_thread or v8m_release_thread.
Drain(t, op) ==
    /\ job[t] = NoJob
    /\ Goto(t, DrainJob(t, op))
    /\ UNCHANGED <<pools, thread, soft, live>>

\* The thread exits, and the runtime passes the value of the key to
\* destroy_cache.  (KeyNamesCache says when that value is the thread's cache.)
Exit(t) ==
    /\ job[t] = NoJob
    /\ cache[t] # None /\ key[t] = cache[t].struct
    /\ key' = [key EXCEPT ![t] = None]
    /\ Goto(t, DrainJob(t, "exit"))
    /\ UNCHANGED <<pools, cache, latched, soft, live>>

\* v8m_thread_cache_drain_all hands the slots to the slab pool one by one.
DrainBins(t) ==
    /\ At(t, "bins")
    /\ LET c == cache[t]
       IN  IF c.bin # <<>>
             THEN /\ slab' = slab \cup {Head(c.bin)}
                  /\ SetCache(t, [c EXCEPT !.bin = Tail(@)])
                  /\ UNCHANGED job
             ELSE /\ Continue(t, After(job[t].op, "bins"))
                  /\ UNCHANGED <<slab, cache>>
    /\ UNCHANGED <<slab_lifetime, buddy, l2, key, latched, soft, live>>

\* v8m_thread_cache_drain_medium
DrainBlocks(t) ==
    /\ At(t, "blocks")
    /\ LET c == cache[t]
       IN  IF c # None /\ c.medium # <<>>
             THEN /\ buddy' = buddy \cup {Head(c.medium)}
                  /\ SetCache(t, [c EXCEPT !.medium = Tail(@)])
                  /\ UNCHANGED job
             ELSE /\ Continue(t, After(job[t].op, "blocks"))
                  /\ UNCHANGED <<buddy, cache>>
    /\ UNCHANGED <<slab, slab_lifetime, l2, key, latched, soft, live>>

\* v8m_dispatch_drain_local_l2 takes the stack of the CPU it starts on: a batch
\* popped off it goes to the slab pool, until a batch comes back empty.
DrainLocal(t, k) ==
    /\ At(t, "l2")
    /\ Goto(t, [op |-> job[t].op, pc |-> "drain", chain |-> <<>>, want |-> DrainBatch, cpu |-> k])
    /\ UNCHANGED <<pools, thread, soft, live>>

DrainL2(t) ==
    /\ At(t, "drain")
    /\ LET j == job[t]
       IN  /\ Len(j.chain) = j.want \/ l2[j.cpu] = <<>>
           /\ IF j.chain = <<>> THEN Continue(t, After(j.op, "drain"))
              ELSE Goto(t, [j EXCEPT !.pc = "return"])
    /\ UNCHANGED <<pools, thread, soft, live>>

\* A slot of the chain in hand goes back to the slab pool.
ReturnSlot(t) ==
    /\ At(t, "return")
    /\ LET j == job[t]
       IN  /\ slab' = slab \cup {Head(j.chain)}
           /\ Goto(t, CASE Len(j.chain) > 1 -> [j EXCEPT !.chain = Tail(@)]
                        [] Len(j.chain) = 1 /\ j.op = "free" -> NoJob
                        [] OTHER -> [j EXCEPT !.chain = <<>>, !.pc = "drain"])
    /\ UNCHANGED <<slab_lifetime, buddy, l2, thread, soft, live>>

\* Mutant: the structure is freed with the latch still open.
DropUnlatched(t) ==
    /\ At(t, "drop")
    /\ SetCache(t, None)
    /\ latched' = [latched EXCEPT ![t] = @ \/ job[t].op = "exit"]
    /\ Goto(t, FreeJob(IF job[t].op = "exit" THEN "free" ELSE job[t].op, cache[t].struct, None, latched[t]))
    /\ UNCHANGED <<pools, key, soft, live>>

\* The thread lets go of its cache and frees the structure, which is a block
\* like another; on exit the latch is set first.
Drop(t) ==
    /\ At(t, "drop")
    /\ SetCache(t, None)
    /\ latched' = [latched EXCEPT ![t] = @ \/ job[t].op = "exit"]
    /\ Goto(t, FreeJob(job[t].op, cache[t].struct, None, latched'[t]))
    /\ UNCHANGED <<pools, key, soft, live>>

\* A new thread takes the place of one that is gone.
Start(t) ==
    /\ job[t] = NoJob /\ latched[t]
    /\ latched' = [latched EXCEPT ![t] = FALSE]
    /\ UNCHANGED <<pools, cache, key, soft, job, live>>

\* v8m_set_soft_limit
SetSoftLimit ==
    /\ soft' = ~ soft
    /\ UNCHANGED <<pools, thread, job, live>>

-----------------------------------------------------------------------------
\* The steps of a thread inside a call, and the calls it may make.
Step(t) ==
    \/ Create(t) \/ \E k \in Cpus, n \in Batches : MallocL2(t, k, n)
    \/ PopNode(t) \/ PopDone(t) \/ Refill(t) \/ MallocDirect(t) \/ MallocBuddy(t)
    \/ FreeDirect(t) \/ PushSlot(t) \/ Overflow(t) \/ PushBlock(t)
    \/ DrainBins(t) \/ DrainBlocks(t) \/ \E k \in Cpus : DrainLocal(t, k)
    \/ DrainL2(t) \/ ReturnSlot(t) \/ Drop(t)

Call(t) ==
    \/ InitThread(t) \/ MallocHit(t) \/ Malloc(t) \/ MallocMediumHit(t) \/ MallocMedium(t)
    \/ AlignedAlloc(t) \/ LifetimeAlloc(t) \/ \E x \in live : Free(t, x)
    \/ \E op \in {"purge", "release"} : Drain(t, op)
    \/ Exit(t) \/ Start(t)

Next == SetSoftLimit \/ \E t \in Threads : Step(t) \/ Call(t)

Spec == Init /\ [][Next]_vars

-----------------------------------------------------------------------------
Objects == Slots \cup Lifetime \cup Blocks

\* The objects in the hands of t's call, and the objects of its cache.
InHand(t) ==
    (IF "obj" \in DOMAIN job[t] THEN <<job[t].obj>> ELSE <<>>)
    \o (IF "chain" \in DOMAIN job[t] THEN job[t].chain ELSE <<>>)

InCache(t) ==
    IF cache[t] = None THEN <<>>
    ELSE <<cache[t].struct>> \o cache[t].bin \o cache[t].medium

\* The variables have the types their declarations say.
TypeOK ==
    /\ slab \subseteq Slots /\ slab_lifetime \subseteq Lifetime /\ buddy \subseteq Blocks
    /\ \A k \in Cpus : l2[k] \in Seq(Slots \cup Lifetime)
    /\ \A t \in Threads : cache[t] # None =>
          /\ cache[t].struct \in Blocks /\ cache[t].cap \in Caps
          /\ Len(cache[t].medium) <= MediumCap
    /\ key \in [Threads -> Blocks \cup {None}]
    /\ latched \in [Threads -> BOOLEAN] /\ soft \in BOOLEAN
    /\ live \subseteq Objects

\* No object is lost and none is in two places, through refills, overflows,
\* drains, thread exits and releases that run into each other: each slot and
\* block is with a user, in a pool, in a stack, in a bin or in the hands of
\* one call, once.
EveryObjectOnce ==
    LET free == slab \cup slab_lifetime \cup buddy
    IN  /\ free \cup live \cup UNION {Range(l2[k]) : k \in Cpus}
              \cup UNION {Range(InHand(t) \o InCache(t)) : t \in Threads} = Objects
        /\ Cardinality(free) + Cardinality(live) + MapThenSumSet(LAMBDA k : Len(l2[k]), Cpus)
              + MapThenSumSet(LAMBDA t : Len(InHand(t) \o InCache(t)), Threads) = Cardinality(Objects)

\* The comment in v8m_dispatch_alloc: bins and L2 stacks are not segregated by
\* arena, so a slot of a lifetime arena is never cached in one.
ArenasApart ==
    /\ \A k \in Cpus : \A i \in DOMAIN l2[k] : l2[k][i] \in Slots
    /\ \A t \in Threads : cache[t] # None =>
          \A i \in DOMAIN cache[t].bin : cache[t].bin[i] \in Slots

\* The cache "cannot grow unboundedly": whatever batch an overflow drains, and
\* however the capacity shrinks and grows under the bin, the bin stays below
\* the largest capacity and the largest batch.
BinBounded ==
    /\ TypeOK
    /\ \A t \in Threads : cache[t] # None => Len(cache[t].bin) < Max(Caps \cup Batches)

\* destroy_cache latches so that the free of the structure, or a destructor
\* that runs later, does not install a cache that nobody would drain.
NoCacheAfterExit == \A t \in Threads : latched[t] => cache[t] = None

\* release_local is destroy_cache "minus the t_in_destructor latch": between calls
\* the value of the pthread key, which the runtime will hand to destroy_cache
\* when the thread exits, is the thread's cache or nothing.
KeyNamesCache ==
    \A t \in Threads : job[t] = NoJob /\ key[t] # None =>
        cache[t] # None /\ cache[t].struct = key[t]
=============================================================================
