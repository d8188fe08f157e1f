-------------------------------- MODULE Api ---------------------------------
(***************************************************************************)
(* The public allocation calls of src/src/v8m_api.c from entry to return,  *)
(* with the options of src/src/v8m_config.c, the bootstrap and signal-safe *)
(* allocators, the soft limit and the OOM handler, the ring of freed       *)
(* pointers that V8M_OPT_DEBUG keeps, and the counting of module Stats.    *)
(*                                                                         *)
(* The dispatcher's pools and caches are one set of blocks: a request is   *)
(* served by any block of its placement that nobody has, and a freed block *)
(* can be served again at once (module Tiers is about where it waits in    *)
(* between).  There are Copies blocks of each placement, so memory runs    *)
(* out.  What an OOM handler does is left to the other threads.            *)
(*                                                                         *)
(* A pointer has the kind of memory it points into; i is the number of a   *)
(* dispatcher's block, or the offset in a bump buffer.                     *)
(***************************************************************************)
EXTENDS Bump, Stats

CONSTANTS
    Main,        \* the thread that runs constructor and destructor
    Requests,    \* what callers ask for: [op, a, m, s, site], m objects of s bytes
    Grown,       \* what blocks are reallocated to, likewise
    SignalSizes, \* what signal handlers ask for
    Copies,      \* blocks of each placement
    FreedRing,   \* V8M_DOUBLE_FREE_RING_SIZE
    Options,     \* the settings of the two options in the environment
    MaxCalls,    \* calls in a behaviour
    MaxOther     \* those that neither allocate nor free

ASSUME MainAssumption == Main \in Threads

VARIABLES
    state,       \* g_init_state
    opt,         \* V8M_OPT_DEBUG and V8M_OPT_LIFETIME_TRACKING
    fastOk,      \* v8m_config_fast_path_ok
    limited,     \* a soft limit is set
    handler,     \* an OOM handler is installed
    boot, sig,   \* the offsets of the two bump buffers
    live,        \* the blocks callers have
    out,         \* dispatcher blocks that are not free to be served
    freed,       \* g_double_free_ring
    freedAt,     \* g_double_free_ring_idx
    aborted,     \* why the library called abort, or None
    call,        \* where each thread is in its call
    switched,    \* history: an option was changed at run time
    calls        \* calls so far: those that allocate or free, and others

config == <<opt, fastOk, limited, handler, switched>>
memory == <<boot, sig, live, out>>
debug == <<freed, freedAt, aborted>>
vars == <<state, config, memory, debug, call, book, calls>>

Idle == [pc |-> "idle"]
Pointer(kind, size, i) == [kind |-> kind, size |-> size, i |-> i]
Block(p, n, a) == [p |-> p, n |-> n, a |-> a, whole |-> TRUE, from |-> "none"]

Init ==
    /\ state = "none" /\ opt = [debug |-> FALSE, lifetime |-> FALSE] /\ fastOk = TRUE
    /\ limited = FALSE /\ handler = FALSE /\ switched = FALSE
    /\ boot = 0 /\ sig = 0 /\ live = {} /\ out = {}
    /\ freed = [i \in 0 .. FreedRing - 1 |-> None] /\ freedAt = 0 /\ aborted = None
    /\ call = [t \in Threads |-> Idle]
    /\ book = NewBook
    /\ calls = <<0, 0>>

Ready == state = "ready"
Goto(t, c) == call' = [call EXCEPT ![t] = c]

Counted(k) ==
    /\ calls[1] + calls[2] < MaxCalls /\ (k = 2 => calls[2] < MaxOther)
    /\ calls' = [calls EXCEPT ![k] = @ + 1]

\* The other threads start once the constructors have run.
CanCall(t) ==
    /\ aborted = None /\ call[t] = Idle
    /\ t = Main \/ state \in {"ready", "torn_down"}
Continue(t, pc) == aborted = None /\ call[t].pc = pc /\ UNCHANGED calls

-----------------------------------------------------------------------------
\* The ring of freed pointers

\* Mutant: a reused pointer stays in the ring.
ClearNothing(ring, p) == ring

\* debug_clear_double_free_record
Clear(ring, p) ==
    LET hits == {i \in DOMAIN ring : ring[i] = p}
    IN  IF hits = {} THEN ring ELSE [ring EXCEPT ![Min(hits)] = None]

\* debug_check_double_free of p.
CheckFreed(p) ==
    IF \E i \in DOMAIN freed : freed[i] = p
        THEN aborted' = "double free" /\ UNCHANGED <<freed, freedAt>>
        ELSE /\ freed' = [freed EXCEPT ![freedAt] = p]
             /\ freedAt' = (freedAt + 1) % FreedRing
             /\ UNCHANGED aborted

-----------------------------------------------------------------------------
\* Allocating

\* What a finished allocation is to its caller.  A realloc copies as much of
\* the old block as it believes it to hold and as fits, then frees the old one.
Deliver(t, c, p) ==
    LET copied == Min({c.usable, c.want})
        moved == [Block(p, c.want, 0) EXCEPT !.whole = copied >= Min({c.old.n, c.want}),
                                             !.from = c.old.p.kind]
    IN  IF c.op = "realloc"
            THEN /\ live' = (live \ {c.old}) \cup {moved}
                 /\ Goto(t, [pc |-> "free", p |-> c.old.p])
            ELSE live' = live \cup {Block(p, c.want, c.a)} /\ Goto(t, Idle)

\* The call returns NULL, and a realloc leaves the old block to its caller.
Fail(t) == Goto(t, Idle) /\ UNCHANGED memory

\* v8m_bootstrap_alloc, which aborts when its buffer is exhausted.
Bootstrap(t, c) ==
    LET r == BumpAlloc(BootSize, boot, Max({c.n, 1}))
    IN  /\ boot' = r.offset
        /\ IF r.at = Refused
               THEN aborted' = "bootstrap" /\ UNCHANGED <<live, call>>
               ELSE Deliver(t, c, Pointer("boot", 0, r.at)) /\ UNCHANGED aborted
        /\ UNCHANGED <<sig, out, freed, freedAt>>

\* do_malloc_pc up to its test for READY.
DoMalloc(t, c) ==
    IF Ready THEN Goto(t, c) /\ UNCHANGED <<memory, debug>> ELSE Bootstrap(t, c)

\* want is what the caller was promised, n what its entry point asks for.
NewCall(op, a, n, want, site) ==
    [pc |-> "serve", op |-> op, a |-> a, n |-> n, want |-> want, site |-> site,
     retried |-> FALSE, old |-> None, usable |-> 0, p |-> None]

\* __builtin_mul_overflow of v8m_calloc and v8m_reallocarray.
Product(m, s) == IF m * s >= Word THEN Refused ELSE m * s

\* The bytes an entry point asks for.  v8m_pvalloc rounds them up to whole
\* operating system pages.
OsPage == 4096
Bytes(r) ==
    CASE r.op = "calloc" -> Product(r.m, r.s)
      [] r.op = "pvalloc" -> IF r.s > Word - OsPage THEN Refused
                             ELSE RoundUp(Max({r.s, 1}), OsPage)
      [] OTHER -> r.s

\* is_pow2
IsPow2(a) == \E k \in 0 .. 29 : a = 2 ^ k

\* v8m_malloc, v8m_calloc and the aligned calls (a is 0 for the first two).  Out
\* of READY an alignment beyond the bootstrap buffer's is refused.  A realloc of
\* NULL is a malloc.
Alloc(t, r) ==
    /\ CanCall(t) /\ Counted(1)
    /\ IF \/ Bytes(r) = Refused
          \/ r.a # 0 /\ ~ IsPow2(r.a)
          \/ r.op = "posix_memalign" /\ r.a % 8 # 0
          \/ r.a > NaturalAlign /\ ~ Ready
           THEN UNCHANGED <<memory, debug, call>>
           ELSE DoMalloc(t, NewCall(r.op, r.a, Bytes(r), r.m * r.s, r.site))
    /\ UNCHANGED <<state, config, book>>

\* The free blocks of a placement are alike: the first stands for them all.
Servable(place) ==
    LET free == {i \in 0 .. Copies - 1 : Pointer(place.kind, place.size, i) \notin out}
    IN  IF place = Nowhere \/ free = {} THEN {}
        ELSE {Pointer(place.kind, place.size, Min(free))}

\* v8m_malloc when the bin of the thread's cache has a slot.  Neither the state
\* of the library nor the soft limit is looked at, and nothing is counted.
MallocHit(t, r) ==
    /\ CanCall(t) /\ Counted(1)
    /\ r.op = "malloc" /\ r.s <= SmallMax /\ HasCache(book, t) /\ fastOk
    /\ \E p \in Servable(Slab(SizeClass(r.s))) :
           out' = out \cup {p} /\ live' = live \cup {Block(p, r.s, 0)}
    /\ UNCHANGED <<state, config, boot, sig, debug, call, book>>

Place(c) ==
    IF c.a # 0 THEN DispatchAllocAligned(c.a, c.n) ELSE DispatchAlloc(c.n)

\* The dispatcher makes the thread's cache on the way, unless its memory is
\* refused under a soft limit.
Cached(b, t, wanted) ==
    IF ~ wanted THEN {b} ELSE IF limited THEN {b, Create(b, t)} ELSE {Create(b, t)}

\* pre_alloc_soft_limit_gate refuses, its handler having had its say.
GateRefuses(t) ==
    /\ Continue(t, "serve") /\ ~ call[t].retried /\ limited
    /\ Fail(t)
    /\ UNCHANGED <<state, config, debug, book>>

\* Out of memory: a handler that says so gets one retry.
AfterFailure(t, c) ==
    \/ handler /\ ~ c.retried /\ Goto(t, [c EXCEPT !.retried = TRUE])
    \/ Goto(t, Idle)

\* v8m_dispatch_alloc or v8m_dispatch_alloc_aligned.
Serve(t) ==
    LET c == call[t]
        place == Place(c)
    IN  /\ Continue(t, "serve")
        /\ book' \in Cached(book, t, c.a <= NaturalAlign /\ place.kind \in {"slab", "buddy"})
        /\ \/ \E p \in Servable(place) :
                  /\ out' = out \cup {p}
                  /\ Goto(t, [c EXCEPT !.pc = "post", !.p = p])
           \/ Servable(place) = {} /\ AfterFailure(t, c) /\ UNCHANGED out
        /\ UNCHANGED <<state, config, boot, sig, live, debug>>

\* post_alloc_record, and the return to the caller.
Post(t) ==
    LET c == call[t]
        counted == Record(book, t, "alloc")
    IN  /\ Continue(t, "post")
        /\ freed' = IF opt.debug THEN Clear(freed, c.p) ELSE freed
        /\ book' = IF opt.lifetime THEN LifetimeRecordAlloc(counted, t, c.p, c.site)
                                   ELSE counted
        /\ Deliver(t, c, c.p)
        /\ UNCHANGED <<state, config, boot, sig, out, freedAt, aborted>>

\* v8m_signal_safe_alloc, from a handler that interrupts any thread at any step.
SignalAlloc(n) ==
    LET r == BumpAlloc(SigSize, sig, n)
    IN  /\ aborted = None /\ Counted(2)
        /\ sig' = r.offset
        /\ live' = IF r.at = Refused THEN live ELSE live \cup {Block(Pointer("sig", 0, r.at), n, 0)}
        /\ UNCHANGED <<state, config, boot, out, debug, call, book>>

-----------------------------------------------------------------------------
\* Freeing and reallocating

\* The blocks that are not the old block of a realloc in progress.
Steady == {b \in live : \A t \in Threads : call[t].pc \in {"serve", "post"} => call[t].old # b}

\* v8m_free up to where v8m_free_slow knows that the dispatcher is to have the
\* block.  A block freed while the library is not READY is never reused, unless
\* the fast path takes it.
FreeEnter(t, p) ==
    /\ book' = Record(book, t, "free")
    /\ \/ /\ p.kind = "slab" /\ HasCache(book, t) /\ fastOk
          /\ out' = out \ {p} /\ Goto(t, Idle)
       \/ /\ p.kind \in {"boot", "sig"} \/ ~ Ready
          /\ UNCHANGED out /\ Goto(t, Idle)
       \/ /\ p.kind \notin {"boot", "sig"} /\ Ready
          /\ UNCHANGED out /\ Goto(t, [pc |-> "check", p |-> p])
    /\ UNCHANGED <<state, config, boot, sig, debug>>

\* v8m_free
Free(t) ==
    /\ CanCall(t) /\ Counted(1)
    /\ \E b \in Steady : live' = live \ {b} /\ FreeEnter(t, b.p)

\* The v8m_free at the end of v8m_realloc.
FreeOld(t) == Continue(t, "free") /\ UNCHANGED live /\ FreeEnter(t, call[t].p)

\* v8m_free_slow: the check for a double free, and the lifetime sample.
Check(t) ==
    LET p == call[t].p
    IN  /\ Continue(t, "check")
        /\ IF opt.debug THEN CheckFreed(p) ELSE UNCHANGED debug
        /\ IF opt.lifetime
               THEN \E timed \in BOOLEAN : book' = LifetimeRecordFree(book, t, p, timed)
               ELSE UNCHANGED book
        /\ Goto(t, [call[t] EXCEPT !.pc = "give"])
        /\ UNCHANGED <<state, config, memory>>

\* v8m_dispatch_free
Give(t) ==
    LET p == call[t].p
    IN  /\ Continue(t, "give")
        /\ out' = out \ {p}
        /\ book' \in Cached(book, t, p.kind = "slab" \/ (p.kind = "buddy" /\ ~ limited))
        /\ Goto(t, Idle)
        /\ UNCHANGED <<state, config, boot, sig, live, debug>>

\* v8m_malloc_usable_size, 0 when it does not know.
UsableSize(p) == IF p.kind \in {"boot", "sig"} \/ ~ Ready THEN 0 ELSE p.size

\* Mutant: a bootstrap pointer is asked for its usable size like any other.
OldUsableAlike(p) == UsableSize(p)

\* The bytes v8m_realloc takes the old block to have.
OldUsable(p) == IF p.kind = "boot" THEN BumpRemaining(BootSize, p.i) ELSE UsableSize(p)

\* v8m_realloc and v8m_reallocarray of a block: nothing left is a free, what
\* fits stays, the rest is allocated, copied and freed.
Realloc(t, r) ==
    LET n == Product(r.m, r.s)
    IN  /\ CanCall(t) /\ Counted(1)
        /\ \E b \in Steady :
               LET usable == OldUsable(b.p)
                   new == [NewCall("realloc", 0, n, r.m * r.s, r.site)
                              EXCEPT !.old = b, !.usable = usable]
               IN  \/ /\ n = Refused
                      /\ UNCHANGED <<memory, debug, call, book>>
                   \/ /\ n = 0
                      /\ live' = live \ {b} /\ Goto(t, [pc |-> "free", p |-> b.p])
                      /\ UNCHANGED <<boot, sig, out, debug, book>>
                   \/ /\ n > 0 /\ b.p.kind # "boot" /\ usable >= n
                      /\ live' = (live \ {b}) \cup {[b EXCEPT !.n = n, !.a = 0]}
                      /\ UNCHANGED <<boot, sig, out, debug, call, book>>
                   \/ /\ n > 0 /\ (b.p.kind = "boot" \/ usable < n)
                      /\ DoMalloc(t, new)
                      /\ UNCHANGED book
        /\ UNCHANGED <<state, config>>

-----------------------------------------------------------------------------
\* Caches that go away

\* The destructor of the thread-specific key, which exists while the library is
\* READY; v8m_release_thread.
Leave(t, how) ==
    /\ CanCall(t) /\ Counted(2) /\ Ready /\ HasCache(book, t)
    /\ how = "exit" => t # Main
    /\ Goto(t, [pc |-> "unlink", how |-> how])
    /\ UNCHANGED <<state, config, memory, debug, book>>

UnlinkCache(t) ==
    /\ Continue(t, "unlink")
    /\ book' = Unlink(book, t)
    /\ Goto(t, [call[t] EXCEPT !.pc = "fold"])
    /\ UNCHANGED <<state, config, memory, debug>>

\* The fold, and the free of the cache's memory: a call of v8m_free by a thread
\* without a cache, whose v8m_dispatch_free makes it a new one unless the thread
\* is latched.  The entry of that memory in the ring of freed pointers is left
\* blank, as it is no caller's block.
FoldCache(t) ==
    LET how == call[t].how
        folded == IF HasCache(book, t) THEN Record(Fold(book, t), t, "free") ELSE book
        latched == IF how = "exit" THEN [folded EXCEPT !.latched = @ \cup {t}] ELSE folded
    IN  /\ Continue(t, "fold")
        /\ book' \in Cached(latched, t, HasCache(book, t) /\ Ready /\ ~ limited)
        /\ IF HasCache(book, t) /\ Ready /\ opt.debug
               THEN /\ freed' = [freed EXCEPT ![freedAt] = None]
                    /\ freedAt' = (freedAt + 1) % FreedRing
               ELSE UNCHANGED <<freed, freedAt>>
        /\ state' = IF how = "shutdown" THEN "torn_down" ELSE state
        /\ Goto(t, Idle)
        /\ UNCHANGED <<config, memory, aborted>>

-----------------------------------------------------------------------------
\* Reading and resetting the counters

\* Mutant: the registry is walked first.
SnapshotWalksFirst(half, b) == IF half = 1 THEN Walk(b) ELSE b.global

\* v8m_thread_cache_aggregate_lifetime reads the globals, then the caches.
Snapshot(half, b) == IF half = 1 THEN b.global ELSE Walk(b)

\* v8m_get_lifetime_stats
ReadGlobals(t) ==
    /\ CanCall(t) /\ Counted(2) /\ Ready
    /\ Goto(t, [pc |-> "walk", got |-> Snapshot(1, book)])
    /\ UNCHANGED <<state, config, memory, debug, book>>

ReadCaches(t) ==
    /\ Continue(t, "walk")
    /\ Goto(t, [pc |-> "read", got |-> Plus(call[t].got, Snapshot(2, book))])
    /\ UNCHANGED <<state, config, memory, debug, book>>

ReadReturns(t) ==
    /\ Continue(t, "read") /\ Goto(t, Idle)
    /\ UNCHANGED <<state, config, memory, debug, book>>

\* v8m_reset_stats, as far as allocations and frees go.
Reset(t) ==
    /\ CanCall(t) /\ Counted(2) /\ Ready
    /\ book' = ResetGlobals(book)
    /\ Goto(t, [pc |-> "reset"])
    /\ UNCHANGED <<state, config, memory, debug>>

ResetRest(t) ==
    /\ Continue(t, "reset")
    /\ \E kept \in SUBSET {u \in Threads \ {t} : call[u] # Idle} : book' = ResetCaches(book, kept)
    /\ Goto(t, Idle)
    /\ UNCHANGED <<state, config, memory, debug>>

-----------------------------------------------------------------------------
\* Configuration and life cycle

Disabled(o) == o.debug \/ o.lifetime

\* v8m_set_option of DEBUG or LIFETIME_TRACKING: the value is stored, and the
\* flag for the fast paths is recomputed from both options.
SetOption(t, which) ==
    /\ CanCall(t) /\ Counted(2) /\ Ready
    /\ opt' = [opt EXCEPT ![which] = ~ @] /\ switched' = TRUE
    /\ Goto(t, [pc |-> "options"])
    /\ UNCHANGED <<state, fastOk, limited, handler, memory, debug, book>>

\* The second option is loaded if the first is off.
LoadOptions(t) ==
    /\ \/ Continue(t, "options") /\ Goto(t, IF opt.debug THEN [pc |-> "flag", ok |-> FALSE]
                                           ELSE [pc |-> "options2"])
       \/ Continue(t, "options2") /\ Goto(t, [pc |-> "flag", ok |-> ~ opt.lifetime])
    /\ UNCHANGED <<state, config, memory, debug, book>>

StoreFlag(t) ==
    /\ Continue(t, "flag")
    /\ fastOk' = call[t].ok
    /\ Goto(t, Idle)
    /\ UNCHANGED <<state, opt, limited, handler, switched, memory, debug, book>>

\* v8m_set_soft_limit and v8m_set_oom_handler
SetLimits(t) ==
    /\ CanCall(t) /\ Counted(2)
    /\ \/ Ready /\ limited' = ~ limited /\ UNCHANGED handler
       \/ handler' = ~ handler /\ UNCHANGED limited
    /\ UNCHANGED <<state, opt, fastOk, switched, memory, debug, call, book>>

\* v8m_constructor: RUNNING, then v8m_config_init from the environment, ...
Construct ==
    /\ state = "none" /\ state' = "running"
    /\ opt' \in Options /\ fastOk' = ~ Disabled(opt')
    /\ UNCHANGED <<limited, handler, switched, memory, debug, call, book, calls>>

\* ... and READY.
Publish ==
    /\ state = "running" /\ aborted = None /\ state' = "ready"
    /\ UNCHANGED <<config, memory, debug, call, book, calls>>

\* v8m_destructor: v8m_thread_cache_module_shutdown takes the thread's cache
\* away before the state becomes TORN_DOWN.
Destruct ==
    /\ state = "ready" /\ aborted = None /\ call[Main] = Idle
    /\ Goto(Main, [pc |-> "unlink", how |-> "shutdown"])
    /\ UNCHANGED <<state, config, memory, debug, book, calls>>

-----------------------------------------------------------------------------
Step(t) ==
    \/ GateRefuses(t) \/ Serve(t) \/ Post(t)
    \/ FreeOld(t) \/ Check(t) \/ Give(t)
    \/ UnlinkCache(t) \/ FoldCache(t)
    \/ ReadCaches(t) \/ ReadReturns(t) \/ ResetRest(t)
    \/ LoadOptions(t) \/ StoreFlag(t)

Start(t) ==
    \/ \E r \in Requests : Alloc(t, r) \/ MallocHit(t, r)
    \/ Free(t)
    \/ \E r \in Grown : Realloc(t, r)
    \/ \E how \in {"exit", "release"} : Leave(t, how)
    \/ ReadGlobals(t) \/ Reset(t)
    \/ \E which \in {"debug", "lifetime"} : SetOption(t, which)
    \/ SetLimits(t)

Next ==
    \/ Construct \/ Publish \/ Destruct
    \/ \E n \in SignalSizes : SignalAlloc(n)
    \/ \E t \in Threads : Start(t) \/ Step(t)

Spec == Init /\ [][Next]_vars

-----------------------------------------------------------------------------
\* No two callers have the same memory: the blocks out of a bump buffer lie
\* within it and apart, whatever was asked of it before and even when a realloc
\* kept one in place, and a dispatcher block has one owner and is not free.
MemoryHandedOutOnce ==
    /\ \A b \in live :
           CASE b.p.kind = "boot" -> b.p.i + b.n <= BootSize
             [] b.p.kind = "sig" -> b.p.i + b.n <= SigSize
             [] OTHER -> b.p \in out
    /\ \A b, c \in live : b # c /\ b.p.kind = c.p.kind =>
           IF b.p.kind \in {"boot", "sig"}
               THEN b.p.i + b.n <= c.p.i \/ c.p.i + c.n <= b.p.i
               ELSE b.p # c.p

\* A block is as large as its caller was promised, and at the alignment it asked
\* for when that is more than 16: for malloc, calloc with its product, aligned
\* calls and realloc, in place or not, whichever backend serves them.
BlocksServe ==
    \A b \in live : b.p.kind \notin {"boot", "sig"} =>
        b.n <= b.p.size /\ (b.a > NaturalAlign => Address(b.p, b.a) % b.a = 0)

\* v8m_size_class gives the smallest class that holds the request, as the
\* comment on it says, whichever of its three formulas applies.  The table is
\* in place before the constructor runs and does not change, so the states in
\* which nothing has been called yet are enough.
SizeClassLeast ==
    state = "none" /\ calls = <<0, 0>> => \A n \in Sizes : SizeClass(n) = LeastClass(n)

\* Every aligned call returns a pointer at the alignment it was given, as
\* v8malloc.h says of the aligned-allocation family.
AlignedAsAsked ==
    \A b \in live : b.a # 0 => Address(b.p, b.a) % b.a = 0

\* v8m_realloc loses nothing of the old block that fits into the new one.  Two
\* cases are excepted, in which it takes the old block to be empty: a block of
\* the signal-safe allocator, and any block once the library is torn down.
ContentsKept ==
    \A b \in live : ~ b.whole => b.from = "sig" \/ state = "torn_down"

\* A library started with DEBUG never takes a correct program's free for a
\* double free: the ring of freed pointers has no block that a caller has,
\* although blocks are freed and reused by several threads at once.  (Changing
\* the options at run time breaks this, see SetOption.)
NoFalseAlarm ==
    ~ switched => /\ aborted # "double free"
                  /\ \A b \in live : \A i \in DOMAIN freed : freed[i] # b.p

\* A reading of the lifetime counters never exceeds what was counted, although
\* caches are unlinked and folded while it is taken.
SnapshotNeverOvercounts ==
    \A t \in Threads : call[t].pc = "read" =>
        \A k \in Lifetime : call[t].got[k] <= book.events[k]

=============================================================================
