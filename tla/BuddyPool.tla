----------------------------- MODULE BuddyPool ------------------------------
(***************************************************************************)
(* The buddy pool (src/src/v8m_buddy_pool.c): a fixed array of slots, each *)
(* with an arena from the page heap while it is in use.  An arena that has *)
(* drained keeps its slot and its bookkeeping but gives its frames back    *)
(* (MADV_DONTNEED), until it is revived or the idle sweep releases it.     *)
(*                                                                         *)
(* Every operation runs under pool->lock.  The coalescing sweep of a       *)
(* failed deferred-mode allocation is modelled by its merges, with `op`    *)
(* for the lock holder; the other operations are single steps.             *)
(***************************************************************************)
EXTENDS Buddy

CONSTANTS
    NumSlots,  \* V8M_BUDDY_POOL_MAX_ARENAS
    Deferred,  \* values V8M_OPT_DEFERRED_COALESCE takes at run time
    Debug,     \* values V8M_OPT_DEBUG takes at run time
    MaxIdle    \* max_idle_ticks of the background sweep

ASSUME PoolAssumption ==
    /\ NumSlots \in Nat \ {0}
    /\ Deferred \subseteq BOOLEAN
    /\ Debug \subseteq BOOLEAN
    /\ MaxIdle \in Nat \ {0}

VARIABLES
    arena,   \* the buddy record of each slot; BuddyInit when not in use
    in_use,
    drained,
    idle,    \* idle_ticks
    op,      \* the coalescing sweep that holds the lock, or NoOp
    live,    \* history: the blocks in the users' hands
    uaf,     \* g_uaf_active: latched from V8M_OPT_DEBUG before any arena exists
    torn,    \* history: the slots whose frames went back while still split
    zeroed   \* history: the slots whose frames went back under the detector

vars == <<arena, in_use, drained, idle, op, live, uaf, torn, zeroed>>

Slots == 1 .. NumSlots
NoOp == [kind |-> "none"]

\* The use-after-free detector has aborted the process at an allocation.
Aborted(s) == [kind |-> "aborted", slot |-> s]

Init ==
    /\ uaf \in Debug
    /\ arena = [s \in Slots |-> BuddyInit(uaf)]
    /\ in_use = [s \in Slots |-> FALSE]
    /\ drained = [s \in Slots |-> FALSE]
    /\ idle = [s \in Slots |-> 0]
    /\ op = NoOp
    /\ live = {}
    /\ torn = {}
    /\ zeroed = {}

-----------------------------------------------------------------------------
\* Allocation of a block of level l.

Servable(l) == {s \in Slots : in_use[s] /\ CanServe(arena[s], l)}

First(S) == CHOOSE s \in S : \A t \in S : s <= t

\* v8m_buddy_alloc on buddy b, installed in slot s, and the release of the
\* lock; or the abort of the process.
Deliver(s, b, l) ==
    IF UafAlarm(b, l, uaf)
      THEN op' = Aborted(s) /\ UNCHANGED <<arena, in_use, drained, idle, live>>
      ELSE /\ op' = NoOp
           /\ arena' = [arena EXCEPT ![s] = BuddyAlloc(b, l)]
           /\ in_use' = [in_use EXCEPT ![s] = TRUE]
           /\ drained' = [drained EXCEPT ![s] = FALSE]
           /\ idle' = [idle EXCEPT ![s] = 0]
           /\ live' = live \cup
                 {[slot |-> s, addr |-> AllocatedNode(b, l), level |-> l]}

TryExistingArenas(l) ==
    /\ Servable(l) # {}
    /\ Deliver(First(Servable(l)), arena[First(Servable(l))], l)
    /\ UNCHANGED <<uaf, torn, zeroed>>

AcquireFreshArena(l) ==
    /\ \E s \in Slots : ~ in_use[s]
    /\ Deliver(First({s \in Slots : ~ in_use[s]}), BuddyInit(uaf), l)
    /\ UNCHANGED <<uaf, torn, zeroed>>

\* The sweep is at the first slot in use from s on, or past the last slot.
SweepFrom(s, l, merged) ==
    [kind |-> "coalesce", want |-> l, level |-> 0, merged |-> merged,
     slot |-> First({u \in s .. NumSlots : in_use[u]} \cup {NumSlots + 1})]

Alloc(l) ==
    /\ op = NoOp
    /\ \/ TryExistingArenas(l)
       \/ Servable(l) = {} /\ AcquireFreshArena(l)
       \/ \* no slot is left, or the page heap fails
          /\ Servable(l) = {}
          /\ \E deferred \in Deferred :
                op' = IF deferred THEN SweepFrom(1, l, FALSE) ELSE NoOp
          /\ UNCHANGED <<arena, in_use, drained, idle, live, uaf, torn, zeroed>>

-----------------------------------------------------------------------------
\* The coalescing sweep.

Coalescing == op.kind = "coalesce" /\ op.slot \in Slots

\* The node at which the walk along the list of the level stops to merge.
Found == IF Coalescing THEN FirstMergeable(arena[op.slot], op.level) ELSE Null

MergeFound ==
    LET a == Found
    IN  arena' = [arena EXCEPT ![op.slot] =
                     CoalesceUpward(ListRemove(@, op.level, a), a, op.level, uaf)]

\* Mutant: the level is left after one merge.
CoalesceMergeOnce ==
    /\ Found # Null
    /\ MergeFound
    /\ op' = IF op.level + 1 < Top THEN [op EXCEPT !.level = @ + 1, !.merged = TRUE]
                                   ELSE SweepFrom(op.slot + 1, op.want, TRUE)
    /\ UNCHANGED <<in_use, drained, idle, live, uaf, torn, zeroed>>

\* Merge the node with its free sibling and restart the level.
CoalesceMerge ==
    /\ Found # Null
    /\ MergeFound
    /\ op' = [op EXCEPT !.merged = TRUE]
    /\ UNCHANGED <<in_use, drained, idle, live, uaf, torn, zeroed>>

\* End of a level, or of the arena after the last level but one.
CoalesceLevel ==
    /\ Coalescing /\ Found = Null
    /\ op' = IF op.level + 1 < Top THEN [op EXCEPT !.level = @ + 1]
                                   ELSE SweepFrom(op.slot + 1, op.want, op.merged)
    /\ UNCHANGED <<arena, in_use, drained, idle, live, uaf, torn, zeroed>>

\* After any merge the in-use arenas are tried again.
CoalesceRetry ==
    /\ op.kind = "coalesce" /\ op.slot \notin Slots
    /\ IF op.merged /\ Servable(op.want) # {}
         THEN TryExistingArenas(op.want)
         ELSE /\ op' = NoOp
              /\ UNCHANGED <<arena, in_use, drained, idle, live, uaf, torn, zeroed>>

-----------------------------------------------------------------------------
\* What the free of the block at a makes of arena b; V8M_OPT_DEFERRED_COALESCE is
\* read at this moment.
Freed(b, a) ==
    LET l == BlockLevel(b, a)
    IN  {IF deferred THEN BuddyFreeNoCoalesce(b, a, l, uaf) ELSE BuddyFree(b, a, l, uaf) :
            deferred \in Deferred}

\* The frames of an arena that has drained go back, unless V8M_OPT_DEBUG says
\* at this moment that the poison is needed.
FramesGo(b) == {IsEmpty(b) /\ ~ debug : debug \in Debug}

\* v8m_buddy_pool_free of a block the user holds.
Free(x) ==
    /\ op = NoOp
    /\ \E b \in Freed(arena[x.slot], x.addr) : \E go \in FramesGo(b) :
          LET s == x.slot
          IN  /\ arena' = [arena EXCEPT ![s] = IF go THEN DontNeed(b) ELSE b]
              /\ drained' = [drained EXCEPT ![s] = @ \/ IsEmpty(b)]
              /\ idle' = [idle EXCEPT ![s] = IF IsEmpty(b) THEN 0 ELSE @]
              /\ torn' = torn \cup {t \in {s} : go /\ ~ NothingToMerge(b, Levels)}
              /\ zeroed' = zeroed \cup {t \in {s} : go /\ uaf}
    /\ live' = live \ {x}
    /\ UNCHANGED <<in_use, op, uaf>>

\* Mutant: the sweep does not ask whether the arena has drained.
IdleSlotsUndrained == {s \in Slots : in_use[s]}

IdleSlots == {s \in Slots : in_use[s] /\ drained[s]}

\* v8m_buddy_pool_sweep_idle: every drained arena ages, and the matured ones
\* go back to the page heap.  purge_drained is the call with m = 0.
SweepIdle(m) ==
    /\ op = NoOp
    /\ LET gone == {s \in IdleSlots : idle[s] + 1 >= m}
       IN  /\ in_use' = [s \in Slots |-> in_use[s] /\ s \notin gone]
           /\ drained' = [s \in Slots |-> drained[s] /\ s \notin gone]
           /\ idle' = [s \in Slots |-> CASE s \in gone -> 0
                                         [] s \in IdleSlots \ gone -> idle[s] + 1
                                         [] OTHER -> idle[s]]
           /\ torn' = torn \ gone
           /\ zeroed' = zeroed \ gone
           /\ arena' = [s \in Slots |-> IF s \in gone THEN BuddyInit(uaf) ELSE arena[s]]
    /\ UNCHANGED <<op, live, uaf>>

\* After abort() the process takes no step.
Over == op.kind = "aborted" /\ UNCHANGED vars

Next ==
    \/ \E l \in Levels : Alloc(l)
    \/ CoalesceMerge
    \/ CoalesceLevel
    \/ CoalesceRetry
    \/ \E x \in live : Free(x)
    \/ \E m \in {0, MaxIdle} : SweepIdle(m)
    \/ Over

Spec == Init /\ [][Next]_vars

-----------------------------------------------------------------------------
\* Properties.

\* The types of the variables; an arena is released on its MaxIdle-th idle tick,
\* so that no idle count reaches it.
TypeOK ==
    /\ arena \in [Slots -> BuddyTypes]
    /\ in_use \in [Slots -> BOOLEAN]
    /\ drained \in [Slots -> BOOLEAN]
    /\ idle \in [Slots -> 0 .. MaxIdle - 1]
    /\ live \subseteq [slot : Slots, addr : Addr, level : Levels]
    /\ op.kind \in {"none", "coalesce", "aborted"}
    /\ uaf \in BOOLEAN
    /\ torn \subseteq Slots /\ zeroed \subseteq Slots

\* Two blocks in the users' hands never overlap, a block in the users' hands
\* lies in an arena that is in use and not drained, and
\* v8m_buddy_block_size, which v8m_buddy_pool_free relies on, finds its size.
LiveBlocksDisjoint ==
    \A x \in live :
        /\ in_use[x.slot] /\ ~ drained[x.slot]
        /\ Index(x.addr, x.level) \in arena[x.slot].alloc[x.level]
        /\ BlockLevel(arena[x.slot], x.addr) = x.level
        /\ \A y \in live :
              x # y /\ x.slot = y.slot =>
                  Extent(x.addr, x.level) \cap Extent(y.addr, y.level) = {}

\* The bitmaps, the free lists and the users' blocks tell the same story:
\* every unit of an arena is in a block on a free list or in a block some
\* user holds, and never in both.  (try_existing_arenas: "the buddy
\* bookkeeping stayed intact".)  An arena that lost its frames while its
\* free blocks were still split is the exception.
BookkeepingIntact ==
    /\ TypeOK
    /\ \A s \in Slots \ torn :
           in_use[s] =>
               /\ ListsIntact(arena[s])
               /\ Addr = UNION ({Extent(Node(i, l), l) : <<i, l>> \in
                                   {p \in Addr \X Levels : IsFree(arena[s], p[1], p[2])}}
                                \cup {Extent(x.addr, x.level) : x \in {y \in live : y.slot = s}})

\* v8m_buddy_coalesce_all: one bottom-up pass merges everything that can be
\* merged, in the levels and arenas the sweep has left behind.  An arena that
\* lost its frames while split is excepted: MADV_DONTNEED wiped its free lists.
OnePassMergesAll ==
    op.kind = "coalesce" =>
        \A s \in Slots :
            in_use[s] /\ s \notin torn =>
                /\ s < op.slot => NothingToMerge(arena[s], Levels)
                /\ s = op.slot => NothingToMerge(arena[s], 0 .. op.level - 1)

\* The use-after-free detector accuses no program that leaves freed memory
\* alone: what v8m_buddy_alloc verifies was stamped by v8m_buddy_init or by a
\* free, whatever has been split and merged since.  The exception is an arena
\* whose frames went back: v8m_buddy_pool_free asks V8M_OPT_DEBUG, which can
\* be switched off at run time, and not the latch of the detector.
NoFalseUseAfterFree ==
    op.kind = "aborted" => op.slot \in zeroed
=============================================================================
