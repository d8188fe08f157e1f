------------------------------ MODULE SlabPool ------------------------------
(***************************************************************************)
(* The slab pool (src/src/v8m_slab_pool.c): per size class one `current`   *)
(* page and a list of `partials`, plus a LIFO cache of drained pages       *)
(* shared by all classes.  Full pages are on no list.                      *)
(*                                                                         *)
(* Every operation runs under pool->lock.  The two that loop, allocation   *)
(* (alloc_arena, alloc_batch) and the idle sweep, are modelled by the      *)
(* steps of their loops; `op` stands for the lock holder, and no other     *)
(* operation is enabled before it is NoOp again.                           *)
(*                                                                         *)
(* Slots are abstract: which free slot of a page is handed out is left     *)
(* open (SlabPages decides it).                                             *)
(***************************************************************************)
EXTENDS Integers, FiniteSets, Lists

CONSTANTS
    Pages,       \* V8M_PAGE_SIZE pages the page source can provide
    Classes,     \* Tiny and Small size classes
    SlotsOf,     \* [Classes -> finite sets of slots]: the capacity of a page
    DrainedCap,  \* V8M_SLAB_DRAINED_CAP
    ScanBudget,  \* V8M_PARTIALS_SCAN_BUDGET
    MaxIdle,     \* max_idle_ticks of the background sweep
    MaxTick,     \* UINT32_MAX, where the age of a drained page stops
    MaxBatch,    \* largest `max` passed to alloc_batch
    Null         \* NULL, and the class of a page without a valid header

ASSUME SlotsAssumption ==
    \A c \in Classes : IsFiniteSet(SlotsOf[c]) /\ SlotsOf[c] # {}

ASSUME BoundsAssumption ==
    /\ DrainedCap \in Nat
    /\ ScanBudget \in Nat \ {0}
    /\ MaxTick \in Nat
    /\ MaxIdle \in 0 .. MaxTick
    /\ MaxBatch \in Nat \ {0}

ASSUME NullAssumption == Null \notin Pages /\ Null \notin Classes

VARIABLES
    source,    \* pages held by the NUMA pool or the page heap
    class,     \* page header: size_class, Null when no header is valid
    used,      \* slots of the page that are handed out
    current,   \* pool->classes[c].current
    partials,  \* pool->classes[c].partials, head first
    drained,   \* pool->drained / drained_idle, most recently parked last
    op         \* the loop that holds the lock, or NoOp

vars == <<source, class, used, current, partials, drained, op>>

NoOp == [kind |-> "none"]

AllSlots == UNION {SlotsOf[c] : c \in Classes}

Init ==
    /\ source = Pages
    /\ class = [p \in Pages |-> Null]
    /\ used = [p \in Pages |-> {}]
    /\ current = [c \in Classes |-> Null]
    /\ partials = [c \in Classes |-> <<>>]
    /\ drained = <<>>
    /\ op = NoOp

-----------------------------------------------------------------------------
\* The page operations of v8m_slab_tiny.c and v8m_slab_small.c.

IsFull(p) == used[p] = SlotsOf[class[p]]

\* slab_alloc_dispatch on a page that is not full.
TakeSlot(p) ==
    \E s \in SlotsOf[class[p]] \ used[p] :
        used' = [used EXCEPT ![p] = @ \cup {s}]

-----------------------------------------------------------------------------
\* Allocation.

Allocating(c) == op.kind = "alloc" /\ op.cls = c

\* One object was obtained: alloc_batch goes on until it has `max`.
Delivered ==
    op' = IF op.left = 1 THEN NoOp ELSE [op EXCEPT !.left = @ - 1]

\* alloc_arena is the call with n = 1.
AllocBatch(c, n) ==
    /\ op = NoOp
    /\ op' = [kind |-> "alloc", cls |-> c, left |-> n]
    /\ UNCHANGED <<source, class, used, current, partials, drained>>

\* A full current page is dropped: full pages are on no list.
TryCurrent(c) ==
    /\ Allocating(c)
    /\ current[c] # Null
    /\ \/ /\ IsFull(current[c])
          /\ current' = [current EXCEPT ![c] = Null]
          /\ UNCHANGED <<used, op>>
       \/ /\ ~ IsFull(current[c])
          /\ TakeSlot(current[c])
          /\ Delivered
          /\ UNCHANGED current
    /\ UNCHANGED <<source, class, partials, drained>>

\* Entry i is the last of the most utilised among the first ScanBudget partials.
BestPartial(c, i) ==
    LET scanned == {j \in DOMAIN partials[c] : j <= ScanBudget}
        count(j) == Cardinality(used[partials[c][j]])
    IN  /\ i \in scanned
        /\ \A j \in scanned : /\ count(j) <= count(i)
                              /\ count(j) = count(i) => j <= i

\* A full page met among the partials is dropped and the scan repeated.
TryPartials(c) ==
    /\ Allocating(c)
    /\ current[c] = Null
    /\ \E i \in DOMAIN partials[c] :
          /\ BestPartial(c, i)
          /\ partials' = [partials EXCEPT ![c] = Cut(@, i)]
          /\ LET page == partials[c][i]
             IN  IF IsFull(page)
                   THEN UNCHANGED <<used, current, op>>
                   ELSE /\ current' = [current EXCEPT ![c] = page]
                        /\ TakeSlot(page)
                        /\ Delivered
    /\ UNCHANGED <<source, class, drained>>

\* slab_init_dispatch, install as current, and the first object of the page.
InstallFresh(c, p) ==
    /\ class' = [class EXCEPT ![p] = c]
    /\ \E s \in SlotsOf[c] : used' = [used EXCEPT ![p] = {s}]
    /\ current' = [current EXCEPT ![c] = p]
    /\ Delivered

\* acquire_slab_page: the drained cache first, then the source, which may
\* fail; alloc_batch then returns what it has.
AcquireFreshPage(c) ==
    /\ Allocating(c)
    /\ current[c] = Null
    /\ partials[c] = <<>>
    /\ \/ /\ drained # <<>>
          /\ InstallFresh(c, drained[Len(drained)].page)
          /\ drained' = Cut(drained, Len(drained))
          /\ UNCHANGED source
       \/ /\ drained = <<>>
          /\ \E p \in source :
                /\ InstallFresh(c, p)
                /\ source' = source \ {p}
          /\ UNCHANGED drained
       \/ /\ drained = <<>>
          /\ op' = NoOp
          /\ UNCHANGED <<source, class, used, current, drained>>
    /\ UNCHANGED partials

-----------------------------------------------------------------------------
\* Free.

\* The walk over the partials unlinks the first occurrence, if there is one.
UnlinkFromClass(c, p) ==
    IF current[c] = p
      THEN /\ current' = [current EXCEPT ![c] = Null]
           /\ UNCHANGED partials
      ELSE /\ IF p \in Range(partials[c])
                THEN \E i \in DOMAIN partials[c] :
                        /\ partials[c][i] = p
                        /\ \A j \in 1 .. i - 1 : partials[c][j] # p
                        /\ partials' = [partials EXCEPT ![c] = Cut(@, i)]
                ELSE UNCHANGED partials
           /\ UNCHANGED current

\* drained_push (whose MADV_DONTNEED also wipes the page header), or
\* release_slab_page_immediate when the cache is full.
ReleaseSlabPage(p) ==
    /\ class' = [class EXCEPT ![p] = Null]
    /\ IF Len(drained) < DrainedCap
         THEN /\ drained' = Append(drained, [page |-> p, idle |-> 0])
              /\ UNCHANGED source
         ELSE /\ source' = source \cup {p}
              /\ UNCHANGED drained

\* Mutant: no `cls->current != meta` guard on the full -> partial move.
FreeUnguarded(p, s) ==
    /\ op = NoOp
    /\ s \in used[p]
    /\ LET c == class[p]
       IN  /\ used' = [used EXCEPT ![p] = @ \ {s}]
           /\ \/ used[p] = {s} /\ UnlinkFromClass(c, p) /\ ReleaseSlabPage(p)
              \/ /\ used[p] # {s}
                 /\ partials' = IF IsFull(p)
                                  THEN [partials EXCEPT ![c] = <<p>> \o @]
                                  ELSE partials
                 /\ UNCHANGED <<source, class, current, drained>>
    /\ UNCHANGED op

\* Mutant: was_full is computed after the slot has been freed.
FreeForgetsFull(p, s) ==
    /\ op = NoOp
    /\ s \in used[p]
    /\ used' = [used EXCEPT ![p] = @ \ {s}]
    /\ \/ used[p] = {s} /\ UnlinkFromClass(class[p], p) /\ ReleaseSlabPage(p)
       \/ used[p] # {s} /\ UNCHANGED <<source, class, current, partials, drained>>
    /\ UNCHANGED op

Free(p, s) ==
    /\ op = NoOp
    /\ s \in used[p]
    /\ LET c == class[p]
           was_full == IsFull(p)
           became_empty == used[p] = {s}
       IN  /\ used' = [used EXCEPT ![p] = @ \ {s}]
           /\ \/ became_empty /\ UnlinkFromClass(c, p) /\ ReleaseSlabPage(p)
              \/ /\ ~ became_empty
                 /\ partials' = IF was_full /\ current[c] # p
                                  THEN [partials EXCEPT ![c] = <<p>> \o @]
                                  ELSE partials
                 /\ UNCHANGED <<source, class, current, drained>>
    /\ UNCHANGED op

-----------------------------------------------------------------------------
\* The drained cache.

\* v8m_slab_pool_sweep_idle; purge_drained is the call with m = 0.
SweepIdle(m) ==
    /\ op = NoOp
    /\ op' = [kind |-> "sweep", max |-> m, read |-> 1, write |-> 1]
    /\ UNCHANGED <<source, class, used, current, partials, drained>>

\* The age of the entry the sweep reads; it stops at UINT32_MAX.
Ticks ==
    LET idle == drained[op.read].idle
    IN  IF idle < MaxTick THEN idle + 1 ELSE idle

\* Mutant: the kept entry gets its new age at `write` but is not copied down.
SweepEntryInPlace ==
    /\ op.kind = "sweep"
    /\ op.read <= Len(drained)
    /\ \/ /\ Ticks >= op.max
          /\ source' = source \cup {drained[op.read].page}
          /\ op' = [op EXCEPT !.read = @ + 1]
          /\ UNCHANGED drained
       \/ /\ Ticks < op.max
          /\ drained' = [drained EXCEPT ![op.write].idle = Ticks]
          /\ op' = [op EXCEPT !.read = @ + 1, !.write = @ + 1]
          /\ UNCHANGED source
    /\ UNCHANGED <<class, used, current, partials>>

\* Mutant: the incremented tick is not stored.
SweepEntryNoTick ==
    /\ op.kind = "sweep"
    /\ op.read <= Len(drained)
    /\ \/ /\ Ticks >= op.max
          /\ source' = source \cup {drained[op.read].page}
          /\ op' = [op EXCEPT !.read = @ + 1]
          /\ UNCHANGED drained
       \/ /\ Ticks < op.max
          /\ drained' = [drained EXCEPT ![op.write] = drained[op.read]]
          /\ op' = [op EXCEPT !.read = @ + 1, !.write = @ + 1]
          /\ UNCHANGED source
    /\ UNCHANGED <<class, used, current, partials>>

\* One iteration of the sweep: a matured entry is released, another one is
\* copied down to `write` with its new age.
SweepEntry ==
    /\ op.kind = "sweep"
    /\ op.read <= Len(drained)
    /\ \/ /\ Ticks >= op.max
          /\ source' = source \cup {drained[op.read].page}
          /\ op' = [op EXCEPT !.read = @ + 1]
          /\ UNCHANGED drained
       \/ /\ Ticks < op.max
          /\ drained' = [drained EXCEPT ![op.write] =
                            [page |-> drained[op.read].page, idle |-> Ticks]]
          /\ op' = [op EXCEPT !.read = @ + 1, !.write = @ + 1]
          /\ UNCHANGED source
    /\ UNCHANGED <<class, used, current, partials>>

\* The entries from `write` on are cleared and the count becomes `write`.
SweepDone ==
    /\ op.kind = "sweep"
    /\ op.read > Len(drained)
    /\ drained' = SubSeq(drained, 1, op.write - 1)
    /\ op' = NoOp
    /\ UNCHANGED <<source, class, used, current, partials>>

Next ==
    \/ \E c \in Classes :
          \/ \E n \in 1 .. MaxBatch : AllocBatch(c, n)
          \/ TryCurrent(c)
          \/ TryPartials(c)
          \/ AcquireFreshPage(c)
    \/ \E p \in Pages : \E s \in AllSlots : Free(p, s)
    \/ \E m \in {0, MaxIdle} : SweepIdle(m)
    \/ SweepEntry
    \/ SweepDone

Spec == Init /\ [][Next]_vars

\* The lock holder runs on, and the background thread that calls sweep_idle
\* at every tick does obtain the lock in the end.
Fairness ==
    /\ \A c \in Classes : WF_vars(TryCurrent(c) \/ TryPartials(c) \/ AcquireFreshPage(c))
    /\ WF_vars(SweepEntry \/ SweepDone)
    /\ SF_vars(SweepIdle(MaxIdle))

FairSpec == Spec /\ Fairness

-----------------------------------------------------------------------------
\* Properties.

\* The entries of the drained cache: while a sweep is at work, the ones it
\* has kept and the ones it has not read.
Entries ==
    {i \in DOMAIN drained : op.kind = "sweep" => i < op.write \/ i >= op.read}

Parked == {drained[i].page : i \in Entries}

OpTypes ==
    {NoOp} \cup [kind : {"alloc"}, cls : Classes, left : 1 .. MaxBatch]
           \cup [kind : {"sweep"}, max : Nat, read : Nat \ {0}, write : Nat \ {0}]

\* The types of the variables; the slots in use are slots of the page's class.
TypeOK ==
    /\ source \in SUBSET Pages
    /\ class \in [Pages -> Classes \cup {Null}]
    /\ used \in [Pages -> SUBSET AllSlots]
    /\ \A p \in Pages : class[p] # Null => used[p] \subseteq SlotsOf[class[p]]
    /\ current \in [Classes -> Pages \cup {Null}]
    /\ partials \in [Classes -> Seq(Pages)]
    /\ drained \in Seq([page : Pages, idle : Nat]) /\ Len(drained) <= DrainedCap
    /\ op \in OpTypes

\* A page is in exactly one place: with the source, parked in the drained
\* cache (once), or in use, and in use means that a slot of it is handed
\* out.  So no page is lost, released twice, or taken away under a live
\* object (the release decision of v8m_slab_pool_free, the two ways out of
\* the drained cache, and the compaction of the sweep at each of its steps).
PagesPartitioned ==
    /\ \A i, j \in Entries : drained[i].page = drained[j].page => i = j
    /\ \A p \in Pages :
          /\ class[p] = Null <=> p \in source \cup Parked
          /\ class[p] = Null <=> used[p] = {}
          /\ p \notin source \cap Parked

\* `current` and `partials` never hold a page of another class, a released
\* page, or a page twice, and a page among the partials has a free slot:
\* the dangling entry that the `cls->current != meta` guard of
\* v8m_slab_pool_free is there to prevent.
ListsSound ==
    /\ TypeOK
    /\ \A c \in Classes :
           /\ current[c] # Null => class[current[c]] = c
           /\ \A i \in DOMAIN partials[c] :
                 /\ class[partials[c][i]] = c
                 /\ ~ IsFull(partials[c][i])
                 /\ partials[c][i] # current[c]
                 /\ \A j \in DOMAIN partials[c] :
                       partials[c][i] = partials[c][j] => i = j

\* A page in use with a free slot is reachable from its class, so that its
\* free slots can be allocated again: the full -> partial transition of
\* v8m_slab_pool_free leaves no page stranded.
NoStrandedPage ==
    \A p \in Pages :
        class[p] # Null /\ ~ IsFull(p) =>
            p = current[class[p]] \/ p \in Range(partials[class[p]])

\* Every parked page is reused or handed back to its source in the end, as
\* long as the background ticks go on (v8m_slab_pool_sweep_idle).
ParkedPageLeaves ==
    \A p \in Pages : p \in Parked ~> p \notin Parked
=============================================================================
