----------------------------- MODULE SlabPages ------------------------------
(***************************************************************************)
(* The pages below the slab pool: where they come from (the NUMA pool of   *)
(* huge pages, src/src/v8m_numa_pool.c and src/src/v8m_huge_slab.c, with   *)
(* the page heap as a last resort) and how slots are kept in them (a       *)
(* bitmap with a search hint in a tiny page, src/src/v8m_slab_tiny.c, and  *)
(* a list linked through the free slots in a small page,                   *)
(* src/src/v8m_slab_small.c).                                              *)
(*                                                                         *)
(* Every call comes from the default slab pool, which holds its lock, so   *)
(* the operations are atomic.  Which page of a class the pool turns to is  *)
(* SlabPool's subject; here it may be any.                                 *)
(***************************************************************************)
EXTENDS Integers, FiniteSets, SequencesExt

CONSTANTS
    Nodes,        \* NUMA nodes
    Huge,         \* huge pages the page heap can provide
    Singles,      \* single pages the page heap can provide
    PerHuge,      \* V8M_HUGE_SLABS_PER_HUGE
    PageSize,     \* V8M_PAGE_SIZE
    HeaderSize,   \* V8M_SLAB_HEADER_SIZE
    TinySize,     \* object size of the tiny class
    SmallSize,    \* object size of the small class
    Words,        \* BITMAP_WORDS
    WordBits,     \* BITS_PER_WORD
    DrainedCap,   \* V8M_SLAB_DRAINED_CAP
    Null,
    Data          \* what a user has written over a link

ASSUME SlabPagesAssumption ==
    /\ {PerHuge, TinySize, SmallSize, Words, WordBits} \subseteq Nat \ {0}
    /\ {PageSize, HeaderSize, DrainedCap} \subseteq Nat
    /\ HeaderSize + TinySize <= PageSize /\ 2 * SmallSize <= PageSize
    /\ Huge \cap Singles = {}

Pages == (Huge \X (0 .. PerHuge - 1)) \cup (Singles \X {0})

VARIABLES
    mapped,    \* what the page heap has handed out
    partials,  \* node->partials, the head first
    fulls,     \* node->fulls
    alive,     \* node->huge_pages_alive
    bitmap,    \* the bitmap of each huge page's descriptor, as a set
    page,      \* what is in each page the slab pool has
    live       \* history: the offsets of the slots in use in each page

vars == <<mapped, partials, fulls, alive, bitmap, page, live>>
supply == <<mapped, partials, fulls, alive, bitmap>>

NoPage == [kind |-> "none"]
Parked == [kind |-> "parked"]

Init ==
    /\ mapped = {}
    /\ partials = [n \in Nodes |-> <<>>] /\ fulls = [n \in Nodes |-> <<>>]
    /\ alive = [n \in Nodes |-> 0]
    /\ bitmap = [h \in Huge |-> {}]
    /\ page = [p \in Pages |-> NoPage]
    /\ live = [p \in Pages |-> {}]

-----------------------------------------------------------------------------
\* The NUMA pool.  These operators give what a call makes of the pool's state.

Supply == [mapped |-> mapped, partials |-> partials, fulls |-> fulls,
           alive |-> alive, bitmap |-> bitmap]

SetSupply(s) ==
    /\ mapped' = s.mapped /\ partials' = s.partials /\ fulls' = s.fulls
    /\ alive' = s.alive /\ bitmap' = s.bitmap

Without(list, h) == SelectSeq(list, LAMBDA x : x # h)

HugeIsFull(bits) == bits = 0 .. PerHuge - 1
HugeIsEmpty(bits) == bits = {}

\* add_huge_page
AddHugePage(s, n, h) ==
    [s EXCEPT !.mapped = @ \cup {h}, !.partials[n] = <<h>> \o @,
              !.alive[n] = @ + 1, !.bitmap[h] = {}]

\* v8m_huge_slab_alloc takes the lowest clear bit.
LowestFree(bits) == Min((0 .. PerHuge - 1) \ bits)

\* v8m_numa_pool_carve_slab on a node with a partial huge page.
Carve(s, n) ==
    LET h == Head(s.partials[n])
        bits == s.bitmap[h] \cup {LowestFree(s.bitmap[h])}
        carved == [s EXCEPT !.bitmap[h] = bits]
    IN  IF HugeIsFull(bits)
          THEN [carved EXCEPT !.partials[n] = Without(@, h), !.fulls[n] = <<h>> \o @]
          ELSE carved

Carved(s, n) == LET h == Head(s.partials[n]) IN <<h, LowestFree(s.bitmap[h])>>

\* find_owning on node n.
Owns(s, n, h) == h \in Range(s.partials[n]) \cup Range(s.fulls[n])

\* v8m_huge_slab_free
ClearBit(bits, p) == bits \ {p[2]}

\* Mutant: a full huge page stays where it is when it gets room.
ReleaseSlabStays(s, n, p) ==
    LET h == p[1]
        bits == ClearBit(s.bitmap[h], p)
    IN  IF ~ HugeIsEmpty(bits) THEN [s EXCEPT !.bitmap[h] = bits]
        ELSE [s EXCEPT !.bitmap[h] = {}, !.partials[n] = Without(@, h),
                       !.alive[n] = @ - 1, !.mapped = @ \ {h}]

\* Mutant: a huge page goes when one of its pages is still carved.
ReleaseSlabEarly(s, n, p) ==
    LET h == p[1]
        bits == ClearBit(s.bitmap[h], p)
        moved == IF HugeIsFull(s.bitmap[h])
                   THEN [s EXCEPT !.fulls[n] = Without(@, h), !.partials[n] = <<h>> \o @]
                   ELSE s
    IN  IF Cardinality(bits) > 1 THEN [moved EXCEPT !.bitmap[h] = bits]
        ELSE [moved EXCEPT !.bitmap[h] = bits, !.partials[n] = Without(@, h),
                           !.alive[n] = @ - 1, !.mapped = @ \ {h}]

\* v8m_numa_pool_release_slab on the node that owns the page: a full huge page
\* becomes partial, and an empty one goes back to the page heap.
ReleaseSlab(s, n, p) ==
    LET h == p[1]
        bits == ClearBit(s.bitmap[h], p)
        moved == IF HugeIsFull(s.bitmap[h])
                   THEN [s EXCEPT !.fulls[n] = Without(@, h), !.partials[n] = <<h>> \o @]
                   ELSE s
    IN  IF ~ HugeIsEmpty(bits) THEN [moved EXCEPT !.bitmap[h] = bits]
        ELSE [moved EXCEPT !.bitmap[h] = {}, !.partials[n] = Without(@, h),
                           !.alive[n] = @ - 1, !.mapped = @ \ {h}]

\* release_slab_page_immediate: a page of no huge page is the page heap's.
ReleasePage(p) ==
    IF \E n \in Nodes : Owns(Supply, n, p[1])
      THEN \E n \in Nodes : Owns(Supply, n, p[1]) /\ SetSupply(ReleaseSlab(Supply, n, p))
      ELSE SetSupply([Supply EXCEPT !.mapped = @ \ {p[1]}])

-----------------------------------------------------------------------------
\* Tiny pages

\* v8m_slab_tiny_capacity_for
TinyCapacity == Min({(PageSize - HeaderSize) \div TinySize, Words * WordBits})

BitmapBits == 0 .. Words * WordBits - 1
Word(w) == {b \in BitmapBits : b \div WordBits = w}

\* v8m_slab_tiny_init marks the bits past the capacity as used.
TinyInit ==
    [kind |-> "tiny", used |-> 0, hint |-> 0, bits |-> {b \in BitmapBits : b >= TinyCapacity}]

\* The word v8m_slab_tiny_alloc finds room in: it looks from the hint on, then
\* from the start.
FreeWords(pg) == {w \in 0 .. Words - 1 : ~ (Word(w) \subseteq pg.bits)}

FirstWord(pg) ==
    LET after == {w \in FreeWords(pg) : w >= pg.hint}
    IN  CASE after # {} -> Min(after)
          [] after = {} /\ FreeWords(pg) # {} -> Min(FreeWords(pg))
          [] OTHER -> Null

TinyOffset(slot) == HeaderSize + slot * TinySize

\* claim_slot
ClaimSlot(pg, slot) ==
    [pg EXCEPT !.bits = @ \cup {slot}, !.hint = slot \div WordBits, !.used = @ + 1]

TinySlot(pg) == Min(Word(FirstWord(pg)) \ pg.bits)

\* v8m_slab_tiny_free: the slot is computed from the address, and the hint is
\* lowered to its word.
TinyFree(pg, offset) ==
    LET slot == (offset - HeaderSize) \div TinySize
    IN  [pg EXCEPT !.bits = @ \ {slot}, !.used = @ - 1, !.hint = Min({@, slot \div WordBits})]

-----------------------------------------------------------------------------
\* Small pages

\* Mutant: the data starts right behind the header.
SmallDataOffsetHeader == HeaderSize

\* v8m_slab_small_data_offset: the data of a class with large objects starts at a
\* multiple of their size.
SmallDataOffset == Max({SmallSize, HeaderSize})

\* v8m_slab_small_capacity_for
SmallCapacity == (PageSize - SmallDataOffset) \div SmallSize

SmallOffsets == {SmallDataOffset + i * SmallSize : i \in 0 .. SmallCapacity - 1}

\* v8m_slab_small_init: each free slot holds the address of the next one.
SmallInit ==
    [kind |-> "small", used |-> 0, head |-> Min(SmallOffsets),
     link |-> [o \in SmallOffsets |-> IF o = Max(SmallOffsets) THEN Null ELSE o + SmallSize]]

\* v8m_slab_small_alloc; from here on the link is the user's data.
SmallAlloc(pg) ==
    [pg EXCEPT !.head = pg.link[pg.head], !.link[pg.head] = Data, !.used = @ + 1]

\* Mutant: the head is not moved.
SmallFreeKeepsHead(pg, offset) == [pg EXCEPT !.link[offset] = pg.head, !.used = @ - 1]

\* v8m_slab_small_free
SmallFree(pg, offset) ==
    [pg EXCEPT !.link[offset] = pg.head, !.head = offset, !.used = @ - 1]

-----------------------------------------------------------------------------
\* slab_init_dispatch, slab_is_full_dispatch, slab_alloc_dispatch and
\* slab_free_dispatch; SlotAddress is the slot an allocation returns.
Format(kind) == IF kind = "tiny" THEN TinyInit ELSE SmallInit
PageIsFull(pg) == pg.used = IF pg.kind = "tiny" THEN TinyCapacity ELSE SmallCapacity
SlotAlloc(pg) == IF pg.kind = "tiny" THEN ClaimSlot(pg, TinySlot(pg)) ELSE SmallAlloc(pg)
SlotAddress(pg) == IF pg.kind = "tiny" THEN TinyOffset(TinySlot(pg)) ELSE pg.head
SlotFree(pg, offset) == IF pg.kind = "tiny" THEN TinyFree(pg, offset) ELSE SmallFree(pg, offset)

IsSlab(p) == page[p].kind \in {"tiny", "small"}

AllocFrom(p, pg) ==
    /\ page' = [page EXCEPT ![p] = SlotAlloc(pg)]
    /\ live' = [live EXCEPT ![p] = @ \cup {SlotAddress(pg)}]

\* acquire_fresh_page formats a page and allocates from it.  A parked page is
\* taken before any other.
AcquireParked(kind) ==
    /\ \E p \in Pages : page[p] = Parked /\ AllocFrom(p, Format(kind))
    /\ UNCHANGED supply

\* Else a page is carved on the current node n, off a new huge page if need be;
\* and when that fails the page heap gives a single page.
AcquireFresh(n, kind) ==
    /\ \A p \in Pages : page[p] # Parked
    /\ \/ /\ partials[n] # <<>>
          /\ SetSupply(Carve(Supply, n))
          /\ AllocFrom(Carved(Supply, n), Format(kind))
       \/ /\ partials[n] = <<>>
          /\ \E h \in Huge \ mapped :
                LET s == AddHugePage(Supply, n, h)
                IN  SetSupply(Carve(s, n)) /\ AllocFrom(Carved(s, n), Format(kind))
       \/ /\ partials[n] = <<>>
          /\ \E d \in Singles \ mapped :
                /\ SetSupply([Supply EXCEPT !.mapped = @ \cup {d}])
                /\ AllocFrom(<<d, 0>>, Format(kind))

AllocSlot(p) ==
    /\ IsSlab(p) /\ ~ PageIsFull(page[p])
    /\ AllocFrom(p, page[p])
    /\ UNCHANGED supply

\* v8m_slab_pool_free: a page that becomes empty is parked, or released when the
\* drained cache is full.
FreeSlot(p, offset) ==
    /\ live' = [live EXCEPT ![p] = @ \ {offset}]
    /\ LET pg == SlotFree(page[p], offset)
           room == Cardinality({q \in Pages : page[q] = Parked}) < DrainedCap
       IN  /\ page' = [page EXCEPT ![p] = CASE pg.used # 0 -> pg
                                            [] pg.used = 0 /\ room -> Parked
                                            [] OTHER -> NoPage]
           /\ IF pg.used # 0 \/ room THEN UNCHANGED supply ELSE ReleasePage(p)

\* v8m_slab_pool_sweep_idle lets go of a parked page.
Sweep(p) ==
    /\ page[p] = Parked
    /\ page' = [page EXCEPT ![p] = NoPage]
    /\ ReleasePage(p)
    /\ UNCHANGED live

Next ==
    \/ \E kind \in {"tiny", "small"} : AcquireParked(kind) \/ \E n \in Nodes : AcquireFresh(n, kind)
    \/ \E p \in Pages : AllocSlot(p) \/ Sweep(p) \/ \E o \in live[p] : FreeSlot(p, o)

Spec == Init /\ [][Next]_vars

-----------------------------------------------------------------------------
\* The fields of the pages and of the pool have the types of their structures.
TypeOK ==
    /\ mapped \subseteq Huge \cup Singles
    /\ partials \in [Nodes -> Seq(Huge)] /\ fulls \in [Nodes -> Seq(Huge)]
    /\ bitmap \in [Huge -> SUBSET (0 .. PerHuge - 1)]
    /\ alive \in [Nodes -> Nat]
    /\ \A p \in Pages :
          /\ page[p].kind \in {"none", "parked", "tiny", "small"}
          /\ page[p].kind = "tiny" =>
                page[p].hint \in 0 .. Words - 1 /\ page[p].bits \subseteq BitmapBits
          /\ page[p].kind = "small" =>
                /\ page[p].head \in SmallOffsets \cup {Null}
                /\ page[p].link \in [SmallOffsets -> SmallOffsets \cup {Null, Data}]

\* The slots a page can still hand out, by its bitmap or by a walk along its list,
\* which must end.
TinyFreeSlots(pg) == {TinyOffset(b) : b \in BitmapBits \ pg.bits}

FreeList(pg) ==
    LET walk[i \in 0 .. SmallCapacity] ==
            IF i = 0 THEN pg.head
            ELSE IF walk[i - 1] \in SmallOffsets THEN pg.link[walk[i - 1]] ELSE Null
    IN  [i \in 0 .. SmallCapacity |-> walk[i]]

SlotsOfPage(pg) ==
    IF pg.kind = "tiny" THEN {TinyOffset(b) : b \in 0 .. TinyCapacity - 1} ELSE SmallOffsets

\* After any sequence of allocations and frees the bitmap, or the list that runs
\* through the free slots, names exactly the slots that are not in use, the
\* bits past the capacity never among them; and used_count, from which the pool
\* concludes that a page is full or empty, counts those in use.
SlotsExact ==
    /\ TypeOK
    /\ \A p \in Pages : IsSlab(p) =>
           LET pg == page[p]
               free == IF pg.kind = "tiny" THEN TinyFreeSlots(pg) ELSE Range(FreeList(pg)) \ {Null}
           IN  /\ free = SlotsOfPage(pg) \ live[p]
               /\ pg.used = Cardinality(live[p])
               /\ pg.kind = "small" => FreeList(pg)[SmallCapacity] = Null

\* Slots in use lie behind the header and inside the page, and do not overlap;
\* those larger than the header are, as the comment in
\* v8m_slab_small_data_offset says, "naturally aligned".
SlotsPlaced ==
    \A p \in Pages : IsSlab(p) =>
        LET size == IF page[p].kind = "tiny" THEN TinySize ELSE SmallSize
        IN  \A o \in live[p] :
               /\ o >= HeaderSize /\ o + size <= PageSize
               /\ size > HeaderSize => o % size = 0
               /\ \A q \in live[p] : q # o => q >= o + size \/ o >= q + size

\* The page heap has not got back any memory that the slab pool still has a page
\* in, parked pages included, and the pool's bitmaps say which pages those are.
PagesBacked ==
    /\ \A p \in Pages : page[p] # NoPage => p[1] \in mapped
    /\ \A h \in Huge : bitmap[h] = {i \in 0 .. PerHuge - 1 : page[<<h, i>>] # NoPage}

\* A huge page is in one list of one node: among the partials while it has both
\* free and carved pages, among the fulls when it has no free one.  Carving from
\* the head of the partials relies on it; huge_pages_alive counts them.
ListsExact ==
    /\ \A h \in Huge :
          Cardinality({<<n, i>> \in Nodes \X (1 .. Cardinality(Huge)) :
                         i <= Len(partials[n] \o fulls[n]) /\ (partials[n] \o fulls[n])[i] = h})
            = IF h \in mapped THEN 1 ELSE 0
    /\ \A n \in Nodes :
          /\ \A h \in Range(partials[n]) : bitmap[h] # {} /\ ~ HugeIsFull(bitmap[h])
          /\ \A h \in Range(fulls[n]) : HugeIsFull(bitmap[h])
          /\ alive[n] = Len(partials[n]) + Len(fulls[n])
=============================================================================
