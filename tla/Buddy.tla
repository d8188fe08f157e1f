------------------------------- MODULE Buddy --------------------------------
(***************************************************************************)
(* The buddy allocator of one arena (src/src/v8m_buddy.c) as operators on  *)
(* a buddy record.  Addresses are offsets in units of the smallest block,  *)
(* a block of level l has 2^l units, and Top is the level of the arena.    *)
(*                                                                         *)
(* The free lists are the doubly linked lists of the code: the links of a  *)
(* free block are its first two words, in the arena itself.  The words of  *)
(* a block that is on no list are Dead (the user or a later merge may have *)
(* left anything there) or Poison.                                         *)
(*                                                                         *)
(* With the use-after-free detector on (src/src/v8m_debug.c) free memory   *)
(* holds a pattern, which an allocation verifies.  `clean` has the units   *)
(* that hold it in all bytes after the link words; what the link words     *)
(* hold is in nxt and prv.                                                 *)
(***************************************************************************)
EXTENDS Integers, FiniteSets

CONSTANTS
    Top,   \* V8M_BUDDY_LEVELS - 1
    Null,
    Dead,
    Poison   \* V8M_DEBUG_POISON_BYTE, in every byte

ASSUME TopAssumption == Top \in Nat
ASSUME WordAssumption ==
    /\ {Null, Dead, Poison} \cap Int = {}
    /\ Cardinality({Null, Dead, Poison}) = 3

Levels == 0 .. Top
Addr == 0 .. 2^Top - 1

\* addr_to_index and index_to_node.
Index(a, l) == a \div 2^l
Node(i, l) == i * 2^l

\* idx ^ 1
Sibling(i) == IF i % 2 = 0 THEN i + 1 ELSE i - 1

Extent(a, l) == a .. a + 2^l - 1

-----------------------------------------------------------------------------
\* The free lists.

ListPush(b, l, a) ==
    LET h == b.head[l]
    IN  [b EXCEPT !.head[l] = a,
                  !.nxt[a] = h,
                  !.prv = [x \in Addr |-> IF x = a THEN Null
                                          ELSE IF x = h THEN a ELSE @[x]]]

ListPop(b, l) ==
    LET h == b.head[l]
        n == b.nxt[h]
    IN  [b EXCEPT !.head[l] = n,
                  !.nxt[h] = Dead,
                  !.prv = [x \in Addr |-> IF x = h THEN Dead
                                          ELSE IF x = n THEN Null ELSE @[x]]]

\* Mutant: the predecessor is not relinked.
ListRemoveHalf(b, l, a) ==
    LET p == b.prv[a]
        n == b.nxt[a]
    IN  [b EXCEPT !.head[l] = IF p = Null THEN n ELSE @,
                  !.nxt = [x \in Addr |-> IF x = a THEN Dead ELSE @[x]],
                  !.prv = [x \in Addr |-> IF x = a THEN Dead
                                          ELSE IF x = n THEN p ELSE @[x]]]

\* A block whose `prev` is NULL is taken for the head of the list.
ListRemove(b, l, a) ==
    LET p == b.prv[a]
        n == b.nxt[a]
    IN  [b EXCEPT !.head[l] = IF p = Null THEN n ELSE @,
                  !.nxt = [x \in Addr |-> IF x = a THEN Dead
                                          ELSE IF x = p THEN n ELSE @[x]],
                  !.prv = [x \in Addr |-> IF x = a THEN Dead
                                          ELSE IF x = n THEN p ELSE @[x]]]

-----------------------------------------------------------------------------
\* The use-after-free detector; uaf is what uaf_active latched.

\* v8m_debug_uaf_poison of the whole block at a.
Stamp(b, a, l, uaf) ==
    LET Words(w) == [x \in Addr |-> IF x \in Extent(a, l) THEN Poison ELSE w[x]]
    IN  IF uaf THEN [b EXCEPT !.clean = @ \cup Extent(a, l),
                              !.nxt = Words(@), !.prv = Words(@)]
               ELSE b

\* v8m_debug_uaf_verify of the block at a without its own link words.
Verifies(b, a, l) ==
    /\ Extent(a, l) \subseteq b.clean
    /\ \A x \in Extent(a, l) \ {a} : b.nxt[x] = Poison /\ b.prv[x] = Poison

\* The user may write anything into the block at a.
Scribble(b, a, l) ==
    LET Words(w) == [x \in Addr |-> IF x \in Extent(a, l) THEN Dead ELSE w[x]]
    IN  [b EXCEPT !.clean = @ \ Extent(a, l), !.nxt = Words(@), !.prv = Words(@)]

BuddyInit(uaf) ==
    LET raw == [alloc |-> [l \in Levels |-> {}],
                split |-> [l \in Levels |-> {}],
                head  |-> [l \in Levels |-> Null],
                nxt   |-> [a \in Addr |-> Dead],
                prv   |-> [a \in Addr |-> Dead],
                clean |-> {}]
    IN  ListPush(Stamp(raw, 0, Top, uaf), Top, 0)

-----------------------------------------------------------------------------
\* v8m_buddy_alloc

CanServe(b, l) == \E k \in l .. Top : b.head[k] # Null

\* The block at a, taken from level k, is split down to level l: at each
\* level the right half goes on the free list.
SplitDown(b, a, k, l) ==
    LET after[j \in l .. k] ==
            IF j = k THEN b
            ELSE LET i == Index(a, j + 1)
                 IN  ListPush([after[j + 1] EXCEPT !.split[j + 1] = @ \cup {i}],
                              j, Node(2 * i + 1, j))
    IN  after[l]

\* The level v8m_buddy_alloc takes a block from, and the block.
SourceLevel(b, l) ==
    CHOOSE k \in l .. Top : /\ b.head[k] # Null
                            /\ \A j \in l .. k - 1 : b.head[j] = Null

AllocatedNode(b, l) == b.head[SourceLevel(b, l)]

\* Up to the verification of the poison.
BuddyTake(b, l) ==
    LET k == SourceLevel(b, l)
        a == b.head[k]
    IN  [SplitDown(ListPop(b, k), a, k, l) EXCEPT !.alloc[l] = @ \cup {Index(a, l)}]

\* Whether the process is aborted for a write to freed memory.
UafAlarm(b, l, uaf) == uaf /\ ~ Verifies(BuddyTake(b, l), AllocatedNode(b, l), l)

BuddyAlloc(b, l) == Scribble(BuddyTake(b, l), AllocatedNode(b, l), l)

-----------------------------------------------------------------------------
\* Free and coalescing.

\* The sibling of block i of level l is neither allocated nor split.
IsMergeable(b, i, l) == Sibling(i) \notin b.alloc[l] \cup b.split[l]

\* The walk of v8m_buddy_coalesce_all along the list of level l, up to the first
\* block it can merge; Null when there is none.
FirstMergeable(b, l) ==
    LET walk[n \in 0 .. 2^(Top - l)] ==
            IF n = 0 THEN b.head[l]
            ELSE LET a == walk[n - 1]
                 IN  IF a \in Addr /\ ~ IsMergeable(b, Index(a, l), l) THEN b.nxt[a] ELSE a
    IN  walk[2^(Top - l)]

\* The level at which a block freed at level l ends up: its siblings are free
\* below that level.
MergedLevel(b, a, l) ==
    CHOOSE k \in l .. Top :
        /\ \A j \in l .. k - 1 : IsMergeable(b, Index(a, j), j)
        /\ k = Top \/ ~ IsMergeable(b, Index(a, k), k)

\* The siblings of the block at a below level k are taken off their lists and
\* the parents' split bits cleared.
Absorb(b, a, l, k) ==
    LET merged[j \in l .. k] ==
            IF j = l THEN b
            ELSE LET s == Node(Sibling(Index(a, j - 1)), j - 1)
                 IN  [ListRemove(merged[j - 1], j - 1, s) EXCEPT
                         !.split[j] = @ \ {Index(a, j)}]
    IN  merged[k]

\* Mutant: the poison covers the freed block and not what it merged with.
CoalesceUpwardHalfStamped(b, a, l, uaf) ==
    LET k == MergedLevel(b, a, l)
        top == Node(Index(a, k), k)
    IN  ListPush(Stamp(Absorb(b, a, l, k), a, l, uaf), k, top)

\* coalesce_upward of a block at a that is on no list.
CoalesceUpward(b, a, l, uaf) ==
    LET k == MergedLevel(b, a, l)
        top == Node(Index(a, k), k)
    IN  ListPush(Stamp(Absorb(b, a, l, k), top, k, uaf), k, top)

ClearAlloc(b, a, l) == [b EXCEPT !.alloc[l] = @ \ {Index(a, l)}]

BuddyFree(b, a, l, uaf) == CoalesceUpward(ClearAlloc(b, a, l), a, l, uaf)

BuddyFreeNoCoalesce(b, a, l, uaf) ==
    ListPush(Stamp(ClearAlloc(b, a, l), a, l, uaf), l, a)

\* v8m_buddy_block_size: the first level, from the smallest, whose bitmap
\* has the block of this address.
BlockLevel(b, a) ==
    CHOOSE l \in Levels : /\ Index(a, l) \in b.alloc[l]
                          /\ \A j \in 0 .. l - 1 : Index(a, j) \notin b.alloc[j]

IsEmpty(b) == \A l \in Levels : b.alloc[l] = {}

\* MADV_DONTNEED of the arena: the pages read as zero from here on.
DontNeed(b) ==
    LET Words(w) == [a \in Addr |-> IF w[a] \in {Dead, Poison} THEN Dead ELSE Null]
    IN  [b EXCEPT !.clean = {}, !.nxt = Words(@), !.prv = Words(@)]

-----------------------------------------------------------------------------
\* Predicates on a buddy record.

BuddyTypes ==
    [alloc : [Levels -> SUBSET Addr], split : [Levels -> SUBSET Addr],
     head : [Levels -> Addr \cup {Null}],
     nxt : [Addr -> Addr \cup {Null, Dead, Poison}],
     prv : [Addr -> Addr \cup {Null, Dead, Poison}],
     clean : SUBSET Addr]

\* Block i of level l exists: its parent is split, or it is the arena.
Exists(b, i, l) ==
    IF l = Top THEN i = 0 ELSE i < 2^(Top - l) /\ i \div 2 \in b.split[l + 1]

\* It exists and is neither allocated nor split: the code's notion of free.
IsFree(b, i, l) == Exists(b, i, l) /\ i \notin b.alloc[l] \cup b.split[l]

FreeBlocks(b, l) == {i \in 0 .. 2^(Top - l) - 1 : IsFree(b, i, l)}

\* The nodes of the free list of level l.
Listed(b, l) ==
    LET reach[n \in 0 .. 2^(Top - l)] ==
            IF n = 0 THEN {b.head[l]} \ {Null}
            ELSE LET seen == reach[n - 1]
                 IN  seen \cup ({b.nxt[x] : x \in seen} \ {Null, Dead, Poison})
    IN  reach[2^(Top - l)]

\* A block is on the free list of its level exactly when it is free, and the
\* list is well linked in both directions.
ListsIntact(b) ==
    \A l \in Levels :
        /\ Listed(b, l) = {Node(i, l) : i \in FreeBlocks(b, l)}
        /\ b.head[l] # Null => b.prv[b.head[l]] = Null
        /\ \A a \in Listed(b, l) :
              b.nxt[a] # Null => b.nxt[a] \in Addr /\ b.prv[b.nxt[a]] = a

\* No free block has a free sibling.
NothingToMerge(b, levels) ==
    \A l \in levels \ {Top} : \A i \in FreeBlocks(b, l) : ~ IsFree(b, Sibling(i), l)
=============================================================================
