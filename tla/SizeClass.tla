----------------------------- MODULE SizeClass ------------------------------
(***************************************************************************)
(* Size classes (src/src/v8m_size_class.h and .c), the backend that the    *)
(* dispatcher chooses for a request (src/src/v8m_dispatch.c), the size of  *)
(* the block that backend hands out and where the block lies.  Sizes are   *)
(* in bytes and the constants are the code's own; only size_t is narrower. *)
(***************************************************************************)
EXTENDS Integers, FiniteSetsExt

CONSTANT Word                \* SIZE_MAX + 1
ASSUME WordAssumption == Word \in {2 ^ k : k \in 24 .. 29}

TinyMax == 64                \* V8M_TINY_MAX_SIZE
SmallMax == 4096             \* V8M_SMALL_MAX_SIZE
MediumFirst == 32            \* V8M_MEDIUM_FIRST_CLASS
LargeLast == 40              \* V8M_LARGE_LAST_CLASS
LargeMax == 2097152          \* V8M_LARGE_MAX_SIZE, and V8M_HUGE_PAGE_SIZE
BuddyMin == 4096             \* V8M_BUDDY_MIN_BLOCK
BuddyMax == 262144           \* V8M_BUDDY_MAX_BLOCK
HeaderSize == 2048           \* V8M_SLAB_HEADER_SIZE
PageSize == 65536            \* V8M_PAGE_SIZE
Huge == LargeLast + 1        \* V8M_CLASS_HUGE
NaturalAlign == 16           \* V8M_MALLOC_NATURAL_ALIGN

RoundUp(n, a) == ((n + a - 1) \div a) * a

-----------------------------------------------------------------------------
\* Classes

\* v8m_class_to_size, one group of the table per line.
ClassSize(c) ==
    CASE c < 8 -> 8 * (c + 1)
      [] c \in 8 .. MediumFirst - 1 -> (5 + (c % 4)) * 2 ^ (c \div 4 + 2)
      [] c >= MediumFirst -> 2 ^ (c - 19)

\* 63 - __builtin_clzl(x)
Msb(x) == CHOOSE k \in 0 .. 29 : 2 ^ k <= x /\ x < 2 ^ (k + 1)

\* Mutant: the boundary sizes fall into the class above.
SizeClassOffByOne(n) ==
    CASE n <= TinyMax -> n \div 8
      [] n > SmallMax -> LET c == MediumFirst + Msb(n) - 12
                         IN  IF c > LargeLast THEN Huge ELSE c
      [] OTHER -> LET m == Msb(n) IN 8 + 4 * (m - 6) + ((n \div 2 ^ (m - 2)) % 4)

\* v8m_size_class
SizeClass(n) ==
    CASE n <= TinyMax -> (Max({n, 1}) + 7) \div 8 - 1
      [] n > SmallMax -> LET c == MediumFirst + Msb(n - 1) - 12
                         IN  IF c > LargeLast THEN Huge ELSE c
      [] OTHER -> LET m == Msb(n - 1)
                  IN  8 + 4 * (m - 6) + (((n - 1) \div 2 ^ (m - 2)) % 4)

-----------------------------------------------------------------------------
\* Placement: the backend, and the size of the block it hands out.

Nowhere == [kind |-> "none", size |-> 0]
Slab(c) == [kind |-> "slab", size |-> ClassSize(c)]

\* v8m_buddy_alloc's level, as the size of a block of that level.
BuddyBlock(n) ==
    [kind |-> "buddy", size |-> IF n <= BuddyMin THEN BuddyMin ELSE 2 ^ (Msb(n - 1) + 1)]

\* large_alloc_with_offset, the size being what v8m_large_usable_size reports:
\* the mapping without the header in front of the object and without the guard.
LargeRegion(n, offset, align) ==
    IF n > Word - 1 - offset - align
        THEN Nowhere
        ELSE [kind |-> "large", size |-> RoundUp(offset + n, align) - offset]

\* v8m_dispatch_alloc and v8m_large_alloc, with V8M_OPT_HUGE_PAGES on as it is
\* by default.
DispatchAlloc(n) ==
    LET size == Max({n, 1})
    IN  CASE SizeClass(size) < MediumFirst -> Slab(SizeClass(size))
          [] size \in SmallMax + 1 .. BuddyMax -> BuddyBlock(size)
          [] size > BuddyMax ->
                LargeRegion(size, HeaderSize, IF size > LargeMax THEN LargeMax ELSE PageSize)

\* v8m_large_alloc_aligned
LargeAligned(a, n) ==
    CASE a <= HeaderSize -> LargeRegion(n, HeaderSize, PageSize)
      [] a > HeaderSize /\ a < PageSize -> LargeRegion(n, a, PageSize)
      [] OTHER -> Nowhere

\* Mutant: any class that is large enough is taken to be aligned enough.
AlignedFirstFit(a, n) ==
    LET effective == Max({a, n, 1})
    IN  CASE a <= NaturalAlign -> DispatchAlloc(n)
          [] a > BuddyMax -> Nowhere
          [] effective <= SmallMax -> Slab(SizeClass(effective))
          [] effective \in SmallMax + 1 .. BuddyMax -> BuddyBlock(effective)
          [] OTHER -> LargeAligned(a, n)

\* v8m_dispatch_alloc_aligned.  The slab class is the first whose size is a
\* multiple of the alignment; without one the request goes to a buddy block.
DispatchAllocAligned(a, n) ==
    LET effective == Max({a, n, 1})
        fit == IF a <= HeaderSize /\ effective <= SmallMax
                   THEN {c \in SizeClass(effective) .. MediumFirst - 1 : ClassSize(c) % a = 0}
                   ELSE {}
    IN  IF a <= NaturalAlign THEN DispatchAlloc(n)
        ELSE IF a > BuddyMax THEN Nowhere
        ELSE IF fit # {} THEN Slab(Min(fit))
        ELSE IF effective <= BuddyMax THEN BuddyBlock(effective)
        ELSE LargeAligned(a, n)

\* Where the i-th block of a kind and size lies: slots follow the header of
\* their page, which takes a whole slot where slots are larger than it; buddy
\* blocks tile an arena aligned to the largest; a large object follows its
\* header, or lies at its alignment where that is larger.
Address(p, a) ==
    CASE p.kind = "slab" -> Max({HeaderSize, p.size}) + p.i * p.size
      [] p.kind = "buddy" -> p.i * p.size
      [] p.kind = "large" -> p.i * LargeMax + Max({HeaderSize, a})
      [] OTHER -> p.i

-----------------------------------------------------------------------------
\* The sizes on which v8m_size_class is compared with its reference: every
\* slab size, and the neighbours of every power of two to beyond the last class.
Sizes == (0 .. 5000) \cup UNION {{2 ^ k - 1, 2 ^ k, 2 ^ k + 1} : k \in 12 .. 22}

\* The smallest class that holds n bytes, or V8M_CLASS_HUGE beyond the last.
LeastClass(n) ==
    LET fit == {c \in 0 .. LargeLast : ClassSize(c) >= n}
    IN  IF fit = {} THEN Huge ELSE Min(fit)
=============================================================================
