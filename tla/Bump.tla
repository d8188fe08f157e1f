-------------------------------- MODULE Bump --------------------------------
(***************************************************************************)
(* The bump-pointer primitive of src/src/v8m_bump.c behind the bootstrap   *)
(* and the signal-safe allocator.  The offset is a size_t that a fetch-add *)
(* moves before the bound is checked, so it also moves when the request is *)
(* refused; it never moves back.                                           *)
(***************************************************************************)
EXTENDS SizeClass

BumpAlign == 16                  \* V8M_BOOTSTRAP_ALIGN, V8M_SIGNAL_SAFE_ALIGN
BootSize == 4 * PageSize         \* V8M_BOOTSTRAP_SIZE
SigSize == PageSize              \* V8M_SIGNAL_SAFE_SIZE

Refused == -1

\* The rounded request at the width of size_t; nothing is rounded to nothing,
\* and then takes one unit.
Aligned(n) ==
    LET up == (((n + BumpAlign - 1) % Word) \div BumpAlign) * BumpAlign
    IN  IF up = 0 THEN BumpAlign ELSE up

\* Mutant: the room that is left is computed without looking whether the
\* offset has passed the end.
BoundedByRoom(size, offset, n) ==
    IF Aligned(n) > (size - offset) % Word THEN Refused ELSE offset

\* What the bound check behind the fetch-add lets through.
Bounded(size, offset, n) ==
    IF offset > size \/ Aligned(n) > size - offset THEN Refused ELSE offset

\* v8m_bump_alloc: the place of the block, or Refused, and the offset after it.
BumpAlloc(size, offset, n) ==
    IF n > size
        THEN [at |-> Refused, offset |-> offset]
        ELSE [at |-> Bounded(size, offset, n), offset |-> (offset + Aligned(n)) % Word]

\* v8m_bump_remaining for a pointer into the buffer: v8m_bump_owns is the
\* kind of the pointer.
BumpRemaining(size, at) == size - at

=============================================================================
