----------------------------- MODULE SeqLemmas ------------------------------
(***************************************************************************)
(* Facts about sequences without repetitions, for the lists, stacks and    *)
(* chains of the allocator.                                                *)
(***************************************************************************)
EXTENDS Lists, SequenceTheorems, TLAPS

\* Prepending a chain to a stack with other nodes (push_batch) repeats none.
LEMMA ConcatInjective ==
    ASSUME NEW S, NEW s \in Seq(S), NEW r \in Seq(S),
           IsInjective(s), IsInjective(r), Range(s) \cap Range(r) = {}
    PROVE  /\ s \o r \in Seq(S)
           /\ IsInjective(s \o r)
           /\ Range(s \o r) = Range(s) \cup Range(r)
<1>1. /\ s \o r \in Seq(S)
      /\ Range(s \o r) = Range(s) \cup Range(r)
  BY ConcatProperties, RangeConcatenation
<1>2. IsInjective(s \o r)
  <2> DEFINE m == Len(s)
             n == Len(r)
             q == s \o r
  <2>1. /\ m \in Nat /\ n \in Nat
        /\ DOMAIN s = 1 .. m /\ DOMAIN r = 1 .. n /\ DOMAIN q = 1 .. m + n
        /\ \A i \in 1 .. m + n : q[i] = IF i <= m THEN s[i] ELSE r[i - m]
    BY ConcatProperties, LenProperties
  <2>2. \A i \in 1 .. m, j \in 1 .. n : s[i] # r[j]
    BY <2>1 DEF Range
  <2> HIDE DEF m, n, q
  <2>3. ASSUME NEW i \in 1 .. m + n, NEW j \in 1 .. m + n, q[i] = q[j]
        PROVE  i = j
    <3>1. CASE i <= m /\ j <= m
      BY <2>1, <2>3, <3>1 DEF IsInjective
    <3>2. CASE i > m /\ j > m
      <4>1. i - m \in 1 .. n /\ j - m \in 1 .. n /\ r[i - m] = r[j - m]
        BY <2>1, <2>3, <3>2
      <4>2. i - m = j - m
        BY <2>1, <4>1 DEF IsInjective
      <4>3. QED
        BY <2>1, <4>2
    <3>3. CASE i <= m /\ j > m
      BY <2>1, <2>2, <2>3, <3>3
    <3>4. CASE i > m /\ j <= m
      BY <2>1, <2>2, <2>3, <3>4
    <3>5. QED
      BY <2>1, <3>1, <3>2, <3>3, <3>4
  <2>4. QED
    BY <2>1, <2>3 DEF IsInjective, q
<1>3. QED
  BY <1>1, <1>2

\* Taking the top node off a stack (pop) leaves the others in order.
LEMMA PopTop ==
    ASSUME NEW S, NEW s \in Seq(S), s # <<>>, IsInjective(s)
    PROVE  LET r == SubSeq(s, 2, Len(s))
           IN  /\ r \in Seq(S)
               /\ Len(r) = Len(s) - 1
               /\ \A i \in 1 .. Len(r) : r[i] = s[i + 1]
               /\ IsInjective(r)
               /\ Range(r) = Range(s) \ {s[1]}
               /\ s[1] \in Range(s)
<1> DEFINE r == SubSeq(s, 2, Len(s))
<1>1. Len(s) \in Nat \ {0} /\ DOMAIN s = 1 .. Len(s)
  BY LenProperties, EmptySeq
<1>2. \A i \in 2 .. Len(s) : s[i] \in S
  BY <1>1, ElementOfSeq
<1>3. /\ r \in Seq(S)
      /\ Len(r) = Len(s) - 1
      /\ \A i \in 1 .. Len(r) : r[i] = s[i + 1]
  BY <1>1, <1>2, SubSeqProperties
<1>4. DOMAIN r = 1 .. Len(r)
  BY <1>3, LenProperties
<1>5. IsInjective(r)
  BY <1>1, <1>3, <1>4 DEF IsInjective
<1>6. Range(r) = Range(s) \ {s[1]}
  <2>1. ASSUME NEW x \in Range(r) PROVE x \in Range(s) /\ x # s[1]
    BY <1>1, <1>3, <1>4 DEF Range, IsInjective
  <2>2. ASSUME NEW x \in Range(s), x # s[1] PROVE x \in Range(r)
    <3>1. PICK i \in 1 .. Len(s) : x = s[i]
      BY <1>1 DEF Range
    <3>2. i - 1 \in 1 .. Len(r) /\ r[i - 1] = x
      BY <1>1, <1>3, <2>2, <3>1
    <3>3. QED
      BY <1>4, <3>2 DEF Range
  <2>3. QED
    BY <2>1, <2>2
<1>7. s[1] \in Range(s)
  BY <1>1 DEF Range
<1>8. QED
  BY <1>3, <1>5, <1>6, <1>7

\* Appending a claimed node to the popped chain.
LEMMA AppendNew ==
    ASSUME NEW S, NEW s \in Seq(S), IsInjective(s), NEW e \in S, e \notin Range(s)
    PROVE  /\ Append(s, e) \in Seq(S)
           /\ IsInjective(Append(s, e))
           /\ Range(Append(s, e)) = Range(s) \cup {e}
<1> DEFINE r == Append(s, e)
<1>1. /\ r \in Seq(S)
      /\ DOMAIN s = 1 .. Len(s)
      /\ DOMAIN r = 1 .. Len(s) + 1
      /\ Len(s) \in Nat
      /\ \A i \in 1 .. Len(s) : r[i] = s[i]
      /\ r[Len(s) + 1] = e
  BY AppendProperties, LenProperties
<1> HIDE DEF r
<1>2. IsInjective(r)
  BY <1>1 DEF IsInjective, Range
<1>3. Range(r) = Range(s) \cup {e}
  BY <1>1 DEF Range
<1>4. QED
  BY <1>1, <1>2, <1>3 DEF r

\* A list that an entry is unlinked from keeps the others in order.
LEMMA CutElements ==
    ASSUME NEW S, NEW s \in Seq(S), NEW i \in 1 .. Len(s)
    PROVE  LET r == Cut(s, i)
           IN  /\ r \in Seq(S)
               /\ Len(r) = Len(s) - 1
               /\ DOMAIN r = 1 .. Len(s) - 1
               /\ \A j \in 1 .. Len(r) : r[j] = IF j < i THEN s[j] ELSE s[j + 1]
<1> DEFINE a == SubSeq(s, 1, i - 1)
           b == SubSeq(s, i + 1, Len(s))
           r == a \o b
<1>1. Len(s) \in Nat /\ \A j \in 1 .. Len(s) : s[j] \in S
  BY LenProperties, ElementOfSeq
<1>2. /\ a \in Seq(S)
      /\ Len(a) = i - 1
      /\ \A j \in 1 .. i - 1 : a[j] = s[j]
  <2>1. \A j \in 1 .. i - 1 : s[j] \in S
    BY <1>1
  <2>2. QED
    BY <1>1, <2>1, SubSeqProperties
<1>3. /\ b \in Seq(S)
      /\ Len(b) = Len(s) - i
      /\ \A j \in 1 .. Len(s) - i : b[j] = s[j + i]
  <2>1. \A j \in i + 1 .. Len(s) : s[j] \in S
    BY <1>1
  <2>2. QED
    BY <1>1, <2>1, SubSeqProperties
<1> HIDE DEF a, b
<1>4. /\ r \in Seq(S)
      /\ Len(r) = Len(a) + Len(b)
      /\ \A j \in 1 .. Len(a) + Len(b) : r[j] = IF j <= Len(a) THEN a[j] ELSE b[j - Len(a)]
  BY <1>2, <1>3, ConcatProperties
<1>5. DOMAIN r = 1 .. Len(r)
  BY <1>4, LenProperties
<1> HIDE DEF r
<1>6. Len(r) = Len(s) - 1
  BY <1>1, <1>2, <1>3, <1>4
<1>7. ASSUME NEW j \in 1 .. Len(r)
      PROVE  r[j] = IF j < i THEN s[j] ELSE s[j + 1]
  <2>1. CASE j < i
    BY <1>1, <1>2, <1>3, <1>4, <1>6, <2>1
  <2>2. CASE ~ (j < i)
    <3>1. j - (i - 1) \in 1 .. Len(s) - i /\ j - (i - 1) + i = j + 1
      BY <1>1, <1>6, <2>2
    <3>2. QED
      BY <1>1, <1>2, <1>3, <1>4, <1>6, <2>2, <3>1
  <2>3. QED
    BY <2>1, <2>2
<1>8. QED
  BY <1>4, <1>5, <1>6, <1>7 DEF r, a, b, Cut

\* A sorted array that an entry is shifted into.
LEMMA InsertElements ==
    ASSUME NEW S, NEW s \in Seq(S), NEW i \in 1 .. Len(s) + 1, NEW e \in S
    PROVE  LET r == Insert(s, i, e)
           IN  /\ r \in Seq(S)
               /\ Len(r) = Len(s) + 1
               /\ DOMAIN r = 1 .. Len(s) + 1
               /\ \A j \in 1 .. Len(r) :
                     r[j] = IF j < i THEN s[j] ELSE IF j = i THEN e ELSE s[j - 1]
<1> DEFINE a == SubSeq(s, 1, i - 1)
           b == SubSeq(s, i, Len(s))
           one == <<e>>
           c == a \o one
           r == c \o b
<1>1. Len(s) \in Nat /\ \A j \in 1 .. Len(s) : s[j] \in S
  BY LenProperties, ElementOfSeq
<1>2. /\ a \in Seq(S)
      /\ Len(a) = i - 1
      /\ \A j \in 1 .. i - 1 : a[j] = s[j]
  <2>1. \A j \in 1 .. i - 1 : s[j] \in S
    BY <1>1
  <2>2. QED
    BY <1>1, <2>1, SubSeqProperties
<1>3. /\ b \in Seq(S)
      /\ Len(b) = (Len(s) - i) + 1
      /\ \A j \in 1 .. (Len(s) - i) + 1 : b[j] = s[(j + i) - 1]
  <2>1. \A j \in i .. Len(s) : s[j] \in S
    BY <1>1
  <2>2. QED
    BY <1>1, <2>1, SubSeqProperties
<1>4. one \in Seq(S) /\ Len(one) = 1 /\ one[1] = e
  OBVIOUS
<1> HIDE DEF a, b, one
<1>5. /\ c \in Seq(S)
      /\ Len(c) = Len(a) + Len(one)
      /\ \A j \in 1 .. Len(a) + Len(one) : c[j] = IF j <= Len(a) THEN a[j] ELSE one[j - Len(a)]
  BY <1>2, <1>4, ConcatProperties
<1> HIDE DEF c
<1>6. Len(c) = i /\ c[i] = e /\ \A j \in 1 .. i - 1 : c[j] = s[j]
  <2>1. Len(c) = i /\ i \in 1 .. Len(a) + Len(one) /\ i - Len(a) = 1 /\ ~ (i <= Len(a))
    BY <1>1, <1>2, <1>4, <1>5
  <2>2. c[i] = e
    BY <1>4, <1>5, <2>1
  <2>3. \A j \in 1 .. i - 1 : c[j] = s[j]
    BY <1>1, <1>2, <1>4, <1>5
  <2>4. QED
    BY <2>1, <2>2, <2>3
<1>7. /\ r \in Seq(S)
      /\ Len(r) = Len(c) + Len(b)
      /\ \A j \in 1 .. Len(c) + Len(b) : r[j] = IF j <= Len(c) THEN c[j] ELSE b[j - Len(c)]
  <2>1. b \in Seq(S) /\ c \in Seq(S)
    BY <1>3, <1>5
  <2>2. QED
    BY <2>1, ConcatProperties
<1>8. DOMAIN r = 1 .. Len(r)
  BY <1>7, LenProperties
<1> HIDE DEF r
<1>9. Len(r) = Len(s) + 1
  BY <1>1, <1>3, <1>6, <1>7
<1>10. ASSUME NEW j \in 1 .. Len(r)
       PROVE  r[j] = IF j < i THEN s[j] ELSE IF j = i THEN e ELSE s[j - 1]
  <2>1. CASE j <= i
    BY <1>1, <1>3, <1>6, <1>7, <1>9, <2>1
  <2>2. CASE ~ (j <= i)
    <3>1. j - i \in 1 .. (Len(s) - i) + 1 /\ ((j - i) + i) - 1 = j - 1
      BY <1>1, <1>9, <2>2
    <3>2. r[j] = b[j - i]
      BY <1>1, <1>3, <1>6, <1>7, <1>9, <2>2
    <3>3. b[j - i] = s[((j - i) + i) - 1]
      BY <1>3, <3>1
    <3>4. j \in Int /\ i \in Int /\ ~ (j < i) /\ j # i
      BY <1>1, <1>9, <2>2
    <3>5. QED
      BY <3>1, <3>2, <3>3, <3>4
  <2>3. QED
    BY <2>1, <2>2
<1>11. QED
  BY <1>7, <1>8, <1>9, <1>10 DEF r, c, one, a, b, Insert

\* A list without repetitions that an entry is unlinked from loses just that entry.
LEMMA CutInjective ==
    ASSUME NEW S, NEW s \in Seq(S), IsInjective(s), NEW i \in 1 .. Len(s)
    PROVE  /\ Cut(s, i) \in Seq(S)
           /\ IsInjective(Cut(s, i))
           /\ Range(Cut(s, i)) = Range(s) \ {s[i]}
<1> DEFINE r == Cut(s, i)
<1>1. /\ r \in Seq(S)
      /\ Len(r) = Len(s) - 1
      /\ DOMAIN r = 1 .. Len(s) - 1
      /\ \A j \in 1 .. Len(s) - 1 : r[j] = IF j < i THEN s[j] ELSE s[j + 1]
  BY CutElements
<1>2. Len(s) \in Nat /\ DOMAIN s = 1 .. Len(s)
  BY LenProperties
<1> HIDE DEF r
<1>3. ASSUME NEW j \in 1 .. Len(s) - 1
      PROVE  LET k == IF j < i THEN j ELSE j + 1
             IN  k \in 1 .. Len(s) /\ k # i /\ r[j] = s[k]
  BY <1>1, <1>2
<1>4. IsInjective(r)
  <2>1. ASSUME NEW j \in 1 .. Len(s) - 1, NEW k \in 1 .. Len(s) - 1, r[j] = r[k]
        PROVE  j = k
    <3> DEFINE jj == IF j < i THEN j ELSE j + 1
               kk == IF k < i THEN k ELSE k + 1
    <3>1. jj \in 1 .. Len(s) /\ kk \in 1 .. Len(s) /\ s[jj] = s[kk]
      BY <1>3, <2>1
    <3>2. jj = kk
      <4> HIDE DEF jj, kk
      <4> QED
        BY <1>2, <3>1 DEF IsInjective
    <3>3. QED
      BY <1>2, <3>2
  <2>2. QED
    BY <1>1, <2>1 DEF IsInjective
<1>5. ASSUME NEW x \in Range(r) PROVE x \in Range(s) /\ x # s[i]
  <2>1. PICK j \in 1 .. Len(s) - 1 : x = r[j]
    BY <1>1 DEF Range
  <2>2. PICK k \in 1 .. Len(s) : k # i /\ x = s[k]
    BY <1>3, <2>1
  <2>3. QED
    BY <1>2, <2>2 DEF Range, IsInjective
<1>6. ASSUME NEW x \in Range(s), x # s[i] PROVE x \in Range(r)
  <2>1. PICK k \in 1 .. Len(s) : x = s[k]
    BY <1>2 DEF Range
  <2>2. PICK j \in 1 .. Len(s) - 1 : k = IF j < i THEN j ELSE j + 1
    <3>1. CASE k < i
      BY <1>2, <3>1
    <3>2. CASE k > i
      <4>1. k - 1 \in 1 .. Len(s) - 1 /\ ~ (k - 1 < i) /\ (k - 1) + 1 = k
        BY <1>2, <3>2
      <4>2. QED
        BY <4>1
    <3>3. k # i
      BY <1>6, <2>1
    <3>4. QED
      BY <3>1, <3>2, <3>3
  <2>3. r[j] = x
    BY <1>3, <2>1, <2>2
  <2>4. QED
    BY <1>1, <2>3 DEF Range
<1>7. QED
  BY <1>1, <1>4, <1>5, <1>6 DEF r

\* Linking an entry at the head of a list.
LEMMA ConsNew ==
    ASSUME NEW S, NEW s \in Seq(S), IsInjective(s), NEW e \in S, e \notin Range(s)
    PROVE  /\ <<e>> \o s \in Seq(S)
           /\ IsInjective(<<e>> \o s)
           /\ Range(<<e>> \o s) = {e} \cup Range(s)
<1> DEFINE one == <<e>>
<1>1. one \in Seq(S) /\ IsInjective(one) /\ Range(one) = {e}
  BY DEF IsInjective, Range
<1> HIDE DEF one
<1>2. Range(one) \cap Range(s) = {}
  BY <1>1
<1>3. one \o s \in Seq(S) /\ IsInjective(one \o s) /\ Range(one \o s) = Range(one) \cup Range(s)
  BY <1>1, <1>2, ConcatInjective
<1>4. QED
  BY <1>1, <1>3 DEF one

\* A list cut in two: the batch that an overflow takes off a bin.
LEMMA SplitElements ==
    ASSUME NEW S, NEW s \in Seq(S), IsInjective(s), NEW i \in 0 .. Len(s)
    PROVE  LET a == SubSeq(s, 1, i)
               b == SubSeq(s, i + 1, Len(s))
           IN  /\ a \in Seq(S) /\ Len(a) = i /\ IsInjective(a)
               /\ b \in Seq(S) /\ Len(b) = Len(s) - i /\ IsInjective(b)
               /\ Range(a) \cap Range(b) = {}
               /\ Range(a) \cup Range(b) = Range(s)
<1> DEFINE a == SubSeq(s, 1, i)
           b == SubSeq(s, i + 1, Len(s))
<1>1. Len(s) \in Nat /\ DOMAIN s = 1 .. Len(s) /\ \A j \in 1 .. Len(s) : s[j] \in S
  BY LenProperties, ElementOfSeq
<1>2. a \in Seq(S) /\ Len(a) = i /\ \A j \in 1 .. i : a[j] = s[j]
  <2>1. 1 \in Int /\ i \in Int /\ \A j \in 1 .. i : s[j] \in S
    BY <1>1
  <2>2. /\ a \in Seq(S)
        /\ Len(a) = IF 1 <= i THEN i - 1 + 1 ELSE 0
        /\ \A j \in 1 .. i - 1 + 1 : a[j] = s[1 + j - 1]
    BY <2>1, SubSeqProperties
  <2> HIDE DEF a
  <2>3. QED
    BY <1>1, <2>2
<1>3. b \in Seq(S) /\ Len(b) = Len(s) - i /\ \A j \in 1 .. Len(s) - i : b[j] = s[i + j]
  <2>1. i + 1 \in Int /\ Len(s) \in Int /\ \A j \in i + 1 .. Len(s) : s[j] \in S
    BY <1>1
  <2>2. /\ b \in Seq(S)
        /\ Len(b) = IF i + 1 <= Len(s) THEN Len(s) - (i + 1) + 1 ELSE 0
        /\ \A j \in 1 .. Len(s) - (i + 1) + 1 : b[j] = s[(i + 1) + j - 1]
    BY <2>1, SubSeqProperties
  <2> HIDE DEF b
  <2>3. Len(b) = Len(s) - i
    <3>1. Len(s) \in Int /\ i \in Int /\ i <= Len(s)
      BY <1>1
    <3>2. QED
      BY <2>2, <3>1
  <2>4. ASSUME NEW j \in 1 .. Len(s) - i PROVE b[j] = s[i + j]
    <3>1. j \in 1 .. Len(s) - (i + 1) + 1 /\ (i + 1) + j - 1 = i + j
      BY <1>1
    <3>2. b[j] = s[(i + 1) + j - 1]
      BY <2>2, <3>1
    <3>3. QED
      BY <3>1, <3>2
  <2>5. QED
    BY <2>2, <2>3, <2>4
<1>4. DOMAIN a = 1 .. i /\ DOMAIN b = 1 .. Len(s) - i
  BY <1>2, <1>3, LenProperties
<1> HIDE DEF a, b
<1>5. IsInjective(a)
  BY <1>1, <1>2, <1>4 DEF IsInjective
<1>6. IsInjective(b)
  <2>1. ASSUME NEW j \in DOMAIN b, NEW k \in DOMAIN b, b[j] = b[k]
        PROVE  j = k
    <3>1. /\ j \in Int /\ k \in Int /\ i + j \in DOMAIN s /\ i + k \in DOMAIN s
          /\ s[i + j] = s[i + k]
      BY <1>1, <1>3, <1>4, <2>1
    <3>2. i + j = i + k
      BY <3>1 DEF IsInjective
    <3>3. QED
      BY <3>1, <3>2
  <2>2. QED
    BY <2>1 DEF IsInjective
<1>7. Range(a) \cap Range(b) = {}
  <2>1. ASSUME NEW j \in 1 .. i, NEW k \in 1 .. Len(s) - i
        PROVE  a[j] # b[k]
    <3>1. j \in DOMAIN s /\ i + k \in DOMAIN s /\ j # i + k
      BY <1>1
    <3>2. s[j] # s[i + k]
      BY <3>1 DEF IsInjective
    <3>3. QED
      BY <1>2, <1>3, <3>2
  <2>2. QED
    BY <1>4, <2>1 DEF Range
<1>8. Range(a) \cup Range(b) = Range(s)
  <2>1. ASSUME NEW x \in Range(a) \cup Range(b) PROVE x \in Range(s)
    <3>1. CASE x \in Range(a)
      BY <1>1, <1>2, <1>4, <3>1 DEF Range
    <3>2. CASE x \in Range(b)
      <4>1. PICK j \in 1 .. Len(s) - i : x = b[j]
        BY <1>4, <3>2 DEF Range
      <4>2. i + j \in 1 .. Len(s) /\ x = s[i + j]
        BY <1>1, <1>3, <4>1
      <4>3. QED
        BY <1>1, <4>2 DEF Range
    <3>3. QED
      BY <2>1, <3>1, <3>2
  <2>2. ASSUME NEW x \in Range(s) PROVE x \in Range(a) \cup Range(b)
    <3>1. PICK j \in 1 .. Len(s) : x = s[j]
      BY <1>1 DEF Range
    <3>2. CASE j <= i
      BY <1>2, <1>4, <3>1, <3>2 DEF Range
    <3>3. CASE j > i
      <4>1. j - i \in 1 .. Len(s) - i /\ i + (j - i) = j
        BY <1>1, <3>3
      <4>2. b[j - i] = x
        BY <1>3, <3>1, <4>1
      <4>3. QED
        BY <1>4, <4>1, <4>2 DEF Range
    <3>4. QED
      BY <1>1, <3>2, <3>3
  <2>3. QED
    BY <2>1, <2>2
<1>9. QED
  BY <1>2, <1>3, <1>5, <1>6, <1>7, <1>8 DEF a, b
=============================================================================
