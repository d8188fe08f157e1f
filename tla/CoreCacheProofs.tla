-------------------------- MODULE CoreCacheProofs ---------------------------
(***************************************************************************)
(* Proofs about CoreCache, for any number of threads, CPUs, nodes and tags *)
(* and any batch length.                                                   *)
(***************************************************************************)
EXTENDS CoreCache, SeqLemmas


-----------------------------------------------------------------------------
\* The inductive invariant.

\* What the program counter says about the chain and the observation.
Control ==
    \A t \in Threads :
        /\ pc[t] = "idle" => chain[t] = <<>>
        /\ pc[t] \in {"push", "pushcas"} => Len(chain[t]) \in 1 .. MaxBatch
        /\ pc[t] \in {"load", "pop", "popcas"} => want[t] # 0
        /\ pc[t] = "popcas" => old[t].ptr # Null

\* The chain being pushed is linked, its tail to the observed head.
ChainsLinked ==
    \A t \in Threads :
        pc[t] \in {"push", "pushcas"} =>
            /\ \A i \in 1 .. Len(chain[t]) - 1 : link[chain[t][i]] = chain[t][i + 1]
            /\ pc[t] = "pushcas" => link[chain[t][Len(chain[t])]] = old[t].ptr

IInv ==
    /\ TypeOK
    /\ Control
    /\ ObservationsFresh
    /\ ChainsLinked
    /\ StacksLinked
    /\ NodesPartitioned

\* Every stack is empty at first (init_steal_hints runs before any push), so the
\* invariant holds.
LEMMA InitIInv == Init => IInv
<1> SUFFICES ASSUME Init PROVE IInv
  OBVIOUS
<1> USE TagAssumption, BatchAssumption, NullAssumption
<1>1. TypeOK
  BY EmptySeq DEF Init, TypeOK, Heads, NoHead
<1>2. Control
  BY DEF Init, Control
<1>3. ObservationsFresh
  BY DEF Init, ObservationsFresh, Watching
<1>4. ChainsLinked
  BY DEF Init, ChainsLinked
<1>5. StacksLinked
  BY DEF Init, StacksLinked, NoHead
<1>6. NodesPartitioned
  BY DEF Init, NodesPartitioned, Held, Range, IsInjective
<1>7. QED
  BY <1>1, <1>2, <1>3, <1>4, <1>5, <1>6 DEF IInv

\* A compare-and-swap on a head word keeps its type: the tag stays in its field.
LEMMA SwapType ==
    ASSUME TypeOK, NEW t \in Threads, NEW v \in Nodes \cup {Null}, SwapHead(t, v)
    PROVE  head' \in [Cpus -> Heads] /\ age' \in [Threads -> 0 .. TagMod - 1]
<1> USE TagAssumption
<1>1. cpu[t] \in Cpus /\ old[t].tag \in 0 .. TagMod - 1
  BY DEF TypeOK, Heads
<1>2. (old[t].tag + 1) % TagMod \in 0 .. TagMod - 1
  BY <1>1
<1>3. [ptr |-> v, tag |-> (old[t].tag + 1) % TagMod] \in Heads
  BY <1>2 DEF Heads
<1>4. head' \in [Cpus -> Heads]
  BY <1>1, <1>3 DEF SwapHead, TypeOK
<1>5. age' \in [Threads -> 0 .. TagMod - 1]
  <2>1. ASSUME NEW u \in Threads PROVE age'[u] \in 0 .. TagMod - 1
    BY DEF SwapHead, NoTagWrap, TypeOK
  <2>2. QED
    BY <2>1 DEF SwapHead
<1>6. QED
  BY <1>4, <1>5

\* Every step of push, pop and the batches keeps the types and the control state.
LEMMA TypeStep == IInv /\ [Next]_vars => TypeOK' /\ Control'
<1> SUFFICES ASSUME IInv, [Next]_vars PROVE TypeOK' /\ Control'
  OBVIOUS
<1> USE TagAssumption, BatchAssumption, NullAssumption
<1>0. TypeOK /\ Control
  BY DEF IInv
<1>1. ASSUME NEW t \in Threads, NEW n \in Nodes, Get(t, n) \/ Put(t, n)
      PROVE  TypeOK' /\ Control'
  <2>1. mapped' \in SUBSET Nodes
    BY <1>0, <1>1 DEF Get, Put, TypeOK
  <2>2. own' \in [Threads -> SUBSET Nodes]
    <3>1. own[t] \cup {n} \in SUBSET Nodes /\ own[t] \ {n} \in SUBSET Nodes
      BY <1>0 DEF TypeOK
    <3>2. QED
      BY <1>0, <1>1, <3>1 DEF Get, Put, TypeOK
  <2>3. TypeOK'
    BY <1>0, <1>1, <2>1, <2>2 DEF Get, Put, TypeOK
  <2>4. Control'
    BY <1>0, <1>1 DEF Get, Put, Control
  <2>5. QED
    BY <2>3, <2>4
<1>2. ASSUME NEW t \in Threads, NEW k \in Cpus, NEW m \in 1 .. MaxBatch,
             NEW c \in [1 .. m -> own[t]], PushBatch(t, k, c)
      PROVE  TypeOK' /\ Control'
  <2>1. c \in Seq(Nodes) /\ Len(c) = m /\ DOMAIN c = 1 .. m
    BY <1>0 DEF TypeOK
  <2>2. LinkChain(c) \in [Nodes -> Nodes \cup {Null, Payload}]
    <3>1. ASSUME NEW n \in Nodes PROVE LinkChain(c)[n] \in Nodes \cup {Null, Payload}
      <4>1. CASE \E i \in 1 .. m - 1 : c[i] = n
        <5> DEFINE j == CHOOSE i \in 1 .. m - 1 : c[i] = n
        <5>1. j \in 1 .. m - 1
          BY <4>1
        <5>2. c[j + 1] \in Nodes
          BY <1>0, <5>1 DEF TypeOK
        <5>3. QED
          BY <2>1, <4>1, <5>2 DEF LinkChain
      <4>2. CASE ~ \E i \in 1 .. m - 1 : c[i] = n
        BY <1>0, <2>1, <4>2 DEF LinkChain, TypeOK
      <4>3. QED
        BY <4>1, <4>2
    <3>2. QED
      BY <3>1 DEF LinkChain
  <2>3. QED
    BY <1>0, <1>2, <2>1, <2>2 DEF PushBatch, TypeOK, Control
<1>3. ASSUME NEW t \in Threads, NEW k \in Cpus, NEW m \in 1 .. MaxBatch,
             PopBatch(t, k, m)
      PROVE  TypeOK' /\ Control'
  BY <1>0, <1>3 DEF PopBatch, shared, TypeOK, Control
<1>4. ASSUME NEW t \in Threads, PushLink(t)
      PROVE  TypeOK' /\ Control'
  BY <1>0, <1>4 DEF PushLink, TypeOK, Control, Heads
<1>5. ASSUME NEW t \in Threads, PushSwap(t)
      PROVE  TypeOK' /\ Control'
  <2>1. chain[t] \o stk[cpu[t]] \in Seq(Nodes)
    BY <1>0, ConcatProperties DEF TypeOK
  <2>2. chain[t][1] \in Nodes
    BY <1>0, <1>5, ElementOfSeq DEF PushSwap, TypeOK, Control
  <2>3. head' \in [Cpus -> Heads] /\ age' \in [Threads -> 0 .. TagMod - 1]
    BY <1>0, <1>5, <2>2, SwapType DEF PushSwap
  <2>4. /\ stk' \in [Cpus -> Seq(Nodes)]
        /\ chain' \in [Threads -> Seq(Nodes)]
        /\ pc' \in [Threads -> {"idle", "push", "pushcas", "load", "pop", "popcas"}]
    BY <1>0, <1>5, <2>1, EmptySeq DEF PushSwap, TypeOK
  <2>5. TypeOK'
    BY <1>0, <1>5, <2>3, <2>4 DEF PushSwap, TypeOK
  <2>6. Control'
    BY <1>0, <1>5 DEF PushSwap, SwapHead, TypeOK, Control
  <2>7. QED
    BY <2>5, <2>6
<1>6. ASSUME NEW t \in Threads, PushRetry(t) \/ PopLoad(t) \/ PopRetry(t)
      PROVE  TypeOK' /\ Control'
  <2>1. /\ old' \in [Threads -> Heads]
        /\ age' \in [Threads -> 0 .. TagMod - 1]
        /\ pc' \in [Threads -> {"idle", "push", "pushcas", "load", "pop", "popcas"}]
    <3>1. Observe(t) /\ \E w \in {"push", "pop"} : pc' = [pc EXCEPT ![t] = w]
      BY <1>6 DEF PushRetry, PopLoad, PopRetry, RetryAt
    <3>2. QED
      BY <1>0, <3>1 DEF Observe, TypeOK
  <2>2. next' \in [Threads -> Nodes \cup {Null}]
    BY <1>0, <1>6 DEF PushRetry, PopLoad, PopRetry, TypeOK
  <2>3. TypeOK'
    BY <1>0, <1>6, <2>1, <2>2 DEF PushRetry, PopLoad, PopRetry, shared, TypeOK
  <2>4. Control'
    BY ZenonT(40), <1>0, <1>6
       DEF PushRetry, PopLoad, PopRetry, RetryAt, Observe, TypeOK, Control
  <2>5. QED
    BY <2>3, <2>4
<1>7. ASSUME NEW t \in Threads, PopRead(t)
      PROVE  TypeOK' /\ Control'
  <2>1. old[t].ptr \in Nodes
    BY <1>0, <1>7 DEF PopRead, TypeOK, Heads
  <2>2. next' \in [Threads -> Nodes \cup {Null}]
    BY <1>0, <1>7, <2>1 DEF PopRead, TypeOK
  <2>3. TypeOK'
    BY <1>0, <1>7, <2>2 DEF PopRead, shared, TypeOK
  <2>4. Control'
    BY <1>0, <1>7 DEF PopRead, shared, TypeOK, Control
  <2>5. QED
    BY <2>3, <2>4
<1>8. ASSUME NEW t \in Threads, PopEmpty(t)
      PROVE  TypeOK' /\ Control'
  <2>1. Range(chain[t]) \subseteq Nodes
    BY <1>0, RangeOfSeq DEF TypeOK
  <2>2. TypeOK'
    BY <1>0, <1>8, <2>1, EmptySeq DEF PopEmpty, Deliver, TypeOK
  <2>3. Control'
    BY <1>0, <1>8 DEF PopEmpty, Deliver, TypeOK, Control
  <2>4. QED
    BY <2>2, <2>3
<1>9. ASSUME NEW t \in Threads, PopSwap(t)
      PROVE  TypeOK' /\ Control'
  <2> DEFINE c == Append(chain[t], old[t].ptr)
  <2>1. old[t].ptr \in Nodes
    BY <1>0, <1>9 DEF PopSwap, TypeOK, Control, Heads
  <2>2. c \in Seq(Nodes) /\ Range(c) \subseteq Nodes
    <3>1. c \in Seq(Nodes)
      BY <1>0, <2>1, AppendProperties DEF TypeOK
    <3>2. QED
      BY <3>1, RangeOfSeq
  <2>3. SubSeq(stk[cpu[t]], 2, Len(stk[cpu[t]])) \in Seq(Nodes)
    BY <1>0, SubSeqProperties, ElementOfSeq, LenProperties DEF TypeOK
  <2>4. chain[t] # <<>> => chain[t][Len(chain[t])] \in Nodes
    BY <1>0, ElementOfSeq, EmptySeq, LenProperties DEF TypeOK
  <2>5. /\ head' \in [Cpus -> Heads] /\ age' \in [Threads -> 0 .. TagMod - 1]
        /\ stk' \in [Cpus -> Seq(Nodes)] /\ next' \in [Threads -> Nodes \cup {Null}]
    <3>1. next[t] \in Nodes \cup {Null}
      BY <1>0 DEF TypeOK
    <3>2. head' \in [Cpus -> Heads] /\ age' \in [Threads -> 0 .. TagMod - 1]
      BY <1>0, <1>9, <3>1, SwapType DEF PopSwap
    <3>3. stk' \in [Cpus -> Seq(Nodes)] /\ next' \in [Threads -> Nodes \cup {Null}]
      BY <1>0, <1>9, <2>3 DEF PopSwap, TypeOK
    <3>4. QED
      BY <3>2, <3>3
  <2> HIDE DEF c
  <2>6. CASE want[t] = 1 /\ Deliver(t, c)
    <3>1. TypeOK'
      BY <1>0, <1>9, <2>2, <2>5, <2>6, EmptySeq DEF PopSwap, Deliver, TypeOK
    <3>2. Control'
      BY <1>0, <1>9, <2>6 DEF PopSwap, SwapHead, Deliver, TypeOK, Control
    <3>3. QED
      BY <3>1, <3>2
  <2>7. CASE /\ want[t] > 1
             /\ want' = [want EXCEPT ![t] = @ - 1]
             /\ chain' = [chain EXCEPT ![t] = c]
             /\ link' = IF chain[t] = <<>> THEN link
                        ELSE [link EXCEPT ![chain[t][Len(chain[t])]] = old[t].ptr]
             /\ pc' = [pc EXCEPT ![t] = "load"]
             /\ UNCHANGED own
    <3>1. TypeOK'
      <4>1. link' \in [Nodes -> Nodes \cup {Null, Payload}]
        BY <1>0, <2>1, <2>4, <2>7 DEF TypeOK
      <4>2. chain' \in [Threads -> Seq(Nodes)]
        BY <1>0, <2>2, <2>7 DEF TypeOK
      <4>3. want' \in [Threads -> 0 .. MaxBatch]
        BY <1>0, <2>7 DEF TypeOK
      <4>4. /\ pc' \in [Threads -> {"idle", "push", "pushcas", "load", "pop", "popcas"}]
            /\ own' \in [Threads -> SUBSET Nodes]
        BY <1>0, <2>7 DEF TypeOK
      <4>5. UNCHANGED <<mapped, cpu, old>>
        BY <1>9 DEF PopSwap
      <4>6. QED
        BY <1>0, <2>5, <4>1, <4>2, <4>3, <4>4, <4>5 DEF TypeOK
    <3>2. Control'
      BY <1>0, <1>9, <2>7 DEF PopSwap, SwapHead, TypeOK, Control
    <3>3. QED
      BY <3>1, <3>2
  <2>8. QED
    BY <1>9, <2>6, <2>7 DEF PopSwap, c
<1>10. CASE UNCHANGED vars
  BY <1>0, <1>10 DEF vars, shared, locals, TypeOK, Control
<1>11. QED
  BY <1>1, <1>2, <1>3, <1>4, <1>5, <1>6, <1>7, <1>8, <1>9, <1>10 DEF Next, Act, Step

\* Tags that differ by less than TagMod are equal only if they do not differ.
LEMMA TagSum ==
    ASSUME NEW M \in Nat \ {0}, NEW a \in 0 .. M - 1, NEW b \in 0 .. M - 1
    PROVE  (a + b) % M = IF a + b < M THEN a + b ELSE a + b - M
OBVIOUS

\* The tag that v8m_tagptr_make packs next differs from the current one.
LEMMA TagNext ==
    ASSUME NEW M \in Nat \ {0, 1}, NEW a \in 0 .. M - 1, NEW b \in 0 .. M - 1,
           b + 1 < M
    PROVE  (((a + b) % M) + 1) % M = (a + (b + 1)) % M
OBVIOUS

\* The tag of a head that has just been observed.
LEMMA TagUnmoved ==
    ASSUME NEW M \in Nat \ {0, 1}, NEW a \in 0 .. M - 1
    PROVE  (a + 0) % M = a
OBVIOUS

\* A compare-and-swap succeeds only on a head that has not moved since it was
\* observed: the tag rules out that the same pointer has come back.
LEMMA SwapFresh ==
    ASSUME IInv, NEW t \in Threads, pc[t] \in {"pushcas", "popcas"},
           head[cpu[t]] = old[t]
    PROVE  age[t] = 0
<1>1. /\ old[t].tag \in 0 .. TagMod - 1
      /\ age[t] \in 0 .. TagMod - 1
      /\ TagMod \in Nat \ {0}
  BY TagAssumption DEF IInv, TypeOK, Heads
<1>2. old[t].tag = (old[t].tag + age[t]) % TagMod
  BY DEF IInv, ObservationsFresh, Watching
<1>3. old[t].tag + age[t] = old[t].tag \/ old[t].tag + age[t] - TagMod = old[t].tag
  BY <1>1, <1>2, TagSum
<1>4. QED
  BY <1>1, <1>3

\* So a successful pop takes the top node, and installs its successor.
LEMMA PopTakesTop ==
    ASSUME IInv, NEW t \in Threads, PopSwap(t)
    PROVE  LET k == cpu[t]
           IN  /\ k \in Cpus
               /\ stk[k] \in Seq(Nodes) /\ stk[k] # <<>>
               /\ old[t].ptr = stk[k][1]
               /\ old[t].ptr \in Nodes
               /\ next[t] = IF Len(stk[k]) = 1 THEN Null ELSE stk[k][2]
<1> DEFINE k == cpu[t]
<1>1. k \in Cpus /\ stk[k] \in Seq(Nodes)
  BY DEF IInv, TypeOK
<1>2. pc[t] = "popcas" /\ head[k] = old[t] /\ old[t].ptr # Null
  BY DEF IInv, PopSwap, SwapHead, Control
<1>3. age[t] = 0
  BY <1>2, SwapFresh
<1>4. next[t] = link[old[t].ptr]
  BY <1>2, <1>3 DEF IInv, ObservationsFresh, Watching
<1>5. stk[k] # <<>> /\ old[t].ptr = stk[k][1]
  BY <1>1, <1>2 DEF IInv, StacksLinked
<1>6. Len(stk[k]) \in Nat \ {0} /\ DOMAIN stk[k] = 1 .. Len(stk[k])
  BY <1>1, <1>5, EmptySeq, LenProperties
<1>7. link[stk[k][1]] = IF Len(stk[k]) = 1 THEN Null ELSE stk[k][2]
  <2>1. 1 \in DOMAIN stk[k] /\ 1 + 1 = 2
    BY <1>6
  <2>2. link[stk[k][1]] = IF 1 = Len(stk[k]) THEN Null ELSE stk[k][1 + 1]
    BY <1>1, <2>1 DEF IInv, StacksLinked
  <2>3. QED
    BY <2>1, <2>2
<1>8. QED
  BY <1>1, <1>4, <1>5, <1>6, <1>7, ElementOfSeq

\* No step of push or pop loses a node or gives it to two threads.
LEMMA PartitionStep == IInv /\ [Next]_vars => NodesPartitioned'
<1> SUFFICES ASSUME IInv, [Next]_vars PROVE NodesPartitioned'
  OBVIOUS
<1>0. TypeOK /\ Control /\ NodesPartitioned
  BY DEF IInv
<1>1. ASSUME NEW t \in Threads, NEW n \in Nodes, Get(t, n)
      PROVE  NodesPartitioned'
  <2>1. UNCHANGED <<chain, stk>> /\ own' = [own EXCEPT ![t] = @ \cup {n}]
        /\ n \notin mapped /\ mapped' = mapped \cup {n}
    BY <1>1 DEF Get
  <2>2. /\ \A u \in Threads : n \notin Held(u)
        /\ \A k \in Cpus : n \notin Range(stk[k])
    BY <1>0, <2>1 DEF NodesPartitioned
  <2>3. /\ \A u \in Threads : Held(u)' = IF u = t THEN Held(u) \cup {n} ELSE Held(u)
        /\ \A u \in Threads : own'[u] = IF u = t THEN own[u] \cup {n} ELSE own[u]
    BY <1>0, <2>1 DEF Held, TypeOK
  <2>4. \A x \in Nodes :
            x \in mapped' <=> \/ \E k \in Cpus : x \in Range(stk[k])'
                              \/ \E u \in Threads : x \in Held(u)'
    BY <1>0, <2>1, <2>3 DEF NodesPartitioned
  <2>5. \A u, v \in Threads : u # v => Held(u)' \cap Held(v)' = {}
    BY <1>0, <2>2, <2>3 DEF NodesPartitioned
  <2>6. \A u \in Threads : own'[u] \cap Range(chain[u])' = {}
    BY <1>0, <2>1, <2>2, <2>3 DEF NodesPartitioned, Held
  <2>7. \A k \in Cpus, u \in Threads : Range(stk[k])' \cap Held(u)' = {}
    BY <1>0, <2>1, <2>2, <2>3 DEF NodesPartitioned
  <2>8. QED
    BY <1>0, <2>1, <2>4, <2>5, <2>6, <2>7 DEF NodesPartitioned
<1>2. ASSUME NEW t \in Threads, NEW n \in Nodes, Put(t, n)
      PROVE  NodesPartitioned'
  <2>1. UNCHANGED <<chain, stk>> /\ own' = [own EXCEPT ![t] = @ \ {n}]
        /\ n \in own[t] /\ mapped' = mapped \ {n}
    BY <1>2 DEF Put
  <2>2. /\ \A u \in Threads : n \in Held(u) <=> u = t
        /\ \A k \in Cpus : n \notin Range(stk[k])
        /\ n \notin Range(chain[t])
    BY <1>0, <2>1 DEF NodesPartitioned, Held
  <2>3. /\ \A u \in Threads : Held(u)' = IF u = t THEN Held(u) \ {n} ELSE Held(u)
        /\ \A u \in Threads : own'[u] = IF u = t THEN own[u] \ {n} ELSE own[u]
    BY <1>0, <2>1, <2>2 DEF Held, TypeOK
  <2>4. \A x \in Nodes :
            x \in mapped' <=> \/ \E k \in Cpus : x \in Range(stk[k])'
                              \/ \E u \in Threads : x \in Held(u)'
    BY <1>0, <2>1, <2>2, <2>3 DEF NodesPartitioned
  <2>5. \A u, v \in Threads : u # v => Held(u)' \cap Held(v)' = {}
    BY <1>0, <2>3 DEF NodesPartitioned
  <2>6. \A u \in Threads : own'[u] \cap Range(chain[u])' = {}
    BY <1>0, <2>1, <2>3 DEF NodesPartitioned
  <2>7. \A k \in Cpus, u \in Threads : Range(stk[k])' \cap Held(u)' = {}
    BY <1>0, <2>1, <2>3 DEF NodesPartitioned
  <2>8. QED
    BY <1>0, <2>1, <2>4, <2>5, <2>6, <2>7 DEF NodesPartitioned
<1>3. ASSUME NEW t \in Threads, NEW k \in Cpus, NEW m \in 1 .. MaxBatch,
             NEW c \in [1 .. m -> own[t]], PushBatch(t, k, c)
      PROVE  NodesPartitioned'
  <2>1. /\ UNCHANGED <<stk, mapped>>
        /\ own' = [own EXCEPT ![t] = @ \ Range(c)]
        /\ chain' = [chain EXCEPT ![t] = c]
        /\ chain[t] = <<>> /\ IsInjective(c)
    BY <1>0, <1>3 DEF PushBatch, Control
  <2>2. Range(c) \subseteq own[t] /\ Range(chain[t]) = {}
    BY <2>1 DEF Range
  <2>3. \A u \in Threads : /\ u = t => own'[u] = own[u] \ Range(c) /\ chain'[u] = c
                           /\ u # t => own'[u] = own[u] /\ chain'[u] = chain[u]
    BY <1>0, <2>1 DEF TypeOK
  <2>4. \A u \in Threads : Held(u)' = Held(u)
    BY <2>2, <2>3 DEF Held
  <2>5. \A u \in Threads : own'[u] \cap Range(chain'[u]) = {} /\ IsInjective(chain'[u])
    BY <1>0, <2>1, <2>3 DEF NodesPartitioned
  <2>6. QED
    BY <1>0, <2>1, <2>4, <2>5 DEF NodesPartitioned
<1>4. ASSUME NEW t \in Threads, PushSwap(t)
      PROVE  NodesPartitioned'
  <2> DEFINE k == cpu[t]
             c == chain[t]
  <2>1. /\ UNCHANGED <<own, mapped>>
        /\ stk' = [stk EXCEPT ![k] = c \o @]
        /\ chain' = [chain EXCEPT ![t] = <<>>]
        /\ k \in Cpus /\ c \in Seq(Nodes) /\ stk[k] \in Seq(Nodes)
    BY <1>0, <1>4 DEF PushSwap, TypeOK
  <2>2. /\ IsInjective(c \o stk[k])
        /\ Range(c \o stk[k]) = Range(c) \cup Range(stk[k])
    <3>1. IsInjective(c) /\ IsInjective(stk[k]) /\ Range(c) \cap Range(stk[k]) = {}
      BY <1>0, <2>1 DEF NodesPartitioned, Held
    <3>2. QED
      BY <2>1, <3>1, ConcatInjective
  <2>3. /\ \A l \in Cpus : Range(stk'[l]) = IF l = k THEN Range(c) \cup Range(stk[l])
                                                     ELSE Range(stk[l])
        /\ \A l \in Cpus : IsInjective(stk'[l])
    BY <1>0, <2>1, <2>2 DEF TypeOK, NodesPartitioned
  <2>4. Range(<<>>) = {} /\ IsInjective(<<>>)
    BY DEF Range, IsInjective
  <2>5. /\ \A u \in Threads : Range(chain'[u]) = IF u = t THEN {} ELSE Range(chain[u])
        /\ \A u \in Threads : IsInjective(chain'[u])
    BY <1>0, <2>1, <2>4 DEF TypeOK, NodesPartitioned
  <2>6. \A u \in Threads : Held(u)' = IF u = t THEN own[t] ELSE Held(u)
    BY <2>1, <2>5 DEF Held
  <2>7. \A l \in Cpus : Range(stk[l]) \cap Range(c) = {}
    BY <1>0, <2>1 DEF NodesPartitioned, Held
  <2>8. \A u \in Threads : u # t => Held(u) \cap Range(c) = {}
    BY <1>0, <2>1 DEF NodesPartitioned, Held
  <2>9. own[t] \cap Range(c) = {} /\ own[t] \cup Range(c) = Held(t)
    BY <1>0 DEF NodesPartitioned, Held
  <2> HIDE DEF k, c
  <2>10. \A l, j \in Cpus : l # j => Range(stk'[l]) \cap Range(stk'[j]) = {}
    BY <1>0, <2>3, <2>7 DEF NodesPartitioned
  <2>11. \A u, v \in Threads : u # v => Held(u)' \cap Held(v)' = {}
    BY <1>0, <2>6, <2>9 DEF NodesPartitioned
  <2>12. \A u \in Threads : own'[u] \cap Range(chain'[u]) = {}
    BY <1>0, <2>1, <2>5 DEF NodesPartitioned
  <2>13. \A l \in Cpus, u \in Threads : Range(stk'[l]) \cap Held(u)' = {}
    <3>1. ASSUME NEW l \in Cpus, NEW u \in Threads
          PROVE  Range(stk[l]) \cap Held(u)' = {} /\ Range(c) \cap Held(u)' = {}
      BY <1>0, <2>6, <2>8, <2>9 DEF NodesPartitioned
    <3>2. QED
      BY <2>3, <3>1
  <2>14. \A x \in Nodes :
            x \in mapped' <=> \/ \E l \in Cpus : x \in Range(stk'[l])
                              \/ \E u \in Threads : x \in Held(u)'
    <3>1. ASSUME NEW x \in Nodes
          PROVE  (\E l \in Cpus : x \in Range(stk'[l]))
                    <=> x \in Range(c) \/ \E l \in Cpus : x \in Range(stk[l])
      <4>1. Range(stk'[k]) = Range(c) \cup Range(stk[k])
        BY <2>1, <2>3
      <4>2. \A l \in Cpus : l # k => Range(stk'[l]) = Range(stk[l])
        BY <2>3
      <4>3. QED
        BY <2>1, <4>1, <4>2
    <3>2. ASSUME NEW x \in Nodes
          PROVE  x \in Range(c) \/ (\E u \in Threads : x \in Held(u)')
                    <=> \E u \in Threads : x \in Held(u)
      BY <2>6, <2>9
    <3>3. QED
      BY <1>0, <2>1, <3>1, <3>2 DEF NodesPartitioned
  <2>15. QED
    BY <2>3, <2>5, <2>10, <2>11, <2>12, <2>13, <2>14 DEF NodesPartitioned
<1>5. ASSUME NEW t \in Threads, PopEmpty(t)
      PROVE  NodesPartitioned'
  <2>1. /\ UNCHANGED <<stk, mapped>>
        /\ own' = [own EXCEPT ![t] = @ \cup Range(chain[t])]
        /\ chain' = [chain EXCEPT ![t] = <<>>]
    BY <1>5 DEF PopEmpty, Deliver
  <2>2. Range(<<>>) = {} /\ IsInjective(<<>>)
    BY DEF Range, IsInjective
  <2>3. \A u \in Threads :
            /\ u = t => own'[u] = Held(u) /\ chain'[u] = <<>>
            /\ u # t => own'[u] = own[u] /\ chain'[u] = chain[u]
    BY <1>0, <2>1 DEF TypeOK, Held
  <2>4. \A u \in Threads : Held(u)' = Held(u)
    BY <2>2, <2>3 DEF Held
  <2>5. \A u \in Threads : own'[u] \cap Range(chain'[u]) = {} /\ IsInjective(chain'[u])
    BY <1>0, <2>2, <2>3 DEF NodesPartitioned
  <2>6. QED
    BY <1>0, <2>1, <2>4, <2>5 DEF NodesPartitioned
<1>6. ASSUME NEW t \in Threads, PopSwap(t)
      PROVE  NodesPartitioned'
  <2> DEFINE k == cpu[t]
             n == old[t].ptr
             c == Append(chain[t], n)
  <2>1. /\ k \in Cpus /\ n \in Nodes
        /\ stk[k] \in Seq(Nodes) /\ stk[k] # <<>> /\ n = stk[k][1]
    BY <1>6, PopTakesTop
  <2>2. stk' = [stk EXCEPT ![k] = SubSeq(@, 2, Len(@))] /\ UNCHANGED mapped
    BY <1>6 DEF PopSwap
  <2>3. n \in Range(stk[k])
    BY <1>0, <2>1, PopTop DEF NodesPartitioned
  <2>4. /\ IsInjective(stk'[k]) /\ Range(stk'[k]) = Range(stk[k]) \ {n}
        /\ \A l \in Cpus : l # k => stk'[l] = stk[l]
    <3>1. stk'[k] = SubSeq(stk[k], 2, Len(stk[k])) /\ IsInjective(stk[k])
      BY <1>0, <2>1, <2>2 DEF TypeOK, NodesPartitioned
    <3>2. IsInjective(stk'[k]) /\ Range(stk'[k]) = Range(stk[k]) \ {n}
      BY <2>1, <3>1, PopTop
    <3>3. QED
      BY <1>0, <2>1, <2>2, <3>2 DEF TypeOK
  <2>5. /\ \A u \in Threads : n \notin Held(u)
        /\ \A l \in Cpus : l # k => n \notin Range(stk[l])
    BY <1>0, <2>1, <2>3 DEF NodesPartitioned
  <2>6. chain[t] \in Seq(Nodes) /\ IsInjective(chain[t]) /\ n \notin Range(chain[t])
    BY <1>0, <2>5 DEF TypeOK, NodesPartitioned, Held
  <2>7. IsInjective(c) /\ Range(c) = Range(chain[t]) \cup {n}
    BY <2>1, <2>6, AppendNew
  <2>8. Range(<<>>) = {} /\ IsInjective(<<>>)
    BY DEF Range, IsInjective
  <2>9. /\ own'[t] \cup Range(chain'[t]) = Held(t) \cup {n}
        /\ own'[t] \cap Range(chain'[t]) = {}
        /\ IsInjective(chain'[t])
        /\ \A u \in Threads : u # t => own'[u] = own[u] /\ chain'[u] = chain[u]
    <3>1. CASE own' = [own EXCEPT ![t] = @ \cup Range(c)]
               /\ chain' = [chain EXCEPT ![t] = <<>>]
      BY <1>0, <2>7, <2>8, <3>1 DEF TypeOK, Held
    <3>2. CASE own' = own /\ chain' = [chain EXCEPT ![t] = c]
      BY <1>0, <2>5, <2>7, <3>2 DEF TypeOK, Held, NodesPartitioned
    <3>3. QED
      BY <1>6, <3>1, <3>2 DEF PopSwap, Deliver
  <2> HIDE DEF k, n, c
  <2>10. \A u \in Threads : Held(u)' = IF u = t THEN Held(u) \cup {n} ELSE Held(u)
    BY <2>9 DEF Held
  <2>11. \A l \in Cpus : /\ IsInjective(stk'[l])
                         /\ Range(stk'[l]) = Range(stk[l]) \ {n}
    BY <1>0, <2>4, <2>5 DEF NodesPartitioned
  <2>12. \A l, j \in Cpus : l # j => Range(stk'[l]) \cap Range(stk'[j]) = {}
    BY <1>0, <2>11 DEF NodesPartitioned
  <2>13. \A u, v \in Threads : u # v => Held(u)' \cap Held(v)' = {}
    BY <1>0, <2>5, <2>10 DEF NodesPartitioned
  <2>14. \A u \in Threads : own'[u] \cap Range(chain'[u]) = {} /\ IsInjective(chain'[u])
    BY <1>0, <2>9 DEF NodesPartitioned
  <2>15. \A l \in Cpus, u \in Threads : Range(stk'[l]) \cap Held(u)' = {}
    BY <1>0, <2>10, <2>11 DEF NodesPartitioned
  <2>16. \A x \in Nodes :
            x \in mapped' <=> \/ \E l \in Cpus : x \in Range(stk'[l])
                              \/ \E u \in Threads : x \in Held(u)'
    <3>1. ASSUME NEW x \in Nodes, x # n
          PROVE  /\ \A l \in Cpus : x \in Range(stk'[l]) <=> x \in Range(stk[l])
                 /\ \A u \in Threads : x \in Held(u)' <=> x \in Held(u)
      BY <2>10, <2>11, <3>1
    <3>2. n \in mapped' /\ n \in Held(t)'
      BY <1>0, <2>1, <2>2, <2>3, <2>10 DEF NodesPartitioned
    <3>3. QED
      BY <1>0, <2>2, <3>1, <3>2 DEF NodesPartitioned
  <2>17. QED
    BY <2>11, <2>12, <2>13, <2>14, <2>15, <2>16 DEF NodesPartitioned
<1>7. CASE UNCHANGED <<own, chain, stk, mapped>>
  <2>1. \A u \in Threads : Held(u)' = Held(u)
    BY <1>7 DEF Held
  <2>2. QED
    BY <1>0, <1>7, <2>1 DEF NodesPartitioned
<1>8. ASSUME NEW t \in Threads,
             \/ PushLink(t) \/ PushRetry(t) \/ PopLoad(t) \/ PopRead(t) \/ PopRetry(t)
             \/ \E k \in Cpus, m \in 1 .. MaxBatch : PopBatch(t, k, m)
      PROVE  UNCHANGED <<own, chain, stk, mapped>>
  BY <1>8 DEF PushLink, PushRetry, PopLoad, PopRead, PopRetry, PopBatch, shared
<1>9. CASE UNCHANGED vars
  BY <1>7, <1>9 DEF vars, shared, locals
<1>10. QED
  BY <1>1, <1>2, <1>3, <1>4, <1>5, <1>6, <1>7, <1>8, <1>9 DEF Next, Act, Step

\* Only nodes in the hands of the acting thread are written to, and the node
\* it has just claimed.
LEMMA PrivateWrites ==
    ASSUME IInv, NEW t \in Threads, Act(t)
    PROVE  \A n \in Nodes :
               n \notin Held(t) /\ ~ (PopSwap(t) /\ n = old[t].ptr) => link'[n] = link[n]
<1> SUFFICES ASSUME NEW n \in Nodes, n \notin Held(t), ~ (PopSwap(t) /\ n = old[t].ptr)
             PROVE  link'[n] = link[n]
  OBVIOUS
<1>0. TypeOK /\ Control /\ n \notin own[t] /\ n \notin Range(chain[t])
  BY DEF IInv, Held
<1>1. CASE \E x \in Nodes : Get(t, x) \/ Put(t, x)
  BY <1>1 DEF Get, Put
<1>2. ASSUME NEW k \in Cpus, NEW m \in 1 .. MaxBatch,
             NEW c \in [1 .. m -> own[t]], PushBatch(t, k, c)
      PROVE  link'[n] = link[n]
  <2>1. Len(c) = m /\ m \in Nat \ {0}
    BY <1>2, BatchAssumption
  <2>2. \A i \in 1 .. m : c[i] # n
    BY <1>0
  <2>3. LinkChain(c)[n] = link[n]
    BY <2>1, <2>2 DEF LinkChain
  <2>4. QED
    BY <1>2, <2>3 DEF PushBatch
<1>3. CASE \E k \in Cpus, m \in 1 .. MaxBatch : PopBatch(t, k, m)
  BY <1>3 DEF PopBatch, shared
<1>4. CASE PushLink(t)
  <2>1. chain[t][Len(chain[t])] \in Range(chain[t])
    BY <1>0, <1>4, LenProperties DEF PushLink, TypeOK, Control, Range
  <2>2. QED
    BY <1>0, <1>4, <2>1 DEF PushLink, TypeOK
<1>5. CASE PushSwap(t) \/ PushRetry(t) \/ PopLoad(t) \/ PopRead(t) \/ PopRetry(t)
  BY <1>5 DEF PushSwap, PushRetry, PopLoad, PopRead, PopRetry, shared
<1>6. CASE PopEmpty(t)
  BY <1>0, <1>6 DEF PopEmpty, Deliver
<1>7. CASE PopSwap(t)
  <2> DEFINE c == Append(chain[t], old[t].ptr)
  <2>1. n # old[t].ptr
    BY <1>7
  <2>2. old[t].ptr \in Nodes /\ chain[t] \in Seq(Nodes)
    BY <1>0, <1>7, PopTakesTop DEF TypeOK
  <2>3. chain[t] # <<>> => chain[t][Len(chain[t])] \in Range(chain[t])
    BY <2>2, LenProperties, EmptySeq DEF Range
  <2>4. n \notin Range(c)
    <3>1. /\ DOMAIN c = 1 .. Len(chain[t]) + 1
          /\ DOMAIN chain[t] = 1 .. Len(chain[t])
          /\ Len(chain[t]) \in Nat
          /\ \A i \in 1 .. Len(chain[t]) : c[i] = chain[t][i]
          /\ c[Len(chain[t]) + 1] = old[t].ptr
      BY <2>2, AppendProperties, LenProperties
    <3> HIDE DEF c
    <3>2. QED
      BY <1>0, <2>1, <3>1 DEF Range
  <2>5. CASE link' = [x \in Nodes |-> IF x \in Range(c) THEN Payload ELSE link[x]]
    BY <2>4, <2>5
  <2>6. CASE link' = IF chain[t] = <<>> THEN link
                     ELSE [link EXCEPT ![chain[t][Len(chain[t])]] = old[t].ptr]
    BY <1>0, <2>3, <2>6 DEF TypeOK
  <2>7. QED
    BY <1>7, <2>5, <2>6 DEF PopSwap, Deliver
<1>8. QED
  BY <1>1, <1>2, <1>3, <1>4, <1>5, <1>6, <1>7 DEF Act, Step

\* The links written by push and read by pop always describe the stacks.
LEMMA StacksStep == IInv /\ [Next]_vars => StacksLinked'
<1> SUFFICES ASSUME IInv, [Next]_vars PROVE StacksLinked'
  OBVIOUS
<1>0. TypeOK /\ Control /\ StacksLinked /\ NodesPartitioned
  BY DEF IInv
<1>1. \A k \in Cpus : /\ stk[k] \in Seq(Nodes)
                      /\ Len(stk[k]) \in Nat
                      /\ DOMAIN stk[k] = 1 .. Len(stk[k])
                      /\ \A i \in DOMAIN stk[k] : stk[k][i] \in Nodes
  BY <1>0, LenProperties, ElementOfSeq DEF TypeOK
<1>2. CASE UNCHANGED vars
  BY <1>0, <1>2 DEF vars, shared, StacksLinked
<1>3. ASSUME NEW t \in Threads, Act(t), UNCHANGED <<head, stk>>
      PROVE  StacksLinked'
  <2>1. ~ PopSwap(t)
    <3>1. SUFFICES ASSUME PopSwap(t) PROVE FALSE
      OBVIOUS
    <3>2. /\ cpu[t] \in Cpus /\ stk[cpu[t]] # <<>>
          /\ stk'[cpu[t]] = SubSeq(stk[cpu[t]], 2, Len(stk[cpu[t]]))
      BY <1>0, <3>1, PopTakesTop DEF PopSwap, TypeOK
    <3>3. Len(stk'[cpu[t]]) = Len(stk[cpu[t]]) - 1
      BY <1>0, <1>1, <3>2, PopTop DEF NodesPartitioned
    <3>4. QED
      BY <1>1, <1>3, <3>2, <3>3
  <2>2. \A k \in Cpus : \A i \in DOMAIN stk[k] : link'[stk[k][i]] = link[stk[k][i]]
    <3>1. ASSUME NEW k \in Cpus, NEW i \in DOMAIN stk[k]
          PROVE  stk[k][i] \notin Held(t)
      <4>1. stk[k][i] \in Range(stk[k])
        BY DEF Range
      <4>2. QED
        BY <1>0, <4>1 DEF NodesPartitioned
    <3>2. QED
      BY <1>1, <1>3, <2>1, <3>1, PrivateWrites
  <2>3. QED
    BY <1>0, <1>3, <2>2 DEF StacksLinked
<1>4. ASSUME NEW t \in Threads, PushSwap(t)
      PROVE  StacksLinked'
  <2> DEFINE k == cpu[t]
             c == chain[t]
             s == stk[k]
             q == c \o s
  <2>1. /\ k \in Cpus /\ c \in Seq(Nodes) /\ s \in Seq(Nodes)
        /\ pc[t] = "pushcas" /\ Len(c) \in Nat \ {0}
    BY <1>0, <1>4 DEF PushSwap, TypeOK, Control
  <2>2. /\ head[k] = old[t]
        /\ head' = [head EXCEPT ![k] = [ptr |-> c[1], tag |-> (old[t].tag + 1) % TagMod]]
        /\ stk' = [stk EXCEPT ![k] = q]
        /\ link' = link
    BY <1>4 DEF PushSwap, SwapHead
  <2>3. /\ \A i \in 1 .. Len(c) - 1 : link[c[i]] = c[i + 1]
        /\ link[c[Len(c)]] = IF s = <<>> THEN Null ELSE s[1]
    BY <1>0, <2>1, <2>2 DEF IInv, ChainsLinked, StacksLinked
  <2>4. /\ q \in Seq(Nodes)
        /\ Len(q) = Len(c) + Len(s)
        /\ \A i \in 1 .. Len(q) : q[i] = IF i <= Len(c) THEN c[i] ELSE s[i - Len(c)]
        /\ DOMAIN q = 1 .. Len(q)
    BY ZenonT(40), <2>1, ConcatProperties, LenProperties
  <2>5. s = <<>> <=> Len(s) = 0
    BY <2>1, EmptySeq
  <2>6. \A i \in 1 .. Len(s) : link[s[i]] = IF i = Len(s) THEN Null ELSE s[i + 1]
    BY <1>0, <1>1, <2>1 DEF StacksLinked
  <2>7. Len(s) \in Nat
    BY <1>1, <2>1
  <2>8. stk'[k] = q /\ head'[k].ptr = c[1]
    BY <1>0, <2>1, <2>2 DEF TypeOK
  <2>9. \A l \in Cpus : l # k => stk'[l] = stk[l] /\ head'[l] = head[l]
    BY <1>0, <2>2 DEF TypeOK
  <2> HIDE DEF k, c, s, q
  <2>10. ASSUME NEW i \in 1 .. Len(q)
         PROVE  link[q[i]] = IF i = Len(q) THEN Null ELSE q[i + 1]
    <3>1. CASE i < Len(c)
      BY <2>1, <2>3, <2>4, <2>7, <3>1
    <3>2. CASE i = Len(c)
      <4>1. q[i] = c[Len(c)]
        BY <2>1, <2>4, <2>7, <3>2
      <4>2. ASSUME Len(s) # 0 PROVE q[i + 1] = s[1] /\ i # Len(q)
        <5>1. i + 1 \in 1 .. Len(q) /\ ~ (i + 1 <= Len(c)) /\ (i + 1) - Len(c) = 1
          BY <2>1, <2>4, <2>7, <3>2, <4>2
        <5>2. QED
          BY <2>1, <2>4, <5>1
      <4>3. Len(s) = 0 => i = Len(q)
        BY <2>1, <2>4, <2>7, <3>2
      <4>4. QED
        BY <2>3, <2>5, <2>7, <4>1, <4>2, <4>3
    <3>3. CASE i > Len(c)
      <4>1. i - Len(c) \in 1 .. Len(s) /\ q[i] = s[i - Len(c)]
        BY <2>1, <2>4, <2>7, <3>3
      <4>2. ASSUME i # Len(q) PROVE q[i + 1] = s[(i - Len(c)) + 1]
        <5>0. Len(c) \in Nat /\ Len(q) \in Nat /\ i \in Nat
          BY <2>1, <2>4, <2>7
        <5>1. /\ i + 1 \in 1 .. Len(q) /\ ~ (i + 1 <= Len(c))
              /\ (i + 1) - Len(c) = (i - Len(c)) + 1
          BY <3>3, <4>2, <5>0
        <5>2. QED
          BY <2>4, <5>1
      <4>3. i = Len(q) <=> i - Len(c) = Len(s)
        BY <2>1, <2>4, <2>7, <3>3
      <4>4. QED
        BY <2>6, <4>1, <4>2, <4>3
    <3>4. QED
      BY <2>1, <2>4, <2>7, <3>1, <3>2, <3>3
  <2>11. q # <<>> /\ q[1] = c[1]
    BY <2>1, <2>4, <2>7, EmptySeq
  <2>12. ASSUME NEW l \in Cpus
         PROVE  /\ head'[l].ptr = IF stk'[l] = <<>> THEN Null ELSE stk'[l][1]
                /\ \A i \in DOMAIN stk'[l] :
                      link'[stk'[l][i]] = IF i = Len(stk'[l]) THEN Null ELSE stk'[l][i + 1]
    <3>1. CASE l = k
      BY ZenonT(40), <2>2, <2>4, <2>8, <2>10, <2>11, <3>1
    <3>2. CASE l # k
      BY <1>0, <2>2, <2>9, <3>2 DEF StacksLinked
    <3>3. QED
      BY <3>1, <3>2
  <2>13. QED
    BY <2>12 DEF StacksLinked
<1>5. ASSUME NEW t \in Threads, PopSwap(t)
      PROVE  StacksLinked'
  <2> DEFINE k == cpu[t]
             s == stk[k]
             q == SubSeq(s, 2, Len(s))
             n == old[t].ptr
  <2>1. /\ k \in Cpus /\ s \in Seq(Nodes) /\ s # <<>> /\ n = s[1]
        /\ next[t] = IF Len(s) = 1 THEN Null ELSE s[2]
    BY <1>5, PopTakesTop
  <2>2. /\ IsInjective(s) /\ Len(s) \in Nat \ {0}
        /\ \A i \in 1 .. Len(s) : link[s[i]] = IF i = Len(s) THEN Null ELSE s[i + 1]
    BY <1>0, <1>1, <2>1, EmptySeq DEF NodesPartitioned, StacksLinked
  <2>3. /\ q \in Seq(Nodes) /\ Len(q) = Len(s) - 1
        /\ \A i \in 1 .. Len(q) : q[i] = s[i + 1]
        /\ Range(q) = Range(s) \ {n}
        /\ n \in Range(s)
    BY <2>1, <2>2, PopTop
  <2>4. /\ stk'[k] = q /\ head'[k].ptr = next[t]
        /\ \A l \in Cpus : l # k => stk'[l] = stk[l] /\ head'[l] = head[l]
    BY <1>0, <1>5, <2>1 DEF TypeOK, PopSwap, SwapHead
  <2>5. DOMAIN q = 1 .. Len(q) /\ (q = <<>> <=> Len(q) = 0)
    BY <2>3, LenProperties, EmptySeq
  <2> HIDE DEF k, s, q, n
  <2>6. ASSUME NEW l \in Cpus, NEW x \in Range(stk'[l])
        PROVE  link'[x] = link[x]
    <3>1. x \in Range(stk[l]) /\ x # n
      <4>1. CASE l = k
        BY <2>3, <2>4, <2>6, <4>1 DEF s
      <4>2. CASE l # k
        <5>1. x \in Range(stk[l]) /\ n \in Range(stk[k])
          BY <2>3, <2>4, <2>6, <4>2 DEF s
        <5>2. Range(stk[l]) \cap Range(stk[k]) = {}
          BY <1>0, <2>1, <4>2 DEF NodesPartitioned
        <5>3. QED
          BY <5>1, <5>2
      <4>3. QED
        BY <4>1, <4>2
    <3>2. x \in Nodes /\ x \notin Held(t)
      BY <1>0, <1>1, <3>1 DEF NodesPartitioned, Range
    <3>3. Act(t)
      BY <1>5 DEF Act, Step
    <3>4. QED
      BY <3>1, <3>2, <3>3, PrivateWrites DEF n
  <2>7. ASSUME NEW i \in 1 .. Len(q)
        PROVE  link'[q[i]] = IF i = Len(q) THEN Null ELSE q[i + 1]
    <3>1. link'[q[i]] = link[q[i]]
      BY <2>1, <2>4, <2>5, <2>6 DEF Range
    <3>2. q[i] = s[i + 1] /\ i + 1 \in 1 .. Len(s)
      BY <2>2, <2>3
    <3>3. i # Len(q) => q[i + 1] = s[(i + 1) + 1]
      BY <2>2, <2>3
    <3>4. QED
      BY <2>2, <2>3, <3>1, <3>2, <3>3
  <2>8. next[t] = IF q = <<>> THEN Null ELSE q[1]
    BY <2>1, <2>2, <2>3, <2>5
  <2>9. ASSUME NEW l \in Cpus
        PROVE  /\ head'[l].ptr = IF stk'[l] = <<>> THEN Null ELSE stk'[l][1]
               /\ \A i \in DOMAIN stk'[l] :
                     link'[stk'[l][i]] = IF i = Len(stk'[l]) THEN Null ELSE stk'[l][i + 1]
    <3>1. CASE l = k
      BY <2>4, <2>5, <2>7, <2>8, <3>1
    <3>2. CASE l # k
      BY <1>0, <2>4, <2>6, <3>2 DEF StacksLinked, Range
    <3>3. QED
      BY <3>1, <3>2
  <2>10. QED
    BY <2>9 DEF StacksLinked
<1>6. ASSUME NEW t \in Threads, Act(t), ~ PushSwap(t), ~ PopSwap(t)
      PROVE  UNCHANGED <<head, stk>>
  BY <1>6 DEF Act, Step, Get, Put, PushBatch, PopBatch, PushLink, PushRetry,
              PopLoad, PopRead, PopEmpty, PopRetry, shared
<1>7. QED
  BY <1>2, <1>3, <1>4, <1>5, <1>6 DEF Next

\* The chain a thread builds or has popped stays linked until it hands it over.
LEMMA ChainsStep == IInv /\ [Next]_vars => ChainsLinked'
<1> SUFFICES ASSUME IInv, [Next]_vars PROVE ChainsLinked'
  OBVIOUS
<1>0. TypeOK /\ Control /\ ChainsLinked /\ NodesPartitioned
  BY DEF IInv
<1>1. \A u \in Threads : /\ chain[u] \in Seq(Nodes)
                         /\ Len(chain[u]) \in Nat
                         /\ DOMAIN chain[u] = 1 .. Len(chain[u])
                         /\ \A i \in 1 .. Len(chain[u]) :
                               chain[u][i] \in Nodes /\ chain[u][i] \in Held(u)
  BY <1>0, LenProperties, ElementOfSeq DEF TypeOK, Held, Range
<1>2. CASE UNCHANGED vars
  BY <1>0, <1>2 DEF vars, shared, locals, ChainsLinked
<1>3. ASSUME NEW t \in Threads, Act(t)
      PROVE  ChainsLinked'
  <2>1. ASSUME NEW u \in Threads, u # t, pc'[u] \in {"push", "pushcas"}
        PROVE  /\ \A i \in 1 .. Len(chain'[u]) - 1 : link'[chain'[u][i]] = chain'[u][i + 1]
               /\ pc'[u] = "pushcas" => link'[chain'[u][Len(chain'[u])]] = old'[u].ptr
    <3>1. pc'[u] = pc[u] /\ chain'[u] = chain[u] /\ old'[u] = old[u]
      BY <1>0, <1>3, <2>1
         DEF Act, Step, Get, Put, PushBatch, PopBatch, PushLink, PushSwap, PushRetry,
             PopLoad, PopRead, PopEmpty, PopSwap, PopRetry, RetryAt, Observe, Deliver,
             TypeOK
    <3>2. ASSUME NEW i \in 1 .. Len(chain[u])
          PROVE  link'[chain[u][i]] = link[chain[u][i]]
      <4>1. chain[u][i] \in Nodes /\ chain[u][i] \in Held(u) /\ chain[u][i] \notin Held(t)
        BY <1>0, <1>1, <2>1 DEF NodesPartitioned
      <4>2. ASSUME PopSwap(t) PROVE chain[u][i] # old[t].ptr
        <5>1. cpu[t] \in Cpus /\ old[t].ptr \in Range(stk[cpu[t]])
          BY <1>0, <4>2, PopTakesTop, PopTop DEF NodesPartitioned
        <5>2. QED
          BY <1>0, <4>1, <5>1 DEF NodesPartitioned
      <4>3. QED
        BY <1>3, <4>1, <4>2, PrivateWrites
    <3>3. Len(chain[u]) \in 1 .. MaxBatch
      BY <1>0, <2>1, <3>1 DEF Control
    <3>4. QED
      BY <1>0, <1>1, <2>1, <3>1, <3>2, <3>3 DEF ChainsLinked
  <2>2. ASSUME pc'[t] \in {"push", "pushcas"}
        PROVE  /\ \A i \in 1 .. Len(chain'[t]) - 1 : link'[chain'[t][i]] = chain'[t][i + 1]
               /\ pc'[t] = "pushcas" => link'[chain'[t][Len(chain'[t])]] = old'[t].ptr
    <3>1. ASSUME NEW k \in Cpus, NEW m \in 1 .. MaxBatch,
                 NEW c \in [1 .. m -> own[t]], PushBatch(t, k, c)
          PROVE  pc'[t] = "push" /\ chain'[t] = c
                 /\ \A i \in 1 .. Len(c) - 1 : link'[c[i]] = c[i + 1]
      <4>1. Len(c) = m /\ IsInjective(c) /\ link' = LinkChain(c)
            /\ pc'[t] = "push" /\ chain'[t] = c
        BY <1>0, <3>1 DEF PushBatch, TypeOK
      <4>2. ASSUME NEW i \in 1 .. m - 1 PROVE LinkChain(c)[c[i]] = c[i + 1]
        <5>1. c[i] \in Nodes /\ i \in DOMAIN c
          BY <1>0 DEF TypeOK
        <5>2. \A j \in 1 .. m - 1 : c[j] = c[i] => j = i
          BY <4>1, <5>1 DEF IsInjective
        <5>3. (CHOOSE j \in 1 .. m - 1 : c[j] = c[i]) = i
          BY <5>2
        <5>4. QED
          BY <4>1, <5>1, <5>3 DEF LinkChain
      <4>3. QED
        BY <4>1, <4>2
    <3>2. CASE PushLink(t)
      <4> DEFINE c == chain[t]
                 e == c[Len(c)]
      <4>1. /\ Len(c) \in 1 .. MaxBatch /\ pc'[t] = "pushcas" /\ chain'[t] = c
            /\ old'[t] = old[t] /\ link' = [link EXCEPT ![e] = old[t].ptr]
            /\ \A i \in 1 .. Len(c) - 1 : link[c[i]] = c[i + 1]
        BY <1>0, <3>2 DEF PushLink, TypeOK, Control, ChainsLinked
      <4>2. \A i \in 1 .. Len(c) - 1 : c[i] # e /\ c[i] \in Nodes
        BY <1>0, <1>1, <4>1 DEF NodesPartitioned, IsInjective
      <4>3. e \in Nodes /\ link \in [Nodes -> Nodes \cup {Null, Payload}]
        BY <1>0, <1>1, <4>1 DEF TypeOK
      <4> HIDE DEF e
      <4>4. \A i \in 1 .. Len(c) - 1 : link'[c[i]] = c[i + 1]
        BY <4>1, <4>2, <4>3
      <4>5. link'[e] = old[t].ptr
        BY <4>1, <4>3
      <4>6. QED
        BY <4>1, <4>4, <4>5 DEF e
    <3>3. CASE PushRetry(t)
      BY <1>0, <3>3 DEF PushRetry, RetryAt, shared, TypeOK, ChainsLinked
    <3>4. CASE \E n \in Nodes : Get(t, n) \/ Put(t, n)
      BY <1>0, <2>2, <3>4 DEF Get, Put, ChainsLinked
    <3>5. ASSUME \/ PushSwap(t) \/ PopLoad(t) \/ PopRead(t)
                 \/ PopEmpty(t) \/ PopSwap(t) \/ PopRetry(t)
                 \/ \E k \in Cpus, m \in 1 .. MaxBatch : PopBatch(t, k, m)
          PROVE  FALSE
      BY <1>0, <2>2, <3>5
         DEF PushSwap, PopLoad, PopRead, PopEmpty, PopSwap, PopRetry, PopBatch,
             RetryAt, Deliver, TypeOK
    <3>6. QED
      BY <1>3, <3>1, <3>2, <3>3, <3>4, <3>5 DEF Act, Step
  <2>3. QED
    BY <2>1, <2>2 DEF ChainsLinked
<1>4. QED
  BY <1>2, <1>3 DEF Next

\* What a thread has read of a head and its link is current while the head
\* word has not moved.
LEMMA ObservationsStep == IInv /\ [Next]_vars => ObservationsFresh'
<1> SUFFICES ASSUME IInv, [Next]_vars PROVE ObservationsFresh'
  OBVIOUS
<1> USE TagAssumption
<1>0. TypeOK /\ Control /\ ObservationsFresh /\ NodesPartitioned /\ StacksLinked
  BY DEF IInv
<1>1. \A u \in Threads : /\ cpu[u] \in Cpus /\ head[cpu[u]] \in Heads /\ old[u] \in Heads
                         /\ head[cpu[u]].tag \in 0 .. TagMod - 1
                         /\ old[u].tag \in 0 .. TagMod - 1
                         /\ age[u] \in 0 .. TagMod - 1
  BY <1>0 DEF TypeOK, Heads
<1>2. CASE UNCHANGED vars
  BY <1>0, <1>2 DEF vars, shared, locals, ObservationsFresh, Watching
<1>3. ASSUME NEW t \in Threads, Act(t)
      PROVE  ObservationsFresh'
  <2> DEFINE Fresh(u) ==
               /\ age[u] = 0 => head[cpu[u]] = old[u]
               /\ head[cpu[u]].tag = (old[u].tag + age[u]) % TagMod
               /\ pc[u] = "popcas" /\ age[u] = 0 => next[u] = link[old[u].ptr]
  <2>1. \A u \in Threads : Watching(u, cpu[u]) => Fresh(u)
    BY <1>0 DEF ObservationsFresh
  \* The observed top node is on its stack, hence nobody else writes to it.
  <2>2. ASSUME NEW u \in Threads, u # t, Watching(u, cpu[u]), pc[u] = "popcas",
               age[u] = 0, age'[u] = 0
        PROVE  link'[old[u].ptr] = link[old[u].ptr]
    <3> DEFINE n == old[u].ptr
               k == cpu[u]
    <3>1. n # Null /\ head[k].ptr = n /\ k \in Cpus
      BY <1>0, <1>1, <2>1, <2>2 DEF Control
    <3>2. stk[k] # <<>> /\ n = stk[k][1] /\ stk[k] \in Seq(Nodes) /\ IsInjective(stk[k])
      BY <1>0, <3>1 DEF StacksLinked, TypeOK, NodesPartitioned
    <3>3. n \in Range(stk[k]) /\ n \in Nodes
      BY <3>2, PopTop, RangeOfSeq
    <3>4. n \notin Held(t)
      BY <1>0, <3>1, <3>3 DEF NodesPartitioned
    <3>5. ASSUME PopSwap(t) PROVE n # old[t].ptr
      <4>1. old[t].ptr \in Range(stk[cpu[t]]) /\ cpu[t] \in Cpus
        BY <1>0, <3>5, PopTakesTop, PopTop DEF NodesPartitioned
      <4>2. CASE cpu[t] = k
        BY <1>1, <2>2, <3>5, <4>2 DEF PopSwap, SwapHead, Watching
      <4>3. CASE cpu[t] # k
        BY <1>0, <3>1, <3>3, <4>1, <4>3 DEF NodesPartitioned
      <4>4. QED
        BY <4>2, <4>3
    <3>6. QED
      BY <1>3, <3>3, <3>4, <3>5, PrivateWrites
  <2>3. ASSUME NEW u \in Threads, u # t, Watching(u, cpu[u])'
        PROVE  Fresh(u)'
    <3>1. /\ pc'[u] = pc[u] /\ cpu'[u] = cpu[u] /\ old'[u] = old[u] /\ next'[u] = next[u]
      BY <1>0, <1>3, <2>3
         DEF Act, Step, Get, Put, PushBatch, PopBatch, PushLink, PushSwap, PushRetry,
             PopLoad, PopRead, PopEmpty, PopSwap, PopRetry, RetryAt, Observe, Deliver,
             shared, TypeOK
    <3>2. Watching(u, cpu[u]) /\ Fresh(u)
      BY <2>1, <2>3, <3>1 DEF Watching
    <3>3. CASE head'[cpu[u]] = head[cpu[u]] /\ age'[u] = age[u]
      <4>1. pc[u] = "popcas" /\ age[u] = 0 => link'[old[u].ptr] = link[old[u].ptr]
        BY <2>2, <2>3, <3>2, <3>3
      <4>2. QED
        BY <3>1, <3>2, <3>3, <4>1
    <3>4. ASSUME NEW v, SwapHead(t, v), cpu[u] = cpu[t]
          PROVE  Fresh(u)'
      <4>1. /\ age'[u] = age[u] + 1 /\ age[u] + 1 < TagMod
            /\ head'[cpu[u]].tag = (head[cpu[u]].tag + 1) % TagMod
        BY <1>0, <1>1, <2>3, <3>2, <3>4 DEF SwapHead, NoTagWrap, Watching, TypeOK
      <4>2. head'[cpu[u]].tag = (((old[u].tag + age[u]) % TagMod) + 1) % TagMod
        BY <3>2, <4>1
      <4>3. head'[cpu[u]].tag = (old[u].tag + age'[u]) % TagMod
        BY <1>1, <4>1, <4>2, TagNext
      <4>4. age'[u] # 0
        BY <1>1, <4>1
      <4>5. QED
        BY <3>1, <4>3, <4>4
    <3>5. ASSUME ~ (/\ cpu[u] = cpu[t]
                    /\ \E v \in Nodes \cup {Null} : SwapHead(t, v))
          PROVE  head'[cpu[u]] = head[cpu[u]] /\ age'[u] = age[u]
      <4>1. CASE PushSwap(t)
        <5>1. chain[t][1] \in Nodes
          BY <1>0, <4>1, ElementOfSeq DEF PushSwap, TypeOK, Control
        <5>2. QED
          BY <1>0, <1>1, <2>3, <3>5, <4>1, <5>1 DEF PushSwap, SwapHead, Watching, TypeOK
      <4>2. CASE PopSwap(t)
        <5>1. next[t] \in Nodes \cup {Null}
          BY <1>0 DEF TypeOK
        <5>2. QED
          BY <1>0, <1>1, <2>3, <3>5, <4>2, <5>1 DEF PopSwap, SwapHead, Watching, TypeOK
      <4>3. CASE ~ PushSwap(t) /\ ~ PopSwap(t)
        BY <1>0, <1>3, <2>3, <4>3
           DEF Act, Step, Get, Put, PushBatch, PopBatch, PushLink, PushRetry,
               PopLoad, PopRead, PopEmpty, PopRetry, RetryAt, Observe, shared, TypeOK
      <4>4. QED
        BY <4>1, <4>2, <4>3
    <3>6. QED
      BY <3>3, <3>4, <3>5
  <2>4. ASSUME Watching(t, cpu[t])'
        PROVE  Fresh(t)'
    <3>1. ASSUME age'[t] = 0, old'[t] = head[cpu'[t]], head' = head, pc'[t] # "popcas",
                 cpu'[t] \in Cpus
          PROVE  Fresh(t)'
      <4>1. head[cpu'[t]].tag \in 0 .. TagMod - 1
        <5>1. head[cpu'[t]] \in Heads
          BY <1>0, <3>1 DEF TypeOK
        <5>2. QED
          BY <5>1 DEF Heads
      <4>2. (head[cpu'[t]].tag + 0) % TagMod = head[cpu'[t]].tag
        BY <4>1, TagAssumption, TagUnmoved
      <4>3. QED
        BY <3>1, <4>2
    <3>2. CASE PushRetry(t) \/ PopLoad(t) \/ PopRetry(t)
      <4>1. /\ head' = head /\ cpu' = cpu
            /\ old' = [old EXCEPT ![t] = head[cpu[t]]]
            /\ age' = [age EXCEPT ![t] = 0]
            /\ \/ pc' = [pc EXCEPT ![t] = "push"]
               \/ pc' = [pc EXCEPT ![t] = "pop"]
        BY <3>2 DEF PushRetry, PopLoad, PopRetry, RetryAt, Observe, shared
      <4>2. old'[t] = head[cpu'[t]] /\ age'[t] = 0
        BY <1>0, <4>1 DEF TypeOK
      <4>3. pc'[t] # "popcas"
        BY <1>0, <4>1 DEF TypeOK
      <4>4. cpu'[t] \in Cpus
        BY <1>1, <4>1
      <4>5. QED
        BY <3>1, <4>1, <4>2, <4>3, <4>4
    <3>3. ASSUME NEW k \in Cpus, NEW m \in 1 .. MaxBatch,
                 NEW c \in [1 .. m -> own[t]], PushBatch(t, k, c)
          PROVE  Fresh(t)'
      BY <1>0, <3>1, <3>3 DEF PushBatch, TypeOK
    <3>4. CASE PushLink(t)
      BY <1>0, <2>1, <3>4 DEF PushLink, Watching, TypeOK
    <3>5. CASE PopRead(t)
      <4>1. /\ Watching(t, cpu[t]) /\ old[t].ptr # Null
            /\ UNCHANGED <<head, cpu, old, age, link>>
        BY <3>5 DEF PopRead, Watching, shared
      <4>2. ASSUME age[t] = 0 PROVE next'[t] = link[old[t].ptr]
        <5>1. stk[cpu[t]] # <<>> /\ old[t].ptr = stk[cpu[t]][1]
          BY <1>0, <1>1, <2>1, <4>1, <4>2 DEF StacksLinked
        <5>2. link[old[t].ptr] \in Nodes \cup {Null}
          <6>1. stk[cpu[t]] \in Seq(Nodes) /\ cpu[t] \in Cpus
            BY <1>0, <1>1 DEF TypeOK
          <6>2. 1 \in DOMAIN stk[cpu[t]]
            BY <5>1, <6>1, LenProperties, EmptySeq
          <6>3. \/ link[stk[cpu[t]][1]] = Null
                \/ Len(stk[cpu[t]]) # 1 /\ link[stk[cpu[t]][1]] = stk[cpu[t]][1 + 1]
            BY <1>0, <6>1, <6>2 DEF StacksLinked
          <6>4. Len(stk[cpu[t]]) # 1 => stk[cpu[t]][1 + 1] \in Nodes
            <7>1. Len(stk[cpu[t]]) \in Nat \ {0}
              BY <5>1, <6>1, EmptySeq
            <7>2. \A x \in Nat \ {0} : x # 1 => 1 + 1 \in 1 .. x
              OBVIOUS
            <7>3. Len(stk[cpu[t]]) # 1 => 1 + 1 \in 1 .. Len(stk[cpu[t]])
              BY <7>1, <7>2
            <7>4. QED
              BY <6>1, <7>3, ElementOfSeq
          <6>5. QED
            BY <5>1, <6>3, <6>4
        <5>3. QED
          BY <1>0, <3>5, <5>2, NullAssumption DEF PopRead, TypeOK
      <4>3. QED
        BY <2>1, <4>1, <4>2
    <3>6. CASE \E n \in Nodes : Get(t, n) \/ Put(t, n)
      BY <2>1, <2>4, <3>6 DEF Get, Put, Watching
    <3>7. ASSUME \/ PushSwap(t) \/ PopEmpty(t) \/ PopSwap(t)
                 \/ \E k \in Cpus, m \in 1 .. MaxBatch : PopBatch(t, k, m)
          PROVE  FALSE
      BY <1>0, <2>4, <3>7
         DEF PushSwap, PopEmpty, PopSwap, PopBatch, Deliver, Watching, TypeOK
    <3>8. QED
      BY <1>3, <3>2, <3>3, <3>4, <3>5, <3>6, <3>7 DEF Act, Step
  <2>5. QED
    BY <2>3, <2>4 DEF ObservationsFresh
<1>4. QED
  BY <1>2, <1>3 DEF Next

-----------------------------------------------------------------------------
\* The theorems.

\* For every number of threads, CPUs, nodes and tags: under NoTagWrap the L2
\* cache keeps its types, its links describe the stack that the completed
\* operations make, an unmoved head means a fresh observation, and no node is
\* lost or handed to two threads.
THEOREM CoreCacheCorrect ==
    Spec => [](TypeOK /\ StacksLinked /\ ObservationsFresh /\ NodesPartitioned)
<1>1. Init => IInv
  BY InitIInv
<1>2. IInv /\ [Next]_vars => IInv'
  BY TypeStep, PartitionStep, StacksStep, ChainsStep, ObservationsStep DEF IInv
<1>3. IInv => TypeOK /\ StacksLinked /\ ObservationsFresh /\ NodesPartitioned
  BY DEF IInv
<1>4. QED
  BY <1>1, <1>2, <1>3, PTL DEF Spec

\* Every step of the L2 cache is, for the stacks and the nodes in the threads'
\* hands, an atomic push of a chain, an atomic pop of the top node, a transfer
\* to or from the slab pool, or nothing.
LEMMA AbstractStep == IInv /\ [Next]_vars => [Abstract!Next]_(Abstract!vars)
<1> SUFFICES ASSUME IInv, [Next]_vars PROVE [Abstract!Next]_(Abstract!vars)
  OBVIOUS
<1> DEFINE owned == [t \in Threads |-> Held(t)]
<1>a. \A f : /\ Abstract!Range(f) = Range(f)
             /\ Abstract!IsInjective(f) <=> IsInjective(f)
  BY DEF Abstract!Range, Range, Abstract!IsInjective, IsInjective
<1>0. TypeOK /\ Control /\ NodesPartitioned
  BY DEF IInv
<1>1. ASSUME NEW t \in Threads, NEW n \in Nodes, Get(t, n)
      PROVE  Abstract!Get(t, n)
  <2>1. \A u \in Threads : Held(u)' = IF u = t THEN Held(u) \cup {n} ELSE Held(u)
    BY <1>0, <1>1 DEF Get, Held, TypeOK
  <2>2. owned' = [owned EXCEPT ![t] = @ \cup {n}]
    BY <2>1
  <2>3. n \notin Abstract!Stacked /\ n \notin Abstract!Owned
    <3>1. /\ \A k \in Cpus : n \notin Range(stk[k])
          /\ \A u \in Threads : n \notin owned[u]
      BY <1>0, <1>1 DEF Get, NodesPartitioned
    <3>2. QED
      BY <1>a, <3>1 DEF Abstract!Stacked, Abstract!Owned
  <2>4. QED
    BY <1>1, <2>2, <2>3 DEF Get, Abstract!Get
<1>2. ASSUME NEW t \in Threads, NEW n \in Nodes, Put(t, n)
      PROVE  Abstract!Put(t, n)
  <2>1. n \in own[t] /\ n \notin Range(chain[t])
    BY <1>0, <1>2 DEF Put, NodesPartitioned
  <2>2. \A u \in Threads : Held(u)' = IF u = t THEN Held(u) \ {n} ELSE Held(u)
    BY <1>0, <1>2, <2>1 DEF Put, Held, TypeOK
  <2>3. owned' = [owned EXCEPT ![t] = @ \ {n}] /\ n \in owned[t]
    BY <2>1, <2>2 DEF Held
  <2>4. QED
    BY <1>2, <2>3 DEF Put, Abstract!Put
<1>3. ASSUME NEW t \in Threads, PushSwap(t)
      PROVE  Abstract!Push(t, cpu[t])
  <2> DEFINE c == chain[t]
  <2>1. /\ c \in Seq(Nodes) /\ Len(c) \in 1 .. MaxBatch /\ IsInjective(c)
        /\ own[t] \cap Range(c) = {}
    BY <1>0, <1>3 DEF PushSwap, TypeOK, Control, NodesPartitioned
  <2>2. c \in [1 .. Len(c) -> Held(t)]
    <3>1. c \in [1 .. Len(c) -> Nodes] /\ \A i \in 1 .. Len(c) : c[i] \in Held(t)
      BY <2>1, LenProperties DEF Held, Range
    <3>2. QED
      BY <3>1
  <2>3. \A u \in Threads : Held(u)' = IF u = t THEN Held(u) \ Range(c) ELSE Held(u)
    <3>1. Range(<<>>) = {}
      BY DEF Range
    <3>2. UNCHANGED own /\ chain' = [chain EXCEPT ![t] = <<>>]
      BY <1>3 DEF PushSwap
    <3>3. QED
      BY <1>0, <2>1, <3>1, <3>2 DEF Held, TypeOK
  <2>4. owned' = [owned EXCEPT ![t] = @ \ Range(c)]
    BY <2>3
  <2>5. stk' = [stk EXCEPT ![cpu[t]] = c \o @]
    BY <1>3 DEF PushSwap
  <2>6. owned[t] = Held(t)
    OBVIOUS
  <2> HIDE DEF c, owned
  <2>7. \E m \in 1 .. MaxBatch : \E x \in [1 .. m -> owned[t]] :
            /\ IsInjective(x)
            /\ stk' = [stk EXCEPT ![cpu[t]] = x \o @]
            /\ owned' = [owned EXCEPT ![t] = @ \ Range(x)]
    BY <2>1, <2>2, <2>4, <2>5, <2>6
  <2>8. QED
    BY <1>a, <2>7 DEF Abstract!Push, owned
<1>4. ASSUME NEW t \in Threads, PopSwap(t)
      PROVE  Abstract!Pop(t, cpu[t])
  <2> DEFINE k == cpu[t]
             n == old[t].ptr
             c == Append(chain[t], n)
  <2>1. /\ k \in Cpus /\ n \in Nodes
        /\ stk[k] \in Seq(Nodes) /\ stk[k] # <<>> /\ n = stk[k][1]
    BY <1>4, PopTakesTop
  <2>2. SubSeq(stk[k], 2, Len(stk[k])) = Tail(stk[k]) /\ Head(stk[k]) = n
    BY <2>1, TailIsSubSeq
  <2>3. stk' = [stk EXCEPT ![k] = Tail(@)]
    BY <1>4, <2>2 DEF PopSwap
  <2>4. n \notin Range(chain[t])
    <3>1. n \in Range(stk[k])
      BY <1>0, <2>1, PopTop DEF NodesPartitioned
    <3>2. QED
      BY <1>0, <2>1, <3>1 DEF NodesPartitioned, Held
  <2>5. Range(c) = Range(chain[t]) \cup {n}
    BY <1>0, <2>1, <2>4, AppendNew DEF TypeOK, NodesPartitioned
  <2>6. \A u \in Threads : Held(u)' = IF u = t THEN Held(u) \cup {n} ELSE Held(u)
    <3>1. CASE own' = [own EXCEPT ![t] = @ \cup Range(c)]
               /\ chain' = [chain EXCEPT ![t] = <<>>]
      <4>1. Range(<<>>) = {}
        BY DEF Range
      <4>2. QED
        BY <1>0, <2>5, <3>1, <4>1 DEF TypeOK, Held
    <3>2. CASE own' = own /\ chain' = [chain EXCEPT ![t] = c]
      BY <1>0, <2>5, <3>2 DEF TypeOK, Held
    <3>3. QED
      BY <1>4, <3>1, <3>2 DEF PopSwap, Deliver
  <2>7. owned' = [owned EXCEPT ![t] = @ \cup {n}]
    BY <2>6
  <2>8. QED
    BY <2>1, <2>2, <2>3, <2>7 DEF Abstract!Pop
<1>5. ASSUME NEW t \in Threads, NEW k \in Cpus, NEW m \in 1 .. MaxBatch,
             NEW c \in [1 .. m -> own[t]], PushBatch(t, k, c)
      PROVE  UNCHANGED Abstract!vars
  <2>1. Range(c) \subseteq own[t] /\ chain[t] = <<>> /\ Range(<<>>) = {}
    BY <1>0, <1>5 DEF PushBatch, Control, Range
  <2>2. \A u \in Threads : Held(u)' = Held(u)
    BY <1>0, <1>5, <2>1 DEF PushBatch, Held, TypeOK
  <2>3. QED
    BY <1>5, <2>2 DEF PushBatch, Abstract!vars
<1>6. ASSUME NEW t \in Threads, PopEmpty(t)
      PROVE  UNCHANGED Abstract!vars
  <2>1. Range(<<>>) = {}
    BY DEF Range
  <2>2. \A u \in Threads : Held(u)' = Held(u)
    BY <1>0, <1>6, <2>1 DEF PopEmpty, Deliver, Held, TypeOK
  <2>3. QED
    BY <1>6, <2>2 DEF PopEmpty, Abstract!vars
<1>7. CASE UNCHANGED <<own, chain, stk>>
  <2>1. \A u \in Threads : Held(u)' = Held(u)
    BY <1>7 DEF Held
  <2>2. QED
    BY <1>7, <2>1 DEF Abstract!vars
<1>8. ASSUME NEW t \in Threads,
             \/ PushLink(t) \/ PushRetry(t) \/ PopLoad(t) \/ PopRead(t) \/ PopRetry(t)
             \/ \E k \in Cpus, m \in 1 .. MaxBatch : PopBatch(t, k, m)
      PROVE  UNCHANGED <<own, chain, stk>>
  BY <1>8 DEF PushLink, PushRetry, PopLoad, PopRead, PopRetry, PopBatch
<1>9. CASE UNCHANGED vars
  BY <1>7, <1>9 DEF vars, locals
<1>10. \A t \in Threads : cpu[t] \in Cpus
  BY <1>0 DEF TypeOK
<1>11. QED
  BY <1>1, <1>2, <1>3, <1>4, <1>5, <1>6, <1>7, <1>8, <1>9, <1>10
     DEF Next, Act, Step, Abstract!Next

\* The lock-free stacks implement the atomic ones (refinement by Held).
THEOREM CoreCacheImplementsNodeStacks == Spec => ImplementsNodeStacks
<1>1. Init => Abstract!Init
  <2>1. Range(<<>>) = {}
    BY DEF Range
  <2>2. QED
    BY <2>1 DEF Init, Held, Abstract!Init
<1>2. IInv /\ [Next]_vars => [Abstract!Next]_(Abstract!vars)
  BY AbstractStep
<1>3. Spec => []IInv
  <2>1. IInv /\ [Next]_vars => IInv'
    BY TypeStep, PartitionStep, StacksStep, ChainsStep, ObservationsStep DEF IInv
  <2>2. QED
    BY <2>1, InitIInv, PTL DEF Spec
<1>4. QED
  BY <1>1, <1>2, <1>3, PTL DEF Spec, ImplementsNodeStacks, Abstract!Spec

=============================================================================
