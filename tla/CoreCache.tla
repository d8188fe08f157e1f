----------------------------- MODULE CoreCache ------------------------------
(***************************************************************************)
(* The per-CPU L2 cache (src/src/v8m_core_cache.c) for one size class: a   *)
(* Treiber stack per CPU whose head word packs a pointer and a tag that    *)
(* every successful push and pop advances.  The stacks of different size   *)
(* classes share nothing but the donor hint of steal_batch.                *)
(*                                                                         *)
(* A node's first eight bytes hold the link while it is on a stack or in a *)
(* chain; otherwise they are payload of whoever has the node, and a read   *)
(* of them may return anything.  A thread is interrupted between the load  *)
(* of the head, the access to the link and the compare-and-swap.           *)
(***************************************************************************)
EXTENDS Integers, Sequences, Functions

CONSTANTS
    Threads,
    Cpus,
    Nodes,     \* slots of the size class
    TagMod,    \* number of tags: 2^16 in the code
    MaxBatch,  \* longest chain of a batch
    Null,
    Payload    \* first word of a node that is not linked

ASSUME TagAssumption == TagMod \in Nat \ {0, 1}
ASSUME BatchAssumption == MaxBatch \in Nat \ {0}
ASSUME NullAssumption ==
    Null \notin Nodes /\ Payload \notin Nodes /\ Null # Payload

VARIABLES
    head,    \* cache->stacks[cls] of every CPU
    link,    \* first word of every node
    mapped,  \* nodes whose page the slab pool has handed out
    pc,      \* next step of each thread
    cpu,     \* the stack the thread works on
    old,     \* old_head, the thread's last observation of the head
    next,    \* the link pop has read from the observed node
    chain,   \* the chain being pushed, or popped so far
    want,    \* nodes pop_batch still wants
    own,     \* nodes in the thread's hands outside any operation
    stk,     \* history: the contents of every stack, top first
    age      \* history: successful CASes on the stack since the observation

shared == <<head, link, mapped>>
locals == <<pc, cpu, old, next, chain, want, own>>
vars == <<shared, locals, stk, age>>

NoHead == [ptr |-> Null, tag |-> 0]

Init ==
    /\ head = [k \in Cpus |-> NoHead]
    /\ link = [n \in Nodes |-> Payload]
    /\ mapped = {}
    /\ pc = [t \in Threads |-> "idle"]
    /\ cpu \in [Threads -> Cpus]
    /\ old = [t \in Threads |-> NoHead]
    /\ next = [t \in Threads |-> Null]
    /\ chain = [t \in Threads |-> <<>>]
    /\ want = [t \in Threads |-> 0]
    /\ own = [t \in Threads |-> {}]
    /\ stk = [k \in Cpus |-> <<>>]
    /\ age = [t \in Threads |-> 0]

-----------------------------------------------------------------------------
\* The slab pool and the user, as the cache sees them.

Get(t, n) ==
    /\ n \notin mapped
    /\ mapped' = mapped \cup {n}
    /\ own' = [own EXCEPT ![t] = @ \cup {n}]
    /\ UNCHANGED <<head, link, pc, cpu, old, next, chain, want, stk, age>>

Put(t, n) ==
    /\ n \in own[t]
    /\ mapped' = mapped \ {n}
    /\ own' = [own EXCEPT ![t] = @ \ {n}]
    /\ UNCHANGED <<head, link, pc, cpu, old, next, chain, want, stk, age>>

-----------------------------------------------------------------------------
\* The head word.

\* atomic_load_explicit of the head
Observe(t) ==
    /\ old' = [old EXCEPT ![t] = head[cpu[t]]]
    /\ age' = [age EXCEPT ![t] = 0]

Watching(u, k) == pc[u] \in {"push", "pushcas", "pop", "popcas"} /\ cpu[u] = k

\* Environment assumption: no thread sleeps through TagMod successful
\* operations on the stack it has observed (v8m_core_cache.h accepts the
\* wrap of the tag as improbable).
NoTagWrap(t) ==
    \A u \in Threads \ {t} : Watching(u, cpu[t]) => age[u] + 1 < TagMod

\* Mutant: the tag is not advanced.
SwapHeadSameTag(t, ptr) ==
    /\ head[cpu[t]] = old[t]
    /\ NoTagWrap(t)
    /\ head' = [head EXCEPT ![cpu[t]] = [ptr |-> ptr, tag |-> old[t].tag]]
    /\ age' = [u \in Threads |->
                  IF u # t /\ Watching(u, cpu[t]) THEN age[u] + 1 ELSE age[u]]

\* The compare-and-swap of the head from old_head to ptr succeeds.
SwapHead(t, ptr) ==
    /\ head[cpu[t]] = old[t]
    /\ NoTagWrap(t)
    /\ head' = [head EXCEPT ![cpu[t]] =
                   [ptr |-> ptr, tag |-> (old[t].tag + 1) % TagMod]]
    /\ age' = [u \in Threads |->
                  CASE u = t -> 0
                    [] u # t /\ Watching(u, cpu[t]) -> age[u] + 1
                    [] OTHER -> age[u]]

\* It fails, because the head has moved or spuriously (a weak
\* compare-and-swap may), and loads the head again.
RetryAt(t, where) ==
    /\ Observe(t)
    /\ pc' = [pc EXCEPT ![t] = where]

-----------------------------------------------------------------------------
\* v8m_core_cache_push_batch; v8m_core_cache_push is the chain of one node.

\* The caller has linked the chain (v8m_thread_cache_drain_chain).
LinkChain(c) ==
    [n \in Nodes |->
        IF \E i \in 1 .. Len(c) - 1 : c[i] = n
          THEN c[(CHOOSE i \in 1 .. Len(c) - 1 : c[i] = n) + 1]
          ELSE IF n = c[Len(c)] THEN Null ELSE link[n]]

PushBatch(t, k, c) ==
    /\ pc[t] = "idle"
    /\ IsInjective(c)
    /\ own' = [own EXCEPT ![t] = @ \ Range(c)]
    /\ chain' = [chain EXCEPT ![t] = c]
    /\ link' = LinkChain(c)
    /\ cpu' = [cpu EXCEPT ![t] = k]
    /\ old' = [old EXCEPT ![t] = head[k]]
    /\ age' = [age EXCEPT ![t] = 0]
    /\ pc' = [pc EXCEPT ![t] = "push"]
    /\ UNCHANGED <<head, mapped, next, want, stk>>

\* Mutant: the head of the chain is linked to the old top, not its tail.
PushLinkFirst(t) ==
    /\ pc[t] = "push"
    /\ link' = [link EXCEPT ![chain[t][1]] = old[t].ptr]
    /\ pc' = [pc EXCEPT ![t] = "pushcas"]
    /\ UNCHANGED <<head, mapped, cpu, old, next, chain, want, own, stk, age>>

PushLink(t) ==
    /\ pc[t] = "push"
    /\ link' = [link EXCEPT ![chain[t][Len(chain[t])]] = old[t].ptr]
    /\ pc' = [pc EXCEPT ![t] = "pushcas"]
    /\ UNCHANGED <<head, mapped, cpu, old, next, chain, want, own, stk, age>>

PushSwap(t) ==
    /\ pc[t] = "pushcas"
    /\ SwapHead(t, chain[t][1])
    /\ stk' = [stk EXCEPT ![cpu[t]] = chain[t] \o @]
    /\ chain' = [chain EXCEPT ![t] = <<>>]
    /\ pc' = [pc EXCEPT ![t] = "idle"]
    /\ UNCHANGED <<link, mapped, cpu, old, next, want, own>>

PushRetry(t) ==
    /\ pc[t] = "pushcas"
    /\ RetryAt(t, "push")
    /\ UNCHANGED <<shared, cpu, next, chain, want, own, stk>>

-----------------------------------------------------------------------------
\* v8m_core_cache_pop_batch: single pops until `max` or the stack is empty.
\* k is the caller's CPU or, in steal_batch, the donor that a possibly stale
\* hint names.

PopBatch(t, k, m) ==
    /\ pc[t] = "idle"
    /\ cpu' = [cpu EXCEPT ![t] = k]
    /\ want' = [want EXCEPT ![t] = m]
    /\ pc' = [pc EXCEPT ![t] = "load"]
    /\ UNCHANGED <<shared, old, next, chain, own, stk, age>>

PopLoad(t) ==
    /\ pc[t] = "load"
    /\ RetryAt(t, "pop")
    /\ UNCHANGED <<shared, cpu, next, chain, want, own, stk>>

\* The link is read before the node is claimed.
PopRead(t) ==
    /\ pc[t] = "pop"
    /\ old[t].ptr # Null
    /\ \/ /\ link[old[t].ptr] # Payload
          /\ next' = [next EXCEPT ![t] = link[old[t].ptr]]
       \/ /\ link[old[t].ptr] = Payload
          /\ \E v \in Nodes \cup {Null} : next' = [next EXCEPT ![t] = v]
    /\ pc' = [pc EXCEPT ![t] = "popcas"]
    /\ UNCHANGED <<shared, cpu, old, chain, want, own, stk, age>>

\* The batch is complete: the nodes of c belong to the caller.
Deliver(t, c) ==
    /\ own' = [own EXCEPT ![t] = @ \cup Range(c)]
    /\ chain' = [chain EXCEPT ![t] = <<>>]
    /\ link' = [n \in Nodes |-> IF n \in Range(c) THEN Payload ELSE link[n]]
    /\ want' = [want EXCEPT ![t] = 0]
    /\ pc' = [pc EXCEPT ![t] = "idle"]

\* Mutant: a stack that runs empty voids the batch.
PopEmptyVoid(t) ==
    /\ pc[t] = "pop"
    /\ old[t].ptr = Null
    /\ Deliver(t, <<>>)
    /\ UNCHANGED <<head, mapped, cpu, old, next, stk, age>>

PopEmpty(t) ==
    /\ pc[t] = "pop"
    /\ old[t].ptr = Null
    /\ Deliver(t, chain[t])
    /\ UNCHANGED <<head, mapped, cpu, old, next, stk, age>>

\* Mutant: the whole stack is detached at once.
PopSwapAll(t) ==
    /\ pc[t] = "popcas"
    /\ SwapHead(t, Null)
    /\ stk' = [stk EXCEPT ![cpu[t]] = <<>>]
    /\ next' = [next EXCEPT ![t] = Null]
    /\ Deliver(t, chain[t] \o stk[cpu[t]])
    /\ UNCHANGED <<mapped, cpu, old>>

\* The claimed node is appended to the chain.
PopSwap(t) ==
    /\ pc[t] = "popcas"
    /\ SwapHead(t, next[t])
    /\ stk' = [stk EXCEPT ![cpu[t]] = SubSeq(@, 2, Len(@))]
    /\ next' = [next EXCEPT ![t] = Null]
    /\ LET c == Append(chain[t], old[t].ptr)
       IN  \/ want[t] = 1 /\ Deliver(t, c)
           \/ /\ want[t] > 1
              /\ want' = [want EXCEPT ![t] = @ - 1]
              /\ chain' = [chain EXCEPT ![t] = c]
              /\ link' = IF chain[t] = <<>> THEN link
                         ELSE [link EXCEPT ![chain[t][Len(chain[t])]] = old[t].ptr]
              /\ pc' = [pc EXCEPT ![t] = "load"]
              /\ UNCHANGED own
    /\ UNCHANGED <<mapped, cpu, old>>

PopRetry(t) ==
    /\ pc[t] = "popcas"
    /\ RetryAt(t, "pop")
    /\ next' = [next EXCEPT ![t] = Null]
    /\ UNCHANGED <<shared, cpu, chain, want, own, stk>>

Step(t) ==
    \/ PushLink(t) \/ PushSwap(t) \/ PushRetry(t)
    \/ PopLoad(t) \/ PopRead(t) \/ PopEmpty(t) \/ PopSwap(t) \/ PopRetry(t)

Act(t) ==
    \/ \E n \in Nodes : Get(t, n) \/ Put(t, n)
    \/ \E k \in Cpus, m \in 1 .. MaxBatch :
          \/ \E c \in [1 .. m -> own[t]] : PushBatch(t, k, c)
          \/ PopBatch(t, k, m)
    \/ Step(t)

Next == \E t \in Threads : Act(t)

Spec == Init /\ [][Next]_vars

-----------------------------------------------------------------------------
\* Properties.

Heads == [ptr : Nodes \cup {Null}, tag : 0 .. TagMod - 1]

\* The types of the variables: tags stay within their width, batches within
\* their bound, and no observation outlives TagMod operations.
TypeOK ==
    /\ head \in [Cpus -> Heads]
    /\ link \in [Nodes -> Nodes \cup {Null, Payload}]
    /\ mapped \in SUBSET Nodes
    /\ pc \in [Threads -> {"idle", "push", "pushcas", "load", "pop", "popcas"}]
    /\ cpu \in [Threads -> Cpus]
    /\ old \in [Threads -> Heads]
    /\ next \in [Threads -> Nodes \cup {Null}]
    /\ chain \in [Threads -> Seq(Nodes)]
    /\ want \in [Threads -> 0 .. MaxBatch]
    /\ own \in [Threads -> SUBSET Nodes]
    /\ stk \in [Cpus -> Seq(Nodes)]
    /\ age \in [Threads -> 0 .. TagMod - 1]

\* What the head word and the links describe is the stack that the completed
\* pushes and pops make: no compare-and-swap installs a stale link.
StacksLinked ==
    \A k \in Cpus :
        /\ head[k].ptr = IF stk[k] = <<>> THEN Null ELSE stk[k][1]
        /\ \A i \in DOMAIN stk[k] :
              link[stk[k][i]] = IF i = Len(stk[k]) THEN Null ELSE stk[k][i + 1]

\* A thread's observation of the head equals the head only if no operation
\* on that stack has succeeded in between (the tag tells), and then the link
\* that pop has read is still the link of the top node.
ObservationsFresh ==
    \A t \in Threads :
        Watching(t, cpu[t]) =>
            /\ age[t] = 0 => head[cpu[t]] = old[t]
            /\ head[cpu[t]].tag = (old[t].tag + age[t]) % TagMod
            /\ pc[t] = "popcas" /\ age[t] = 0 => next[t] = link[old[t].ptr]

\* The nodes thread t has in its hands.
Held(t) == own[t] \cup Range(chain[t])

\* Every node has exactly one place: one position of one stack, one thread's
\* hands, one thread's chain, or the slab pool.  No node is lost and none is
\* handed to two threads, whatever the interleaving of push and pop.
NodesPartitioned ==
    /\ \A k \in Cpus : IsInjective(stk[k])
    /\ \A t \in Threads : IsInjective(chain[t])
    /\ \A k, l \in Cpus : k # l => Range(stk[k]) \cap Range(stk[l]) = {}
    /\ \A t, u \in Threads : t # u => Held(t) \cap Held(u) = {}
    /\ \A t \in Threads : own[t] \cap Range(chain[t]) = {}
    /\ \A k \in Cpus, t \in Threads : Range(stk[k]) \cap Held(t) = {}
    /\ \A n \in Nodes :
          n \in mapped <=> \/ \E k \in Cpus : n \in Range(stk[k])
                           \/ \E t \in Threads : n \in Held(t)

\* The stacks behave as if every push of a chain and every pop of a node
\* were atomic.
Abstract ==
    INSTANCE NodeStacks WITH
        owned <- [t \in Threads |-> Held(t)]

ImplementsNodeStacks == Abstract!Spec
=============================================================================
