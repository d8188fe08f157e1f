----------------------------- MODULE NodeStacks -----------------------------
(***************************************************************************)
(* What the per-CPU L2 cache promises: for one size class, a LIFO stack    *)
(* of nodes per CPU on which a push of a chain and a pop of one node are   *)
(* atomic.  Nodes off the stacks belong to exactly one thread or to the    *)
(* slab pool.                                                              *)
(***************************************************************************)
EXTENDS Integers, Sequences, Functions

CONSTANTS Threads, Cpus, Nodes, MaxBatch

VARIABLES
    stk,   \* stk[k]: the stack of CPU k, top first
    owned  \* owned[t]: the nodes thread t may use as it likes

vars == <<stk, owned>>

Stacked == UNION {Range(stk[k]) : k \in Cpus}
Owned == UNION {owned[t] : t \in Threads}

Init ==
    /\ stk = [k \in Cpus |-> <<>>]
    /\ owned = [t \in Threads |-> {}]

\* The slab pool hands a node out, and takes it back.
Get(t, n) ==
    /\ n \notin Stacked \cup Owned
    /\ owned' = [owned EXCEPT ![t] = @ \cup {n}]
    /\ UNCHANGED stk

Put(t, n) ==
    /\ n \in owned[t]
    /\ owned' = [owned EXCEPT ![t] = @ \ {n}]
    /\ UNCHANGED stk

Push(t, k) ==
    \E m \in 1 .. MaxBatch : \E c \in [1 .. m -> owned[t]] :
        /\ IsInjective(c)
        /\ stk' = [stk EXCEPT ![k] = c \o @]
        /\ owned' = [owned EXCEPT ![t] = @ \ Range(c)]

Pop(t, k) ==
    /\ stk[k] # <<>>
    /\ owned' = [owned EXCEPT ![t] = @ \cup {Head(stk[k])}]
    /\ stk' = [stk EXCEPT ![k] = Tail(@)]

Next ==
    \E t \in Threads :
        \/ \E n \in Nodes : Get(t, n) \/ Put(t, n)
        \/ \E k \in Cpus : Push(t, k) \/ Pop(t, k)

Spec == Init /\ [][Next]_vars
=============================================================================
