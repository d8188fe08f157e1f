------------------------------ MODULE Process -------------------------------
(***************************************************************************)
(* The life of the library in a process: the constructor and destructor    *)
(* and the fork handlers of src/src/v8m_api.c, the background purge thread *)
(* of src/src/v8m_bg_purge.c, and the mutexes of every module, in the      *)
(* order in which its operations nest them.                                *)
(*                                                                         *)
(* An operation is the sequence of the mutexes it locks and unlocks; what  *)
(* it does between is the other modules' subject.  "lifetime" stands for   *)
(* the three lifetime arenas and "node" for the nodes of the NUMA pool,    *)
(* each taken one at a time.  The constructor runs before there are other  *)
(* threads, the destructor while they still run.                           *)
(*                                                                         *)
(* A fork copies the memory and only the forking thread goes on in the     *)
(* copy: a mutex that another thread holds stays locked there for good.    *)
(***************************************************************************)
EXTENDS Integers, SequencesExt

CONSTANTS
    Workers,     \* threads that allocate and free
    Forker,      \* a thread that forks
    Bg,          \* the background purge thread
    Main,        \* the thread that runs constructor and destructor
    Nobody

Locks == {"slab", "lifetime", "buddy", "node", "region", "anchor",
          "large", "registry", "bg", "ring"}
Actors == Workers \cup {Forker, Bg, Main}

VARIABLES
    init_state,  \* g_init_state
    anchor,      \* g_anchor_initialized
    running,     \* g_running of the purge thread
    stop,        \* g_should_stop
    hook,        \* the tick hook is installed
    holder,      \* who has each mutex
    prog,        \* the steps each actor has still to take in its operation
    bg,          \* where the purge thread is in its loop
    stage,       \* where Main is
    child        \* the last fork's child, once its handler has run

vars == <<init_state, anchor, running, stop, hook, holder, prog, bg, stage, child>>

-----------------------------------------------------------------------------
\* Operations

Section(lock, body) ==
    <<[do |-> "lock", lock |-> lock]>> \o body \o <<[do |-> "unlock", lock |-> lock]>>

\* v8m_page_heap_alloc: anchor_or_mmap makes the anchor on first use and carves
\* from it, then the region is registered.
PageHeapAlloc ==
    <<[do |-> "once"]>> \o Section("anchor", <<>>) \o Section("region", <<>>)

\* v8m_page_heap_free: the region is taken off the map, and given back to the
\* anchor if it came from there.
PageHeapFree(anchored) ==
    Section("region", <<>>) \o IF anchored THEN Section("anchor", <<>>) ELSE <<>>

\* v8m_slab_pool_alloc with a fresh page that needs a fresh huge page.
SlabAlloc == Section("slab", Section("node", PageHeapAlloc))

\* The same in a lifetime arena, which takes its pages off the page heap.
LifetimeAlloc == Section("lifetime", PageHeapAlloc)

\* v8m_buddy_pool_alloc with a fresh arena.
BuddyAlloc == Section("buddy", PageHeapAlloc)

\* Mutant: the system call is made inside the lock.
LargeFreeLocked(anchored) == Section("large", PageHeapFree(anchored))

\* v8m_large_free: the cache is full, and the evicted region is unmapped
\* outside the lock.
LargeFree(anchored) == Section("large", <<>>) \o PageHeapFree(anchored)

LargeAlloc == Section("large", <<>>) \o PageHeapAlloc

\* v8m_thread_cache_get_or_create, registry_unregister_and_fold and the
\* aggregations.
Registry == Section("registry", <<>>)

\* debug_check_double_free
DoubleFreeCheck == Section("ring", <<>>)

Operations ==
    {SlabAlloc, LifetimeAlloc, BuddyAlloc, LargeAlloc, Registry, DoubleFreeCheck}
    \cup {LargeFree(anchored) : anchored \in {FALSE, anchor}}

\* v8m_dispatch_bg_tick: the sweeps release pages under the pools' locks, and
\* the rebalance and the age sweep walk the region map.
BgTick(anchored) ==
    Section("buddy", PageHeapFree(anchored))
    \o Section("slab", Section("node", <<>>) \o PageHeapFree(anchored))
    \o Section("lifetime", PageHeapFree(FALSE)) \o Section("region", <<>>)

-----------------------------------------------------------------------------
\* The fork handlers

\* The order in which v8m_atfork_prepare takes the locks.
ForkOrder == <<"slab", "lifetime", "buddy", "region", "anchor", "large", "registry", "bg">>

\* Mutant: the buddy pool is left out.
PrepareWithoutBuddy(ready) ==
    (IF ready THEN [i \in 1 .. Len(ForkOrder) - 1 |->
                        [do |-> "lockif", lock |-> SelectSeq(ForkOrder, LAMBDA l : l # "buddy")[i]]]
     ELSE <<>>)
    \o <<[do |-> "lock", lock |-> "ring"], [do |-> "fork"], [do |-> "unlock", lock |-> "ring"], [do |-> "parent"]>>

\* v8m_atfork_prepare, the fork and the head of v8m_atfork_parent.  The anchor's
\* lock is taken if the anchor exists when its turn comes.
Prepare(ready) ==
    (IF ready THEN [i \in 1 .. Len(ForkOrder) |-> [do |-> "lockif", lock |-> ForkOrder[i]]]
     ELSE <<>>)
    \o <<[do |-> "lock", lock |-> "ring"], [do |-> "fork"], [do |-> "unlock", lock |-> "ring"], [do |-> "parent"]>>

\* Mutant: the purge thread's mutex is not given back.
ParentKeepsBg(ready) ==
    IF ready THEN [i \in 1 .. Len(ForkOrder) - 1 |-> [do |-> "unlockif", lock |-> Reverse(ForkOrder)[i + 1]]]
    ELSE <<>>

\* The rest of v8m_atfork_parent: the locks in the reverse order.
Parent(ready) ==
    IF ready THEN [i \in 1 .. Len(ForkOrder) |-> [do |-> "unlockif", lock |-> Reverse(ForkOrder)[i]]]
    ELSE <<>>

Skipped(step) == step.lock = "anchor" /\ ~ anchor

\* Mutant: the child still believes in a purge thread.
AtforkChildRunning ==
    LET ready == init_state = "READY"
        unlocked == {"ring"} \cup IF ready THEN {ForkOrder[i] : i \in DOMAIN ForkOrder} \ {l \in {"anchor"} : ~ anchor} ELSE {}
    IN  [ready |-> ready,
         held |-> {l \in Locks : holder[l] # Nobody} \ unlocked,
         running |-> running]

\* v8m_atfork_child runs alone in its process: the locks that are held when it
\* is done, and its idea of the purge thread.
AtforkChild ==
    LET ready == init_state = "READY"
        unlocked == {"ring"} \cup IF ready THEN {ForkOrder[i] : i \in DOMAIN ForkOrder} \ {l \in {"anchor"} : ~ anchor} ELSE {}
    IN  [ready |-> ready,
         held |-> {l \in Locks : holder[l] # Nobody} \ unlocked,
         running |-> running /\ ~ ready]

-----------------------------------------------------------------------------
\* Steps

Init ==
    /\ init_state = "RUNNING"
    /\ anchor = FALSE /\ running = FALSE /\ stop = FALSE /\ hook = FALSE
    /\ holder = [l \in Locks |-> Nobody]
    /\ prog = [a \in Actors |-> <<>>]
    /\ bg = "none"
    /\ stage = "construct"
    /\ child = [ready |-> FALSE, held |-> {}, running |-> FALSE]

Rest(a) == prog' = [prog EXCEPT ![a] = Tail(@)]

\* The next step of a's operation.  pthread_mutex_unlock does not ask who has
\* the mutex.
Exec(a) ==
    /\ prog[a] # <<>>
    /\ LET step == Head(prog[a])
       IN  \/ /\ step.do = "lock" \/ (step.do = "lockif" /\ ~ Skipped(step))
              /\ holder[step.lock] = Nobody
              /\ holder' = [holder EXCEPT ![step.lock] = a]
              /\ Rest(a)
              /\ UNCHANGED <<anchor, child>>
           \/ /\ step.do = "unlock" \/ (step.do = "unlockif" /\ ~ Skipped(step))
              /\ holder' = [holder EXCEPT ![step.lock] = Nobody]
              /\ Rest(a)
              /\ UNCHANGED <<anchor, child>>
           \/ /\ step.do \in {"lockif", "unlockif"} /\ Skipped(step)
              /\ Rest(a)
              /\ UNCHANGED <<anchor, holder, child>>
           \/ /\ step.do = "once"
              /\ anchor' = TRUE
              /\ Rest(a)
              /\ UNCHANGED <<holder, child>>
           \/ /\ step.do = "fork"
              /\ child' = AtforkChild
              /\ Rest(a)
              /\ UNCHANGED <<anchor, holder>>
           \/ /\ step.do = "parent"
              /\ prog' = [prog EXCEPT ![a] = Parent(init_state = "READY")]
              /\ UNCHANGED <<anchor, holder, child>>
    /\ UNCHANGED <<init_state, running, stop, hook, bg, stage>>

\* A thread calls malloc or free; when the library is not ready it is served
\* without a lock.
Call(w) ==
    /\ prog[w] = <<>> /\ init_state = "READY"
    /\ \E op \in Operations : prog' = [prog EXCEPT ![w] = op]
    /\ UNCHANGED <<init_state, anchor, running, stop, hook, holder, bg, stage, child>>

Fork ==
    /\ prog[Forker] = <<>> /\ stage # "construct"
    /\ prog' = [prog EXCEPT ![Forker] = Prepare(init_state = "READY")]
    /\ UNCHANGED <<init_state, anchor, running, stop, hook, holder, bg, stage, child>>

-----------------------------------------------------------------------------
\* The purge thread

\* wait_for_next_tick takes the mutex, first or when a wait is over.
BgLock ==
    /\ bg \in {"lock", "woken", "timeout"}
    /\ holder["bg"] = Nobody
    /\ holder' = [holder EXCEPT !["bg"] = Bg]
    /\ bg' = IF bg = "timeout" THEN "decide" ELSE "check"
    /\ UNCHANGED <<init_state, anchor, running, stop, hook, prog, stage, child>>

\* The loop around pthread_cond_timedwait, which lets go of the mutex.
BgCheck ==
    /\ bg = "check"
    /\ IF stop THEN bg' = "decide" /\ UNCHANGED holder
       ELSE /\ bg' = "wait"
            /\ holder' = [holder EXCEPT !["bg"] = Nobody]
    /\ UNCHANGED <<init_state, anchor, running, stop, hook, prog, stage, child>>

\* The deadline passes; or the wait ends for a signal or for no reason.
BgWake ==
    /\ bg = "wait"
    /\ bg' \in {"timeout", "woken"}
    /\ UNCHANGED <<init_state, anchor, running, stop, hook, holder, prog, stage, child>>

\* The flag is read once more and the mutex released; run_scan_pass calls the
\* hook, which looks at g_init_state.
BgDecide ==
    /\ bg = "decide"
    /\ holder' = [holder EXCEPT !["bg"] = Nobody]
    /\ bg' = IF stop THEN "gone" ELSE "scan"
    /\ UNCHANGED <<init_state, anchor, running, stop, hook, prog, stage, child>>

BgScan ==
    /\ bg = "scan"
    /\ bg' = "ticking"
    /\ prog' = [prog EXCEPT ![Bg] = IF hook /\ init_state = "READY" THEN BgTick(anchor) ELSE <<>>]
    /\ UNCHANGED <<init_state, anchor, running, stop, hook, holder, stage, child>>

BgScanned ==
    /\ bg = "ticking" /\ prog[Bg] = <<>>
    /\ bg' = "lock"
    /\ UNCHANGED <<init_state, anchor, running, stop, hook, holder, prog, stage, child>>

BgStep == BgLock \/ BgCheck \/ BgWake \/ BgDecide \/ BgScan \/ BgScanned \/ Exec(Bg)

-----------------------------------------------------------------------------
\* Constructor and destructor

\* v8m_constructor publishes READY, installs the hooks and spawns the purge
\* thread, which may fail.
Construct ==
    /\ stage = "construct"
    /\ init_state' = "READY" /\ hook' = TRUE
    /\ \/ bg' = "lock" /\ running' = TRUE
       \/ UNCHANGED <<bg, running>>
    /\ stage' = "run"
    /\ UNCHANGED <<anchor, stop, holder, prog, child>>

\* v8m_destructor: the hook goes first; v8m_bg_purge_shutdown.
Destroy ==
    /\ stage = "run"
    /\ hook' = FALSE
    /\ stage' = IF running THEN "stop" ELSE "shutdown"
    /\ UNCHANGED <<init_state, anchor, running, stop, holder, prog, bg, child>>

StopLock ==
    /\ stage = "stop" /\ holder["bg"] = Nobody
    /\ holder' = [holder EXCEPT !["bg"] = Main]
    /\ stage' = "signal"
    /\ UNCHANGED <<init_state, anchor, running, stop, hook, prog, bg, child>>

\* Mutant: the thread is woken and not told why.
StopSignalOnly ==
    /\ stage = "signal"
    /\ bg' = IF bg = "wait" THEN "woken" ELSE bg
    /\ holder' = [holder EXCEPT !["bg"] = Nobody]
    /\ stage' = "join"
    /\ UNCHANGED <<init_state, anchor, running, stop, hook, prog, child>>

StopSignal ==
    /\ stage = "signal"
    /\ stop' = TRUE
    /\ bg' = IF bg = "wait" THEN "woken" ELSE bg
    /\ holder' = [holder EXCEPT !["bg"] = Nobody]
    /\ stage' = "join"
    /\ UNCHANGED <<init_state, anchor, running, hook, prog, child>>

Join ==
    /\ stage = "join" /\ bg = "gone"
    /\ running' = FALSE
    /\ stage' = "shutdown"
    /\ UNCHANGED <<init_state, anchor, stop, hook, holder, prog, bg, child>>

\* free(cache), when the calling thread has no cache any more: the free makes
\* a new one, which the destructor leaves behind, unless a soft limit keeps the
\* thread caches out of the way.  The block ends in the new cache's bin or in
\* the buddy pool.
FreeOfCache ==
    {check \o home : check \in {<<>>, DoubleFreeCheck},
                    home \in {Section("buddy", <<>>), BuddyAlloc \o Registry,
                              BuddyAlloc \o Registry \o Section("buddy", <<>>)}}

\* v8m_thread_cache_module_shutdown unregisters the cache of the calling
\* thread, if it has one, and frees it.
Shutdown ==
    /\ stage = "shutdown"
    /\ \E op \in {<<>>} \cup {Registry \o free : free \in FreeOfCache} :
          prog' = [prog EXCEPT ![Main] = op]
    /\ stage' = "flip"
    /\ UNCHANGED <<init_state, anchor, running, stop, hook, holder, bg, child>>

Flip ==
    /\ stage = "flip" /\ prog[Main] = <<>>
    /\ init_state' = "TORN_DOWN"
    /\ stage' = "done"
    /\ UNCHANGED <<anchor, running, stop, hook, holder, prog, bg, child>>

\* When Main is done the process ends, whatever its threads are doing.
MainStep == StopLock \/ StopSignal \/ Join \/ Shutdown \/ Flip \/ Exec(Main)

Next ==
    \/ Construct \/ Destroy \/ MainStep \/ BgStep
    \/ Fork \/ Exec(Forker)
    \/ \E w \in Workers : Call(w) \/ Exec(w)

Spec == Init /\ [][Next]_vars

\* A thread that can go on does, and one that waits for a mutex which is free
\* again and again gets it.
FairSpec ==
    /\ Spec
    /\ SF_vars(MainStep) /\ SF_vars(BgStep) /\ SF_vars(Exec(Forker))
    /\ \A w \in Workers : SF_vars(Exec(w))

-----------------------------------------------------------------------------
\* The types of the variables.
TypeOK ==
    /\ init_state \in {"RUNNING", "READY", "TORN_DOWN"}
    /\ holder \in [Locks -> Actors \cup {Nobody}]
    /\ {anchor, running, stop, hook} \subseteq BOOLEAN
    /\ child.held \subseteq Locks

\* Whether a is between locking and unlocking l.
Inside(a, l) ==
    \E i \in DOMAIN prog[a] :
        /\ prog[a][i].do = "unlock" /\ prog[a][i].lock = l
        /\ \A j \in 1 .. i - 1 : prog[a][j].do = "lock" => prog[a][j].lock # l

\* The comment on the fork handlers: a thread that holds a lock at fork time
\* must not leave "the child with a held-by-dead-thread mutex", so in a child
\* that can use the pools no mutex is locked, those of the NUMA pool included,
\* which no handler takes; and a child does not wait for a thread that it does
\* not have.
ChildSound == child.ready => child.held = {} /\ ~ child.running

\* The unlocks in the fork handlers hit no lock that another thread has taken
\* since: two threads are never between lock and unlock of the same mutex.
\* (The anchor's is left out: see the README.)
Exclusive ==
    /\ TypeOK
    /\ \A l \in Locks \ {"anchor"} : \A a, b \in Workers \cup {Bg} :
           Inside(a, l) /\ Inside(b, l) => a = b

\* The join in v8m_bg_purge_shutdown returns, whatever the purge thread is
\* doing, and with forks going on.
ShutdownCompletes == (stage = "stop") ~> (stage = "done")

\* Nobody waits for a lock for ever: an operation that nests locks, and a fork,
\* which takes them all, come to their end as long as the library is up.
CallsReturn ==
    \A a \in Workers \cup {Forker} :
        (prog[a] # <<>>) ~> (prog[a] = <<>> \/ init_state = "TORN_DOWN")

\* v8m_atfork_parent gives every lock back that v8m_atfork_prepare took, though
\* each of them looks at g_init_state and at the anchor anew.  Only a
\* destructor that flips the state between the two makes it keep some, and
\* never the ring's, which both of them treat alike.
ForkReleases ==
    prog[Forker] = <<>> => \A l \in Locks :
        holder[l] = Forker => init_state = "TORN_DOWN" /\ l # "ring"
=============================================================================
