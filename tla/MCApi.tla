------------------------------- MODULE MCApi --------------------------------
(* The public calls with two threads and a few sizes. *)
EXTENDS Api

Ask(op, a, m, s, site) == [op |-> op, a |-> a, m |-> m, s |-> s, site |-> site]

MCOptions == {[debug |-> on, lifetime |-> on] : on \in BOOLEAN}

MCRequests ==
    {Ask("malloc", 0, 1, 24, 16), Ask("aligned", 64, 1, 100, 48),
     Ask("calloc", 0, 4096, 4096, 0), Ask("malloc", 0, 1, 200000, 0),
     Ask("pvalloc", 4096, 1, 300000, 0)}
MCSignalSizes == {40000, Word - 1}
MCGrown == {Ask("realloc", 0, 1, 120, 16), Ask("realloc", 0, 1, 0, 16),
            Ask("realloc", 0, 4097, 4096, 16)}

\* posix_memalign(&p, 16, 24)
MCAlignedRequests == {Ask("posix_memalign", 16, 1, 24, 16)}
MCPlain == {[debug |-> FALSE, lifetime |-> FALSE]}

=============================================================================
