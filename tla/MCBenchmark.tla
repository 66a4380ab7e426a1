----------------------------- MODULE MCBenchmark ------------------------------
(* Three threads and a page: benchmarks of two cases, with one thread to spare *)
EXTENDS Benchmark

CONSTANTS p1, q1, q2

\* A page that is about, or quotes, the first or the last thread
MCPageKinds ==
    {kind \in AllPageKinds : \A token \in kind.about \cup kind.tokens : token[2] # 2}

MCSettings == {[percent |-> 0,  maxCalls |-> 2],
               [percent |-> 0,  maxCalls |-> 3],
               [percent |-> 34, maxCalls |-> 3]}

=============================================================================
