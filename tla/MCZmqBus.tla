------------------------------ MODULE MCZmqBus ------------------------------
(* Three threads on a bus with publisher and subscriber, or with the others. *)
EXTENDS ZmqBus, TLC

CONSTANTS t1, t2, t3, x, c

Threads == {t1, t2, t3}
Topics == {x}
Contents == {c}
Pairs == {{"pub", "sub"}, {"pull", "push"}}
\* no definition tells the threads apart
Symmetric == Permutations(Threads)
=============================================================================
