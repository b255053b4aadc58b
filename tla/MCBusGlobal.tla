---------------------------- MODULE MCBusGlobal -----------------------------
(* Three threads: two overlap in every way while the third holds a bus.    *)
EXTENDS BusGlobal

CONSTANTS t1, t2, t3

Threads == {t1, t2, t3}
=============================================================================
