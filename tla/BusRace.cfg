CONSTANTS
    t1 = t1  t2 = t2  t3 = t3
    Thread <- Threads
    MaxConstructs = 2
SPECIFICATION Spec
INVARIANT InitializedFirst
\* the bound on constructors ends a behaviour
CHECK_DEADLOCK FALSE
