CONSTANTS
    t1 = t1  t2 = t2  t3 = t3
    Thread <- Threads
    MaxConstructs = 5
SPECIFICATION Spec
INVARIANTS TypeOK LibraryReady CleanedUp
\* the bound on constructors ends a behaviour
CHECK_DEADLOCK FALSE
