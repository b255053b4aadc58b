CONSTANTS
    a1 = a1  a2 = a2  b1 = b1
    x = x  y = y  fx = fx  fy = fy  fall = fall
    NoTask = NoTask
    Name <- MCName
    Task <- Replacement
    NameOf <- MCNameOf
    FiltersOf <- MCFiltersOf
    Topic <- OneTopic
    Filter <- MCFilter
    Matches <- MCMatches
    MaxArrivals = 2
SPECIFICATION FairSpec
INVARIANTS TypeOK NoDangling RegistryAgrees NoLostWakeup
PROPERTY RegisteredTaskHandles
PROPERTIES DispatchProgress NotifiedTaskDrains StopCompletes
\* the manager ends, and stop() may hang on a lost notification
CHECK_DEADLOCK FALSE
