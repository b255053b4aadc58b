CONSTANTS
    a1 = a1  a2 = a2  b1 = b1
    x = x  y = y  fx = fx  fy = fy  fall = fall
    NoTask = NoTask
    Name <- MCName
    Task <- TwoNames
    NameOf <- MCNameOf
    FiltersOf <- MCFiltersOf
    Topic <- TwoTopics
    Filter <- MCFilter
    Matches <- MCMatches
    MaxArrivals = 2
SPECIFICATION Spec
PROPERTY DeliversInOrder
\* the manager ends, and stop() may hang on a lost notification
CHECK_DEADLOCK FALSE
