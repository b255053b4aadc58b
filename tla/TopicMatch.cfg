SPECIFICATION Spec
CONSTANTS
    a = a
    b = b
    Empty = Empty
    Plus = Plus
    Hash = Hash
    MaxLevels = 4
    Level <- MCLevel
    Filters <- MCFilters
    Topics <- MCTopics
INVARIANTS
    TypeOK
    MatchesExactly
    BusNeverMisses
\* the comparison ends
CHECK_DEADLOCK FALSE
