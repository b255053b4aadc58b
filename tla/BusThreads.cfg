CONSTANTS
    main = main  worker = worker  x = x  y = y
    App <- TwoThreads
    Topic <- TwoTopics
    NoTopic = NoTopic
    AutoReconnect = TRUE
    MaxSubscribes = 3
    MaxFailures = 2
SPECIFICATION Spec
INVARIANTS TypeOK NoOrphan HeldIsRecorded ConnectedHasLoop OneSleeper
           RecordedIsSubscribed
PROPERTY DisconnectWaits
\* a destroyed bus stops, and disconnect() may hang
CHECK_DEADLOCK FALSE
