CONSTANTS
    main = main  worker = worker  x = x  y = y
    App <- OneThread
    Topic <- OneTopic
    NoTopic = NoTopic
    AutoReconnect = TRUE
    MaxSubscribes = 1
    MaxFailures = 0
SPECIFICATION FairSpec
PROPERTY DisconnectReturns
\* a destroyed bus stops, and disconnect() may hang
CHECK_DEADLOCK FALSE
