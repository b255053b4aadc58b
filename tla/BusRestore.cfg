CONSTANTS
    main = main  worker = worker  x = x  y = y
    App <- OneThread
    Topic <- TwoTopics
    NoTopic = NoTopic
    AutoReconnect = TRUE
    MaxSubscribes = 3
    MaxFailures = 2
SPECIFICATION FairSpec
PROPERTY RestoredAfterLoss
\* a destroyed bus stops, and disconnect() may hang
CHECK_DEADLOCK FALSE
