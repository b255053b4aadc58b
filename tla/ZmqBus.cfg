CONSTANTS
    t1 = t1  t2 = t2  t3 = t3  x = x  c = c
    Empty = Empty
    Thread <- Threads
    Topic <- Topics
    Content <- Contents
    Flags <- Pairs
    MaxInits = 2
    MaxMessages = 2
    MaxPushes = 1
SPECIFICATION Spec
SYMMETRY Symmetric
INVARIANTS TypeOK Lifetimes FramesWhole
PROPERTY SubscribeStarves
\* a receive may wait for ever once the messages are used up
CHECK_DEADLOCK FALSE
