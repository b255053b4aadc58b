SPECIFICATION Spec
CONSTANTS
    Shadow = Shadow
    Absent = Absent
    Torn = Torn
    MaxStarts = 4
INVARIANTS TypeOK CertificatesMatch SubscribedHasTask SubscriptionLasts
PROPERTY PairKept
\* a process that has ended for the last time stays so
CHECK_DEADLOCK FALSE
