SPECIFICATION FairSpec
CONSTANTS
    MaxPublish = 2
    MaxGen = 2
    MaxFaults = 1
INVARIANT TypeOK
INVARIANT NoLostRotation
INVARIANT AppliedInOrder
PROPERTY NeverBackwards
PROPERTY StreamSettles
PROPERTY ReconnectCatchesUp
PROPERTY ShutdownCompletes
CHECK_DEADLOCK FALSE
