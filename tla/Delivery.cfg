SPECIFICATION FairSpec
CONSTANTS
    MaxPublish = 3
    Streams = {s1}
    MaxGen = 2
    MaxFaults = 1
    NoStream = none
INVARIANT OnItsWay
PROPERTY RefinesRegister
PROPERTY ConvergesUnlessOverrun
