SPECIFICATION FairSpec
CONSTANTS
    MaxPublish = 3
    Streams = {s1}
PROPERTY CatchesUp
