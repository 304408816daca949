SPECIFICATION StalledSpec
CONSTANTS
    MaxPublish = 4
    Streams = {s1, s2}
INVARIANT TypeOK
INVARIANT FreshSend
INVARIANT LossOnlyByOverrun
PROPERTY BroadcastCompletes
PROPERTY DisconnectedIsRemoved
PROPERTY CatchesUpUnlessOverrun
