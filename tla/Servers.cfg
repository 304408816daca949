SPECIFICATION FairSpec
CONSTANTS
    Conns = {c1, c2}
    ServerTls <- TwoSnapshots
    Star <- Parents
    NoName = "none"
    DefaultCert = "default"
INVARIANT TypeOK
INVARIANT NothingCutOff
INVARIANT ManagerOutlives
INVARIANT CertMatches
PROPERTY ShutdownEnds
PROPERTY QueuedSettles
CHECK_DEADLOCK FALSE
