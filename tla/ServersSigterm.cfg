SPECIFICATION Spec
CONSTANTS
    Conns = {c1, c2}
    ServerTls <- TwoSnapshots
    Star <- Parents
    NoName = "none"
    DefaultCert = "default"
INVARIANT SignalsDrain
CHECK_DEADLOCK FALSE
