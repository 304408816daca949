SPECIFICATION FairSpec
CONSTANTS
    Ingresses = {i1, i2}
    Addrs = {a1}
    SliceKey = slices
    MaxRev = 2
    MaxChanges = 1
    MaxErrors = 1
INVARIANT TypeOK
INVARIANT NoLostEvent
PROPERTY EventuallyCurrent
