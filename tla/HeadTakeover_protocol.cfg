CONSTANTS
    Sessions = {s1, s2, s3}
    Keys = {k1, k2}
    Tasks = {t1}
    MaxEpoch = 4
    NoSession = NoSession
    NoKey = NoKey
SPECIFICATION Spec
INVARIANTS TypeOK HeadSafety
PROPERTIES TakeoverSteps ImplementsContract
SYMMETRY HeadSymmetry
