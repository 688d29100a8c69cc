CONSTANTS
    s1 = s1
    s2 = s2
    s3 = s3
    manual = manual
    k1 = k1
    k2 = k2
    k3 = k3
    d1 = d1
    d2 = d2
    Starters = {s1, s2, s3}
    Certifiers = {s1, s2, s3, manual}
    Slots = {k1, k2, k3}
    Nobody = Nobody
    AllPlans <- Situations
    MaxDeaths = 1
    MaxCli = 2
    Deciders = {d1, d2}
    Cleaner = Cleaner
    Pruner = Pruner
    Old = k1
    New = k2
    NoStory = NoStory
SPECIFICATION FairCheckoutSpec
INVARIANTS AdmissionInv  ReclaimInv
PROPERTIES StartsEnd  SettledIsReclaimed
CHECK_DEADLOCK FALSE
