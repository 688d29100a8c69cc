CONSTANTS
    s1 = s1
    s2 = s2
    s3 = s3
    manual = manual
    k1 = k1
    k2 = k2
    Starters = {s1, s2, s3}
    Certifiers = {s1, s2, s3, manual}
    Slots = {k1, k2}
    Nobody = Nobody
    AllPlans <- AllScenes
    MaxDeaths = 1
    MaxCli = 2
SPECIFICATION Spec
PROPERTIES WorkStays
CHECK_DEADLOCK FALSE
