CONSTANTS
    p1 = p1
    p2 = p2
    MaxRevisions = 2
    MaxAttempts = 1
    Reconcilers = {p1}
    Reliable = {}
    WorkspaceMayVanish = FALSE
SPECIFICATION LifecycleSpec
PROPERTIES LiveRunNotLost
