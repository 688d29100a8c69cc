CONSTANTS
    p1 = p1
    p2 = p2
    MaxRevisions = 1
    MaxAttempts = 2
    Reconcilers = {p1, p2}
    Reliable = {p1}
    WorkspaceMayVanish = TRUE
SPECIFICATION FairSpec
INVARIANTS LifecycleTypeOK StoreSafety CompletionIsLast CancelledOnRequest
PROPERTIES ResultsStand LiveRunNotLost EveryRunEnds
