-------------------------- MODULE MCWorktreeReclaim --------------------------
(* WorktreeReclaim for TLC: the situations of MCTaskAdmission, and those in     *)
(* which a finished revision is decided, applied and reclaimed.                *)
EXTENDS WorktreeReclaim, MCTaskAdmission
CONSTANTS d1, d2, k3

StartScenes == {("story" :> NoStory) @@ p : p \in AllScenes}

ReviseOf(slot) == Job(slot, "revise", FALSE, FALSE, TRUE)
ApplyOld == Job(k1, "apply", FALSE, FALSE, TRUE)
After(jobs, deaths, run, contents, decide, also) ==
    [jobs |-> jobs, recipe |-> Draft(1), registry |-> FALSE, deaths |-> deaths, moves |-> FALSE, past |-> {k1},
     story |-> [outcome |-> run[1], worker |-> run[2], pane |-> run[3],
                changes |-> contents[1], ignored |-> contents[2], branch |-> contents[3],
                deciders |-> decide[1],
                verdict |-> (d1 :> decide[2]) @@ (d2 :> decide[3]),
                asks |-> (d1 :> decide[4]) @@ (d2 :> decide[5]),
                deaths |-> also[1], prunes |-> also[2], pruneIgnored |-> also[3]]]

NoJobs == Jobs(NoJob, NoJob, NoJob)
NextRevision == Jobs(NoJob, ReviseOf(k2), NoJob)
ReclaimScenes == {
    \* a headless candidate: two decisions, with and against each other, and a prune
    After(NoJobs, FALSE, <<"candidate", "leaving", "none">>,
          <<{"none", "sealed", "plain"}, BOOLEAN, {"sealed"}>>,
          <<{d1, d2}, "accepted", "accepted", FALSE, TRUE>>, <<TRUE, TRUE, FALSE>>),
    After(NoJobs, FALSE, <<"candidate", "gone", "none">>,
          <<{"cache"}, {TRUE}, {"only"}>>,
          <<{d1, d2}, "rejected", "accepted", FALSE, TRUE>>, <<FALSE, TRUE, TRUE>>),
    \* a lost run whose worker goes on, and the revision that replaces it
    After(NextRevision, FALSE, <<"lost", "orphan", "none">>,
          <<{"none", "sealed"}, {FALSE}, {"base"}>>,
          <<{d1}, "accepted", "accepted", FALSE, FALSE>>, <<FALSE, TRUE, FALSE>>),
    \* a pane
    After(NoJobs, FALSE, <<"candidate", "gone", "open">>,
          <<{"sealed", "nested"}, BOOLEAN, {"sealed"}>>,
          <<{d1, d2}, "accepted", "accepted", FALSE, TRUE>>, <<FALSE, FALSE, FALSE>>),
    After(NextRevision, FALSE, <<"candidate", "gone", "open">>,
          <<{"none"}, {FALSE}, {"base"}>>,
          <<{d1}, "rejected", "rejected", FALSE, FALSE>>, <<FALSE, FALSE, FALSE>>),
    \* the patch is applied twice, beside the start of another task
    After(Jobs(ApplyOld, ApplyOld, ReviseOf(k3)), TRUE, <<"candidate", "gone", "none">>,
          <<{"sealed"}, {FALSE}, {"base"}>>,
          <<{d1}, "accepted", "accepted", FALSE, FALSE>>, <<FALSE, FALSE, FALSE>>)}

Situations == StartScenes \cup ReclaimScenes
=============================================================================
