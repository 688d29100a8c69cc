--------------------------- MODULE MCTaskAdmission ---------------------------
(* TaskAdmission for TLC: the situations in which starts meet.                  *)
EXTENDS TaskAdmission, TLC
CONSTANTS s1, s2, s3, manual, k1, k2

Revise(snapshot) == Job(k1, "revise", snapshot, FALSE, TRUE)
StepIn(slot) == Job(slot, "step", FALSE, FALSE, TRUE)
Jobs(a, b, c) == (s1 :> a) @@ (s2 :> b) @@ (s3 :> c)
Plans(jobs, registry, deaths, moves) ==
    [jobs |-> jobs, recipe |-> Draft(1), registry |-> registry, deaths |-> deaths, moves |-> moves, past |-> {}]

AllScenes == {
    Plans(Jobs(Revise(FALSE), Revise(FALSE), Revise(FALSE)), FALSE, TRUE, FALSE),
    Plans(Jobs(Revise(TRUE), Revise(FALSE), NoJob), FALSE, TRUE, TRUE),
    Plans(Jobs(Revise(FALSE), StepIn(k2), NoJob), FALSE, TRUE, TRUE),
    Plans(Jobs(StepIn(k1), StepIn(k2), NoJob), FALSE, TRUE, FALSE),
    Plans(Jobs(Job(k1, "run", FALSE, TRUE, FALSE), NoJob, NoJob), TRUE, TRUE, FALSE),
    [Plans(Jobs(Job(k1, "run", FALSE, FALSE, FALSE), NoJob, NoJob), TRUE, FALSE, FALSE)
        EXCEPT !.recipe = Authored]}
=============================================================================
