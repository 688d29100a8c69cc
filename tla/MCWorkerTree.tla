---------------------------- MODULE MCWorkerTree ----------------------------
(* A root and two more tasks: two children that race, or a chain of three. *)
EXTENDS WorkerTree

CONSTANTS r, a, b
MCTasks == {r, a, b}
Plan(talk, retry, revise, die) ==
  [talk |-> talk, retry |-> retry, revise |-> revise, die |-> die]
MCPlans == {Plan({r}, {}, {}, {}), Plan({}, {a}, {}, {a}), Plan({}, {}, {a}, {b}), Plan({}, {}, {r}, {})}
=============================================================================
