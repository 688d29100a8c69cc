----------------------------- MODULE WorkerTree -----------------------------
(***************************************************************************)
(* Workers that delegate to workers, and ask each other questions.         *)
(*                                                                         *)
(* A worker starts child tasks; the edge belongs to its exact attempt.     *)
(* Each admission is checked twice: before the child's checkout is made,   *)
(* and again in the transaction that records it.  Cancelling a task        *)
(* records an intent for its whole subtree in one transaction.  A worker's *)
(* success is sealed only after its children and its questions were found  *)
(* settled.                                                                *)
(*                                                                         *)
(* One task is a run of its latest revision; what a single run does in     *)
(* detail, markers and receipts included, is in AttemptLifecycle.  Here a  *)
(* revision replaces a run that is over.                                   *)
(***************************************************************************)
EXTENDS Integers, FiniteSets, FiniteSetsExt

CONSTANTS
  Tasks, Root,     \* the tasks; the owner's own one
  MaxChildren,     \* max_concurrent_children
  MaxDepth,        \* how deep delegation goes
  MaxAttempts,     \* the largest attempt budget
  Plans,           \* bound: which tasks talk, have more than one attempt, may be
                   \* revised, may lose their supervisor
  MaxRevisions     \* bound: revisions of a task

ASSUME TreeConstants ==
  /\ Root \in Tasks /\ Plans \subseteq [{"talk", "retry", "revise", "die"} -> SUBSET Tasks]
  /\ MaxChildren \in Nat \ {0} /\ MaxDepth \in Nat \ {0} /\ MaxAttempts \in Nat \ {0}
  /\ MaxRevisions \in Nat \ {0}

VARIABLES
  plan,            \* the plan of this behaviour
  task,            \* tasks, attempts, results, inbox_items, decisions, ...
  edge,            \* delegation_edges, by child
  asking,          \* admissions that passed the first check, by child
  dead             \* tasks whose supervisor died

vars == <<plan, task, edge, asking, dead>>

\* Mistake: the budget is taken for the number of retries.
BudgetOfRetries(t) == IF t \in plan.retry THEN MaxAttempts + 1 ELSE 1
Budget(t) == IF t \in plan.retry THEN MaxAttempts ELSE 1   \* budget.max_attempts
Sides == {"worker", "owner"}   \* who asks
Attempt == [task : Tasks, rev : 1..MaxRevisions, att : 1..MaxAttempts]
NoAttempt == [task |-> Root, rev |-> 0, att |-> 0]
NoEdge == [parent |-> NoAttempt, depth |-> 0]

Run == [rev : 0..MaxRevisions,     \* latest revision
        att : 0..MaxAttempts,      \* its latest attempt, and that one's state:
        st : {"none", "running", "collecting", "terminal"},
        outcome : {"none", "candidate", "failed", "cancelled", "lost"},  \* latest result
        acked : BOOLEAN, decided : {"none", "accepted", "rejected"},
        early : BOOLEAN,           \* it was acknowledged before the run was over
        granted : BOOLEAN, completed : BOOLEAN,
        intent : 0..MaxRevisions,  \* the revision a cancellation was asked for
        asked : SUBSET Sides, open : SUBSET Sides,   \* the attempt's questions
        verdict : {"none", "children", "settled", "unsettled"}]

NewRun(rev, intent) ==
  [rev |-> rev, att |-> 0, st |-> "none", outcome |-> "none", acked |-> FALSE,
   decided |-> "none", early |-> FALSE, granted |-> FALSE, completed |-> FALSE,
   intent |-> intent, asked |-> {}, open |-> {}, verdict |-> "none"]

Init ==
  /\ plan \in Plans
  /\ task = [t \in Tasks |-> NewRun(0, 0)]
  /\ edge = [t \in Tasks |-> NoEdge]
  /\ asking = [t \in Tasks |-> NoAttempt]
  /\ dead = {}

----------------------------------------------------------------------------
(* Reading the tables. *)

Exists(t)      == task[t].rev > 0
Current(t)     == [task |-> t, rev |-> task[t].rev, att |-> task[t].att]
Cancelled(t)   == Exists(t) /\ task[t].intent = task[t].rev
IsRunning(p)   == p # NoAttempt /\ Current(p.task) = p /\ task[p.task].st = "running"
Children(p)    == {c \in Tasks : edge[c].parent = p /\ p # NoAttempt}

\* Mistake: a failed child keeps its slot although its run is over.
ActiveChildrenWithFailures(p) ==
  {c \in Children(p) : ~Cancelled(c) /\ task[c].outcome \in {"none", "failed"}}

\* active_child_count: no result yet, or a failure that may still be retried.
ActiveChildren(p) ==
  {c \in Children(p) :
    /\ ~Cancelled(c)
    /\ \/ task[c].outcome = "none"
       \/ task[c].outcome = "failed" /\ ~task[c].completed}

\* unsettled_child_tasks
UnsettledChildren(p) ==
  {c \in Children(p) :
    /\ ~Cancelled(c)
    /\ \/ task[c].outcome = "none"
       \/ ~task[c].acked
       \/ task[c].outcome = "candidate" /\ task[c].decided = "none"}

\* The tasks that attempts of the tasks S delegated.
Delegated(S) == {c \in Tasks : edge[c] # NoEdge /\ edge[c].parent.task \in S}

\* query_subtree: level by level, no deeper than delegation may go.
Subtree(t) ==
  LET down[k \in 0..MaxDepth] ==
        IF k = 0 THEN {t} ELSE down[k - 1] \cup Delegated(down[k - 1])
  IN down[MaxDepth]

----------------------------------------------------------------------------
(* Admission. *)

\* validate_delegation_parent
MayDelegate(p) ==
  /\ IsRunning(p) /\ ~Cancelled(p.task)
  /\ edge[p.task].depth < MaxDepth
  /\ Cardinality(ActiveChildren(p)) < MaxChildren

\* Mistake: the transaction relies on the first check for the limit.
AdmitsWithoutLimit(p) ==
  /\ IsRunning(p) /\ task[p.task].intent # p.rev
  /\ edge[p.task].depth < MaxDepth

\* validated_parent_depth: the same, in the transaction, of the exact attempt.
ParentAdmits(p) ==
  /\ IsRunning(p) /\ task[p.task].intent # p.rev
  /\ Cardinality(ActiveChildren(p)) < MaxChildren
  /\ edge[p.task].depth < MaxDepth

Revisable(t) ==
  /\ t \in plan.revise /\ task[t].rev \in 1..MaxRevisions - 1
  /\ task[t].completed
  /\ \/ task[t].outcome = "candidate" /\ task[t].decided = "rejected"
     \/ task[t].outcome \in {"failed", "lost"}

Record(t) ==
  /\ task' = [task EXCEPT ![t] = NewRun(@.rev + 1, @.intent)]
  /\ dead' = dead \ {t}

\* The owner starts or revises its own task.
AdmitRoot ==
  /\ ~Exists(Root) \/ Revisable(Root)
  /\ Record(Root)
  /\ UNCHANGED <<plan, edge, asking>>

\* A worker asks for a child, or for a revision of one of its children; the
\* first check comes before the checkout is made.
StartChild(c, p) ==
  /\ c # Root /\ asking[c] = NoAttempt
  /\ ~Exists(c) \/ (Revisable(c) /\ edge[c].parent = p)
  /\ MayDelegate(p)
  /\ asking' = [asking EXCEPT ![c] = p]
  /\ UNCHANGED <<plan, task, edge, dead>>

\* The transaction: everything is checked again.
RecordChild(c) ==
  LET p == asking[c] IN
  /\ p # NoAttempt
  /\ IF ParentAdmits(p)
     THEN /\ Record(c)
          /\ edge' = [edge EXCEPT ![c] = [parent |-> p, depth |-> edge[p.task].depth + 1]]
     ELSE UNCHANGED <<task, edge, dead>>
  /\ asking' = [asking EXCEPT ![c] = NoAttempt]
  /\ UNCHANGED plan

----------------------------------------------------------------------------
(* Supervisors and workers. *)

Set(t, r) ==
  /\ task' = [task EXCEPT ![t] = r]
  /\ UNCHANGED <<plan, edge, asking, dead>>

Alive(t) == Exists(t) /\ t \notin dead

\* A result that ends the run, and one that may be retried.
Commit(t, outcome) ==
  Set(t, [task[t] EXCEPT !.st = "terminal", !.outcome = outcome, !.acked = FALSE,
            !.decided = "none", !.completed = TRUE, !.verdict = "none"])
CommitForRetry(t) ==
  Set(t, [task[t] EXCEPT !.st = "terminal", !.outcome = "failed", !.acked = FALSE])

Claim(t) ==
  /\ Alive(t) /\ task[t].att < Budget(t) /\ ~task[t].completed
  /\ task[t].att = 0 \/ (task[t].st = "terminal" /\ task[t].granted)
  /\ Set(t, [task[t] EXCEPT !.att = @ + 1, !.st = "running", !.granted = FALSE,
               !.asked = {}, !.open = {}])

\* The worker's process could not be started, so it started and asked nothing.
SpawnFails(t) ==
  /\ Alive(t) /\ task[t].st = "running"
  /\ Children(Current(t)) = {} /\ "worker" \notin task[t].asked
  /\ \A c \in Tasks : asking[c] # Current(t)
  /\ IF task[t].att < Budget(t) THEN CommitForRetry(t) ELSE Commit(t, "failed")

Grant(t) ==
  /\ Alive(t)
  /\ task[t].st = "terminal" /\ ~task[t].completed /\ ~task[t].granted
  /\ Set(t, [task[t] EXCEPT !.granted = TRUE])

\* The worker fails or reaches its deadline, or its cancellation is seen.
RunFails(t) ==
  /\ Alive(t) /\ task[t].st = "running"
  /\ \E o \in {"failed"} \cup (IF Cancelled(t) THEN {"cancelled"} ELSE {}) : Commit(t, o)

\* It exits with a report: the attempt stops exchanging messages and starting
\* children before anything is read.
RunSucceeds(t) ==
  /\ Alive(t) /\ task[t].st = "running"
  /\ Set(t, [task[t] EXCEPT !.st = "collecting"])

\* Mistake: the children and questions are read while the attempt may still
\* add to them.
ReadChildrenEarly(t) ==
  /\ Alive(t) /\ task[t].st \in {"running", "collecting"} /\ task[t].verdict = "none"
  /\ Set(t, [task[t] EXCEPT !.verdict =
       IF UnsettledChildren(Current(t)) = {} THEN "children" ELSE "unsettled"])

\* unsettled_worker_reason reads the children first, the questions afterwards.
ReadChildren(t) ==
  /\ Alive(t) /\ task[t].st = "collecting" /\ task[t].verdict = "none"
  /\ Set(t, [task[t] EXCEPT !.verdict =
       IF UnsettledChildren(Current(t)) = {} THEN "children" ELSE "unsettled"])

ReadQuestions(t) ==
  /\ Alive(t) /\ task[t].verdict = "children"
  /\ Set(t, [task[t] EXCEPT !.verdict =
       IF task[t].open = {} THEN "settled" ELSE "unsettled"])

Seal(t) ==
  /\ Alive(t) /\ task[t].st = "collecting" /\ task[t].verdict \in {"settled", "unsettled"}
  /\ Commit(t, IF task[t].verdict = "settled" THEN "candidate" ELSE "failed")

Die(t) ==
  /\ Alive(t) /\ ~task[t].completed /\ t \in plan.die
  /\ dead' = dead \cup {t}
  /\ UNCHANGED <<plan, task, edge, asking>>

\* Recovery ends the attempt of a dead supervisor, or the run that it never
\* claimed; a run between a failure and its retry has neither.
Recover(t) ==
  /\ t \in dead
  /\ \/ task[t].st \in {"running", "collecting"} /\ Commit(t, "lost")
     \/ task[t].st = "none" /\ Commit(t, IF Cancelled(t) THEN "cancelled" ELSE "lost")

----------------------------------------------------------------------------
(* What owners do: the human at the root, a running worker for its children. *)

Owned(t) == Exists(t) /\ (t = Root \/ IsRunning(edge[t].parent))

Acknowledge(t) ==
  /\ Owned(t) /\ task[t].outcome # "none" /\ ~task[t].acked
  /\ Set(t, [task[t] EXCEPT !.acked = TRUE, !.early = ~task[t].completed])

Decide(t) ==
  /\ Owned(t) /\ task[t].outcome = "candidate" /\ task[t].decided = "none"
  /\ \E v \in {"accepted", "rejected"} :
       Set(t, [task[t] EXCEPT !.acked = TRUE, !.decided = v])

\* Mistake: only the task itself and the children of its own attempts.
CancelChildrenOnly(t) ==
  /\ Exists(t)
  /\ \E n \in Subtree(t) : ~Cancelled(n)
  /\ task' = [n \in Tasks |-> IF n = t \/ (edge[n] # NoEdge /\ edge[n].parent.task = t)
                              THEN [task[n] EXCEPT !.intent = task[n].rev] ELSE task[n]]
  /\ UNCHANGED <<plan, edge, asking, dead>>

\* cancel, by the owner or with --force: one transaction for the subtree.
CancelTree(t) ==
  /\ Exists(t)
  /\ \E n \in Subtree(t) : ~Cancelled(n)
  /\ task' = [n \in Tasks |-> IF n \in Subtree(t)
                              THEN [task[n] EXCEPT !.intent = task[n].rev] ELSE task[n]]
  /\ UNCHANGED <<plan, edge, asking, dead>>

----------------------------------------------------------------------------
(* Messages between a worker and its owner. *)

\* Mistake: an attempt whose worker is gone still takes questions.
PostableUntilSealed(t) == task[t].st \in {"running", "collecting"}

\* validate_active_attempt
Postable(t) == task[t].st = "running"

Ask(t, side) ==
  /\ t \in plan.talk /\ Postable(t) /\ side \notin task[t].asked
  /\ Set(t, [task[t] EXCEPT !.asked = @ \cup {side}, !.open = @ \cup {side}])

\* A reply comes from the other side, on the same attempt, while it runs.
Reply(t, side) ==
  /\ Postable(t) /\ side \in task[t].open
  /\ Set(t, [task[t] EXCEPT !.open = @ \ {side}])

\* A worker's question settled without an answer, whatever the attempt does now.
Withdraw(t) ==
  /\ "worker" \in task[t].open
  /\ Set(t, [task[t] EXCEPT !.open = @ \ {"worker"}])

----------------------------------------------------------------------------

Supervise(t) ==
  \/ Claim(t) \/ SpawnFails(t) \/ Grant(t) \/ RunFails(t) \/ RunSucceeds(t)
  \/ ReadChildren(t) \/ ReadQuestions(t) \/ Seal(t)

Next ==
  \/ AdmitRoot
  \/ \E c \in Tasks, t \in Tasks : StartChild(c, Current(t))
  \/ \E t \in Tasks :
       \/ RecordChild(t) \/ Supervise(t) \/ Die(t) \/ Recover(t)
       \/ Acknowledge(t) \/ Decide(t) \/ CancelTree(t) \/ Withdraw(t)
       \/ \E side \in Sides : Ask(t, side) \/ Reply(t, side)

Spec == Init /\ [][Next]_vars

\* A supervisor that lives goes on, and its harness is stopped at the deadline.
FairSpec == Spec /\ \A t \in Tasks : WF_vars(Supervise(t))

----------------------------------------------------------------------------
(* Properties. *)

\* Every variable has its type.
TreeTypeOK ==
  /\ plan \in Plans
  /\ task \in [Tasks -> Run]
  /\ edge \in [Tasks -> [parent : Attempt \cup {NoAttempt}, depth : 0..MaxDepth]]
  /\ asking \in [Tasks -> Attempt \cup {NoAttempt}]
  /\ dead \subseteq Tasks

\* However many commands of a worker race, no attempt has more uncancelled
\* children that may still do work than its limit allows.
ChildLimit ==
  \A t \in Tasks :
    Cardinality({c \in Children(Current(t)) : ~Cancelled(c) /\ ~task[c].completed}) <= MaxChildren

\* No work survives below a cancelled attempt: every child it ever started is
\* cancelled too, and none is added, however the admission raced.
TreeCancelIsClosed ==
  \A c \in Tasks :
    edge[c] # NoEdge /\ task[edge[c].parent.task].intent = edge[c].parent.rev
      => Cancelled(c) \/ task[c].completed

\* A candidate stands for the whole tree below it: no question of its attempt
\* is open and every child is cancelled or its result is read, and decided if
\* it was a candidate.  One case escapes: a failure that was acknowledged
\* before its automatic retry had run.
SealedParentIsSettled ==
  \A t \in Tasks :
    task[t].outcome = "candidate" =>
      /\ task[t].open = {}
      /\ \A c \in UnsettledChildren(Current(t)) : task[c].early

\* A child gives its slot back, unless its supervisor died.
SlotIsFreed ==
  \A c \in Tasks :
    c \in ActiveChildren(edge[c].parent)
      ~> (c \in dead \/ c \notin ActiveChildren(edge[c].parent))

\* The limits and the cancellation of a tree hold however admissions race.
TreeInv == TreeTypeOK /\ ChildLimit /\ TreeCancelIsClosed
=============================================================================
