---------------------------- MODULE WorkflowRun ----------------------------
(***************************************************************************)
(* A workflow run: a script that starts steps through a journal.           *)
(*                                                                         *)
(* A detached driver runs the script; after a crash `workflow resume`      *)
(* starts another one, which executes the script from the top.  What makes *)
(* this safe is the journal: a step is recorded with its task in one       *)
(* transaction, under a key, and a key that is there is only looked up.    *)
(*                                                                         *)
(* The script is parallel([agent, agent, ...]) of the SDK.  Every agent    *)
(* starts its step with a `brgr run` process of its own, which may outlive *)
(* the driver, then waits for the result and perhaps retries.              *)
(***************************************************************************)
EXTENDS Integers, FiniteSets

CONSTANTS
  Drivers,         \* bound: driver processes
  Agents,          \* the agent() calls of the script
  Retries,         \* [Agents -> Nat], the `retries` option
  Revised,         \* bound: steps that the owner may revise, once each
  Asking,          \* bound: steps whose worker may ask, once each
  Scenes           \* bound: <<incidents, agents, max_parallel>> of one behaviour

Keys == {<<a, n>> : a \in Agents, n \in 1..3}   \* base key, then ~retryN
ASSUME WorkflowConstants ==
  /\ Retries \in [Agents -> 0..2] /\ Revised \subseteq Keys
  /\ Asking \subseteq Keys
  /\ Scenes \subseteq (SUBSET {"crash", "resume", "deadline", "cancel", "hand", "question", "revise"})
                     \X (SUBSET Agents) \X (1..64)

VARIABLES
  scene,           \* what may happen, the agents of the script, max_parallel
  run,             \* workflow_runs.state
  steps,           \* workflow_steps and the latest run of each step's task
  pid,             \* the driver named by the pid file
  driver,          \* the driver processes
  agent,           \* where the script of each driver is
  launching,       \* `brgr run --workflow --step` processes
  resuming,        \* a `workflow resume` that saw no live driver
  cancelling,      \* where `workflow cancel` is
  toCancel         \* the steps it still has to look at

vars == <<scene, run, steps, pid, driver, agent, launching, resuming, cancelling, toCancel>>

Active   == {"running", "blocked"}
Terminal == {"completed", "failed", "cancelled"}
Nobody   == "nobody"

\* The latest revision: its result ("other": cancelled or lost), its question,
\* its cancellation intent.  revised: was it replaced, and was that after the
\* retry of the step had been recorded?
Step == [outcome : {"none", "candidate", "failed", "other"},
         asking : {"no", "open", "answered"},
         intent : BOOLEAN, revised : {"no", "yes", "late"}]
NewStep == [outcome |-> "none", asking |-> "no", intent |-> FALSE, revised |-> "no"]
Recorded == DOMAIN steps
Happens(incident) == incident \in scene[1]
ScriptAgents == scene[2]
MaxParallel == scene[3]
AgentAt == [pc : {"launch", "launching", "wait", "done"}, n : 1..3, marked : BOOLEAN]
Start == [pc |-> "launch", n |-> 1, marked |-> FALSE]

\* "orphan": the driver was killed and its node process goes on.  "settling": it
\* has read a running run and will write how the script ended.
DriverStates == {"unused", "spawned", "running", "orphan", "succeeded", "failing",
                 "settling succeeded", "settling failing", "off"}
Scripting(d) == driver[d] \in {"running", "orphan"}
ProcessAlive(d) == driver[d] \notin {"unused", "spawned", "orphan", "off"}

\* create_workflow_run; the first driver is started, or it never starts.
Init ==
  /\ scene \in Scenes
  /\ run = "running"
  /\ steps = [k \in {} |-> NewStep]
  /\ pid = Nobody
  /\ LET first == CHOOSE d \in Drivers : TRUE IN
       driver \in {[x \in Drivers |-> IF x = first THEN s ELSE "unused"] :
                   s \in {"spawned"} \cup (IF Happens("resume") THEN {"off"} ELSE {})}
  /\ agent = [d \in Drivers |-> [a \in Agents |-> Start]]
  /\ launching = {}
  /\ resuming = FALSE /\ cancelling = "no" /\ toCancel = {}

----------------------------------------------------------------------------
(* The journal. *)

\* Mistake: a revision of a step's task does not count.
UnfinishedAtFirst ==
  {k \in Recorded : steps[k].outcome = "none" /\ steps[k].revised = "no"}
\* Mistake: a step keeps its slot for ever.
RecordedSteps == Recorded
\* unfinished_step_count: the latest revision has no result.
UnfinishedSteps == {k \in Recorded : steps[k].outcome = "none"}

\* Mistake: what the script saw of the predecessor is good enough.
PredecessorRecorded(k) == k[2] > 1 => <<k[1], k[2] - 1>> \in Recorded
\* require_failed_predecessor
PredecessorFailed(k) ==
  k[2] > 1 =>
    /\ <<k[1], k[2] - 1>> \in Recorded
    /\ steps[<<k[1], k[2] - 1>>].outcome = "failed"

\* Mistake: the transaction does not look at the run's state.
AdmittedInAnyState(k) ==
  IF k \in Recorded THEN "existing"
  ELSE IF ~PredecessorFailed(k) THEN "refused"
  ELSE IF Cardinality(UnfinishedSteps) >= MaxParallel THEN "full"
  ELSE "created"

\* record_step_in_transaction
Admitted(k) ==
  IF run \notin Active THEN "refused"
  ELSE IF k \in Recorded THEN "existing"
  ELSE IF ~PredecessorFailed(k) THEN "refused"
  ELSE IF Cardinality(UnfinishedSteps) >= MaxParallel THEN "full"
  ELSE "created"

\* Mistake: the state read before the transaction is trusted.
MayBecomeUnchecked(from, to) == from # to
\* WorkflowRunState::allows, and is_terminal before it
MayBecome(from, to) == from \in Active /\ from # to

SetState(to) ==
  IF MayBecome(run, to) THEN run' = to ELSE UNCHANGED run

----------------------------------------------------------------------------
(* The script in a driver. *)

rest == <<scene, pid, resuming, cancelling, toCancel>>
Key(d, a) == <<a, agent[d][a].n>>
AgentTo(d, a, r) == agent' = [agent EXCEPT ![d][a] = r]
DriverTo(d, s) == driver' = [driver EXCEPT ![d] = s]
\* node is gone, and what the script knew with it
NodeEnds(d, s) == DriverTo(d, s) /\ agent' = [agent EXCEPT ![d] = [a \in Agents |-> Start]]

\* An exception in one agent ends node; its `brgr run` processes go on.
Throw(d) == NodeEnds(d, IF driver[d] = "orphan" THEN "off" ELSE "failing")

\* requireActive, then a `brgr run` process.
Launch(d, a) ==
  /\ Scripting(d) /\ agent[d][a].pc = "launch"
  /\ IF run \in Active
     THEN /\ AgentTo(d, a, [agent[d][a] EXCEPT !.pc = "launching"])
          /\ launching' = launching \cup {<<d, Key(d, a)>>}
          /\ UNCHANGED driver
     ELSE Throw(d) /\ UNCHANGED launching
  /\ UNCHANGED <<run, steps, rest>>

\* The process commits.  Its exit code is 75 when the run is at its limit, and
\* launchStep tries again.
AdmitStep(d, k) ==
  LET outcome == Admitted(k) at == agent[d][k[1]] IN
  /\ <<d, k>> \in launching
  /\ launching' = launching \ {<<d, k>>}
  /\ steps' = IF outcome = "created"
              THEN [x \in Recorded \cup {k} |-> IF x = k THEN NewStep ELSE steps[x]] ELSE steps
  /\ IF ~Scripting(d) THEN UNCHANGED <<driver, agent>>
     ELSE IF outcome = "refused" THEN Throw(d)
     ELSE /\ AgentTo(d, k[1], [at EXCEPT !.pc = IF outcome = "full" THEN "launch" ELSE "wait"])
          /\ UNCHANGED driver
  /\ UNCHANGED <<run, rest>>

\* Mistake: one retry too many.
RetriesOffByOne(a, n) == n <= Retries[a] + 1
\* shouldRetry: n attempts were made.
MayRetry(a, n) == n <= Retries[a]

\* Mistake: the block is lifted only when the question is answered.
KeepsBlock(at) == FALSE
\* clearBlocked, when the wait ends with a result
Unblocks(at) == at.marked

\* sealedIfCurrent: only a result of the latest revision ends the wait.
Sealed(s) == s.outcome # "none"
\* remainingSeconds, waitOnce: an open question suspends the deadline.
MayTimeOut(s) == ~Sealed(s) /\ s.asking # "open" /\ ~s.intent

\* waitForSealed: one round of `brgr wait`.
WaitRound(d, a) ==
  LET s == steps[Key(d, a)] at == agent[d][a] IN
  /\ Scripting(d) /\ at.pc = "wait"
  /\ \/ run \notin Active /\ Throw(d) /\ UNCHANGED run
     \/ /\ run \in Active /\ UNCHANGED driver
        /\ \/ /\ ~Sealed(s) /\ s.asking = "open" /\ ~at.marked      \* markBlocked
              /\ SetState("blocked")
              /\ AgentTo(d, a, [at EXCEPT !.marked = TRUE])
           \/ /\ ~Sealed(s) /\ s.asking # "open" /\ at.marked       \* clearBlocked
              /\ SetState("running")
              /\ AgentTo(d, a, [at EXCEPT !.marked = FALSE])
           \/ /\ Sealed(s)
              /\ IF Unblocks(at) THEN SetState("running") ELSE UNCHANGED run
              /\ AgentTo(d, a, IF s.outcome = "failed" /\ MayRetry(a, at.n)
                               THEN [Start EXCEPT !.n = at.n + 1]
                               ELSE [at EXCEPT !.pc = "done", !.marked = FALSE])
  /\ UNCHANGED <<steps, launching, rest>>

\* cancelAndWait
Deadline(d, a) ==
  LET k == Key(d, a) IN
  /\ Happens("deadline") /\ Scripting(d) /\ agent[d][a].pc = "wait" /\ run \in Active
  /\ MayTimeOut(steps[k])
  /\ steps' = [steps EXCEPT ![k].intent = TRUE]
  /\ UNCHANGED <<run, driver, agent, launching, rest>>

----------------------------------------------------------------------------
(* The driver process. *)

\* drive: the pid file is written before node is started.
RecordPid(d) ==
  /\ driver[d] = "spawned"
  /\ pid' = d /\ DriverTo(d, "running")
  /\ UNCHANGED <<scene, run, steps, agent, launching, resuming, cancelling, toCancel>>

ScriptEnds(d) ==
  /\ Scripting(d) /\ \A a \in ScriptAgents : agent[d][a].pc = "done"
  /\ NodeEnds(d, IF driver[d] = "orphan" THEN "off" ELSE "succeeded")
  /\ UNCHANGED <<run, steps, launching, rest>>

\* settle_driver_exit reads the run; any state but running is left alone.
\* PidGuard removes the pid file, whoever wrote it.
ReadRun(d) ==
  /\ driver[d] \in {"succeeded", "failing"}
  /\ IF run = "running"
     THEN /\ DriverTo(d, IF driver[d] = "succeeded" THEN "settling succeeded" ELSE "settling failing")
          /\ UNCHANGED pid
     ELSE DriverTo(d, "off") /\ pid' = Nobody
  /\ UNCHANGED <<scene, run, steps, agent, launching, resuming, cancelling, toCancel>>

Settle(d) ==
  /\ driver[d] \in {"settling succeeded", "settling failing"}
  /\ SetState(IF driver[d] = "settling succeeded" THEN "completed" ELSE "failed")
  /\ DriverTo(d, "off") /\ pid' = Nobody
  /\ UNCHANGED <<scene, steps, agent, launching, resuming, cancelling, toCancel>>

\* The driver is killed; node may go on without it.
Die(d) ==
  /\ Happens("crash") /\ ProcessAlive(d)
  /\ \/ NodeEnds(d, "off")
     \/ driver[d] = "running" /\ DriverTo(d, "orphan") /\ UNCHANGED agent
  /\ UNCHANGED <<run, steps, launching, rest>>

----------------------------------------------------------------------------
(* The owner. *)

Named == IF pid = Nobody THEN FALSE ELSE ProcessAlive(pid)

\* resume: the run is not over and no live driver is named by the pid file.
ResumeCheck ==
  /\ Happens("resume") /\ ~resuming /\ run \in Active /\ ~Named
  /\ resuming' = TRUE
  /\ IF run = "blocked" THEN SetState("running") ELSE UNCHANGED run
  /\ UNCHANGED <<scene, steps, pid, driver, agent, launching, cancelling, toCancel>>

ResumeSpawn(d) ==
  /\ resuming /\ driver[d] = "unused"
  /\ resuming' = FALSE /\ DriverTo(d, "spawned")
  /\ UNCHANGED <<scene, run, steps, pid, agent, launching, cancelling, toCancel>>

\* cancel_run: mark_cancelled, stop_live_driver, cancel_unfinished_steps.
CancelMark ==
  /\ Happens("cancel") /\ cancelling = "no" /\ run \in Active
  /\ SetState("cancelled") /\ cancelling' = "stop"
  /\ UNCHANGED <<scene, steps, pid, driver, agent, launching, resuming, toCancel>>

CancelStop ==
  /\ cancelling = "stop" /\ cancelling' = "list"
  /\ IF Named
     THEN /\ NodeEnds(pid, "off")
          /\ launching' = {x \in launching : x[1] # pid}
     ELSE UNCHANGED <<driver, agent, launching>>
  /\ UNCHANGED <<scene, run, steps, pid, resuming, toCancel>>

CancelList ==
  /\ cancelling = "list" /\ cancelling' = "tasks"
  /\ toCancel' = Recorded
  /\ UNCHANGED <<scene, run, steps, pid, driver, agent, launching, resuming>>

CancelTask ==
  /\ cancelling = "tasks"
  /\ \/ \E k \in toCancel :
          /\ toCancel' = toCancel \ {k}
          /\ steps' = [steps EXCEPT ![k].intent = @ \/ steps[k].outcome = "none"]
          /\ UNCHANGED cancelling
     \/ toCancel = {} /\ cancelling' = "done" /\ UNCHANGED <<toCancel, steps>>
  /\ UNCHANGED <<scene, run, pid, driver, agent, launching, resuming>>

\* `workflow set-state`, by hand
OwnerSets(to) ==
  /\ Happens("hand") /\ MayBecome(run, to) /\ SetState(to)
  /\ UNCHANGED <<scene, steps, pid, driver, agent, launching, resuming, cancelling, toCancel>>

----------------------------------------------------------------------------
(* The tasks of the steps: AttemptLifecycle, reduced to its outcome. *)

taskRest == <<scene, run, pid, driver, agent, launching, resuming, cancelling, toCancel>>

Finish(k) ==
  /\ k \in Recorded /\ steps[k].outcome = "none"
  /\ \E o \in {"candidate", "failed", "other"} :
       /\ o = "candidate" => steps[k].asking # "open"
       /\ steps' = [steps EXCEPT ![k].outcome = o]
  /\ UNCHANGED taskRest

AskOwner(k) ==
  /\ Happens("question") /\ k \in Recorded \cap Asking /\ steps[k].outcome = "none" /\ steps[k].asking = "no"
  /\ steps' = [steps EXCEPT ![k].asking = "open"]
  /\ UNCHANGED taskRest

OwnerReplies(k) ==
  /\ k \in Recorded /\ steps[k].outcome = "none" /\ steps[k].asking = "open"
  /\ steps' = [steps EXCEPT ![k].asking = "answered"]
  /\ UNCHANGED taskRest

\* `brgr revise` of a step's task does not ask the journal.
ReviseStep(k) ==
  /\ Happens("revise") /\ k \in Recorded \cap Revised /\ steps[k].outcome # "none" /\ steps[k].revised = "no"
  /\ steps' = [steps EXCEPT ![k] =
       [@ EXCEPT !.outcome = "none", !.intent = FALSE,
                 !.revised = IF <<k[1], k[2] + 1>> \in Recorded THEN "late" ELSE "yes"]]
  /\ UNCHANGED taskRest

----------------------------------------------------------------------------
Script(d) ==
  \/ \E a \in ScriptAgents : Launch(d, a) \/ WaitRound(d, a) \/ Deadline(d, a)
  \/ ScriptEnds(d)
DriverStep(d) == RecordPid(d) \/ ReadRun(d) \/ Settle(d) \/ Die(d)
Cancel == CancelMark \/ CancelStop \/ CancelList \/ CancelTask
Task(k) == Finish(k) \/ AskOwner(k) \/ OwnerReplies(k) \/ ReviseStep(k)

Next ==
  \/ \E d \in Drivers : Script(d) \/ DriverStep(d) \/ ResumeSpawn(d)
  \/ \E d \in Drivers, k \in Keys : AdmitStep(d, k)
  \/ ResumeCheck \/ Cancel
  \/ \E to \in Terminal : OwnerSets(to)
  \/ \E k \in Keys : Task(k)

Spec == Init /\ [][Next]_vars

\* Processes that are not killed run on, and every supervised task ends (which
\* AttemptLifecycle shows).  Nobody has to answer, resume or cancel.
Fairness ==
  /\ \A d \in Drivers : WF_vars(RecordPid(d)) /\ WF_vars(ReadRun(d)) /\ WF_vars(Settle(d))
  /\ \A d \in Drivers : WF_vars(ScriptEnds(d))
  /\ \A d \in Drivers, a \in Agents : WF_vars(Launch(d, a)) /\ WF_vars(WaitRound(d, a))
  /\ \A d \in Drivers, k \in Keys : WF_vars(AdmitStep(d, k))
  /\ \A k \in Keys : WF_vars(Finish(k))
FairSpec == Spec /\ Fairness

----------------------------------------------------------------------------
(* Properties *)

\* Types; a step's key never goes past the retries of its agent.
WorkflowTypeOK ==
  /\ run \in Active \cup Terminal
  /\ Recorded \subseteq {k \in Keys : k[2] <= Retries[k[1]] + 1}
  /\ steps \in [Recorded -> Step]
  /\ pid \in Drivers \cup {Nobody} /\ driver \in [Drivers -> DriverStates]
  /\ agent \in [Drivers -> [Agents -> AgentAt]]
  /\ launching \subseteq Drivers \X Keys
  /\ resuming \in BOOLEAN /\ toCancel \subseteq Recorded
  /\ cancelling \in {"no", "stop", "list", "tasks", "done"}

\* A step is recorded only while fewer than max_parallel steps are unfinished,
\* the revised ones included (record_step_in_transaction).
RecordsBelowCap ==
  \A k \in Keys : k \in Recorded' \ Recorded =>
    Cardinality({x \in Recorded : steps[x].outcome = "none"}) < MaxParallel
ParallelCap == [][RecordsBelowCap]_vars

\* Whatever drivers, orphans and resumes do, an agent() call never has two
\* attempts at work, unless the owner revised a step that was already retried.
OneAttemptAtATime ==
  \A a \in Agents :
    Cardinality({k \in Recorded : k[1] = a /\ steps[k].outcome = "none"
                                  /\ steps[k].revised # "late"}) <= 1

\* After `workflow cancel` every step it found at work has been told to stop, and
\* no process that was still starting one has added another.
CancelledRunIsQuiet ==
  cancelling = "done" =>
    \A k \in Recorded : steps[k].outcome # "none" \/ steps[k].intent \/ steps[k].revised # "no"

\* A script that came to its end has lifted every block it set; otherwise
\* settle_driver_exit would leave a finished run blocked for ever.
NotBlockedAtTheEnd ==
  \A d \in Drivers :
    driver[d] = "succeeded" /\ (\A e \in Drivers \ {d} : driver[e] = "unused") => run # "blocked"

\* A driver ends: no agent waits for ever for a slot that its own earlier
\* attempts or finished steps hold.
DriverEnds == \A d \in Drivers : driver[d] = "running" ~> driver[d] = "off"

\* A terminal run stays what it is: a driver that read it as running, or an agent
\* that clears its block, cannot overwrite it.
TerminalIsFinal == [][(run \in Terminal) => (run' = run)]_vars

\* The journal never has two attempts of one call at work, and no finished script
\* leaves its run blocked.
WorkflowInv == WorkflowTypeOK /\ OneAttemptAtATime /\ NotBlockedAtTheEnd

\* What a step of the run may never do: exceed the cap, or reopen what has ended.
RunStepsAreLegal == ParallelCap /\ TerminalIsFinal
=============================================================================
