-------------------------- MODULE AttemptLifecycle --------------------------
(***************************************************************************)
(* One managed task and the processes that act on it, for a harness that   *)
(* brgr runs itself (ExecutionMode::OneShot):                              *)
(*                                                                         *)
(*   - the owner, who admits, cancels, acknowledges, decides and revises   *)
(*     (brgr-cli admission.rs, task_commands.rs);                          *)
(*   - one detached supervisor per admitted revision, which claims the     *)
(*     attempt, starts the harness and commits its result (brgr-core       *)
(*     execution.rs, brgr-cli supervision.rs);                             *)
(*   - reconcilers: every status, wait, watch and hook process runs        *)
(*     reconcile_pending, which records lost runs and reaps admissions     *)
(*     that no supervisor claimed.                                         *)
(*                                                                         *)
(* They share the attempt tables (AttemptStore) and three files of the     *)
(* task that carry no revision in their names: the supervisor receipt, the *)
(* cancel marker and the pid record.  A process may die between any two    *)
(* steps.                                                                  *)
(***************************************************************************)
EXTENDS AttemptStore, FiniteSets

CONSTANTS Reconcilers,         \* processes that run reconcile_pending
          Reliable,            \* those of them that never die half-way
          WorkspaceMayVanish   \* whether a task's worktree may be deleted

ASSUME ReliableAssumption == Reliable \subseteq Reconcilers
ASSUME WorkspaceAssumption == WorkspaceMayVanish \in BOOLEAN

VARIABLES
    sup,          \* sup[r]: the supervisor of revision r and its memory
    rec,          \* rec[p]: a reconciler and what it has read so far
    receipt,      \* revision whose supervisor the receipt file names, or 0
    marker,       \* whether the cancel marker file exists
    pidFile,      \* revision whose worker the pid record names, or 0
    workers,      \* revisions whose harness process group is alive
    cancelling,   \* progress of a running cancel command
    revising      \* revision a running revise command has checked, or 0

files == <<receipt, marker, pidFile>>
procs == <<sup, rec, workers, cancelling, revising>>
vars  == <<store, files, procs>>

BeforeClaim == {"starting_up", "claiming"}
Holding     == {"claimed", "started", "launched", "identified", "running",
                "spawned", "waiting", "executed", "collecting", "sealed"}
AfterCommit == {"committed", "leaving", "unlinking"}
AlivePcs    == BeforeClaim \cup Holding \cup AfterCommit
SupPcs      == AlivePcs \cup {"unspawned", "refused", "refused_claimed",
                              "refused_started", "exited", "dead"}
RecPcs      == {"idle", "listed", "judged", "stale", "reap_claimed",
                "reap_marked"}
Ends        == Outcomes \cup {"none", "success"}

Supervisor == [pc : SupPcs, slot : 0..MaxAttempts, number : 1..MaxAttempts,
               end : Ends, retry : BOOLEAN]
Reconciler == [pc : RecPcs, run : (0..MaxRevisions) \X (0..MaxAttempts),
               state : States, launch : Launches, end : Ends]

LifecycleTypeOK ==
    /\ TypeOK
    /\ sup \in [Revisions -> Supervisor]
    /\ rec \in [Reconcilers -> Reconciler]
    /\ receipt \in 0..MaxRevisions
    /\ marker \in BOOLEAN
    /\ pidFile \in 0..MaxRevisions
    /\ workers \subseteq Revisions
    /\ cancelling \in {"no", "recorded", "writing"}
    /\ revising \in 0..(MaxRevisions - 1)

NewSupervisor == [pc |-> "unspawned", slot |-> 0, number |-> 1, end |-> "none",
                  retry |-> FALSE]
IdleReconciler == [pc |-> "idle", run |-> <<0, 0>>, state |-> "absent",
                   launch |-> "none", end |-> "none"]

LifecycleInit ==
    /\ Init
    /\ sup = [r \in Revisions |-> NewSupervisor]
    /\ rec = [p \in Reconcilers |-> IdleReconciler]
    /\ receipt = 0
    /\ marker = FALSE
    /\ pidFile = 0
    /\ workers = {}
    /\ cancelling = "no"
    /\ revising = 0

SupervisorAlive(r) == sup[r].pc \in AlivePcs
Current(r) == <<r, sup[r].slot>>         \* the attempt a supervisor holds

\* The supervisor named by the receipt is alive, or the process group named by
\* the pid record is.
WorkerMayBeRunning ==
    \/ receipt # 0 /\ SupervisorAlive(receipt)
    \/ pidFile # 0 /\ pidFile \in workers

CancelSeen == marker \/ CancellationRequested

\* A terminal commit is refused once the attempt has a result, and a completing
\* one once the revision has a completion.
CommitRefused(a, complete) ==
    HasResult(a) \/ (complete /\ completion[a[1]] # 0)

GoTo(r, pc) == sup' = [sup EXCEPT ![r].pc = pc]

-----------------------------------------------------------------------------
(* The owner. *)

AdmitFirst ==
    /\ RecordTask(1)
    /\ UNCHANGED <<files, procs>>

\* Mistake: a candidate may be revised before it is decided.
RevisableUndecided(r) ==
    \E n \in Slots :
        /\ IsLatestResult(r, n)
        /\ \/ outcome[<<r, n>>] = "candidate" /\ verdict[<<r, n>>] # "accepted"
           \/ outcome[<<r, n>>] \in {"failed", "lost"} /\ ~WorkerMayBeRunning

\* Mistake: revise does not ask whether the lost run's worker is still there.
RevisableWhileRunning(r) ==
    \E n \in Slots :
        /\ IsLatestResult(r, n)
        /\ \/ outcome[<<r, n>>] = "candidate" /\ verdict[<<r, n>>] = "rejected"
           \/ outcome[<<r, n>>] \in {"failed", "lost"}

\* What revise accepts as the result it replaces.
Revisable(r) ==
    \E n \in Slots :
        /\ IsLatestResult(r, n)
        /\ \/ outcome[<<r, n>>] = "candidate" /\ verdict[<<r, n>>] = "rejected"
           \/ outcome[<<r, n>>] \in {"failed", "lost"} /\ ~WorkerMayBeRunning

\* revise reads the result long before it admits: it probes the harness and
\* prepares a checkout in between.
CheckRevise ==
    /\ revising = 0
    /\ admitted \in Revisions /\ admitted + 1 \in Revisions
    /\ Revisable(admitted)
    /\ revising' = admitted
    /\ UNCHANGED <<store, files, sup, rec, workers, cancelling>>

\* It removes the cancel marker just before it admits the new revision.  The
\* two writes are one step here: a marker written between them is a marker
\* written just after.  The acknowledgement of the replaced result follows in
\* a transaction of its own whose failure is only reported (Ack).
Revise ==
    /\ revising # 0
    /\ RecordTask(revising + 1)
    /\ revising' = 0
    /\ marker' = FALSE
    /\ UNCHANGED <<receipt, pidFile, sup, rec, workers, cancelling>>

\* cancel: intents are recorded in one transaction, then each task that still
\* needs it gets a marker file; the state is read just before the write.
RequestCancel ==
    /\ cancelling = "no"
    /\ RecordCancellationIntent
    /\ cancelling' = "recorded"
    /\ UNCHANGED <<files, sup, rec, workers, revising>>

NeedsCancel ==
    LET r == admitted IN rows[r] = 0 \/ state[<<r, rows[r]>>] # "terminal"

CheckNeedsCancel ==
    /\ cancelling = "recorded"
    /\ cancelling' = IF NeedsCancel THEN "writing" ELSE "no"
    /\ UNCHANGED <<store, files, sup, rec, workers, revising>>

WriteMarker ==
    /\ cancelling = "writing"
    /\ marker' = TRUE
    /\ cancelling' = "no"
    /\ UNCHANGED <<store, receipt, pidFile, sup, rec, workers, revising>>

Ack ==
    /\ \E a \in Attempts : a \notin acked /\ Acknowledge(a)
    /\ UNCHANGED <<files, procs>>

Decide ==
    /\ \E a \in Attempts, v \in Verdicts : RecordDecision(a, v)
    /\ UNCHANGED <<files, procs>>

Owner == \/ AdmitFirst \/ CheckRevise \/ Revise \/ RequestCancel \/ CheckNeedsCancel
         \/ WriteMarker \/ Ack \/ Decide

-----------------------------------------------------------------------------
(* The admitting process: it spawns the supervisor, and records a failed run *)
(* itself if the spawn fails.                                                *)

SpawnSupervisor(r) ==
    /\ r <= admitted /\ sup[r].pc = "unspawned"
    /\ \E pc \in {"starting_up", "refused"} : GoTo(r, pc)
    /\ UNCHANGED <<store, files, rec, workers, cancelling, revising>>

RefusedClaim(r) ==
    /\ sup[r].pc = "refused"
    /\ \/ /\ ClaimAttempt(r)
          /\ sup' = [sup EXCEPT ![r] =
                       [@ EXCEPT !.pc = "refused_claimed", !.slot = rows[r] + 1]]
       \/ /\ ~ClaimAllowed(r)
          /\ GoTo(r, "exited")
          /\ UNCHANGED store
    /\ UNCHANGED <<files, rec, workers, cancelling, revising>>

RefusedMark(r) ==
    /\ sup[r].pc = "refused_claimed"
    /\ \/ /\ CompareAndSetState(Current(r), "queued", "starting")
          /\ GoTo(r, "refused_started")
       \/ /\ state[Current(r)] # "queued"
          /\ GoTo(r, "exited")
          /\ UNCHANGED store
    /\ UNCHANGED <<files, rec, workers, cancelling, revising>>

RefusedCommit(r) ==
    /\ sup[r].pc = "refused_started"
    /\ \/ CommitTerminal(Current(r), "failed", TRUE)
       \/ CommitRefused(Current(r), TRUE) /\ UNCHANGED store
    /\ GoTo(r, "exited")
    /\ UNCHANGED <<files, rec, workers, cancelling, revising>>

-----------------------------------------------------------------------------
(* The supervisor of revision r. *)

\* The supervisor first reconciles what earlier processes left; that pass is
\* one of the Reconcilers' passes.  Only then does it publish its receipt.
PublishReceipt(r) ==
    /\ sup[r].pc = "starting_up"
    /\ receipt' = r
    /\ GoTo(r, "claiming")
    /\ UNCHANGED <<store, marker, pidFile, rec, workers, cancelling, revising>>

\* A failed store write ends the supervisor without touching its files.
Claim(r) ==
    /\ sup[r].pc = "claiming"
    /\ \/ /\ ClaimAttempt(r)
          /\ sup' = [sup EXCEPT ![r] = [@ EXCEPT !.pc = "claimed", !.slot = rows[r] + 1,
                                               !.end = "none", !.retry = FALSE]]
       \/ /\ ~ClaimAllowed(r)
          /\ GoTo(r, "dead")
          /\ UNCHANGED store
    /\ UNCHANGED <<files, rec, workers, cancelling, revising>>

\* transition(): the in-memory state names the expected durable one, so the
\* write fails if recovery changed the attempt meanwhile.
Transition(r, from, to, next) ==
    \/ CompareAndSetState(Current(r), from, to) /\ sup' = [sup EXCEPT ![r] = next]
    \/ state[Current(r)] # from /\ GoTo(r, "dead") /\ UNCHANGED store

MarkStarting(r) ==
    /\ sup[r].pc = "claimed"
    /\ Transition(r, "queued", "starting", [sup[r] EXCEPT !.pc = "started"])
    /\ UNCHANGED <<files, rec, workers, cancelling, revising>>

CancelBeforeSpawn(r) ==
    /\ sup[r].pc = "started"
    /\ CancelSeen
    /\ Transition(r, "starting", "cancel_requested",
                  [sup[r] EXCEPT !.pc = "sealed", !.end = "cancelled"])
    /\ UNCHANGED <<files, rec, workers, cancelling, revising>>

IntendLaunch(r) ==
    /\ sup[r].pc = "started"
    /\ ~CancelSeen
    /\ \/ RecordLaunchIntent(Current(r)) /\ GoTo(r, "launched")
       \/ /\ state[Current(r)] # "starting" \/ launch[Current(r)] # "none"
          /\ GoTo(r, "dead")
          /\ UNCHANGED store
    /\ UNCHANGED <<files, rec, workers, cancelling, revising>>

Identify(r) ==
    /\ sup[r].pc = "launched"
    /\ \/ RecordRunnerIdentity(Current(r)) /\ GoTo(r, "identified")
       \/ state[Current(r)] = "terminal" /\ GoTo(r, "dead") /\ UNCHANGED store
    /\ UNCHANGED <<files, rec, workers, cancelling, revising>>

MarkRunning(r) ==
    /\ sup[r].pc = "identified"
    /\ Transition(r, "starting", "running", [sup[r] EXCEPT !.pc = "running"])
    /\ UNCHANGED <<files, rec, workers, cancelling, revising>>

SpawnWorker(r) ==
    /\ sup[r].pc = "running"
    /\ workers' = workers \cup {r}
    /\ GoTo(r, "spawned")
    /\ UNCHANGED <<store, files, rec, cancelling, revising>>

\* The spawn itself fails; an interrupted, blocked or timed-out spawn is the
\* one failure a retry may follow.
SpawnWorkerFails(r) ==
    /\ sup[r].pc = "running"
    /\ \E transient \in BOOLEAN :
          sup' = [sup EXCEPT ![r] = [@ EXCEPT !.pc = "executed", !.end = "failed",
                                               !.retry = transient]]
    /\ UNCHANGED <<store, files, rec, workers, cancelling, revising>>

RecordPid(r) ==
    /\ sup[r].pc = "spawned"
    /\ pidFile' = r
    /\ GoTo(r, "waiting")
    /\ UNCHANGED <<store, receipt, marker, rec, workers, cancelling, revising>>

\* While the harness runs, the supervisor turns a durable intent into the
\* marker file, every 250 ms.
RaiseMarker(r) ==
    /\ sup[r].pc \in {"running", "spawned", "waiting"}
    /\ CancellationRequested /\ ~marker
    /\ marker' = TRUE
    /\ UNCHANGED <<store, receipt, pidFile, procs>>

\* Mistake: a worker killed at its deadline is reported as cancelled.
DeadlineLooksCancelled(r) ==
    /\ sup[r].pc = "waiting"
    /\ \E end \in {"success", "failed", "cancelled"} :
          sup' = [sup EXCEPT ![r] = [@ EXCEPT !.pc = "executed", !.end = end]]
    /\ workers' = workers \ {r}
    /\ pidFile' = 0
    /\ UNCHANGED <<store, receipt, marker, rec, cancelling, revising>>

\* The harness exits, is killed at its deadline, or is killed for the marker;
\* the pid record goes with it.
WorkerEnds(r) ==
    /\ sup[r].pc = "waiting"
    /\ \E end \in {"success", "failed"} \cup (IF marker THEN {"cancelled"} ELSE {}) :
          sup' = [sup EXCEPT ![r] = [@ EXCEPT !.pc = "executed", !.end = end]]
    /\ workers' = workers \ {r}
    /\ pidFile' = 0
    /\ UNCHANGED <<store, receipt, marker, rec, cancelling, revising>>

Conclude(r) ==
    /\ sup[r].pc = "executed"
    /\ \/ /\ sup[r].end = "success"
          /\ Transition(r, "running", "collecting",
                        [sup[r] EXCEPT !.pc = "collecting"])
       \/ /\ sup[r].end = "cancelled"
          /\ Transition(r, "running", "cancel_requested",
                        [sup[r] EXCEPT !.pc = "sealed"])
       \/ /\ sup[r].end = "failed"
          /\ GoTo(r, "sealed") /\ UNCHANGED store
    /\ UNCHANGED <<files, rec, workers, cancelling, revising>>

\* Open children, unanswered questions or unavailable evidence turn a
\* successful run into a failure; otherwise its result becomes a candidate.
SealResult(r) ==
    /\ sup[r].pc = "collecting"
    /\ \E end \in {"candidate", "failed"} :
          sup' = [sup EXCEPT ![r] = [@ EXCEPT !.pc = "sealed", !.end = end]]
    /\ UNCHANGED <<store, files, rec, workers, cancelling, revising>>

RetryLeft(r) == sup[r].retry /\ sup[r].number < MaxAttempts

\* Mistake: the run is completed although a retry will follow.
CommitAlwaysCompletes(r) ==
    /\ sup[r].pc = "sealed"
    /\ \/ /\ CommitTerminal(Current(r), sup[r].end, TRUE)
          /\ GoTo(r, IF sup[r].retry THEN "committed" ELSE "leaving")
       \/ /\ CommitRefused(Current(r), TRUE)
          /\ GoTo(r, "dead")
          /\ UNCHANGED store
    /\ UNCHANGED <<files, rec, workers, cancelling, revising>>

\* Only a result that a retry may follow is committed without completing the
\* run.
CommitResult(r) ==
    /\ sup[r].pc = "sealed"
    /\ \/ /\ CommitTerminal(Current(r), sup[r].end, ~RetryLeft(r))
          /\ GoTo(r, IF sup[r].retry THEN "committed" ELSE "leaving")
       \/ /\ CommitRefused(Current(r), ~RetryLeft(r))
          /\ GoTo(r, "dead")
          /\ UNCHANGED store
    /\ UNCHANGED <<files, rec, workers, cancelling, revising>>

\* Mistake: the loop over attempts has no upper bound.
GrantRetryUnbounded(r) ==
    /\ sup[r].pc = "committed"
    /\ GrantPreSpawnRetry(Current(r))
    /\ sup' = [sup EXCEPT ![r] = [@ EXCEPT !.pc = "claiming",
                                           !.number = sup[r].number + 1]]
    /\ UNCHANGED <<files, rec, workers, cancelling, revising>>

\* The grant follows in a transaction of its own, and also after the last
\* attempt of the budget.
GrantRetry(r) ==
    /\ sup[r].pc = "committed"
    /\ GrantPreSpawnRetry(Current(r))
    /\ sup' = IF sup[r].number < MaxAttempts
                THEN [sup EXCEPT ![r] = [@ EXCEPT !.pc = "claiming",
                                                  !.number = sup[r].number + 1]]
                ELSE [sup EXCEPT ![r].pc = "leaving"]
    /\ UNCHANGED <<files, rec, workers, cancelling, revising>>

\* A finished supervisor removes the task's cancel marker, then the task's
\* receipt, whichever revision they belong to by then.
RemoveMarker(r) ==
    /\ sup[r].pc = "leaving"
    /\ marker' = FALSE
    /\ GoTo(r, "unlinking")
    /\ UNCHANGED <<store, receipt, pidFile, rec, workers, cancelling, revising>>

RemoveReceipt(r) ==
    /\ sup[r].pc = "unlinking"
    /\ receipt' = 0
    /\ GoTo(r, "exited")
    /\ UNCHANGED <<store, marker, pidFile, rec, workers, cancelling, revising>>

CrashSupervisor(r) ==
    /\ sup[r].pc \in AlivePcs \cup {"refused", "refused_claimed", "refused_started"}
    /\ GoTo(r, "dead")
    /\ UNCHANGED <<store, files, rec, workers, cancelling, revising>>

\* The harness of a dead supervisor runs on and ends by itself.
OrphanEnds(r) ==
    /\ r \in workers /\ ~SupervisorAlive(r)
    /\ workers' = workers \ {r}
    /\ UNCHANGED <<store, files, sup, rec, cancelling, revising>>

SupervisorStep(r) ==
    \/ RefusedClaim(r) \/ RefusedMark(r) \/ RefusedCommit(r)
    \/ PublishReceipt(r) \/ Claim(r) \/ MarkStarting(r) \/ CancelBeforeSpawn(r)
    \/ IntendLaunch(r) \/ Identify(r) \/ MarkRunning(r) \/ SpawnWorker(r)
    \/ SpawnWorkerFails(r) \/ RecordPid(r) \/ RaiseMarker(r) \/ WorkerEnds(r)
    \/ Conclude(r) \/ SealResult(r) \/ CommitResult(r) \/ GrantRetry(r)
    \/ RemoveMarker(r) \/ RemoveReceipt(r)

-----------------------------------------------------------------------------
(* A reconciler p: reconcile_after_restart on one unfinished attempt, or the *)
(* reaping of one unclaimed revision.                                        *)

GoIdle(p) == rec' = [rec EXCEPT ![p] = IdleReconciler]

\* unfinished_attempts(): the state and launch receipt the commit is guarded by.
ListUnfinished(p) ==
    /\ rec[p].pc = "idle"
    /\ \E a \in Attempts :
          /\ state[a] \in ActiveStates
          /\ rec' = [rec EXCEPT ![p] = [pc |-> "listed", run |-> a,
                        state |-> state[a], launch |-> launch[a], end |-> "none"]]
    /\ UNCHANGED <<store, files, sup, workers, cancelling, revising>>

\* Mistake: a receipt is believed without a look at the process it names.
ObservedByReceipt(r) == receipt = r

\* Mistake: the run is judged by its worker instead of its supervisor.
ObservedByWorker(r) == receipt = r /\ r \in workers

\* Alive only if the receipt names this revision's launch and that process is
\* the one it names; a missing or foreign receipt, or a dead process, is
\* unknown or unobserved, and both are recorded as lost.
ObservedAlive(r) == receipt = r /\ SupervisorAlive(r)

Observe(p) ==
    /\ rec[p].pc = "listed"
    /\ IF ObservedAlive(rec[p].run[1])
         THEN GoIdle(p)
         ELSE rec' = [rec EXCEPT ![p].pc = "judged"]
    /\ UNCHANGED <<store, files, sup, workers, cancelling, revising>>

RecordLost(p) ==
    /\ rec[p].pc = "judged"
    /\ LET a == rec[p].run
       IN  \/ CommitRecoveredLost(a, rec[p].state, rec[p].launch)
           \/ /\ \/ state[a] # rec[p].state
                 \/ launch[a] # rec[p].launch
                 \/ CommitRefused(a, TRUE)
              /\ UNCHANGED store
    /\ GoIdle(p)
    /\ UNCHANGED <<files, sup, workers, cancelling, revising>>

\* unstarted_tasks() and unstarted_admission_is_stale(): the claim window is
\* over and the receipt does not name a live supervisor of this launch, or the
\* worktree is gone.  Cancellation is read here, before the claim.
ListUnstarted(p) ==
    /\ rec[p].pc = "idle"
    /\ \E r \in 1..admitted :
          /\ rows[r] = 0
          /\ WorkspaceMayVanish \/ ~ObservedAlive(r)
          /\ rec' = [rec EXCEPT ![p] =
                       [IdleReconciler EXCEPT !.pc = "stale", !.run = <<r, 0>>,
                        !.end = IF CancelSeen THEN "cancelled" ELSE "lost"]]
    /\ UNCHANGED <<store, files, sup, workers, cancelling, revising>>

ReapClaim(p) ==
    /\ rec[p].pc = "stale"
    /\ LET r == rec[p].run[1]
       IN  \/ /\ ClaimAttempt(r)
              /\ rec' = [rec EXCEPT ![p].pc = "reap_claimed",
                                    ![p].run = NextAttempt(r)]
           \/ ~ClaimAllowed(r) /\ GoIdle(p) /\ UNCHANGED store
    /\ UNCHANGED <<files, sup, workers, cancelling, revising>>

\* Mistake: a cancelled admission is marked like a lost one.
ReapMarkStarting(p) ==
    /\ rec[p].pc = "reap_claimed"
    /\ \/ /\ CompareAndSetState(rec[p].run, "queued", "starting")
          /\ rec' = [rec EXCEPT ![p].pc = "reap_marked"]
       \/ state[rec[p].run] # "queued" /\ GoIdle(p) /\ UNCHANGED store
    /\ UNCHANGED <<files, sup, workers, cancelling, revising>>

ReapMark(p) ==
    /\ rec[p].pc = "reap_claimed"
    /\ \/ /\ CompareAndSetState(rec[p].run, "queued",
                IF rec[p].end = "cancelled" THEN "cancel_requested" ELSE "starting")
          /\ rec' = [rec EXCEPT ![p].pc = "reap_marked"]
       \/ state[rec[p].run] # "queued" /\ GoIdle(p) /\ UNCHANGED store
    /\ UNCHANGED <<files, sup, workers, cancelling, revising>>

ReapCommit(p) ==
    /\ rec[p].pc = "reap_marked"
    /\ \/ CommitTerminal(rec[p].run, rec[p].end, TRUE)
       \/ CommitRefused(rec[p].run, TRUE) /\ UNCHANGED store
    /\ GoIdle(p)
    /\ UNCHANGED <<files, sup, workers, cancelling, revising>>

CrashReconciler(p) ==
    /\ p \notin Reliable
    /\ rec[p].pc # "idle"
    /\ GoIdle(p)
    /\ UNCHANGED <<store, files, sup, workers, cancelling, revising>>

ReconcilerStep(p) ==
    \/ ListUnfinished(p) \/ Observe(p) \/ RecordLost(p)
    \/ ListUnstarted(p) \/ ReapClaim(p) \/ ReapMark(p) \/ ReapCommit(p)

-----------------------------------------------------------------------------

LifecycleNext ==
    \/ Owner
    \/ \E r \in Revisions : \/ SpawnSupervisor(r) \/ SupervisorStep(r)
                            \/ CrashSupervisor(r) \/ OrphanEnds(r)
    \/ \E p \in Reconcilers : ReconcilerStep(p) \/ CrashReconciler(p)

LifecycleSpec == LifecycleInit /\ [][LifecycleNext]_vars

\* A live supervisor keeps running (a worker is killed at its deadline), and
\* status, wait and hook processes keep reconciling.  Nothing is assumed of the
\* owner, and the admitting process may die before it spawns a supervisor.
FairSpec == /\ LifecycleSpec
            /\ \A r \in Revisions : WF_vars(SupervisorStep(r))
            /\ \A p \in Reliable : WF_vars(ReconcilerStep(p))
-----------------------------------------------------------------------------
(* Properties. *)

\* The result recorded as the end of a run is the revision's last word: no
\* later attempt of that revision exists, whoever claims next.
CompletionIsLast ==
    \A r \in Revisions : completion[r] # 0 => completion[r] = rows[r]

\* A candidate is only ever committed by a supervisor that is collecting, and
\* `cancelled` only for an attempt that was marked cancel_requested first.  The
\* store itself accepts any outcome from any active state.
OutcomeMatchesState ==
    [][\A a \in Attempts : outcome'[a] # outcome[a] =>
         /\ outcome'[a] = "candidate" => state[a] = "collecting"
         /\ outcome'[a] = "cancelled" => state[a] = "cancel_requested"]_vars

\* What is recorded stands, and nobody but the holder of the right state
\* recorded it, whichever of supervisor, recovery and reaper came first.
ResultsStand == FirstWriterWins /\ OutcomeMatchesState

\* The process recorded as holding attempt a is alive and still before its
\* terminal commit.
HeldByLiveSupervisor(a) ==
    sup[a[1]].pc \in Holding /\ sup[a[1]].slot = a[2]

\* Recovery never takes an attempt away from its live supervisor.
LiveRunNotLost ==
    [][\A a \in Attempts :
         outcome[a] # "lost" /\ outcome'[a] = "lost"
             => ~HeldByLiveSupervisor(a)]_vars

\* A run ends `cancelled` only if the owner asked for that revision's
\* cancellation.  This holds of a task that is never revised: a cancel command
\* that is slow to write its marker cancels the revision admitted meanwhile.
CancelledOnRequest ==
    \A a \in Attempts : outcome[a] = "cancelled" => intent >= a[1]

\* The pid record never forgets a worker that is still alive: neither a second
\* supervisor of the task nor a crash makes revise or prune believe it gone.
\* Up to two revisions: the second one's receipt may be removed by the first
\* one's supervisor, and then a third is admitted while the second one works.
PidRecordKeepsLiveWorker ==
    [][pidFile # 0 /\ pidFile \in workers /\ pidFile' # pidFile
         => pidFile \notin workers']_vars

\* What the owner sees of the attempt tables.
LatestSlots(r) == {n \in Slots : IsLatestResult(r, n)}

Contract == INSTANCE ManagedRun WITH
    latest   <- [r \in Revisions |->
                   IF LatestSlots(r) = {} THEN "none"
                   ELSE outcome[<<r, CHOOSE n \in LatestSlots(r) : TRUE>>]],
    results  <- [r \in Revisions |-> Cardinality({n \in Slots : HasResult(<<r, n>>)})],
    decision <- [r \in Revisions |->
                   IF LatestSlots(r) = {} THEN "none"
                   ELSE verdict[<<r, CHOOSE n \in LatestSlots(r) : TRUE>>]]

\* Supervisors, reconcilers and the owner together keep the promise made to the
\* owner in ManagedRun, where a revision has one attempt or a task at most two
\* revisions: revise decides on what it has read before it makes its checkout.
\* With a third revision the second one's receipt may be gone while it is being
\* retried, and the retry replaces what revise has read.
KeepsContract == Contract!Spec

RunOver(r) == ~AttemptActive(r) /\ \E n \in Slots : HasResult(<<r, n>>)

\* Whatever dies, and whenever, every admitted revision ends with a result and
\* no unfinished attempt.
EveryRunEnds == \A r \in Revisions : (admitted >= r) ~> RunOver(r)
=============================================================================
