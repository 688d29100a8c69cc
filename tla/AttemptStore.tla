---------------------------- MODULE AttemptStore ----------------------------
(***************************************************************************)
(* The durable attempt tables of one task (crates/brgr-store): revisions,  *)
(* attempts, launch receipts, results, retry grants, run completions, the  *)
(* owner's acknowledgements and decisions, and the cancellation intent.    *)
(*                                                                         *)
(* Every operator below the variables is one SQLite transaction: its       *)
(* conjuncts without primes are the checks that transaction makes before   *)
(* it writes, and a transaction whose checks fail writes nothing.  Any     *)
(* process may call any of them at any time, which is what Next says.      *)
(* AttemptLifecycle composes them with the processes that really call      *)
(* them.                                                                   *)
(***************************************************************************)
EXTENDS Naturals

CONSTANTS MaxRevisions,   \* bound on the revisions of the task
          MaxAttempts     \* TaskSpec.budget.max_attempts

ASSUME BoundsAssumption == /\ MaxRevisions \in Nat \ {0}
                           /\ MaxAttempts \in Nat \ {0}

Revisions == 1..MaxRevisions
Slots     == 1..MaxAttempts
Attempts  == Revisions \X Slots     \* <<r, n>>: n-th attempt row of revision r

ActiveStates == {"queued", "starting", "running", "blocked", "collecting",
                 "cancel_requested"}
States   == ActiveStates \cup {"absent", "terminal"}
Launches == {"none", "intent", "identified"}
Outcomes == {"candidate", "failed", "cancelled", "lost"}
Verdicts == {"accepted", "rejected"}

VARIABLES
    admitted,     \* latest row of tasks: revisions 1..admitted exist
    rows,         \* rows[r]: number of attempt rows of revision r
    state,        \* attempts.state ("absent" where there is no row)
    launch,       \* launch_intents: no receipt, nonce only, or with identity
    outcome,      \* results.outcome ("none" where there is no result)
    granted,      \* pre_spawn_retry_grants
    completion,   \* task_run_completions: the slot that ended the run, or 0
    acked,        \* inbox items acknowledged by the owner
    verdict,      \* decisions ("none" where there is no decision)
    intent        \* cancellation_intents.revision, or 0

store == <<admitted, rows, state, launch, outcome, granted, completion,
           acked, verdict, intent>>

TypeOK ==
    /\ admitted \in 0..MaxRevisions
    /\ rows \in [Revisions -> 0..MaxAttempts]
    /\ state \in [Attempts -> States]
    /\ launch \in [Attempts -> Launches]
    /\ outcome \in [Attempts -> Outcomes \cup {"none"}]
    /\ granted \subseteq Attempts
    /\ completion \in [Revisions -> 0..MaxAttempts]
    /\ acked \subseteq Attempts
    /\ verdict \in [Attempts -> Verdicts \cup {"none"}]
    /\ intent \in 0..MaxRevisions

Init ==
    /\ admitted = 0
    /\ rows = [r \in Revisions |-> 0]
    /\ state = [a \in Attempts |-> "absent"]
    /\ launch = [a \in Attempts |-> "none"]
    /\ outcome = [a \in Attempts |-> "none"]
    /\ granted = {}
    /\ completion = [r \in Revisions |-> 0]
    /\ acked = {}
    /\ verdict = [a \in Attempts |-> "none"]
    /\ intent = 0

-----------------------------------------------------------------------------
(* Reading the tables. *)

HasResult(a) == outcome[a] # "none"

\* results ORDER BY rowid DESC LIMIT 1.  The partial index on attempts admits
\* attempt n+1 of a revision only once attempt n is terminal, and the terminal
\* state is written with the result, so row order is attempt order.
IsLatestResult(r, n) ==
    /\ HasResult(<<r, n>>)
    /\ \A m \in Slots : HasResult(<<r, m>>) => m <= n

AttemptActive(r) == \E n \in Slots : state[<<r, n>>] \in ActiveStates

\* Settlement of a revision, in the order the code tests the cases.
Settlement(r) ==
    LET latest == CHOOSE n \in Slots : IsLatestResult(r, n)
        a      == <<r, latest>>
    IN  CASE AttemptActive(r) -> "attempt_active"
          [] ~AttemptActive(r) /\ \A n \in Slots : ~HasResult(<<r, n>>)
               -> "no_result"
          [] OTHER ->
               IF outcome[a] = "candidate"
                 THEN IF verdict[a] = "none" THEN "undecided" ELSE "decided"
                 ELSE IF a \in granted THEN "retry_granted"
                 ELSE IF a \in acked THEN "acknowledged" ELSE "unacknowledged"

CancellationRequested == intent # 0 /\ intent = admitted

AllowedTransition(from, to) ==
    CASE from = "queued"     -> to \in {"starting", "cancel_requested"}
      [] from = "starting"   -> to \in {"running", "cancel_requested"}
      [] from = "running"    -> to \in {"blocked", "collecting", "cancel_requested"}
      [] from = "blocked"    -> to \in {"running", "collecting", "cancel_requested"}
      [] from = "collecting" -> to = "cancel_requested"
      [] OTHER               -> FALSE

-----------------------------------------------------------------------------
(* The transactions. *)

\* Admission of revision r; revise() only ever admits current + 1, and the
\* primary key (task_id, revision) refuses a second row.
RecordTask(r) ==
    /\ r = admitted + 1
    /\ admitted' = r
    /\ UNCHANGED <<rows, state, launch, outcome, granted, completion, acked,
                   verdict, intent>>

(* A definition whose comment starts with `Mistake:` is a way this code could *)
(* go wrong.  No specification uses it; the properties must tell it from the  *)
(* definition that follows it.                                                *)

\* Mistake: the unique partial index on active attempts is missing.
ClaimWithoutIndex(r) ==
    /\ r \in 1..admitted
    /\ rows[r] < MaxAttempts
    /\ \A n \in Slots : IsLatestResult(r, n) =>
          outcome[<<r, n>>] = "failed" /\ <<r, n>> \in granted

\* Mistake: any failure may be retried, granted or not.
ClaimAfterAnyFailure(r) ==
    /\ r \in 1..admitted
    /\ rows[r] < MaxAttempts
    /\ \A n \in Slots : IsLatestResult(r, n) => outcome[<<r, n>>] = "failed"
    /\ ~AttemptActive(r)

\* Mistake: a lost run may be claimed again in the same revision.
ClaimAfterLost(r) ==
    /\ r \in 1..admitted
    /\ rows[r] < MaxAttempts
    /\ \A n \in Slots : IsLatestResult(r, n) =>
          outcome[<<r, n>>] = "lost"
              \/ (outcome[<<r, n>>] = "failed" /\ <<r, n>> \in granted)
    /\ ~AttemptActive(r)

\* A new attempt needs budget, no active attempt (the unique partial index),
\* and no earlier result except a failure with a retry grant.
ClaimAllowed(r) ==
    /\ r \in 1..admitted
    /\ rows[r] < MaxAttempts
    /\ \A n \in Slots : IsLatestResult(r, n) =>
          outcome[<<r, n>>] = "failed" /\ <<r, n>> \in granted
    /\ ~AttemptActive(r)

NextAttempt(r) == <<r, rows[r] + 1>>

ClaimAttempt(r) ==
    /\ ClaimAllowed(r)
    /\ rows' = [rows EXCEPT ![r] = @ + 1]
    /\ state' = [state EXCEPT ![NextAttempt(r)] = "queued"]
    /\ UNCHANGED <<admitted, launch, outcome, granted, completion, acked,
                   verdict, intent>>

CompareAndSetState(a, expected, next) ==
    /\ AllowedTransition(expected, next)
    /\ state[a] = expected
    /\ state' = [state EXCEPT ![a] = next]
    /\ UNCHANGED <<admitted, rows, launch, outcome, granted, completion,
                   acked, verdict, intent>>

RecordLaunchIntent(a) ==
    /\ state[a] = "starting"
    /\ launch[a] = "none"
    /\ launch' = [launch EXCEPT ![a] = "intent"]
    /\ UNCHANGED <<admitted, rows, state, outcome, granted, completion, acked,
                   verdict, intent>>

RecordRunnerIdentity(a) ==
    /\ launch[a] = "intent"
    /\ state[a] # "terminal"
    /\ launch' = [launch EXCEPT ![a] = "identified"]
    /\ UNCHANGED <<admitted, rows, state, outcome, granted, completion, acked,
                   verdict, intent>>

\* Mistake: the result is inserted but the attempt's state is left alone.
CommitWithoutState(a, o, complete) ==
    /\ outcome[a] = "none"
    /\ state[a] \in ActiveStates
    /\ complete => completion[a[1]] = 0
    /\ outcome' = [outcome EXCEPT ![a] = o]
    /\ completion' = IF complete THEN [completion EXCEPT ![a[1]] = a[2]]
                                 ELSE completion
    /\ UNCHANGED <<admitted, rows, state, launch, granted, acked, verdict, intent>>

\* Mistake: a second result replaces the first instead of being refused.
CommitReplacing(a, o, complete) ==
    /\ outcome' = [outcome EXCEPT ![a] = o]
    /\ state' = [state EXCEPT ![a] = "terminal"]
    /\ completion' = IF complete THEN [completion EXCEPT ![a[1]] = a[2]]
                                 ELSE completion
    /\ UNCHANGED <<admitted, rows, launch, granted, acked, verdict, intent>>

\* complete is commit_terminal_result_final's extra write.  It keeps the first
\* completion of the revision and fails the transaction if that names another
\* result.
CommitTerminal(a, o, complete) ==
    /\ outcome[a] = "none"
    /\ state[a] \in ActiveStates
    /\ complete => completion[a[1]] = 0
    /\ outcome' = [outcome EXCEPT ![a] = o]
    /\ state' = [state EXCEPT ![a] = "terminal"]
    /\ completion' = IF complete THEN [completion EXCEPT ![a[1]] = a[2]]
                                 ELSE completion
    /\ UNCHANGED <<admitted, rows, launch, granted, acked, verdict, intent>>

\* Recovery's commit is guarded by the state and receipt it observed earlier.
CommitRecoveredLost(a, seenState, seenLaunch) ==
    /\ state[a] = seenState
    /\ launch[a] = seenLaunch
    /\ CommitTerminal(a, "lost", TRUE)

GrantPreSpawnRetry(a) ==
    /\ outcome[a] = "failed"
    /\ granted' = granted \cup {a}
    /\ UNCHANGED <<admitted, rows, state, launch, outcome, completion, acked,
                   verdict, intent>>

Acknowledge(a) ==
    /\ HasResult(a)
    /\ acked' = acked \cup {a}
    /\ UNCHANGED <<admitted, rows, state, launch, outcome, granted, completion,
                   verdict, intent>>

\* The sole decision on a candidate, acknowledged in the same transaction.
RecordDecision(a, v) ==
    /\ outcome[a] = "candidate"
    /\ verdict[a] = "none"
    /\ verdict' = [verdict EXCEPT ![a] = v]
    /\ acked' = acked \cup {a}
    /\ UNCHANGED <<admitted, rows, state, launch, outcome, granted, completion,
                   intent>>

\* The upsert always names the latest revision.
RecordCancellationIntent ==
    /\ admitted > 0
    /\ intent' = admitted
    /\ UNCHANGED <<admitted, rows, state, launch, outcome, granted, completion,
                   acked, verdict>>

Next ==
    \/ \E r \in Revisions : RecordTask(r) \/ ClaimAttempt(r)
    \/ \E a \in Attempts :
          \/ \E from, to \in ActiveStates : CompareAndSetState(a, from, to)
          \/ RecordLaunchIntent(a)
          \/ RecordRunnerIdentity(a)
          \/ \E o \in Outcomes, complete \in BOOLEAN : CommitTerminal(a, o, complete)
          \/ GrantPreSpawnRetry(a)
          \/ Acknowledge(a)
          \/ \E v \in Verdicts : RecordDecision(a, v)
    \/ RecordCancellationIntent

Spec == Init /\ [][Next]_store

-----------------------------------------------------------------------------
(* What the tables promise whoever calls the transactions. *)

\* Two processes may race to claim, recover and retry the same revision; the
\* tables still never hold two attempts of it that could both be running.
OneActiveAttempt ==
    \A r \in Revisions : \A m, n \in Slots :
        state[<<r, m>>] \in ActiveStates /\ state[<<r, n>>] \in ActiveStates
            => m = n

\* An attempt is terminal exactly when its result (and so its inbox item) is
\* recorded: neither a crash nor a race leaves one without the other.
TerminalHasResult ==
    \A a \in Attempts : state[a] = "terminal" <=> HasResult(a)

\* Attempt n+1 exists only if attempt n failed and was granted a retry: nothing
\* ever runs after a candidate, a cancellation or a lost run of a revision.
RetryOnlyAfterGrant ==
    \A r \in Revisions : \A m, n \in Slots :
        m < n /\ state[<<r, n>>] # "absent"
            => outcome[<<r, m>>] = "failed" /\ <<r, m>> \in granted

\* A recorded result, decision or launch receipt is never replaced: a late or
\* duplicate writer loses to the first one.
FirstWriterWins ==
    [][\A a \in Attempts :
         /\ outcome[a] # "none" => outcome'[a] = outcome[a]
         /\ verdict[a] # "none" => verdict'[a] = verdict[a]
         /\ state[a] = "terminal" => launch'[a] = launch[a]]_store

\* The tables describe at every moment a run that can be told to the owner: at
\* most one active attempt, results exactly for what has ended, and no attempt
\* after one that was not granted a retry.
StoreSafety == OneActiveAttempt /\ TerminalHasResult /\ RetryOnlyAfterGrant
=============================================================================
