------------------------ MODULE AttemptLifecycleProofs ------------------------
(***************************************************************************)
(* The attempt tables keep their promises for any number of revisions and  *)
(* attempts, whatever processes call the transactions and in any order.    *)
(* The processes of AttemptLifecycle, for any number of revisions,         *)
(* attempts and reconcilers, drive the tables only through these           *)
(* transactions, so what is proved of the tables holds of them; a          *)
(* completed run is the last of its revision; an outcome fits the state it *)
(* was committed from; nothing is cancelled unasked; recovery takes no     *)
(* attempt and forgets no worker of a supervisor whose receipt stays; and  *)
(* the promise of ManagedRun is kept.                                      *)
(***************************************************************************)
EXTENDS AttemptLifecycle, FiniteSetTheorems, TLAPS

----------------------------------------------------------------------------
(* The tables, whoever calls their transactions.                            *)

\* The rows of a revision are its first rows[r] slots, and a grant names
\* a failure.
RowsAreDense ==
    \A r \in Revisions : \A n \in Slots : state[<<r, n>>] = "absent" <=> n > rows[r]

GrantsAreFailures == \A a \in granted : outcome[a] = "failed"

\* The inductive invariant.  RetryOnlyAfterGrant alone is not inductive: that
\* a new row follows a granted failure needs the latest result to be the last
\* row, which is the density of the rows together with TerminalHasResult.
StoreInv ==
    /\ TypeOK
    /\ RowsAreDense
    /\ GrantsAreFailures
    /\ OneActiveAttempt
    /\ TerminalHasResult
    /\ RetryOnlyAfterGrant

\* A pair of a revision and a slot, and back.
LEMMA AttemptPairs ==
    /\ \A r \in Revisions, n \in Slots : <<r, n>> \in Attempts
    /\ \A a \in Attempts : /\ a[1] \in Revisions /\ a[2] \in Slots
                           /\ a = <<a[1], a[2]>>
BY DEF Attempts

\* No attempt has a row, a result or a grant at first.
LEMMA InitStoreInv == Init => StoreInv
<1> SUFFICES ASSUME Init PROVE StoreInv
  OBVIOUS
<1>1. TypeOK
  BY BoundsAssumption DEF Init, TypeOK, States, Launches
<1>2. RowsAreDense /\ GrantsAreFailures
  BY AttemptPairs, BoundsAssumption DEF Init, RowsAreDense, GrantsAreFailures, Slots
<1>3. OneActiveAttempt /\ TerminalHasResult /\ RetryOnlyAfterGrant
  BY AttemptPairs DEF Init, OneActiveAttempt, TerminalHasResult, RetryOnlyAfterGrant,
                      HasResult, ActiveStates
<1> QED BY <1>1, <1>2, <1>3 DEF StoreInv

\* A granted claim finds every row of the revision a granted failure.
LEMMA ClaimFollowsFailures ==
  ASSUME StoreInv, NEW r \in Revisions, ClaimAllowed(r),
         NEW n \in Slots, n <= rows[r]
  PROVE  outcome[<<r, n>>] = "failed" /\ <<r, n>> \in granted
<1>1. rows[r] \in Slots
  BY BoundsAssumption DEF StoreInv, TypeOK, Slots
<1>2. state[<<r, n>>] # "absent" /\ state[<<r, rows[r]>>] # "absent"
  BY <1>1 DEF StoreInv, RowsAreDense, Slots
<1>3. CASE n < rows[r]
  BY <1>1, <1>2, <1>3 DEF StoreInv, RetryOnlyAfterGrant
<1>4. CASE n = rows[r]
  <2>1. state[<<r, n>>] = "terminal"
    BY <1>2, AttemptPairs DEF StoreInv, TypeOK, States, ClaimAllowed, AttemptActive
  <2>2. HasResult(<<r, n>>)
    BY <2>1, AttemptPairs DEF StoreInv, TerminalHasResult
  <2>3. \A m \in Slots : HasResult(<<r, m>>) => m <= n
    BY <1>4, AttemptPairs, BoundsAssumption
    DEF StoreInv, TypeOK, TerminalHasResult, RowsAreDense, Slots
  <2>4. IsLatestResult(r, n)
    BY <2>2, <2>3 DEF IsLatestResult
  <2> QED BY <2>4 DEF ClaimAllowed
<1> QED BY <1>3, <1>4 DEF StoreInv, TypeOK, Slots

\* Every transaction keeps the types of the tables.
LEMMA TypeStep == TypeOK /\ [Next]_store => TypeOK'
<1> SUFFICES ASSUME TypeOK, [Next]_store PROVE TypeOK'
  OBVIOUS
<1> USE AttemptPairs, BoundsAssumption
<1>1. ASSUME NEW r \in Revisions, RecordTask(r) PROVE TypeOK'
  BY <1>1 DEF TypeOK, RecordTask, Revisions
<1>2. ASSUME NEW r \in Revisions, ClaimAttempt(r) PROVE TypeOK'
  <2>1. rows[r] + 1 \in Slots /\ NextAttempt(r) \in Attempts
    BY <1>2 DEF TypeOK, ClaimAttempt, ClaimAllowed, NextAttempt, Slots
  <2>2. rows' \in [Revisions -> 0..MaxAttempts]
    BY <1>2, <2>1 DEF TypeOK, ClaimAttempt, Slots
  <2>3. state' \in [Attempts -> States]
    BY <1>2, <2>1 DEF TypeOK, ClaimAttempt, States, ActiveStates
  <2> QED BY <1>2, <2>2, <2>3 DEF TypeOK, ClaimAttempt
<1>3. ASSUME NEW a \in Attempts, NEW from \in ActiveStates, NEW to \in ActiveStates,
             CompareAndSetState(a, from, to)
      PROVE  TypeOK'
  BY <1>3 DEF TypeOK, CompareAndSetState, States
<1>4. ASSUME NEW a \in Attempts, RecordLaunchIntent(a) \/ RecordRunnerIdentity(a)
      PROVE  TypeOK'
  BY <1>4 DEF TypeOK, RecordLaunchIntent, RecordRunnerIdentity, Launches
<1>5. ASSUME NEW a \in Attempts, NEW o \in Outcomes, NEW complete \in BOOLEAN,
             CommitTerminal(a, o, complete)
      PROVE  TypeOK'
  <2>1. completion' \in [Revisions -> 0..MaxAttempts]
    BY <1>5 DEF TypeOK, CommitTerminal, Slots
  <2> QED BY <1>5, <2>1 DEF TypeOK, CommitTerminal, States
<1>6. ASSUME NEW a \in Attempts, GrantPreSpawnRetry(a) \/ Acknowledge(a)
      PROVE  TypeOK'
  BY <1>6 DEF TypeOK, GrantPreSpawnRetry, Acknowledge
<1>7. ASSUME NEW a \in Attempts, NEW v \in Verdicts, RecordDecision(a, v)
      PROVE  TypeOK'
  BY <1>7 DEF TypeOK, RecordDecision
<1>8. ASSUME RecordCancellationIntent PROVE TypeOK'
  BY <1>8 DEF TypeOK, RecordCancellationIntent
<1>9. CASE UNCHANGED store
  BY <1>9 DEF TypeOK, store
<1> QED BY <1>1, <1>2, <1>3, <1>4, <1>5, <1>6, <1>7, <1>8, <1>9 DEF Next

\* Every transaction keeps the tables consistent with each other.
LEMMA StoreStep == StoreInv /\ [Next]_store => StoreInv'
<1> SUFFICES ASSUME StoreInv, [Next]_store PROVE StoreInv'
  OBVIOUS
<1> DEFINE Rest == /\ RowsAreDense /\ GrantsAreFailures /\ OneActiveAttempt
                   /\ TerminalHasResult /\ RetryOnlyAfterGrant
<1> USE AttemptPairs, BoundsAssumption
<1>0. TypeOK /\ TypeOK'
  BY TypeStep DEF StoreInv
<1>1. ASSUME NEW r \in Revisions, ClaimAttempt(r) PROVE Rest'
  <2> DEFINE new == NextAttempt(r)
  <2>1. /\ rows[r] + 1 \in Slots /\ new \in Attempts /\ new = <<r, rows[r] + 1>>
        /\ state[new] = "absent" /\ outcome[new] = "none" /\ outcome' = outcome
        /\ granted' = granted
        /\ state' = [state EXCEPT ![new] = "queued"]
        /\ rows' = [rows EXCEPT ![r] = @ + 1]
    BY <1>0, <1>1 DEF StoreInv, TypeOK, ClaimAttempt, ClaimAllowed, NextAttempt, Slots,
                      RowsAreDense, TerminalHasResult, HasResult
  <2> HIDE DEF new
  <2>p. ASSUME NEW q \in Revisions, NEW n \in Slots
        PROVE  /\ <<q, n>> = new <=> q = r /\ n = rows[r] + 1
               /\ <<q, n>> = new => state'[<<q, n>>] = "queued"
               /\ <<q, n>> # new => state'[<<q, n>>] = state[<<q, n>>]
               /\ rows'[q] = IF q = r THEN rows[q] + 1 ELSE rows[q]
    BY <1>0, <2>1 DEF TypeOK
  <2>2. RowsAreDense' /\ GrantsAreFailures'
    <3>1. ASSUME NEW q \in Revisions, NEW n \in Slots
          PROVE  state'[<<q, n>>] = "absent" <=> n > rows'[q]
      <4>1. rows[q] \in Nat /\ n \in Nat /\ (state[<<q, n>>] = "absent" <=> n > rows[q])
        BY <1>0 DEF StoreInv, TypeOK, RowsAreDense, Slots
      <4>2. CASE <<q, n>> = new
        BY <2>p, <4>1, <4>2
      <4>3. CASE <<q, n>> # new
        BY <2>p, <4>1, <4>3
      <4> QED BY <4>2, <4>3
    <3>2. GrantsAreFailures'
      BY <2>1 DEF StoreInv, GrantsAreFailures
    <3> QED BY <3>1, <3>2 DEF RowsAreDense
  <2>3. OneActiveAttempt'
    <3> SUFFICES ASSUME NEW q \in Revisions, NEW m \in Slots, NEW n \in Slots,
                        state'[<<q, m>>] \in ActiveStates, state'[<<q, n>>] \in ActiveStates
                 PROVE  m = n
      BY DEF OneActiveAttempt
    <3>1. CASE q = r
      <4>1. \A k \in Slots : state[<<r, k>>] \notin ActiveStates
        BY <1>1 DEF ClaimAttempt, ClaimAllowed, AttemptActive
      <4> QED BY <2>p, <3>1, <4>1
    <3>2. CASE q # r
      BY <2>p, <3>2 DEF StoreInv, OneActiveAttempt
    <3> QED BY <3>1, <3>2
  <2>4. TerminalHasResult'
    BY <1>0, <2>1 DEF StoreInv, TypeOK, TerminalHasResult, HasResult
  <2>5. RetryOnlyAfterGrant'
    <3> SUFFICES ASSUME NEW q \in Revisions, NEW m \in Slots, NEW n \in Slots,
                        m < n, state'[<<q, n>>] # "absent"
                 PROVE  outcome[<<q, m>>] = "failed" /\ <<q, m>> \in granted
      BY <2>1 DEF RetryOnlyAfterGrant
    <3>1. CASE <<q, n>> = new
      <4>1. q = r /\ m <= rows[r]
        BY <1>0, <2>p, <3>1 DEF TypeOK, Slots
      <4> QED BY <1>1, <4>1, ClaimFollowsFailures DEF ClaimAttempt
    <3>2. CASE <<q, n>> # new
      BY <2>p, <3>2 DEF StoreInv, RetryOnlyAfterGrant
    <3> QED BY <3>1, <3>2
  <2> QED BY <2>2, <2>3, <2>4, <2>5
<1>2. ASSUME NEW a \in Attempts, NEW from \in ActiveStates, NEW to \in ActiveStates,
             CompareAndSetState(a, from, to)
      PROVE  Rest'
  <2>1. /\ state[a] = from /\ state' = [state EXCEPT ![a] = to]
        /\ UNCHANGED <<rows, outcome, granted>>
        /\ from \notin {"absent", "terminal"} /\ to \notin {"absent", "terminal"}
    BY <1>2 DEF CompareAndSetState, ActiveStates
  <2>2. RowsAreDense' /\ GrantsAreFailures' /\ TerminalHasResult' /\ RetryOnlyAfterGrant'
    BY <1>0, <2>1 DEF StoreInv, TypeOK, RowsAreDense, GrantsAreFailures,
                      TerminalHasResult, RetryOnlyAfterGrant, HasResult
  <2>3. OneActiveAttempt'
    BY <1>0, <2>1 DEF StoreInv, TypeOK, OneActiveAttempt
  <2> QED BY <2>2, <2>3
<1>3. ASSUME NEW a \in Attempts, NEW o \in Outcomes, NEW complete \in BOOLEAN,
             CommitTerminal(a, o, complete)
      PROVE  Rest'
  <2>1. /\ state[a] \in ActiveStates /\ state' = [state EXCEPT ![a] = "terminal"]
        /\ outcome[a] = "none" /\ outcome' = [outcome EXCEPT ![a] = o]
        /\ UNCHANGED <<rows, granted>> /\ o # "none"
    BY <1>3 DEF CommitTerminal, Outcomes
  <2>2. state[a] \notin {"absent", "terminal"} /\ "terminal" \notin ActiveStates
    BY <2>1 DEF ActiveStates
  <2>3. RowsAreDense' /\ TerminalHasResult'
    BY <1>0, <2>1, <2>2 DEF StoreInv, TypeOK, RowsAreDense, TerminalHasResult, HasResult
  <2>4. GrantsAreFailures' /\ RetryOnlyAfterGrant'
    BY <1>0, <2>1, <2>2 DEF StoreInv, TypeOK, GrantsAreFailures, RetryOnlyAfterGrant
  <2>5. OneActiveAttempt'
    BY <1>0, <2>1, <2>2 DEF StoreInv, TypeOK, OneActiveAttempt
  <2> QED BY <2>3, <2>4, <2>5
<1>4. ASSUME NEW a \in Attempts, GrantPreSpawnRetry(a) PROVE Rest'
  BY <1>0, <1>4 DEF StoreInv, TypeOK, GrantPreSpawnRetry, RowsAreDense,
                    GrantsAreFailures, OneActiveAttempt, TerminalHasResult,
                    RetryOnlyAfterGrant, HasResult
<1>5. ASSUME UNCHANGED <<rows, state, outcome, granted>> PROVE Rest'
  BY <1>5 DEF StoreInv, RowsAreDense, GrantsAreFailures, OneActiveAttempt,
              TerminalHasResult, RetryOnlyAfterGrant, HasResult
<1>6. ASSUME NEW r \in Revisions, RecordTask(r) PROVE Rest'
  BY <1>5, <1>6 DEF RecordTask
<1>7. ASSUME NEW a \in Attempts, RecordLaunchIntent(a) \/ RecordRunnerIdentity(a)
                                   \/ Acknowledge(a)
      PROVE  Rest'
  BY <1>5, <1>7 DEF RecordLaunchIntent, RecordRunnerIdentity, Acknowledge
<1>8. ASSUME NEW a \in Attempts, NEW v \in Verdicts, RecordDecision(a, v) PROVE Rest'
  BY <1>5, <1>8 DEF RecordDecision
<1>9. ASSUME RecordCancellationIntent \/ UNCHANGED store PROVE Rest'
  BY <1>5, <1>9 DEF RecordCancellationIntent, store
<1>10. Rest'
  BY <1>1, <1>2, <1>3, <1>4, <1>6, <1>7, <1>8, <1>9 DEF Next
<1> QED BY <1>0, <1>10 DEF StoreInv

-----------------------------------------------------------------------------
\* The tables of a task always have the types AttemptStore states.
THEOREM StoreTypeCorrect == Spec => []TypeOK
<1>1. Init => TypeOK
  BY InitStoreInv DEF StoreInv
<1> QED BY <1>1, TypeStep, PTL DEF Spec

\* The inductive invariant holds of every behaviour of the store.
THEOREM StoreInvariant == Spec => []StoreInv
BY InitStoreInv, StoreStep, PTL DEF Spec

\* The partial unique index and the claim's checks together leave at most one
\* active attempt of a revision, however many processes claim it.
THEOREM OneActiveAttemptHolds == Spec => []OneActiveAttempt
<1>1. StoreInv => OneActiveAttempt
  BY DEF StoreInv
<1> QED BY <1>1, StoreInvariant, PTL

\* An attempt is terminal exactly when its result is recorded.
THEOREM TerminalHasResultHolds == Spec => []TerminalHasResult
<1>1. StoreInv => TerminalHasResult
  BY DEF StoreInv
<1> QED BY <1>1, StoreInvariant, PTL

\* An attempt exists only after every earlier one of its revision failed and
\* was granted a retry.
THEOREM RetryOnlyAfterGrantHolds == Spec => []RetryOnlyAfterGrant
<1>1. StoreInv => RetryOnlyAfterGrant
  BY DEF StoreInv
<1> QED BY <1>1, StoreInvariant, PTL

\* The three together: the tables can be told to the owner at every moment.
THEOREM StoreSafetyHolds == Spec => []StoreSafety
<1>1. StoreInv => StoreSafety
  BY DEF StoreInv, StoreSafety
<1> QED BY <1>1, StoreInvariant, PTL

\* No transaction replaces a result or a decision, nor the launch receipt of
\* a finished attempt.
THEOREM FirstWriterWinsHolds == Spec => FirstWriterWins
<1> DEFINE Kept == \A a \in Attempts :
              /\ outcome[a] # "none" => outcome'[a] = outcome[a]
              /\ verdict[a] # "none" => verdict'[a] = verdict[a]
              /\ state[a] = "terminal" => launch'[a] = launch[a]
<1>1. ASSUME StoreInv, Next PROVE Kept
  <2> USE AttemptPairs
  <2>1. TypeOK /\ \A a \in Attempts : HasResult(a) <=> state[a] = "terminal"
    BY <1>1 DEF StoreInv, TerminalHasResult
  <2>2. ASSUME NEW b \in Attempts, RecordLaunchIntent(b) \/ RecordRunnerIdentity(b)
        PROVE  Kept
    BY <2>1, <2>2 DEF TypeOK, RecordLaunchIntent, RecordRunnerIdentity
  <2>3. ASSUME NEW b \in Attempts, NEW o \in Outcomes, NEW complete \in BOOLEAN,
               CommitTerminal(b, o, complete)
        PROVE  Kept
    BY <2>1, <2>3 DEF TypeOK, CommitTerminal
  <2>4. ASSUME NEW b \in Attempts, NEW v \in Verdicts, RecordDecision(b, v)
        PROVE  Kept
    BY <2>1, <2>4 DEF TypeOK, RecordDecision
  <2>5. ASSUME UNCHANGED <<outcome, verdict, launch>> PROVE Kept
    BY <2>5
  <2> QED BY <1>1, <2>2, <2>3, <2>4, <2>5
          DEF Next, RecordTask, ClaimAttempt, CompareAndSetState, GrantPreSpawnRetry,
              Acknowledge, RecordCancellationIntent
<1>2. StoreInv /\ [Next]_store => [Kept]_store
  BY <1>1
<1> QED BY <1>2, StoreInvariant, PTL DEF Spec, FirstWriterWins

----------------------------------------------------------------------------
(* Supervisors, reconcilers and the owner over the tables.                  *)

\* What a supervisor's place in its program says of the attempt it holds.
SupOK(r) ==
    /\ sup[r].pc \in Holding \cup {"committed", "refused_claimed", "refused_started"}
          => sup[r].slot \in Slots /\ sup[r].slot <= rows[r]
    /\ sup[r].pc \in Holding \cup {"committed"} => sup[r].number <= sup[r].slot
    /\ sup[r].pc \in BeforeClaim \cup {"unspawned"} => sup[r].number <= rows[r] + 1
    /\ sup[r].pc = "executed" => sup[r].end \in {"success", "failed", "cancelled"}
    /\ sup[r].pc = "collecting" => state[Current(r)] \in {"collecting", "terminal"}
    /\ sup[r].pc = "sealed" =>
          /\ sup[r].end \in {"candidate", "failed", "cancelled"}
          /\ sup[r].end = "candidate" => state[Current(r)] \in {"collecting", "terminal"}
          /\ sup[r].end = "cancelled" => state[Current(r)] \in {"cancel_requested", "terminal"}
    /\ sup[r].pc = "committed" =>
          /\ HasResult(Current(r))
          /\ sup[r].number < MaxAttempts => completion[r] # sup[r].slot

\* The same for a reconciler.
RecOK(p) ==
    /\ rec[p].pc \in {"listed", "judged", "reap_claimed", "reap_marked"}
          => rec[p].run \in Attempts
    /\ rec[p].pc = "stale" => rec[p].run[1] \in Revisions
    /\ rec[p].pc \in {"stale", "reap_claimed", "reap_marked"}
          => rec[p].end \in {"cancelled", "lost"}
    /\ rec[p].pc = "reap_marked" /\ rec[p].end = "cancelled"
          => state[rec[p].run] \in {"cancel_requested", "terminal"}

\* A completed run is the revision's last row, and either was granted no retry
\* or has used up the budget.
CompletionClosed ==
    \A r \in Revisions : completion[r] # 0 =>
        /\ completion[r] = rows[r]
        /\ HasResult(<<r, rows[r]>>)
        /\ rows[r] = MaxAttempts \/ <<r, rows[r]>> \notin granted

\* The inductive invariant of the lifecycle.
LifecycleInv ==
    /\ StoreInv
    /\ LifecycleTypeOK
    /\ \A r \in Revisions : SupOK(r)
    /\ \A p \in Reconcilers : RecOK(p)
    /\ CompletionClosed

-----------------------------------------------------------------------------
(* The writes a lifecycle step can make: the store's transactions, with what *)
(* the processes add to their checks.                                        *)

Settled == {"collecting", "cancel_requested", "terminal"}

OutcomeFits(a, o) ==
    /\ o = "candidate" => state[a] = "collecting"
    /\ o = "cancelled" => state[a] = "cancel_requested"

Write ==
    \/ UNCHANGED store
    \/ \E r \in Revisions : RecordTask(r) \/ ClaimAttempt(r)
    \/ \E a \in Attempts :
          \/ \E from \in {"queued", "starting", "running"}, to \in ActiveStates :
                CompareAndSetState(a, from, to)
          \/ RecordLaunchIntent(a)
          \/ RecordRunnerIdentity(a)
          \/ \E o \in Outcomes, complete \in BOOLEAN :
                CommitTerminal(a, o, complete) /\ OutcomeFits(a, o)
          \/ Acknowledge(a)
          \/ \E v \in Verdicts : RecordDecision(a, v)
    \/ \E r \in Revisions : sup[r].pc = "committed" /\ GrantPreSpawnRetry(Current(r))
    \/ RecordCancellationIntent

\* What no such write undoes.
Grows ==
    /\ \A r \in Revisions : rows[r] <= rows'[r]
    /\ \A a \in Attempts : HasResult(a) =>
          HasResult(a)' /\ (completion[a[1]] # a[2] => completion'[a[1]] # a[2])
    /\ \A a \in Attempts : state[a] \in Settled => state'[a] \in {state[a], "terminal"}

\* The attempt a busy supervisor holds is a row of its revision.
LEMMA CurrentIsAttempt ==
  ASSUME LifecycleInv, NEW r \in Revisions,
         sup[r].pc \in Holding \cup {"committed", "refused_claimed", "refused_started"}
  PROVE  Current(r) \in Attempts /\ Current(r)[1] = r /\ Current(r)[2] = sup[r].slot
BY DEF LifecycleInv, SupOK, Current, Attempts

\* The owner writes only through the store's transactions.
LEMMA OwnerWrites == LifecycleInv /\ Owner => Write
<1> SUFFICES ASSUME LifecycleInv, Owner PROVE Write
  OBVIOUS
<1>1. CASE AdmitFirst
  BY <1>1, BoundsAssumption DEF AdmitFirst, Write, Revisions
<1>2. CASE Revise
  <2>1. revising + 1 \in Revisions
    BY <1>2, BoundsAssumption DEF Revise, Revisions, LifecycleInv, LifecycleTypeOK
  <2> QED BY <1>2, <2>1 DEF Revise, Write
<1>3. CASE RequestCancel
  BY <1>3 DEF RequestCancel, Write
<1>4. CASE CheckRevise \/ CheckNeedsCancel \/ WriteMarker
  BY <1>4 DEF CheckRevise, CheckNeedsCancel, WriteMarker, Write
<1>5. CASE Ack
  BY <1>5 DEF Ack, Write
<1>6. CASE Decide
  BY <1>6 DEF Decide, Write
<1> QED BY <1>1, <1>2, <1>3, <1>4, <1>5, <1>6 DEF Owner

\* So does a supervisor, and it commits no outcome its attempt's state belies.
LEMMA SupervisorWrites ==
  ASSUME LifecycleInv, NEW r \in Revisions,
         SpawnSupervisor(r) \/ SupervisorStep(r) \/ CrashSupervisor(r) \/ OrphanEnds(r)
  PROVE  Write
<1> DEFINE a == Current(r)
<1>a. sup[r].pc \in Holding \cup {"committed", "refused_claimed", "refused_started"}
         => a \in Attempts
  BY CurrentIsAttempt
<1>s. {"queued", "starting", "running"} \subseteq ActiveStates
      /\ {"cancel_requested", "collecting"} \subseteq ActiveStates
      /\ {"failed", "cancelled", "candidate"} \subseteq Outcomes
  BY DEF ActiveStates, Outcomes
<1> HIDE DEF a
<1>1. CASE RefusedClaim(r) \/ Claim(r)
  BY <1>1 DEF RefusedClaim, Claim, Write
<1>2. CASE RefusedMark(r) \/ MarkStarting(r) \/ CancelBeforeSpawn(r) \/ MarkRunning(r)
           \/ Conclude(r)
  BY <1>2, <1>a, <1>s
  DEF RefusedMark, MarkStarting, CancelBeforeSpawn, MarkRunning, Conclude,
      Transition, Holding, Write, a
<1>3. CASE IntendLaunch(r) \/ Identify(r)
  BY <1>3, <1>a DEF IntendLaunch, Identify, Holding, Write, a
<1>4. CASE RefusedCommit(r)
  <2>1. OutcomeFits(a, "failed")
    BY DEF OutcomeFits
  <2> QED BY <1>4, <1>a, <1>s, <2>1 DEF RefusedCommit, Write, a
<1>5. CASE CommitResult(r)
  <2>1. sup[r].pc = "sealed" /\ a \in Attempts /\ sup[r].end \in Outcomes
    BY <1>5, <1>a, <1>s DEF CommitResult, Holding, LifecycleInv, SupOK
  <2>2. ASSUME CommitTerminal(a, sup[r].end, ~RetryLeft(r)) PROVE Write
    <3>1. state[a] # "terminal"
      BY <2>2 DEF CommitTerminal, ActiveStates
    <3>2. OutcomeFits(a, sup[r].end)
      BY <2>1, <3>1 DEF LifecycleInv, SupOK, OutcomeFits, a
    <3>3. (~RetryLeft(r)) \in BOOLEAN
      OBVIOUS
    <3> QED BY <2>1, <2>2, <3>2, <3>3 DEF Write
  <2> QED BY <1>5, <2>2 DEF CommitResult, Write, a
<1>6. CASE GrantRetry(r)
  BY <1>6 DEF GrantRetry, Write
<1>7. CASE UNCHANGED store
  BY <1>7 DEF Write
<1> QED BY <1>1, <1>2, <1>3, <1>4, <1>5, <1>6, <1>7
        DEF SupervisorStep, SpawnSupervisor, CrashSupervisor, OrphanEnds, PublishReceipt,
            SpawnWorker, SpawnWorkerFails, RecordPid, RaiseMarker, WorkerEnds,
            SealResult, RemoveMarker, RemoveReceipt

\* So does a reconciler.
LEMMA ReconcilerWrites ==
  ASSUME LifecycleInv, NEW p \in Reconcilers, ReconcilerStep(p) \/ CrashReconciler(p)
  PROVE  Write
<1> DEFINE a == rec[p].run
<1>s. {"starting", "cancel_requested"} \subseteq ActiveStates
      /\ {"lost", "cancelled"} \subseteq Outcomes
  BY DEF ActiveStates, Outcomes
<1>1. CASE RecordLost(p)
  <2>1. a \in Attempts /\ OutcomeFits(a, "lost")
    BY <1>1 DEF RecordLost, LifecycleInv, RecOK, OutcomeFits
  <2> QED BY <1>1, <1>s, <2>1 DEF RecordLost, CommitRecoveredLost, Write
<1>2. CASE ReapClaim(p)
  BY <1>2 DEF ReapClaim, LifecycleInv, RecOK, Write
<1>3. CASE ReapMark(p)
  BY <1>3, <1>s DEF ReapMark, LifecycleInv, RecOK, Write
<1>4. CASE ReapCommit(p)
  <2>1. a \in Attempts /\ rec[p].end \in Outcomes
    BY <1>4, <1>s DEF ReapCommit, LifecycleInv, RecOK
  <2>2. CommitTerminal(a, rec[p].end, TRUE) => OutcomeFits(a, rec[p].end)
    BY <1>4 DEF ReapCommit, LifecycleInv, RecOK, OutcomeFits, CommitTerminal, ActiveStates
  <2> QED BY <1>4, <2>1, <2>2 DEF ReapCommit, Write
<1> QED BY <1>1, <1>2, <1>3, <1>4
        DEF ReconcilerStep, CrashReconciler, ListUnfinished, Observe, ListUnstarted, Write

\* Every lifecycle step writes the tables through one transaction, or not at all.
LEMMA EveryStepWrites == LifecycleInv /\ [LifecycleNext]_vars => Write
<1>1. UNCHANGED vars => Write
  BY DEF vars, Write
<1> QED BY <1>1, OwnerWrites, SupervisorWrites, ReconcilerWrites DEF LifecycleNext

\* Each write is a step of the store, or leaves it alone.
LEMMA WriteIsStoreStep == LifecycleInv /\ Write => [Next]_store
<1> SUFFICES ASSUME LifecycleInv, Write PROVE [Next]_store
  OBVIOUS
<1>1. {"queued", "starting", "running"} \subseteq ActiveStates
  BY DEF ActiveStates
<1>2. \A r \in Revisions : sup[r].pc = "committed" => Current(r) \in Attempts
  BY CurrentIsAttempt
<1> QED BY <1>1, <1>2 DEF Write, Next

-----------------------------------------------------------------------------
(* The invariant is kept. *)

\* No write undoes what a process remembers of its attempt.
LEMMA WritesGrow == LifecycleInv /\ Write => Grows
<1> SUFFICES ASSUME LifecycleInv, Write PROVE Grows
  OBVIOUS
<1> USE AttemptPairs, BoundsAssumption
<1>0. TypeOK /\ StoreInv
  BY DEF LifecycleInv, StoreInv
<1>1. ASSUME NEW r \in Revisions, ClaimAttempt(r) PROVE Grows
  <2>1. /\ NextAttempt(r) \in Attempts /\ state[NextAttempt(r)] = "absent"
        /\ \A q \in Revisions : rows[q] \in Nat
    BY <1>0, <1>1 DEF TypeOK, StoreInv, RowsAreDense, ClaimAttempt, ClaimAllowed,
                      NextAttempt, Slots
  <2>2. \A q \in Revisions : rows[q] <= rows'[q]
    BY <1>0, <1>1, <2>1 DEF TypeOK, ClaimAttempt
  <2>3. \A a \in Attempts : state[a] \in Settled => state'[a] = state[a]
    BY <1>0, <1>1, <2>1 DEF TypeOK, ClaimAttempt, Settled
  <2> QED BY <1>1, <2>2, <2>3 DEF ClaimAttempt, Grows, HasResult
<1>2. ASSUME NEW a \in Attempts, NEW from \in {"queued", "starting", "running"},
             NEW to \in ActiveStates, CompareAndSetState(a, from, to)
      PROVE  Grows
  BY <1>0, <1>2 DEF TypeOK, CompareAndSetState, Grows, Settled, HasResult
<1>3. ASSUME NEW a \in Attempts, NEW o \in Outcomes, NEW complete \in BOOLEAN,
             CommitTerminal(a, o, complete)
      PROVE  Grows
  <2>1. /\ outcome[a] = "none" /\ o # "none"
        /\ outcome' = [outcome EXCEPT ![a] = o]
        /\ state' = [state EXCEPT ![a] = "terminal"] /\ rows' = rows
    BY <1>3 DEF CommitTerminal, Outcomes
  <2>2. \A q \in Revisions : rows[q] <= rows'[q]
    BY <1>0, <2>1 DEF TypeOK
  <2>3. ASSUME NEW b \in Attempts, HasResult(b)
        PROVE  HasResult(b)' /\ (completion[b[1]] # b[2] => completion'[b[1]] # b[2])
    <3>1. b # a /\ HasResult(b)'
      BY <1>0, <2>1, <2>3 DEF TypeOK, HasResult
    <3>2. ~(b[1] = a[1] /\ b[2] = a[2])
      BY <3>1
    <3>3. completion[b[1]] # b[2] => completion'[b[1]] # b[2]
      BY <1>0, <1>3, <3>2 DEF TypeOK, CommitTerminal
    <3> QED BY <3>1, <3>3
  <2>4. \A b \in Attempts : state'[b] \in {state[b], "terminal"}
    BY <1>0, <2>1 DEF TypeOK
  <2> QED BY <2>2, <2>3, <2>4 DEF Grows
<1>4. ASSUME UNCHANGED <<rows, state, outcome, completion>> PROVE Grows
  BY <1>0, <1>4 DEF TypeOK, Grows, HasResult
<1> QED BY <1>1, <1>2, <1>3, <1>4
        DEF Write, RecordTask, RecordLaunchIntent, RecordRunnerIdentity, Acknowledge,
            RecordDecision, GrantPreSpawnRetry, RecordCancellationIntent, store

\* A completion stays the last word: the only later grant or claim would need
\* a failure with budget left, and such a failure is committed uncompleted.
LEMMA CompletionStep == LifecycleInv /\ Write /\ StoreInv' => CompletionClosed'
<1> SUFFICES ASSUME LifecycleInv, Write, StoreInv',
                    NEW r \in Revisions, completion'[r] # 0
             PROVE  /\ completion'[r] = rows'[r]
                    /\ HasResult(<<r, rows[r]>>)'
                    /\ rows'[r] = MaxAttempts \/ <<r, rows'[r]>> \notin granted'
  BY DEF CompletionClosed, HasResult
<1> DEFINE Goal == /\ completion'[r] = rows'[r]
                   /\ HasResult(<<r, rows[r]>>)'
                   /\ rows'[r] = MaxAttempts \/ <<r, rows'[r]>> \notin granted'
           Closed == completion[r] # 0 =>
                        /\ completion[r] = rows[r]
                        /\ rows[r] \in Slots
                        /\ <<r, rows[r]>> \in Attempts
                        /\ HasResult(<<r, rows[r]>>)
                        /\ rows[r] = MaxAttempts \/ <<r, rows[r]>> \notin granted
<1> USE AttemptPairs, BoundsAssumption
<1>0. /\ TypeOK /\ StoreInv /\ Grows
      /\ \A b \in Attempts : HasResult(b) => HasResult(b)'
  BY WritesGrow DEF LifecycleInv, StoreInv, Grows
<1>c. Closed
  <2>1. completion[r] # 0 => completion[r] \in Slots
    BY <1>0 DEF TypeOK, Slots
  <2> QED BY <2>1 DEF LifecycleInv, CompletionClosed
<1> HIDE DEF Goal
<1>1. ASSUME UNCHANGED <<rows, completion, granted>> PROVE Goal
  BY <1>0, <1>1, <1>c DEF Goal, HasResult
<1>2. ASSUME NEW q \in Revisions, ClaimAttempt(q) PROVE Goal
  <2>1. CASE q = r
    <3>1. completion[r] # 0
      BY <1>2 DEF ClaimAttempt
    <3>2. <<r, rows[r]>> \in granted
      BY <1>0, <1>2, <1>c, <2>1, <3>1, ClaimFollowsFailures DEF ClaimAttempt, Slots
    <3> QED BY <1>0, <1>2, <1>c, <2>1, <3>1, <3>2 DEF ClaimAttempt, ClaimAllowed, TypeOK
  <2>2. CASE q # r
    BY <1>0, <1>2, <1>c, <2>2 DEF TypeOK, ClaimAttempt, Goal, HasResult
  <2> QED BY <2>1, <2>2
<1>3. ASSUME NEW a \in Attempts, NEW o \in Outcomes, NEW complete \in BOOLEAN,
             CommitTerminal(a, o, complete)
      PROVE  Goal
  <2>1. /\ rows' = rows /\ granted' = granted /\ o # "none"
        /\ state[a] # "absent" /\ outcome[a] = "none"
    BY <1>3 DEF CommitTerminal, Outcomes, ActiveStates
  <2>2. CASE completion'[r] = completion[r]
    BY <1>0, <1>c, <2>1, <2>2 DEF Goal, HasResult
  <2>3. CASE completion'[r] # completion[r]
    <3>1. a = <<r, a[2]>> /\ completion'[r] = a[2] /\ a[2] \in Slots
      BY <1>0, <1>3, <2>3 DEF TypeOK, CommitTerminal
    <3>2. a[2] <= rows[r] /\ rows[r] \in Slots
      BY <1>0, <2>1, <3>1 DEF TypeOK, StoreInv, RowsAreDense, Slots
    <3>3. ~(a[2] < rows[r])
      <4> SUFFICES ASSUME a[2] < rows[r] PROVE FALSE
        OBVIOUS
      <4>1. state[<<r, rows[r]>>] # "absent"
        BY <1>0, <3>2 DEF StoreInv, RowsAreDense, Slots
      <4>2. outcome[<<r, a[2]>>] = "failed"
        BY <1>0, <3>1, <3>2, <4>1 DEF StoreInv, RetryOnlyAfterGrant
      <4> QED BY <2>1, <3>1, <4>2
    <3>4. a[2] = rows[r]
      BY <3>1, <3>2, <3>3 DEF Slots
    <3>5. a \notin granted
      BY <1>0, <2>1 DEF StoreInv, GrantsAreFailures
    <3>6. HasResult(a)'
      BY <1>0, <1>3, <2>1 DEF TypeOK, CommitTerminal, HasResult
    <3> QED BY <2>1, <3>1, <3>4, <3>5, <3>6 DEF Goal, HasResult
  <2> QED BY <2>2, <2>3
<1>4. ASSUME NEW q \in Revisions, sup[q].pc = "committed",
             GrantPreSpawnRetry(Current(q))
      PROVE  Goal
  <2>1. rows' = rows /\ completion' = completion /\ granted' = granted \cup {Current(q)}
    BY <1>4 DEF GrantPreSpawnRetry
  <2>2. CASE Current(q) = <<r, rows[r]>>
    <3>1. q = r /\ sup[r].slot = rows[r] /\ completion[r] = sup[r].slot
      BY <1>c, <2>1, <2>2 DEF Current
    <3>2. /\ ~(sup[r].number < MaxAttempts) /\ sup[r].number <= sup[r].slot
          /\ sup[r].slot <= MaxAttempts
      BY <1>4, <3>1 DEF LifecycleInv, SupOK, Slots
    <3>3. sup[r].number \in Nat /\ sup[r].slot \in Nat
      BY DEF LifecycleInv, LifecycleTypeOK, Supervisor
    <3>4. rows[r] = MaxAttempts
      BY <3>1, <3>2, <3>3
    <3> QED BY <1>0, <1>c, <2>1, <3>4 DEF Goal, HasResult
  <2>3. CASE Current(q) # <<r, rows[r]>>
    BY <1>0, <1>c, <2>1, <2>3 DEF Goal, HasResult
  <2> QED BY <2>2, <2>3
<1> QED BY <1>1, <1>2, <1>3, <1>4
        DEF Write, RecordTask, CompareAndSetState, RecordLaunchIntent,
            RecordRunnerIdentity, Acknowledge, RecordDecision,
            RecordCancellationIntent, store, Goal, HasResult

\* Supervisors and reconcilers other than the one that moves keep what they know.
LEMMA OthersKeep ==
  ASSUME LifecycleInv, Write, TypeOK'
  PROVE  /\ \A q \in Revisions : sup'[q] = sup[q] => SupOK(q)'
         /\ \A p \in Reconcilers : rec'[p] = rec[p] => RecOK(p)'
<1>0. Grows /\ TypeOK
  BY WritesGrow DEF LifecycleInv, StoreInv
<1>1. ASSUME NEW q \in Revisions, sup'[q] = sup[q] PROVE SupOK(q)'
  <2> DEFINE a == Current(q)
  <2>1. SupOK(q) /\ Current(q)' = a
    BY <1>1 DEF LifecycleInv, Current
  <2>2. rows[q] \in Nat /\ rows'[q] \in Nat /\ rows[q] <= rows'[q]
    BY <1>0 DEF TypeOK, Grows
  <2>3. sup[q].slot \in Nat /\ sup[q].number \in Nat
    BY DEF LifecycleInv, LifecycleTypeOK, Supervisor
  <2>4. sup[q].pc \in Holding \cup {"committed"}
           => a \in Attempts /\ a[1] = q /\ a[2] = sup[q].slot
    BY CurrentIsAttempt
  <2>5. sup[q].pc \in Holding /\ state[a] \in Settled => state'[a] \in {state[a], "terminal"}
    BY <1>0, <2>4 DEF Grows
  <2>6. sup[q].pc = "committed" =>
           /\ HasResult(a)'
           /\ sup[q].number < MaxAttempts => completion'[q] # sup[q].slot
    BY <1>0, <2>1, <2>4 DEF Grows, SupOK
  <2>7. /\ sup[q].pc \in Holding \cup {"committed", "refused_claimed", "refused_started"}
              => sup[q].slot \in Slots /\ sup[q].slot <= rows'[q]
        /\ sup[q].pc \in BeforeClaim \cup {"unspawned"} => sup[q].number <= rows'[q] + 1
    BY <2>1, <2>2, <2>3 DEF SupOK, Slots
  <2>8. /\ sup[q].pc = "collecting" => state'[Current(q)'] \in {"collecting", "terminal"}
        /\ sup[q].pc = "sealed" =>
              /\ sup[q].end \in {"candidate", "failed", "cancelled"}
              /\ sup[q].end = "candidate"
                    => state'[Current(q)'] \in {"collecting", "terminal"}
              /\ sup[q].end = "cancelled"
                    => state'[Current(q)'] \in {"cancel_requested", "terminal"}
    BY <2>1, <2>5 DEF SupOK, Settled, Holding
  <2>9. sup[q].pc = "committed" => HasResult(Current(q))'
    BY <2>1, <2>6 DEF HasResult
  <2> HIDE DEF a
  <2> QED BY <1>1, <2>1, <2>6, <2>7, <2>8, <2>9 DEF SupOK
<1>2. ASSUME NEW p \in Reconcilers, rec'[p] = rec[p] PROVE RecOK(p)'
  BY <1>0, <1>2 DEF LifecycleInv, RecOK, Grows, Settled
<1> QED BY <1>1, <1>2

\* Each supervisor action leaves its own supervisor with what its place says.
LEMMA SupervisorMoves ==
  ASSUME LifecycleInv, TypeOK', NEW r \in Revisions,
         SpawnSupervisor(r) \/ SupervisorStep(r) \/ CrashSupervisor(r) \/ OrphanEnds(r)
  PROVE  /\ sup' = [sup EXCEPT ![r] = sup'[r]]
         /\ sup'[r] \in Supervisor
         /\ sup'[r] = sup[r] \/ SupOK(r)'
         /\ rec' = rec /\ cancelling' = cancelling /\ revising' = revising
         /\ receipt' \in {0, r, receipt} /\ pidFile' \in {0, r, pidFile}
         /\ marker' \in BOOLEAN /\ workers' \subseteq Revisions
<1> DEFINE Frame == /\ sup' = [sup EXCEPT ![r] = sup'[r]]
                    /\ sup'[r] \in Supervisor
                    /\ rec' = rec /\ cancelling' = cancelling /\ revising' = revising
                    /\ receipt' \in {0, r, receipt} /\ pidFile' \in {0, r, pidFile}
                    /\ marker' \in BOOLEAN /\ workers' \subseteq Revisions
<1> USE BoundsAssumption
<1>0. /\ SupOK(r) /\ TypeOK
      /\ sup \in [Revisions -> Supervisor] /\ sup[r] \in Supervisor
      /\ marker \in BOOLEAN /\ workers \subseteq Revisions
  BY DEF LifecycleInv, LifecycleTypeOK
<1>p. sup[r].pc \in AlivePcs \cup {"refused", "refused_claimed", "refused_started"}
         => sup[r].pc \in SupPcs
  BY DEF SupPcs
<1>u. ASSUME NEW x \in Supervisor, sup' = [sup EXCEPT ![r] = x]
      PROVE  sup' = [sup EXCEPT ![r] = sup'[r]] /\ sup'[r] = x
  BY <1>0, <1>u
<1>g. ASSUME NEW pc \in SupPcs, GoTo(r, pc)
      PROVE  /\ sup' = [sup EXCEPT ![r] = sup'[r]]
             /\ sup'[r] = [sup[r] EXCEPT !.pc = pc] /\ sup'[r] \in Supervisor
             /\ sup'[r].pc = pc /\ sup'[r].slot = sup[r].slot
             /\ sup'[r].number = sup[r].number /\ sup'[r].end = sup[r].end
             /\ sup'[r].retry = sup[r].retry
             /\ Current(r)' = Current(r)
  BY <1>0, <1>g DEF GoTo, Supervisor, Current
<1>h. /\ {"refused_claimed", "refused_started", "claiming", "started", "launched",
          "identified", "running", "spawned", "waiting", "executed", "collecting",
          "sealed", "committed", "leaving", "unlinking", "exited", "dead",
          "starting_up", "refused", "claimed"} \subseteq SupPcs
      /\ {"exited", "dead", "refused", "leaving", "unlinking"} \cap
            (Holding \cup {"committed", "refused_claimed", "refused_started", "unspawned"}
             \cup BeforeClaim) = {}
      /\ {"claimed", "started", "launched", "identified", "running", "spawned",
          "waiting", "executed", "collecting", "sealed"} = Holding
  BY DEF SupPcs, AlivePcs, BeforeClaim, Holding, AfterCommit
\* A supervisor that stops, or is past its commit, owes nothing.
<1>x. ASSUME NEW pc \in {"exited", "dead", "refused", "leaving", "unlinking"}, GoTo(r, pc)
      PROVE  SupOK(r)'
  BY <1>g, <1>h, <1>x DEF SupOK
\* One that moves on with its attempt in hand keeps its row.
<1>n. ASSUME NEW pc \in {"started", "launched", "identified", "running", "spawned", "waiting"},
             GoTo(r, pc), sup[r].pc \in Holding, rows' = rows
      PROVE  SupOK(r)'
  <2>1. /\ pc \in Holding /\ pc \notin BeforeClaim \cup {"unspawned"}
        /\ pc \notin {"executed", "collecting", "sealed", "committed"}
    BY DEF Holding, BeforeClaim
  <2>2. sup'[r].pc = pc /\ sup'[r].slot = sup[r].slot /\ sup'[r].number = sup[r].number
    BY <1>g, <1>h, <1>n
  <2>3. sup[r].slot \in Slots /\ sup[r].slot <= rows[r] /\ sup[r].number <= sup[r].slot
    BY <1>0, <1>n DEF SupOK
  <2> QED BY <1>n, <2>1, <2>2, <2>3 DEF SupOK
<1>r. rows[r] \in Nat /\ rows'[r] \in Nat /\ sup[r].slot \in Nat /\ sup[r].number \in Nat
  BY <1>0 DEF TypeOK, Supervisor
<1>1. CASE SpawnSupervisor(r)
  <2>1. PICK pc \in {"starting_up", "refused"} : GoTo(r, pc)
    BY <1>1 DEF SpawnSupervisor
  <2>2. rows' = rows /\ sup[r].pc = "unspawned" /\ Frame
    BY <1>0, <1>1, <1>g, <1>h, <2>1 DEF SpawnSupervisor, store, files
  <2>3. SupOK(r)'
    <3>1. CASE pc = "refused"
      BY <1>x, <2>1, <3>1
    <3>2. CASE pc = "starting_up"
      BY <1>0, <1>g, <1>h, <2>1, <2>2, <3>2 DEF SupOK, Holding, BeforeClaim
    <3> QED BY <3>1, <3>2
  <2> QED BY <2>2, <2>3
<1>2. CASE RefusedClaim(r) \/ RefusedMark(r) \/ RefusedCommit(r)
  <2>1. CASE RefusedClaim(r) /\ ClaimAttempt(r)
    <3>1. /\ rows[r] + 1 \in Slots /\ rows'[r] = rows[r] + 1
      BY <1>0, <2>1 DEF ClaimAttempt, ClaimAllowed, TypeOK, Slots
    <3>2. CASE GoTo(r, "exited") /\ ~ClaimAllowed(r)
      BY <2>1, <3>2 DEF ClaimAttempt
    <3>3. CASE sup' = [sup EXCEPT ![r] =
                             [@ EXCEPT !.pc = "refused_claimed", !.slot = rows[r] + 1]]
      <4> DEFINE x == [sup[r] EXCEPT !.pc = "refused_claimed", !.slot = rows[r] + 1]
      <4>s. sup' = [sup EXCEPT ![r] = x]
        BY <3>3
      <4>i. x.pc = "refused_claimed" /\ x.slot = rows[r] + 1
        BY <1>0 DEF Supervisor
      <4>y. rows[r] + 1 \in 0..MaxAttempts /\ "refused_claimed" \in SupPcs
        BY <1>h, <3>1 DEF Slots
      <4>x. x \in Supervisor
        BY <1>0, <4>y DEF Supervisor
      <4>0. /\ x \in Supervisor /\ sup' = [sup EXCEPT ![r] = x]
            /\ x.pc = "refused_claimed" /\ x.slot = rows[r] + 1
        BY <4>s, <4>i, <4>x
      <4> HIDE DEF x
      <4>1. Frame /\ sup'[r].pc = "refused_claimed" /\ sup'[r].slot = rows[r] + 1
        BY <1>0, <1>u, <2>1, <4>0 DEF RefusedClaim, files
      <4>2. SupOK(r)'
        BY <1>h, <3>1, <4>1 DEF SupOK, BeforeClaim, Slots, Holding
      <4> QED BY <4>1, <4>2
    <3> QED BY <2>1, <3>2, <3>3 DEF RefusedClaim
  <2>2. CASE GoTo(r, "exited")
    <3>1. Frame
      BY <1>0, <1>2, <1>g, <1>h, <2>2 DEF RefusedClaim, RefusedMark, RefusedCommit, files
    <3> QED BY <1>x, <2>2, <3>1
  <2>3. CASE RefusedMark(r) /\ GoTo(r, "refused_started")
    <3>1. rows' = rows /\ sup[r].pc = "refused_claimed"
      BY <2>3 DEF RefusedMark, CompareAndSetState, store
    <3>2. Frame
      BY <1>0, <1>g, <1>h, <2>3 DEF RefusedMark, files
    <3>3. SupOK(r)'
      BY <1>0, <1>g, <1>h, <2>3, <3>1 DEF SupOK, Holding, BeforeClaim
    <3> QED BY <3>2, <3>3
  <2> QED BY <1>2, <2>1, <2>2, <2>3 DEF RefusedClaim, RefusedMark, RefusedCommit
<1>3. CASE PublishReceipt(r)
  <2>1. GoTo(r, "claiming") /\ sup[r].pc = "starting_up" /\ rows' = rows
    BY <1>3 DEF PublishReceipt, store
  <2>2. Frame
    BY <1>0, <1>3, <1>g, <1>h, <2>1 DEF PublishReceipt
  <2>3. SupOK(r)'
    BY <1>0, <1>g, <1>h, <2>1 DEF SupOK, Holding, BeforeClaim
  <2> QED BY <2>2, <2>3
<1>4. CASE Claim(r)
  <2>1. CASE GoTo(r, "dead")
    <3>1. Frame
      BY <1>0, <1>4, <1>g, <1>h, <2>1 DEF Claim, files
    <3> QED BY <1>x, <2>1, <3>1
  <2>2. CASE /\ ClaimAttempt(r)
             /\ sup' = [sup EXCEPT ![r] = [@ EXCEPT !.pc = "claimed", !.slot = rows[r] + 1,
                                                  !.end = "none", !.retry = FALSE]]
    <3>1. /\ rows[r] + 1 \in Slots /\ rows'[r] = rows[r] + 1
      BY <1>0, <2>2 DEF ClaimAttempt, ClaimAllowed, TypeOK, Slots
    <3> DEFINE x == [sup[r] EXCEPT !.pc = "claimed", !.slot = rows[r] + 1,
                                   !.end = "none", !.retry = FALSE]
    <3>0. /\ x \in Supervisor /\ sup' = [sup EXCEPT ![r] = x]
          /\ x.pc = "claimed" /\ x.slot = rows[r] + 1 /\ x.number = sup[r].number
      <4>1. /\ rows[r] + 1 \in 0..MaxAttempts /\ "claimed" \in SupPcs
            /\ "none" \in Ends /\ FALSE \in BOOLEAN
        BY <1>h, <3>1 DEF Slots, Ends
      <4>2. x \in Supervisor
        BY <1>0, <4>1 DEF Supervisor
      <4>3. x.pc = "claimed" /\ x.slot = rows[r] + 1 /\ x.number = sup[r].number
        BY <1>0 DEF Supervisor
      <4> QED BY <2>2, <4>2, <4>3
    <3> HIDE DEF x
    <3>2. /\ Frame /\ sup'[r].pc = "claimed" /\ sup'[r].slot = rows[r] + 1
          /\ sup'[r].number = sup[r].number
      BY <1>0, <1>4, <1>u, <3>0 DEF Claim, files
    <3>3. sup[r].number <= rows[r] + 1
      BY <1>0, <1>4 DEF Claim, SupOK, BeforeClaim
    <3>4. SupOK(r)'
      BY <1>h, <3>1, <3>2, <3>3 DEF SupOK, BeforeClaim, Slots, Holding
    <3> QED BY <3>2, <3>4
  <2> QED BY <1>4, <2>1, <2>2 DEF Claim
\* transition() either moves the attempt on or finds it changed and stops.
<1>t. ASSUME NEW from \in ActiveStates, NEW to \in ActiveStates, NEW next \in Supervisor,
             Transition(r, from, to, next), sup[r].pc \in Holding
      PROVE  /\ sup' = [sup EXCEPT ![r] = sup'[r]] /\ sup'[r] \in Supervisor
             /\ \/ SupOK(r)'
                \/ /\ sup'[r] = next /\ rows' = rows /\ HasResult(Current(r))' = HasResult(Current(r)')
                   /\ state' = [state EXCEPT ![Current(r)] = to] /\ Current(r) \in Attempts
  <2>1. CASE GoTo(r, "dead")
    BY <1>g, <1>h, <1>x, <2>1
  <2>2. CASE CompareAndSetState(Current(r), from, to) /\ sup' = [sup EXCEPT ![r] = next]
    BY <1>t, <1>u, <2>2, CurrentIsAttempt DEF CompareAndSetState, HasResult
  <2> QED BY <1>t, <2>1, <2>2 DEF Transition
<1>5. CASE MarkStarting(r)
  <2> DEFINE x == [sup[r] EXCEPT !.pc = "started"]
  <2>1. /\ x \in Supervisor /\ x.pc = "started" /\ x.slot = sup[r].slot
        /\ x.number = sup[r].number
    BY <1>0, <1>h DEF Supervisor
  <2>2. Transition(r, "queued", "starting", x) /\ sup[r].pc = "claimed"
    BY <1>5 DEF MarkStarting
  <2> HIDE DEF x
  <2>3. Frame /\ (SupOK(r)' \/ (sup'[r] = x /\ rows' = rows))
    BY <1>0, <1>5, <1>t, <1>h, <2>1, <2>2 DEF MarkStarting, files, ActiveStates
  <2>4. SupOK(r)'
    BY <1>0, <1>h, <2>1, <2>2, <2>3 DEF SupOK, BeforeClaim
  <2> QED BY <2>3, <2>4
<1>6. CASE MarkRunning(r)
  <2> DEFINE x == [sup[r] EXCEPT !.pc = "running"]
  <2>1. /\ x \in Supervisor /\ x.pc = "running" /\ x.slot = sup[r].slot
        /\ x.number = sup[r].number
    BY <1>0, <1>h DEF Supervisor
  <2>2. Transition(r, "starting", "running", x) /\ sup[r].pc = "identified"
    BY <1>6 DEF MarkRunning
  <2> HIDE DEF x
  <2>3. Frame /\ (SupOK(r)' \/ (sup'[r] = x /\ rows' = rows))
    BY <1>0, <1>6, <1>t, <1>h, <2>1, <2>2 DEF MarkRunning, files, ActiveStates
  <2>4. SupOK(r)'
    BY <1>0, <1>h, <2>1, <2>2, <2>3 DEF SupOK, BeforeClaim
  <2> QED BY <2>3, <2>4
<1>7. CASE CancelBeforeSpawn(r)
  <2> DEFINE x == [sup[r] EXCEPT !.pc = "sealed", !.end = "cancelled"]
  <2>1. /\ x \in Supervisor /\ x.pc = "sealed" /\ x.slot = sup[r].slot
        /\ x.number = sup[r].number /\ x.end = "cancelled"
    BY <1>0, <1>h DEF Supervisor, Ends, Outcomes
  <2>2. Transition(r, "starting", "cancel_requested", x) /\ sup[r].pc = "started"
    BY <1>7 DEF CancelBeforeSpawn
  <2> HIDE DEF x
  <2>3. /\ Frame
        /\ \/ SupOK(r)'
           \/ /\ sup'[r] = x /\ rows' = rows /\ Current(r) \in Attempts
              /\ state' = [state EXCEPT ![Current(r)] = "cancel_requested"]
    BY <1>0, <1>7, <1>t, <1>h, <2>1, <2>2 DEF CancelBeforeSpawn, files, ActiveStates
  <2>4. ASSUME sup'[r] = x, rows' = rows, Current(r) \in Attempts,
               state' = [state EXCEPT ![Current(r)] = "cancel_requested"]
        PROVE  SupOK(r)'
    <3>1. Current(r)' = Current(r)
      BY <2>1, <2>4 DEF Current
    <3>2. state'[Current(r)'] = "cancel_requested"
      BY <1>0, <2>4, <3>1 DEF TypeOK
    <3> QED BY <1>0, <1>h, <2>1, <2>2, <2>4, <3>2 DEF SupOK, BeforeClaim
  <2> QED BY <2>3, <2>4
<1>8. CASE IntendLaunch(r) \/ Identify(r)
  <2>1. PICK pc \in {"launched", "identified", "dead"} : GoTo(r, pc)
    BY <1>8 DEF IntendLaunch, Identify
  <2>2. rows' = rows /\ sup[r].pc \in Holding
    BY <1>h, <1>8 DEF IntendLaunch, Identify, RecordLaunchIntent, RecordRunnerIdentity, store
  <2>3. Frame
    BY <1>0, <1>8, <1>g, <1>h, <2>1 DEF IntendLaunch, Identify, files
  <2> QED BY <1>x, <1>n, <2>1, <2>2, <2>3
<1>9. CASE SpawnWorker(r) \/ RecordPid(r)
  <2>1. PICK pc \in {"spawned", "waiting"} : GoTo(r, pc)
    BY <1>9 DEF SpawnWorker, RecordPid
  <2>2. rows' = rows /\ sup[r].pc \in Holding
    BY <1>h, <1>9 DEF SpawnWorker, RecordPid, store
  <2>3. Frame
    BY <1>0, <1>9, <1>g, <1>h, <2>1 DEF SpawnWorker, RecordPid, files
  <2> QED BY <1>n, <2>1, <2>2, <2>3

<1>10. CASE SpawnWorkerFails(r) \/ WorkerEnds(r)
  <2>1. PICK end \in {"success", "failed", "cancelled"}, retry \in BOOLEAN :
           sup' = [sup EXCEPT ![r] =
                     [@ EXCEPT !.pc = "executed", !.end = end, !.retry = retry]]
    <3>1. sup[r].retry \in BOOLEAN /\ [sup[r] EXCEPT !.pc = "executed"] \in Supervisor
      BY <1>0, <1>h DEF Supervisor
    <3>2. CASE SpawnWorkerFails(r)
      BY <3>2 DEF SpawnWorkerFails
    <3>3. CASE WorkerEnds(r)
      <4>1. PICK end \in {"success", "failed", "cancelled"} :
               sup' = [sup EXCEPT ![r] = [@ EXCEPT !.pc = "executed", !.end = end]]
        BY <3>3 DEF WorkerEnds
      <4>2. [sup[r] EXCEPT !.pc = "executed", !.end = end]
              = [sup[r] EXCEPT !.pc = "executed", !.end = end, !.retry = sup[r].retry]
        BY <1>0 DEF Supervisor
      <4> QED BY <3>1, <4>1, <4>2
    <3> QED BY <1>10, <3>2, <3>3
  <2> DEFINE x == [sup[r] EXCEPT !.pc = "executed", !.end = end, !.retry = retry]
  <2>2. /\ x \in Supervisor /\ x.pc = "executed" /\ x.slot = sup[r].slot
        /\ x.number = sup[r].number /\ x.end = end
    BY <1>0, <1>h DEF Supervisor, Ends, Outcomes
  <2>3. sup' = [sup EXCEPT ![r] = x]
    BY <2>1
  <2> HIDE DEF x
  <2>4. rows' = rows /\ sup[r].pc \in Holding /\ Frame /\ sup'[r] = x
    BY <1>0, <1>10, <1>h, <1>u, <2>2, <2>3 DEF SpawnWorkerFails, WorkerEnds, store, files
  <2>5. SupOK(r)'
    BY <1>0, <1>h, <2>2, <2>4 DEF SupOK, BeforeClaim
  <2> QED BY <2>4, <2>5
<1>11. CASE RaiseMarker(r) \/ OrphanEnds(r)
  <2>1. sup' = sup
    BY <1>11 DEF RaiseMarker, OrphanEnds, procs
  <2>2. Frame
    BY <1>0, <1>11, <2>1 DEF RaiseMarker, OrphanEnds, procs, files
  <2> QED BY <2>1, <2>2
<1>12. CASE Conclude(r)
  <2>1. CASE sup[r].end = "success"
    <3> DEFINE x == [sup[r] EXCEPT !.pc = "collecting"]
    <3>1. /\ x \in Supervisor /\ x.pc = "collecting" /\ x.slot = sup[r].slot
          /\ x.number = sup[r].number
      BY <1>0, <1>h DEF Supervisor
    <3>2. Transition(r, "running", "collecting", x) /\ sup[r].pc = "executed"
      BY <1>12, <2>1 DEF Conclude
    <3> HIDE DEF x
    <3>3. /\ Frame
          /\ \/ SupOK(r)'
             \/ /\ sup'[r] = x /\ rows' = rows /\ Current(r) \in Attempts
                /\ state' = [state EXCEPT ![Current(r)] = "collecting"]
      BY <1>0, <1>12, <1>t, <1>h, <3>1, <3>2 DEF Conclude, files, ActiveStates
    <3>4. ASSUME sup'[r] = x, rows' = rows, Current(r) \in Attempts,
                 state' = [state EXCEPT ![Current(r)] = "collecting"]
          PROVE  SupOK(r)'
      <4>1. Current(r)' = Current(r)
        BY <3>1, <3>4 DEF Current
      <4>2. state'[Current(r)'] = "collecting"
        BY <1>0, <3>4, <4>1 DEF TypeOK
      <4> QED BY <1>0, <1>h, <3>1, <3>2, <3>4, <4>2 DEF SupOK, BeforeClaim
    <3> QED BY <3>3, <3>4
  <2>2. CASE sup[r].end = "cancelled"
    <3> DEFINE x == [sup[r] EXCEPT !.pc = "sealed"]
    <3>1. /\ x \in Supervisor /\ x.pc = "sealed" /\ x.slot = sup[r].slot
          /\ x.number = sup[r].number /\ x.end = "cancelled"
      BY <1>0, <1>h, <2>2 DEF Supervisor
    <3>2. Transition(r, "running", "cancel_requested", x) /\ sup[r].pc = "executed"
      BY <1>12, <2>2 DEF Conclude
    <3> HIDE DEF x
    <3>3. /\ Frame
          /\ \/ SupOK(r)'
             \/ /\ sup'[r] = x /\ rows' = rows /\ Current(r) \in Attempts
                /\ state' = [state EXCEPT ![Current(r)] = "cancel_requested"]
      BY <1>0, <1>12, <1>t, <1>h, <3>1, <3>2 DEF Conclude, files, ActiveStates
    <3>4. ASSUME sup'[r] = x, rows' = rows, Current(r) \in Attempts,
                 state' = [state EXCEPT ![Current(r)] = "cancel_requested"]
          PROVE  SupOK(r)'
      <4>1. Current(r)' = Current(r)
        BY <3>1, <3>4 DEF Current
      <4>2. state'[Current(r)'] = "cancel_requested"
        BY <1>0, <3>4, <4>1 DEF TypeOK
      <4> QED BY <1>0, <1>h, <3>1, <3>2, <3>4, <4>2 DEF SupOK, BeforeClaim
    <3> QED BY <3>3, <3>4
  <2>3. CASE sup[r].end = "failed"
    <3>1. GoTo(r, "sealed") /\ rows' = rows /\ sup[r].pc = "executed"
      BY <1>12, <2>3 DEF Conclude, store
    <3>2. Frame
      BY <1>0, <1>12, <1>g, <1>h, <3>1 DEF Conclude, files
    <3>3. SupOK(r)'
      BY <1>0, <1>g, <1>h, <2>3, <3>1 DEF SupOK, BeforeClaim
    <3> QED BY <3>2, <3>3
  <2> QED BY <1>12, <2>1, <2>2, <2>3 DEF Conclude
<1>13. CASE SealResult(r)
  <2>1. PICK end \in {"candidate", "failed"} :
           sup' = [sup EXCEPT ![r] = [@ EXCEPT !.pc = "sealed", !.end = end]]
    BY <1>13 DEF SealResult
  <2> DEFINE x == [sup[r] EXCEPT !.pc = "sealed", !.end = end]
  <2>2. /\ x \in Supervisor /\ x.pc = "sealed" /\ x.slot = sup[r].slot
        /\ x.number = sup[r].number /\ x.end = end
    BY <1>0, <1>h DEF Supervisor, Ends, Outcomes
  <2>3. sup' = [sup EXCEPT ![r] = x]
    BY <2>1
  <2> HIDE DEF x
  <2>4. /\ rows' = rows /\ state' = state /\ sup[r].pc = "collecting"
        /\ Frame /\ sup'[r] = x
    BY <1>0, <1>13, <1>u, <2>2, <2>3 DEF SealResult, store, files
  <2>5. Current(r)' = Current(r)
    BY <2>2, <2>4 DEF Current
  <2>6. SupOK(r)'
    BY <1>0, <1>h, <2>2, <2>4, <2>5 DEF SupOK, BeforeClaim
  <2> QED BY <2>4, <2>6
<1>14. CASE CommitResult(r)
  <2> DEFINE a == Current(r)
             final == ~RetryLeft(r)
  <2>1. sup[r].pc = "sealed" /\ a \in Attempts /\ a[1] = r /\ a[2] = sup[r].slot
    BY <1>14, <1>h, CurrentIsAttempt DEF CommitResult
  <2>2. CASE GoTo(r, "dead") \/ GoTo(r, "leaving")
    <3>1. Frame
      BY <1>0, <1>14, <1>g, <1>h, <2>2 DEF CommitResult, files
    <3> QED BY <1>x, <2>2, <3>1
  <2>3. CASE CommitTerminal(a, sup[r].end, final) /\ GoTo(r, "committed") /\ sup[r].retry
    <3>1. Frame
      BY <1>0, <1>14, <1>g, <1>h, <2>3 DEF CommitResult, files
    <3>2. rows' = rows /\ Current(r)' = a
      BY <1>g, <1>h, <2>3 DEF CommitTerminal
    <3>3. outcome'[a] # "none"
      BY <1>0, <2>1, <2>3 DEF CommitTerminal, SupOK, TypeOK
    <3>4. sup[r].number < MaxAttempts => completion'[r] # sup[r].slot
      <4> SUFFICES ASSUME sup[r].number < MaxAttempts PROVE completion'[r] # sup[r].slot
        OBVIOUS
      <4>1. completion' = completion /\ outcome[a] = "none"
        BY <2>3 DEF CommitTerminal, RetryLeft
      <4>2. a = <<r, sup[r].slot>> /\ sup[r].slot # 0
        BY <1>0, <1>h, <2>1 DEF Current, SupOK, Slots
      <4> QED BY <4>1, <4>2 DEF LifecycleInv, CompletionClosed, HasResult
    <3>5. SupOK(r)'
      BY <1>0, <1>g, <1>h, <2>1, <2>3, <3>2, <3>3, <3>4 DEF SupOK, BeforeClaim, HasResult
    <3> QED BY <3>1, <3>5
  <2> QED BY <1>14, <2>2, <2>3 DEF CommitResult
<1>15. CASE GrantRetry(r)
  <2>1. CASE GoTo(r, "leaving")
    <3>1. Frame
      BY <1>0, <1>15, <1>g, <1>h, <2>1 DEF GrantRetry, files
    <3> QED BY <1>x, <2>1, <3>1
  <2>2. CASE /\ sup[r].number < MaxAttempts
             /\ sup' = [sup EXCEPT ![r] = [@ EXCEPT !.pc = "claiming",
                                             !.number = sup[r].number + 1]]
    <3> DEFINE x == [sup[r] EXCEPT !.pc = "claiming", !.number = sup[r].number + 1]
    <3>1. /\ sup[r].number \in 1..MaxAttempts /\ sup[r].number + 1 \in 1..MaxAttempts
          /\ "claiming" \in SupPcs
      BY <1>0, <1>h, <2>2 DEF Supervisor
    <3>2. x \in Supervisor /\ x.pc = "claiming" /\ x.number = sup[r].number + 1
      BY <1>0, <3>1 DEF Supervisor
    <3>3. sup' = [sup EXCEPT ![r] = x]
      BY <2>2
    <3> HIDE DEF x
    <3>4. Frame /\ sup'[r] = x /\ rows' = rows /\ sup[r].pc = "committed"
      BY <1>0, <1>15, <1>u, <3>2, <3>3 DEF GrantRetry, GrantPreSpawnRetry, files
    <3>5. sup[r].number <= rows[r]
      BY <1>0, <1>r, <3>4 DEF SupOK
    <3>6. SupOK(r)'
      BY <1>h, <1>r, <3>2, <3>4, <3>5 DEF SupOK, BeforeClaim, Holding
    <3> QED BY <3>4, <3>6
  <2> QED BY <1>15, <2>1, <2>2 DEF GrantRetry, GoTo
<1>16. CASE RemoveMarker(r) \/ RemoveReceipt(r) \/ CrashSupervisor(r)
  <2>1. PICK pc \in {"unlinking", "exited", "dead"} : GoTo(r, pc)
    BY <1>16 DEF RemoveMarker, RemoveReceipt, CrashSupervisor
  <2>2. Frame
    BY <1>0, <1>16, <1>g, <1>h, <2>1 DEF RemoveMarker, RemoveReceipt, CrashSupervisor, files
  <2> QED BY <1>x, <2>1, <2>2
<1> QED BY <1>1, <1>2, <1>3, <1>4, <1>5, <1>6, <1>7, <1>8, <1>9, <1>10, <1>11, <1>12,
           <1>13, <1>14, <1>15, <1>16
        DEF SupervisorStep

\* An idle reconciler is of the declared type.
LEMMA IdleIsReconciler == IdleReconciler \in Reconciler /\ IdleReconciler.pc = "idle"
<1>1. /\ "idle" \in RecPcs /\ "absent" \in States /\ "none" \in Launches /\ "none" \in Ends
      /\ 0 \in 0..MaxRevisions /\ 0 \in 0..MaxAttempts
  BY BoundsAssumption DEF RecPcs, States, Launches, Ends
<1> QED BY <1>1 DEF IdleReconciler, Reconciler

\* Each reconciler action leaves that reconciler with what its place says, and
\* touches no file and no supervisor.
LEMMA ReconcilerMoves ==
  ASSUME LifecycleInv, TypeOK', NEW p \in Reconcilers,
         ReconcilerStep(p) \/ CrashReconciler(p)
  PROVE  /\ rec' = [rec EXCEPT ![p] = rec'[p]]
         /\ rec'[p] \in Reconciler /\ RecOK(p)'
         /\ UNCHANGED <<files, sup, workers, cancelling, revising>>
<1>0. /\ RecOK(p) /\ TypeOK
      /\ rec \in [Reconcilers -> Reconciler] /\ rec[p] \in Reconciler
  BY DEF LifecycleInv, LifecycleTypeOK
<1>u. ASSUME NEW x \in Reconciler, rec' = [rec EXCEPT ![p] = x]
      PROVE  rec' = [rec EXCEPT ![p] = rec'[p]] /\ rec'[p] = x
  BY <1>0, <1>u
<1>f. UNCHANGED <<files, sup, workers, cancelling, revising>>
  BY DEF ReconcilerStep, CrashReconciler, ListUnfinished, Observe, RecordLost,
         ListUnstarted, ReapClaim, ReapMark, ReapCommit
<1> DEFINE Goal == /\ rec' = [rec EXCEPT ![p] = rec'[p]]
                   /\ rec'[p] \in Reconciler /\ RecOK(p)'
<1>1. ASSUME GoIdle(p) PROVE Goal
  <2>1. IdleReconciler \in Reconciler /\ IdleReconciler.pc = "idle"
    BY IdleIsReconciler
  <2>2. rec' = [rec EXCEPT ![p] = IdleReconciler]
    BY <1>1 DEF GoIdle
  <2>3. rec' = [rec EXCEPT ![p] = rec'[p]] /\ rec'[p] = IdleReconciler
    BY <1>u, <2>1, <2>2
  <2> QED BY <2>1, <2>3 DEF RecOK
<1>2. ASSUME ListUnfinished(p) PROVE Goal
  <2>1. PICK a \in Attempts :
          rec' = [rec EXCEPT ![p] = [pc |-> "listed", run |-> a, state |-> state[a],
                                     launch |-> launch[a], end |-> "none"]]
    BY <1>2 DEF ListUnfinished
  <2> DEFINE x == [pc |-> "listed", run |-> a, state |-> state[a], launch |-> launch[a],
                   end |-> "none"]
  <2>2. /\ a \in (0..MaxRevisions) \X (0..MaxAttempts)
        /\ state[a] \in States /\ launch[a] \in Launches
        /\ "listed" \in RecPcs /\ "none" \in Ends
    <3>1. a \in (0..MaxRevisions) \X (0..MaxAttempts)
      BY BoundsAssumption DEF Attempts, Revisions, Slots
    <3>2. state[a] \in States /\ launch[a] \in Launches
      BY <1>0 DEF TypeOK
    <3> QED BY <3>1, <3>2 DEF RecPcs, Ends
  <2>3. x \in Reconciler /\ x.pc = "listed" /\ x.run = a
    BY <2>2 DEF Reconciler
  <2>4. rec' = [rec EXCEPT ![p] = x]
    BY <2>1
  <2> HIDE DEF x
  <2> QED BY <1>u, <2>3, <2>4 DEF RecOK
<1>3. ASSUME Observe(p) PROVE Goal
  <2>1. CASE rec' = [rec EXCEPT ![p].pc = "judged"]
    <3> DEFINE x == [rec[p] EXCEPT !.pc = "judged"]
    <3>1. x \in Reconciler /\ x.pc = "judged" /\ x.run = rec[p].run
      BY <1>0 DEF Reconciler, RecPcs
    <3>2. rec' = [rec EXCEPT ![p] = x]
      BY <2>1
    <3> HIDE DEF x
    <3> QED BY <1>0, <1>3, <1>u, <3>1, <3>2 DEF Observe, RecOK
  <2> QED BY <1>1, <1>3, <2>1 DEF Observe
<1>4. ASSUME ListUnstarted(p) PROVE Goal
  <2>1. PICK r \in 1..admitted, end \in {"cancelled", "lost"} :
          rec' = [rec EXCEPT ![p] = [IdleReconciler EXCEPT !.pc = "stale", !.run = <<r, 0>>,
                                                           !.end = end]]
    BY <1>4 DEF ListUnstarted
  <2> DEFINE x == [IdleReconciler EXCEPT !.pc = "stale", !.run = <<r, 0>>, !.end = end]
  <2>2. r \in Revisions
    <3>1. admitted \in 0..MaxRevisions
      BY <1>0 DEF TypeOK
    <3> QED BY <3>1, BoundsAssumption DEF Revisions
  <2>3. /\ <<r, 0>> \in (0..MaxRevisions) \X (0..MaxAttempts)
        /\ "stale" \in RecPcs /\ end \in Ends
    BY <2>2, BoundsAssumption DEF Revisions, RecPcs, Ends, Outcomes
  <2>4. x \in Reconciler /\ x.pc = "stale" /\ x.run[1] = r /\ x.end = end
    BY <2>3, IdleIsReconciler DEF Reconciler
  <2>5. rec' = [rec EXCEPT ![p] = x]
    BY <2>1
  <2> HIDE DEF x
  <2> QED BY <1>u, <2>2, <2>4, <2>5 DEF RecOK
<1>5. ASSUME ReapClaim(p) PROVE Goal
  <2>1. CASE /\ ClaimAttempt(rec[p].run[1])
             /\ rec' = [rec EXCEPT ![p].pc = "reap_claimed",
                                   ![p].run = NextAttempt(rec[p].run[1])]
    <3> DEFINE a == NextAttempt(rec[p].run[1])
               x == [rec[p] EXCEPT !.pc = "reap_claimed", !.run = a]
    <3>1. rec[p].run[1] \in Revisions /\ rec[p].end \in {"cancelled", "lost"}
      BY <1>0, <1>5 DEF ReapClaim, RecOK
    <3>2. a \in Attempts
      BY <1>0, <2>1, <3>1, BoundsAssumption
      DEF ClaimAttempt, ClaimAllowed, NextAttempt, TypeOK, Slots, Attempts
    <3> HIDE DEF a
    <3>b. a \in (0..MaxRevisions) \X (0..MaxAttempts)
      BY <3>2, BoundsAssumption DEF Attempts, Revisions, Slots
    <3>3. /\ x \in Reconciler /\ x.pc = "reap_claimed" /\ x.run = a
          /\ x.end = rec[p].end
      BY <1>0, <3>b DEF Reconciler, RecPcs
    <3>4. rec' = [rec EXCEPT ![p] = x]
      BY <2>1 DEF a
    <3> HIDE DEF x
    <3> QED BY <1>u, <3>1, <3>2, <3>3, <3>4 DEF RecOK
  <2> QED BY <1>1, <1>5, <2>1 DEF ReapClaim
<1>6. ASSUME ReapMark(p) PROVE Goal
  <2> DEFINE to == IF rec[p].end = "cancelled" THEN "cancel_requested" ELSE "starting"
             x  == [rec[p] EXCEPT !.pc = "reap_marked"]
  <2>1. CASE CompareAndSetState(rec[p].run, "queued", to) /\ rec' = [rec EXCEPT ![p].pc = "reap_marked"]
    <3>1. /\ x \in Reconciler /\ x.pc = "reap_marked" /\ x.run = rec[p].run
          /\ x.end = rec[p].end
      BY <1>0 DEF Reconciler, RecPcs
    <3>2. rec' = [rec EXCEPT ![p] = x]
      BY <2>1
    <3>3. rec[p].run \in Attempts /\ rec[p].end \in {"cancelled", "lost"}
      BY <1>0, <1>6 DEF ReapMark, RecOK
    <3>4. rec[p].end = "cancelled" => state'[rec[p].run] = "cancel_requested"
      BY <1>0, <2>1, <3>3 DEF CompareAndSetState, TypeOK
    <3> HIDE DEF x
    <3> QED BY <1>u, <3>1, <3>2, <3>3, <3>4 DEF RecOK
  <2> QED BY <1>1, <1>6, <2>1 DEF ReapMark
<1> QED BY <1>1, <1>2, <1>3, <1>4, <1>5, <1>6, <1>f
        DEF ReconcilerStep, CrashReconciler, RecordLost, ReapCommit

\* The owner moves neither supervisors nor reconcilers.
LEMMA OwnerMoves ==
  ASSUME LifecycleInv, Owner
  PROVE  /\ UNCHANGED <<sup, rec, workers, receipt, pidFile>>
         /\ marker' \in BOOLEAN /\ cancelling' \in {"no", "recorded", "writing"}
         /\ revising' \in 0..(MaxRevisions - 1)
<1>1. /\ marker \in BOOLEAN /\ cancelling \in {"no", "recorded", "writing"}
      /\ revising \in 0..(MaxRevisions - 1)
  BY DEF LifecycleInv, LifecycleTypeOK
<1>2. CASE CheckRevise
  <2>1. revising' \in 0..(MaxRevisions - 1)
    BY <1>2, BoundsAssumption DEF CheckRevise, Revisions
  <2> QED BY <1>1, <1>2, <2>1 DEF CheckRevise, files
<1>3. CASE Revise
  <2>1. 0 \in 0..(MaxRevisions - 1)
    BY BoundsAssumption
  <2> QED BY <1>1, <1>3, <2>1 DEF Revise
<1> QED BY <1>1, <1>2, <1>3
        DEF Owner, AdmitFirst, RequestCancel, CheckNeedsCancel, WriteMarker, Ack, Decide,
            files, procs

\* Init establishes the lifecycle's invariant.
LEMMA InitLifecycleInv == LifecycleInit => LifecycleInv
<1> SUFFICES ASSUME LifecycleInit PROVE LifecycleInv
  OBVIOUS
<1> USE BoundsAssumption
<1>1. StoreInv /\ TypeOK
  BY InitStoreInv DEF LifecycleInit, StoreInv
<1>2. NewSupervisor \in Supervisor
  BY DEF NewSupervisor, Supervisor, SupPcs, Ends
<1>3. sup \in [Revisions -> Supervisor] /\ rec \in [Reconcilers -> Reconciler]
  BY <1>2, IdleIsReconciler DEF LifecycleInit
<1>4. LifecycleTypeOK
  <2>1. /\ receipt \in 0..MaxRevisions /\ pidFile \in 0..MaxRevisions
        /\ marker \in BOOLEAN /\ workers \subseteq Revisions
    <3>1. receipt = 0 /\ pidFile = 0 /\ workers = {}
      BY DEF LifecycleInit
    <3>2. marker \in BOOLEAN
      BY Zenon DEF LifecycleInit
    <3> QED BY <3>1, <3>2
  <2>2. cancelling \in {"no", "recorded", "writing"} /\ revising \in 0..(MaxRevisions - 1)
    BY DEF LifecycleInit
  <2> QED BY <1>1, <1>3, <2>1, <2>2 DEF LifecycleTypeOK
<1>5. ASSUME NEW r \in Revisions PROVE SupOK(r)
  <2>1. sup[r].pc = "unspawned" /\ sup[r].number = 1 /\ rows[r] = 0
    BY DEF LifecycleInit, Init, NewSupervisor
  <2> QED BY <2>1 DEF SupOK, Holding
<1>6. ASSUME NEW p \in Reconcilers PROVE RecOK(p)
  BY DEF LifecycleInit, IdleReconciler, RecOK
<1>7. CompletionClosed
  BY DEF LifecycleInit, Init, CompletionClosed
<1> QED BY <1>1, <1>4, <1>5, <1>6, <1>7 DEF LifecycleInv

\* Every lifecycle step keeps the invariant.
LEMMA LifecycleStep == LifecycleInv /\ [LifecycleNext]_vars => LifecycleInv'
<1> SUFFICES ASSUME LifecycleInv, [LifecycleNext]_vars PROVE LifecycleInv'
  OBVIOUS
<1> USE BoundsAssumption
<1>1. Write /\ StoreInv' /\ TypeOK'
  BY EveryStepWrites, WriteIsStoreStep, StoreStep DEF LifecycleInv, StoreInv
<1>2. CompletionClosed'
  BY <1>1, CompletionStep
<1>3. /\ \A q \in Revisions : sup'[q] = sup[q] => SupOK(q)'
      /\ \A p \in Reconcilers : rec'[p] = rec[p] => RecOK(p)'
  BY <1>1, OthersKeep
<1>0. LifecycleTypeOK
  BY DEF LifecycleInv
<1> DEFINE Goal == /\ LifecycleTypeOK'
                   /\ \A q \in Revisions : SupOK(q)'
                   /\ \A p \in Reconcilers : RecOK(p)'
<1>4. ASSUME Owner PROVE Goal
  <2>1. LifecycleTypeOK'
    BY <1>0, <1>1, <1>4, OwnerMoves DEF LifecycleTypeOK
  <2> QED BY <1>3, <1>4, <2>1, OwnerMoves
<1>5. ASSUME NEW r \in Revisions,
             SpawnSupervisor(r) \/ SupervisorStep(r) \/ CrashSupervisor(r) \/ OrphanEnds(r)
      PROVE  Goal
  <2>1. /\ sup' = [sup EXCEPT ![r] = sup'[r]]
        /\ sup'[r] \in Supervisor
        /\ sup'[r] = sup[r] \/ SupOK(r)'
        /\ rec' = rec /\ cancelling' = cancelling /\ revising' = revising
        /\ receipt' \in {0, r, receipt} /\ pidFile' \in {0, r, pidFile}
        /\ marker' \in BOOLEAN /\ workers' \subseteq Revisions
    BY <1>1, <1>5, SupervisorMoves
  <2>2. sup' \in [Revisions -> Supervisor]
    BY <1>0, <2>1 DEF LifecycleTypeOK
  <2>3. receipt' \in 0..MaxRevisions /\ pidFile' \in 0..MaxRevisions
    BY <1>0, <2>1 DEF LifecycleTypeOK, Revisions
  <2>4. LifecycleTypeOK'
    BY <1>0, <1>1, <2>1, <2>2, <2>3 DEF LifecycleTypeOK
  <2>5. \A q \in Revisions : q # r => sup'[q] = sup[q]
    BY <1>0, <2>1 DEF LifecycleTypeOK
  <2> QED BY <1>3, <2>1, <2>4, <2>5
<1>6. ASSUME NEW p \in Reconcilers, ReconcilerStep(p) \/ CrashReconciler(p) PROVE Goal
  <2>1. /\ rec' = [rec EXCEPT ![p] = rec'[p]]
        /\ rec'[p] \in Reconciler /\ RecOK(p)'
        /\ UNCHANGED <<files, sup, workers, cancelling, revising>>
    BY <1>1, <1>6, ReconcilerMoves
  <2>2. rec' \in [Reconcilers -> Reconciler]
    BY <1>0, <2>1 DEF LifecycleTypeOK
  <2>3. LifecycleTypeOK'
    BY <1>0, <1>1, <2>1, <2>2 DEF LifecycleTypeOK, files
  <2>4. \A q \in Reconcilers : q # p => rec'[q] = rec[q]
    BY <1>0, <2>1 DEF LifecycleTypeOK
  <2> QED BY <1>3, <2>1, <2>3, <2>4
<1>7. ASSUME UNCHANGED vars PROVE Goal
  BY <1>0, <1>1, <1>3, <1>7 DEF vars, files, procs, LifecycleTypeOK
<1>8. Goal
  BY <1>4, <1>5, <1>6, <1>7 DEF LifecycleNext
<1> QED BY <1>1, <1>2, <1>8 DEF LifecycleInv

-----------------------------------------------------------------------------
\* The inductive invariant holds of every behaviour.
THEOREM LifecycleInvariant == LifecycleSpec => []LifecycleInv
BY InitLifecycleInv, LifecycleStep, PTL DEF LifecycleSpec

\* Supervisors, reconcilers and the owner keep every table and file in type.
THEOREM LifecycleTypeCorrect == LifecycleSpec => []LifecycleTypeOK
<1>1. LifecycleInv => LifecycleTypeOK
  BY DEF LifecycleInv
<1> QED BY <1>1, LifecycleInvariant, PTL

\* The lifecycle implements the store: every step of every process changes the
\* tables by one transaction or not at all.
THEOREM LifecycleImplementsStore == LifecycleSpec => Spec
<1>1. LifecycleInit => Init
  BY DEF LifecycleInit
<1>2. LifecycleInv /\ [LifecycleNext]_vars => [Next]_store
  BY EveryStepWrites, WriteIsStoreStep
<1> QED BY <1>1, <1>2, LifecycleInvariant, PTL DEF LifecycleSpec, Spec

\* Whatever processes race to claim, recover and retry, a revision never has
\* two active attempts, a terminal attempt without its result, or an attempt
\* after one that was not granted a retry.
THEOREM LifecycleStoreSafety == LifecycleSpec => []StoreSafety
<1>1. LifecycleInv => StoreSafety
  BY DEF LifecycleInv, StoreInv, StoreSafety
<1> QED BY <1>1, LifecycleInvariant, PTL

\* No process ever replaces a recorded result, decision or finished receipt.
THEOREM LifecycleFirstWriterWins == LifecycleSpec => FirstWriterWins
BY LifecycleImplementsStore, FirstWriterWinsHolds

\* The recorded end of a run is its revision's last attempt, although the grant
\* follows the terminal commit in a transaction of its own.
THEOREM CompletionIsLastHolds == LifecycleSpec => []CompletionIsLast
<1>1. LifecycleInv => CompletionIsLast
  BY DEF LifecycleInv, CompletionClosed, CompletionIsLast
<1> QED BY <1>1, LifecycleInvariant, PTL

\* A candidate is committed only from `collecting`, and `cancelled` only from
\* `cancel_requested`.
THEOREM OutcomeMatchesStateHolds == LifecycleSpec => OutcomeMatchesState
<1> DEFINE Matches == \A a \in Attempts : outcome'[a] # outcome[a] =>
                         /\ outcome'[a] = "candidate" => state[a] = "collecting"
                         /\ outcome'[a] = "cancelled" => state[a] = "cancel_requested"
<1>1. ASSUME LifecycleInv, Write PROVE Matches
  <2>0. TypeOK
    BY <1>1 DEF LifecycleInv, StoreInv
  <2>1. ASSUME NEW b \in Attempts, NEW o \in Outcomes, NEW complete \in BOOLEAN,
               CommitTerminal(b, o, complete), OutcomeFits(b, o)
        PROVE  Matches
    BY <2>0, <2>1 DEF TypeOK, CommitTerminal, OutcomeFits
  <2>2. ASSUME outcome' = outcome PROVE Matches
    BY <2>2
  <2> QED BY <1>1, <2>1, <2>2
          DEF Write, RecordTask, ClaimAttempt, CompareAndSetState, RecordLaunchIntent,
              RecordRunnerIdentity, Acknowledge, RecordDecision, GrantPreSpawnRetry,
              RecordCancellationIntent, store
<1>2. LifecycleInv /\ [LifecycleNext]_vars => [Matches]_vars
  BY <1>1, EveryStepWrites
<1> QED BY <1>2, LifecycleInvariant, PTL DEF LifecycleSpec, OutcomeMatchesState

\* Recorded results stand and come from the holder of the right state, for any
\* number of supervisors and reconcilers.
THEOREM ResultsStandHolds == LifecycleSpec => ResultsStand
BY LifecycleFirstWriterWins, OutcomeMatchesStateHolds DEF ResultsStand

-----------------------------------------------------------------------------
(* What a step of a supervisor does to the fields of its own memory. *)

Moves(r, from, to) == sup[r].pc \in from /\ sup'[r].pc \in to

Remembers(r) == /\ sup'[r].slot = sup[r].slot /\ sup'[r].end = sup[r].end
                /\ sup'[r].retry = sup[r].retry

\* Started, refused, or named in the receipt.
Starts(r) ==
    /\ \/ /\ Moves(r, {"unspawned"}, {"starting_up", "refused"}) /\ r <= admitted
          /\ UNCHANGED <<outcome, files>>
       \/ /\ Moves(r, {"refused", "refused_claimed", "refused_started"},
                      {"refused_claimed", "refused_started", "exited"})
          /\ outcome' \in {outcome, [outcome EXCEPT ![Current(r)] = "failed"]}
          /\ UNCHANGED files
       \/ /\ Moves(r, {"starting_up"}, {"claiming"})
          /\ receipt' = r /\ UNCHANGED <<outcome, marker, pidFile>>
    /\ sup'[r].end = sup[r].end /\ sup'[r].retry = sup[r].retry
    /\ UNCHANGED <<admitted, workers>>

Claims(r) ==
    /\ Moves(r, {"claiming"}, {"claimed"}) /\ ClaimAttempt(r)
    /\ sup'[r].slot = rows[r] + 1 /\ sup'[r].end = "none" /\ ~sup'[r].retry
    /\ UNCHANGED <<files, workers>>

\* A step on the held attempt that neither starts nor ends its worker.
Works(r) ==
    /\ \/ /\ \/ Moves(r, {"claimed"}, {"started"})
             \/ Moves(r, {"started"}, {"launched"}) /\ ~CancelSeen
             \/ Moves(r, {"launched", "identified"}, {"identified", "running"})
          /\ Remembers(r)
       \/ Moves(r, {"started"}, {"sealed"}) /\ CancelSeen /\ sup'[r].retry = sup[r].retry
       \/ Moves(r, {"running"}, {"executed"}) /\ sup'[r].end = "failed"
       \/ Moves(r, {"executed"}, {"sealed"}) /\ Remembers(r)
       \/ Moves(r, {"executed"}, {"collecting"}) /\ Remembers(r) /\ sup[r].end = "success"
       \/ /\ Moves(r, {"collecting"}, {"sealed"}) /\ sup'[r].end \in {"candidate", "failed"}
          /\ sup'[r].retry = sup[r].retry
    /\ sup'[r].slot = sup[r].slot
    /\ UNCHANGED <<files, workers, admitted, rows, outcome, granted>>

WorkerStarts(r) ==
    /\ Moves(r, {"running"}, {"spawned"}) /\ Remembers(r)
    /\ workers' = workers \cup {r} /\ UNCHANGED <<store, files>>

RecordsPid(r) ==
    /\ Moves(r, {"spawned"}, {"waiting"}) /\ Remembers(r)
    /\ pidFile' = r /\ UNCHANGED <<store, receipt, marker, workers>>

WorkerStops(r) ==
    /\ Moves(r, {"waiting"}, {"executed"})
    /\ sup'[r].end \in {"success", "failed", "cancelled"}
    /\ sup'[r].end = "cancelled" => marker
    /\ sup'[r].slot = sup[r].slot /\ sup'[r].retry = sup[r].retry
    /\ workers' = workers \ {r} /\ pidFile' = 0 /\ UNCHANGED <<store, receipt, marker>>

Commits(r) ==
    /\ Moves(r, {"sealed"}, IF sup[r].retry THEN {"committed"} ELSE {"leaving"})
    /\ Remembers(r)
    /\ outcome' = [outcome EXCEPT ![Current(r)] = sup[r].end]
    /\ UNCHANGED <<files, workers, admitted, rows, granted>>

Grants(r) ==
    /\ Moves(r, {"committed"}, {"claiming", "leaving"}) /\ Remembers(r)
    /\ UNCHANGED <<files, workers, admitted, rows, outcome>>

\* It tidies up, or dies.
Stops(r) ==
    \/ /\ Moves(r, {"leaving", "unlinking"}, {"unlinking", "exited"}) /\ Remembers(r)
       /\ (marker' => marker) /\ receipt' \in {0, receipt}
       /\ UNCHANGED <<store, pidFile, workers>>
    \/ /\ sup[r].pc \notin {"unspawned", "exited", "dead"} /\ sup'[r].pc = "dead" /\ Remembers(r)
       /\ UNCHANGED <<store, files, workers>>

Bystands(r) ==
    /\ sup' = sup /\ UNCHANGED <<store, receipt, pidFile>>
    /\ \/ marker' = marker /\ r \in workers /\ ~SupervisorAlive(r) /\ workers' = workers \ {r}
       \/ marker' /\ CancellationRequested /\ workers' = workers

ProgramStep(r) ==
    \/ Starts(r) \/ Claims(r) \/ Works(r) \/ WorkerStarts(r) \/ RecordsPid(r)
    \/ WorkerStops(r) \/ Commits(r) \/ Grants(r) \/ Stops(r) \/ Bystands(r)

\* Every action of a supervisor is one of these steps, and no other supervisor
\* or reconciler moves with it.
LEMMA SupervisorProgram ==
  ASSUME LifecycleInv, NEW r \in Revisions,
         SpawnSupervisor(r) \/ SupervisorStep(r) \/ CrashSupervisor(r) \/ OrphanEnds(r)
  PROVE  /\ ProgramStep(r)
         /\ \A q \in Revisions : q # r => sup'[q] = sup[q]
         /\ UNCHANGED <<rec, cancelling, revising>>
<1>0. /\ sup \in [Revisions -> Supervisor] /\ sup[r] \in Supervisor /\ SupOK(r)
      /\ sup[r].retry \in BOOLEAN /\ marker \in BOOLEAN
  BY DEF LifecycleInv, LifecycleTypeOK, Supervisor
<1>1. /\ \A q \in Revisions : q # r => sup'[q] = sup[q]
      /\ UNCHANGED <<rec, cancelling, revising>>
  <2>1. TypeOK'
    BY EveryStepWrites, WriteIsStoreStep, TypeStep DEF LifecycleInv, StoreInv, LifecycleNext
  <2>2. sup' = [sup EXCEPT ![r] = sup'[r]] /\ UNCHANGED <<rec, cancelling, revising>>
    BY <2>1, SupervisorMoves
  <2> QED BY <1>0, <2>2
<1> SUFFICES ProgramStep(r)
  BY <1>1
<1>g. ASSUME NEW pc, GoTo(r, pc)
      PROVE  sup'[r].pc = pc /\ Remembers(r)
  BY <1>0, <1>g DEF GoTo, Supervisor, Remembers
<1>2. CASE SpawnSupervisor(r)
  BY <1>2, <1>g DEF SpawnSupervisor, ProgramStep, Starts, Moves, Remembers, store
<1>3. CASE RefusedClaim(r)
  <2>1. /\ sup'[r].pc \in {"refused_claimed", "exited"}
        /\ sup'[r].end = sup[r].end /\ sup'[r].retry = sup[r].retry
    <3>1. CASE GoTo(r, "exited")
      BY <1>g, <3>1 DEF Remembers
    <3>2. CASE sup' = [sup EXCEPT ![r] = [@ EXCEPT !.pc = "refused_claimed", !.slot = rows[r] + 1]]
      BY <1>0, <3>2 DEF Supervisor
    <3> QED BY <1>3, <3>1, <3>2 DEF RefusedClaim
  <2>2. UNCHANGED <<admitted, outcome>>
    BY <1>3 DEF RefusedClaim, ClaimAttempt, store
  <2> QED BY <1>3, <2>1, <2>2 DEF RefusedClaim, ProgramStep, Starts, Moves
<1>4. CASE RefusedMark(r) \/ RefusedCommit(r)
  <2>1. /\ sup[r].pc \in {"refused_claimed", "refused_started"}
        /\ sup'[r].pc \in {"refused_started", "exited"} /\ Remembers(r)
        /\ UNCHANGED <<files, workers>>
    BY <1>4, <1>g DEF RefusedMark, RefusedCommit
  <2>2. admitted' = admitted /\ outcome' \in {outcome, [outcome EXCEPT ![Current(r)] = "failed"]}
    BY <1>4 DEF RefusedMark, RefusedCommit, CompareAndSetState, CommitTerminal, store
  <2> QED BY <2>1, <2>2 DEF ProgramStep, Starts, Moves, Remembers
<1>5. CASE PublishReceipt(r)
  BY <1>5, <1>g DEF PublishReceipt, ProgramStep, Starts, Moves, Remembers, store
<1>6. CASE Claim(r)
  <2>1. CASE GoTo(r, "dead") /\ UNCHANGED store
    BY <1>6, <2>1, <1>g DEF Claim, ProgramStep, Stops
  <2>2. CASE ClaimAttempt(r) /\ sup' = [sup EXCEPT ![r] = [@ EXCEPT !.pc = "claimed", !.slot = rows[r] + 1,
                                                                 !.end = "none", !.retry = FALSE]]
    <3>1. sup'[r].pc = "claimed" /\ sup'[r].slot = rows[r] + 1 /\ sup'[r].end = "none" /\ sup'[r].retry = FALSE
      BY <1>0, <2>2 DEF Supervisor
    <3> QED BY <1>6, <2>2, <3>1 DEF Claim, ProgramStep, Claims, Moves
  <2> QED BY <1>6, <2>1, <2>2 DEF Claim
<1>d. ASSUME sup[r].pc \in Holding, GoTo(r, "dead"), UNCHANGED <<store, files, workers>> PROVE ProgramStep(r)
  BY <1>d, <1>g DEF ProgramStep, Stops, Holding
<1>w. CASE MarkStarting(r) \/ IntendLaunch(r) \/ Identify(r) \/ MarkRunning(r)
  <2>1. sup[r].pc \in Holding /\ UNCHANGED <<files, workers>>
    BY <1>w DEF MarkStarting, IntendLaunch, Identify, MarkRunning, Holding
  <2>2. CASE GoTo(r, "dead") /\ UNCHANGED store
    BY <1>d, <2>1, <2>2
  <2>3. CASE ~(GoTo(r, "dead") /\ UNCHANGED store)
    <3>1. /\ \/ Moves(r, {"claimed"}, {"started"})
             \/ Moves(r, {"started"}, {"launched"}) /\ ~CancelSeen
             \/ Moves(r, {"launched", "identified"}, {"identified", "running"})
          /\ Remembers(r)
      <4>1. CASE IntendLaunch(r) \/ Identify(r)
        BY <1>g, <2>3, <4>1 DEF IntendLaunch, Identify, Moves
      <4>2. ASSUME NEW pc, sup' = [sup EXCEPT ![r] = [sup[r] EXCEPT !.pc = pc]]
            PROVE  sup'[r].pc = pc /\ Remembers(r)
        BY <1>0, <4>2 DEF Supervisor, Remembers
      <4>3. CASE MarkStarting(r) \/ MarkRunning(r)
        BY <2>3, <4>2, <4>3 DEF MarkStarting, MarkRunning, Transition, Moves
      <4> QED BY <1>w, <4>1, <4>3
    <3>2. UNCHANGED <<admitted, rows, outcome, granted>>
      BY <1>w, <2>3
      DEF MarkStarting, IntendLaunch, Identify, MarkRunning, Transition, CompareAndSetState,
          RecordLaunchIntent, RecordRunnerIdentity
    <3> QED BY <2>1, <3>1, <3>2 DEF ProgramStep, Works, Remembers
  <2> QED BY <2>2, <2>3
<1>7. CASE CancelBeforeSpawn(r)
  <2>1. CASE GoTo(r, "dead") /\ UNCHANGED store
    BY <1>7, <1>d, <2>1 DEF CancelBeforeSpawn, Holding
  <2>2. CASE ~(GoTo(r, "dead") /\ UNCHANGED store)
    <3>1. sup'[r].pc = "sealed" /\ sup'[r].retry = sup[r].retry /\ sup'[r].slot = sup[r].slot
      <4>1. sup' = [sup EXCEPT ![r] = [sup[r] EXCEPT !.pc = "sealed", !.end = "cancelled"]]
        BY <1>7, <2>2 DEF CancelBeforeSpawn, Transition
      <4> QED BY <1>0, <4>1 DEF Supervisor
    <3>2. UNCHANGED <<admitted, rows, outcome, granted>>
      BY <1>7, <2>2 DEF CancelBeforeSpawn, Transition, CompareAndSetState
    <3> QED BY <1>7, <3>1, <3>2 DEF CancelBeforeSpawn, ProgramStep, Works, Moves
  <2> QED BY <2>1, <2>2
<1>8. CASE SpawnWorker(r)
  BY <1>8, <1>g DEF SpawnWorker, ProgramStep, WorkerStarts, Moves
<1>9. CASE SpawnWorkerFails(r)
  <2>1. sup'[r].pc = "executed" /\ sup'[r].end = "failed" /\ sup'[r].slot = sup[r].slot
    BY <1>0, <1>9 DEF SpawnWorkerFails, Supervisor
  <2>2. UNCHANGED <<files, workers, admitted, rows, outcome, granted>>
    BY <1>9 DEF SpawnWorkerFails, store
  <2> QED BY <1>9, <2>1, <2>2 DEF SpawnWorkerFails, ProgramStep, Works, Moves
<1>10. CASE RecordPid(r)
  BY <1>10, <1>g DEF RecordPid, ProgramStep, RecordsPid, Moves
<1>11. CASE RaiseMarker(r) \/ OrphanEnds(r)
  BY <1>11 DEF RaiseMarker, OrphanEnds, ProgramStep, Bystands, files, procs
<1>12. CASE WorkerEnds(r)
  <2>1. PICK end \in {"success", "failed"} \cup (IF marker THEN {"cancelled"} ELSE {}) :
          sup' = [sup EXCEPT ![r] = [@ EXCEPT !.pc = "executed", !.end = end]]
    BY <1>12 DEF WorkerEnds
  <2>2. sup'[r].pc = "executed" /\ sup'[r].end = end /\ sup'[r].slot = sup[r].slot /\ sup'[r].retry = sup[r].retry
    BY <1>0, <2>1 DEF Supervisor
  <2>3. end \in {"success", "failed", "cancelled"} /\ (end = "cancelled" => marker)
    BY <2>1
  <2> QED BY <1>12, <2>2, <2>3 DEF WorkerEnds, ProgramStep, WorkerStops, Moves
<1>13. CASE Conclude(r)
  <2>1. CASE GoTo(r, "dead") /\ UNCHANGED store
    BY <1>13, <1>d, <2>1 DEF Conclude, Holding
  <2>2. CASE ~(GoTo(r, "dead") /\ UNCHANGED store)
    <3>1. /\ sup'[r].pc \in {"sealed", "collecting"} /\ Remembers(r)
          /\ sup'[r].pc = "collecting" => sup[r].end = "success"
      BY <1>0, <1>13, <1>g, <2>2 DEF Conclude, Transition, Supervisor, Remembers
    <3>2. UNCHANGED <<admitted, rows, outcome, granted>>
      BY <1>13, <2>2 DEF Conclude, Transition, CompareAndSetState, store
    <3> QED BY <1>13, <3>1, <3>2 DEF Conclude, ProgramStep, Works, Moves, Remembers
  <2> QED BY <2>1, <2>2
<1>14. CASE SealResult(r)
  <2>1. /\ sup'[r].pc = "sealed" /\ sup'[r].end \in {"candidate", "failed"}
        /\ sup'[r].slot = sup[r].slot /\ sup'[r].retry = sup[r].retry
    BY <1>0, <1>14 DEF SealResult, Supervisor
  <2>2. UNCHANGED <<files, workers, admitted, rows, outcome, granted>>
    BY <1>14 DEF SealResult, store
  <2> QED BY <1>14, <2>1, <2>2 DEF SealResult, ProgramStep, Works, Moves
<1>15. CASE CommitResult(r)
  <2>1. CASE GoTo(r, "dead") /\ UNCHANGED store
    BY <1>15, <1>d, <2>1 DEF CommitResult, Holding
  <2>2. CASE CommitTerminal(Current(r), sup[r].end, ~RetryLeft(r))
             /\ GoTo(r, IF sup[r].retry THEN "committed" ELSE "leaving")
    <3>1. /\ outcome' = [outcome EXCEPT ![Current(r)] = sup[r].end]
          /\ UNCHANGED <<admitted, rows, granted>>
      BY <2>2 DEF CommitTerminal
    <3>2. sup'[r].pc \in (IF sup[r].retry THEN {"committed"} ELSE {"leaving"}) /\ Remembers(r)
      <4>1. CASE sup[r].retry
        BY <1>g, <2>2, <4>1
      <4>2. CASE ~sup[r].retry
        BY <1>g, <2>2, <4>2
      <4> QED BY <4>1, <4>2
    <3> QED BY <1>15, <3>1, <3>2 DEF CommitResult, ProgramStep, Commits, Moves
  <2> QED BY <1>15, <2>1, <2>2 DEF CommitResult
<1>16. CASE GrantRetry(r)
  <2>1. sup'[r].pc \in {"claiming", "leaving"} /\ Remembers(r)
    BY <1>0, <1>16 DEF GrantRetry, Supervisor, Remembers
  <2>2. UNCHANGED <<files, workers, admitted, rows, outcome>>
    BY <1>16 DEF GrantRetry, GrantPreSpawnRetry
  <2> QED BY <1>16, <2>1, <2>2 DEF GrantRetry, ProgramStep, Grants, Moves
<1>17. CASE RemoveMarker(r) \/ RemoveReceipt(r)
  BY <1>17, <1>g DEF RemoveMarker, RemoveReceipt, ProgramStep, Stops, Moves
<1>18. CASE CrashSupervisor(r)
  BY <1>18, <1>g DEF CrashSupervisor, ProgramStep, Stops, AlivePcs, BeforeClaim, Holding, AfterCommit
<1> QED BY <1>1, <1>2, <1>3, <1>4, <1>5, <1>6, <1>w, <1>7, <1>8, <1>9, <1>10, <1>11, <1>12,
           <1>13, <1>14, <1>15, <1>16, <1>17, <1>18
        DEF SupervisorStep

(* The same for a reconciler. *)

RecMoves(p, from, to) == rec[p].pc = from /\ rec'[p].pc = to

\* It picks an attempt or an admission, judges it, or claims it for the reaper.
Looks(p) ==
    \/ RecMoves(p, "idle", "listed") /\ state[rec'[p].run] \in ActiveStates
       /\ rec'[p].run \in Attempts /\ rec'[p].end = "none" /\ UNCHANGED store
    \/ RecMoves(p, "listed", "judged") /\ ~ObservedAlive(rec[p].run[1])
       /\ rec'[p].run = rec[p].run /\ rec'[p].end = rec[p].end /\ UNCHANGED store
    \/ RecMoves(p, "idle", "stale") /\ rec'[p].end = (IF CancelSeen THEN "cancelled" ELSE "lost")
       /\ rec'[p].run[1] \in 1..admitted /\ rows[rec'[p].run[1]] = 0 /\ UNCHANGED store
    \/ RecMoves(p, "stale", "reap_claimed") /\ ClaimAttempt(rec[p].run[1])
       /\ rec'[p].run = NextAttempt(rec[p].run[1]) /\ rec'[p].end = rec[p].end
    \/ RecMoves(p, "reap_claimed", "reap_marked") /\ rec'[p].run = rec[p].run
       /\ rec'[p].end = rec[p].end /\ UNCHANGED <<admitted, rows, outcome, granted>>

\* It gives the run up, or records its end.
Rests(p) ==
    /\ rec'[p] = IdleReconciler /\ UNCHANGED <<admitted, rows, granted>>
    /\ \/ outcome' = outcome
       \/ rec[p].pc = "judged" /\ outcome' = [outcome EXCEPT ![rec[p].run] = "lost"]
       \/ rec[p].pc = "reap_marked" /\ outcome' = [outcome EXCEPT ![rec[p].run] = rec[p].end]

\* Every action of a reconciler is one of these steps, and nothing but the
\* tables moves with it.
LEMMA ReconcilerProgram ==
  ASSUME LifecycleInv, NEW p \in Reconcilers, ReconcilerStep(p) \/ CrashReconciler(p)
  PROVE  /\ Looks(p) \/ Rests(p)
         /\ \A q \in Reconcilers : q # p => rec'[q] = rec[q]
         /\ UNCHANGED <<files, sup, workers, cancelling, revising>>
<1>0. rec \in [Reconcilers -> Reconciler] /\ rec[p] \in Reconciler
  BY DEF LifecycleInv, LifecycleTypeOK
<1>1. /\ \A q \in Reconcilers : q # p => rec'[q] = rec[q]
      /\ UNCHANGED <<files, sup, workers, cancelling, revising>>
  <2>1. TypeOK'
    BY EveryStepWrites, WriteIsStoreStep, TypeStep DEF LifecycleInv, StoreInv, LifecycleNext
  <2>2. rec' = [rec EXCEPT ![p] = rec'[p]] /\ UNCHANGED <<files, sup, workers, cancelling, revising>>
    BY <2>1, ReconcilerMoves
  <2> QED BY <1>0, <2>2
<1> SUFFICES Looks(p) \/ Rests(p)
  BY <1>1
<1>i. GoIdle(p) => rec'[p] = IdleReconciler
  BY <1>0 DEF GoIdle
<1>g. ASSUME NEW pc, rec' = [rec EXCEPT ![p].pc = pc]
      PROVE  rec'[p].pc = pc /\ rec'[p].run = rec[p].run /\ rec'[p].end = rec[p].end
  BY <1>0, <1>g DEF Reconciler
<1>2. CASE ListUnfinished(p)
  <2>1. PICK a \in Attempts : /\ state[a] \in ActiveStates
                              /\ rec' = [rec EXCEPT ![p] = [pc |-> "listed", run |-> a, state |-> state[a],
                                                            launch |-> launch[a], end |-> "none"]]
    BY <1>2 DEF ListUnfinished
  <2>2. rec'[p] = [pc |-> "listed", run |-> a, state |-> state[a], launch |-> launch[a], end |-> "none"]
    BY <1>0, <2>1
  <2>3. rec'[p].pc = "listed" /\ rec'[p].run = a /\ rec'[p].end = "none"
    BY <2>2
  <2> QED BY <1>2, <2>1, <2>3 DEF ListUnfinished, Looks, RecMoves
<1>3. CASE Observe(p)
  BY <1>3, <1>i, <1>g DEF Observe, Looks, Rests, RecMoves, store
<1>4. CASE RecordLost(p)
  BY <1>4, <1>i DEF RecordLost, CommitRecoveredLost, CommitTerminal, Rests, store
<1>5. CASE ListUnstarted(p)
  <2>1. PICK r \in 1..admitted :
          /\ rows[r] = 0
          /\ rec' = [rec EXCEPT ![p] = [IdleReconciler EXCEPT !.pc = "stale", !.run = <<r, 0>>,
                                            !.end = IF CancelSeen THEN "cancelled" ELSE "lost"]]
    BY <1>5 DEF ListUnstarted
  <2>2. rec'[p] = [IdleReconciler EXCEPT !.pc = "stale", !.run = <<r, 0>>,
                                         !.end = IF CancelSeen THEN "cancelled" ELSE "lost"]
    BY <1>0, <2>1
  <2>3. /\ rec'[p].pc = "stale" /\ rec'[p].end = (IF CancelSeen THEN "cancelled" ELSE "lost")
        /\ rec'[p].run[1] = r
    BY <2>2 DEF IdleReconciler
  <2> QED BY <1>5, <2>1, <2>3 DEF ListUnstarted, Looks, RecMoves
<1>6. CASE ReapClaim(p)
  <2>1. CASE rec' = [rec EXCEPT ![p].pc = "reap_claimed", ![p].run = NextAttempt(rec[p].run[1])]
             /\ ClaimAttempt(rec[p].run[1])
    <3> DEFINE a == NextAttempt(rec[p].run[1])
    <3> HIDE DEF a
    <3>1. rec' = [rec EXCEPT ![p].pc = "reap_claimed", ![p].run = a]
      BY <2>1 DEF a
    <3>2. rec'[p].pc = "reap_claimed" /\ rec'[p].run = a /\ rec'[p].end = rec[p].end
      BY <1>0, <3>1 DEF Reconciler
    <3> QED BY <1>6, <2>1, <3>2 DEF ReapClaim, Looks, RecMoves, a
  <2>2. CASE GoIdle(p) /\ UNCHANGED store
    BY <1>i, <2>2 DEF Rests, store
  <2> QED BY <1>6, <2>1, <2>2 DEF ReapClaim
<1>7. CASE ReapMark(p)
  BY <1>7, <1>i, <1>g DEF ReapMark, CompareAndSetState, Looks, Rests, RecMoves, store
<1>8. CASE ReapCommit(p)
  BY <1>8, <1>i DEF ReapCommit, CommitTerminal, Rests, store
<1>9. CASE CrashReconciler(p)
  BY <1>9, <1>i DEF CrashReconciler, Rests, store
<1> QED BY <1>2, <1>3, <1>4, <1>5, <1>6, <1>7, <1>8, <1>9 DEF ReconcilerStep

-----------------------------------------------------------------------------
(* Cancellation. *)

\* As long as no cancellation was requested there is no marker, nobody means to
\* report `cancelled` and no attempt is on its way there.
CancelInv ==
    intent = 0 =>
      /\ ~marker /\ cancelling = "no"
      /\ \A r \in Revisions : sup[r].end # "cancelled"
      /\ \A p \in Reconcilers : rec[p].end # "cancelled"
      /\ \A a \in Attempts : state[a] # "cancel_requested" /\ outcome[a] # "cancelled"

\* A write that starts no cancellation leaves the tables without one.
LEMMA TablesUncancelled ==
  ASSUME LifecycleInv, CancelInv, Write, intent' = 0,
         \A a \in Attempts : state'[a] = "cancel_requested" => state[a] = "cancel_requested"
  PROVE  /\ intent = 0
         /\ \A a \in Attempts : state'[a] # "cancel_requested" /\ outcome'[a] # "cancelled"
<1>0. TypeOK
  BY DEF LifecycleInv, StoreInv
<1>1. intent = 0
  BY <1>0, BoundsAssumption
  DEF Write, RecordTask, ClaimAttempt, CompareAndSetState, RecordLaunchIntent, RecordRunnerIdentity,
      CommitTerminal, Acknowledge, RecordDecision, GrantPreSpawnRetry, RecordCancellationIntent, store,
      TypeOK
<1>2. \A a \in Attempts : state[a] # "cancel_requested" /\ outcome[a] # "cancelled"
  BY <1>1 DEF CancelInv
<1>3. \A a \in Attempts : outcome'[a] # "cancelled"
  <2>1. ASSUME NEW b \in Attempts, NEW o \in Outcomes, NEW complete \in BOOLEAN,
               CommitTerminal(b, o, complete), OutcomeFits(b, o)
        PROVE  \A a \in Attempts : outcome'[a] # "cancelled"
    BY <1>0, <1>2, <2>1 DEF TypeOK, CommitTerminal, OutcomeFits
  <2>2. ASSUME outcome' = outcome PROVE \A a \in Attempts : outcome'[a] # "cancelled"
    BY <1>2, <2>2
  <2> QED BY <2>1, <2>2
          DEF Write, RecordTask, ClaimAttempt, CompareAndSetState, RecordLaunchIntent,
              RecordRunnerIdentity, Acknowledge, RecordDecision, GrantPreSpawnRetry,
              RecordCancellationIntent, store
<1> QED BY <1>1, <1>2, <1>3

\* Nobody starts a cancellation that was not requested.
LEMMA CancelStep == LifecycleInv /\ CancelInv /\ [LifecycleNext]_vars => CancelInv'
<1> SUFFICES ASSUME LifecycleInv, CancelInv, [LifecycleNext]_vars, intent' = 0
             PROVE  /\ ~marker' /\ cancelling' = "no"
                    /\ \A r \in Revisions : sup'[r].end # "cancelled"
                    /\ \A p \in Reconcilers : rec'[p].end # "cancelled"
                    /\ \A a \in Attempts : state'[a] # "cancel_requested" /\ outcome'[a] # "cancelled"
  BY DEF CancelInv
<1>0. Write /\ TypeOK /\ sup \in [Revisions -> Supervisor] /\ rec \in [Reconcilers -> Reconciler]
  BY EveryStepWrites DEF LifecycleInv, StoreInv, LifecycleTypeOK
<1>1. intent = 0
  BY <1>0, BoundsAssumption
  DEF Write, RecordTask, ClaimAttempt, CompareAndSetState, RecordLaunchIntent, RecordRunnerIdentity,
      CommitTerminal, Acknowledge, RecordDecision, GrantPreSpawnRetry, RecordCancellationIntent, store,
      TypeOK
<1>2. /\ ~marker /\ cancelling = "no" /\ ~CancelSeen /\ ~CancellationRequested
      /\ \A r \in Revisions : sup[r].end # "cancelled"
      /\ \A p \in Reconcilers : rec[p].end # "cancelled"
  BY <1>1 DEF CancelInv, CancelSeen, CancellationRequested
<1> DEFINE Goal == /\ ~marker' /\ cancelling' = "no"
                   /\ \A r \in Revisions : sup'[r].end # "cancelled"
                   /\ \A p \in Reconcilers : rec'[p].end # "cancelled"
                   /\ \A a \in Attempts : state'[a] = "cancel_requested" => state[a] = "cancel_requested"
<1>3. ASSUME Owner PROVE Goal
  <2>1. cancelling' = "no" /\ ~marker' /\ UNCHANGED <<sup, rec, state>>
    BY <1>0, <1>1, <1>2, <1>3, BoundsAssumption
    DEF Owner, AdmitFirst, CheckRevise, Revise, RequestCancel, CheckNeedsCancel, WriteMarker, Ack, Decide,
        RecordTask, RecordCancellationIntent, Acknowledge, RecordDecision, store, files, procs, TypeOK
  <2> QED BY <1>2, <2>1
<1>c. ASSUME \/ \E q \in Revisions : ClaimAttempt(q)
             \/ \E a \in Attempts, from, to \in States : to # "cancel_requested" /\ CompareAndSetState(a, from, to)
             \/ \E a \in Attempts, o \in Outcomes, complete \in BOOLEAN : CommitTerminal(a, o, complete)
             \/ state' = state
      PROVE  \A a \in Attempts : state'[a] = "cancel_requested" => state[a] = "cancel_requested"
  BY <1>0, <1>c DEF ClaimAttempt, CompareAndSetState, CommitTerminal, TypeOK
<1>4. ASSUME NEW r \in Revisions,
             SpawnSupervisor(r) \/ SupervisorStep(r) \/ CrashSupervisor(r) \/ OrphanEnds(r)
      PROVE  Goal
  <2>1. /\ ProgramStep(r) /\ rec' = rec /\ cancelling' = cancelling
        /\ \A q \in Revisions : q # r => sup'[q] = sup[q]
    BY <1>4, SupervisorProgram
  <2>2. sup[r] \in Supervisor /\ sup[r].end # "cancelled"
    BY <1>0, <1>2
  <2>4. sup[r].pc \in Holding \cup {"committed", "refused_claimed", "refused_started"} => Current(r) \in Attempts
    BY CurrentIsAttempt
  <2>5. {"queued", "starting", "running", "collecting"} \subseteq States
        /\ {"failed", "cancelled", "candidate"} \subseteq Outcomes
    BY DEF States, ActiveStates, Outcomes
  <2>6. sup'[r].end # "cancelled" /\ ~marker'
    <3>1. CASE Starts(r)
      BY <1>2, <2>2, <3>1 DEF Starts, files
    <3>2. CASE Claims(r) \/ WorkerStarts(r) \/ RecordsPid(r) \/ Commits(r) \/ Grants(r) \/ Stops(r)
      BY <1>2, <2>2, <3>2 DEF Claims, WorkerStarts, RecordsPid, Commits, Grants, Stops, Remembers, files
    <3>3. CASE Works(r)
      BY <1>2, <2>2, <3>3 DEF Works, Remembers, files
    <3>4. CASE WorkerStops(r) \/ Bystands(r)
      BY <1>2, <2>2, <3>4 DEF WorkerStops, Bystands
    <3> QED BY <2>1, <3>1, <3>2, <3>3, <3>4 DEF ProgramStep
  <2>7. \A a \in Attempts : state'[a] = "cancel_requested" => state[a] = "cancel_requested"
    <3>1. CASE RefusedClaim(r) \/ Claim(r)
      BY <1>c, <3>1 DEF RefusedClaim, Claim, store
    <3>2. CASE RefusedMark(r) \/ MarkStarting(r) \/ CancelBeforeSpawn(r) \/ MarkRunning(r) \/ Conclude(r)
      BY <1>2, <1>c, <2>2, <2>4, <2>5, <3>2
      DEF RefusedMark, MarkStarting, CancelBeforeSpawn, MarkRunning, Conclude, Transition, Holding, store
    <3>3. CASE RefusedCommit(r)
      BY <1>c, <2>4, <2>5, <3>3 DEF RefusedCommit, store
    <3>4. CASE CommitResult(r)
      <4>1. sup[r].end \in Outcomes
        BY <2>5, <3>4 DEF LifecycleInv, SupOK, CommitResult
      <4>2. (~RetryLeft(r)) \in BOOLEAN
        OBVIOUS
      <4>3. Current(r) \in Attempts
        BY <2>4, <3>4 DEF CommitResult, Holding
      <4> QED BY <1>c, <3>4, <4>1, <4>2, <4>3 DEF CommitResult, store
    <3>5. CASE SpawnSupervisor(r) \/ PublishReceipt(r) \/ IntendLaunch(r) \/ Identify(r) \/ SpawnWorker(r)
               \/ SpawnWorkerFails(r) \/ RecordPid(r) \/ RaiseMarker(r) \/ WorkerEnds(r) \/ SealResult(r)
               \/ GrantRetry(r) \/ RemoveMarker(r) \/ RemoveReceipt(r) \/ CrashSupervisor(r) \/ OrphanEnds(r)
      <4>1. state' = state
        BY <3>5
        DEF SpawnSupervisor, PublishReceipt, IntendLaunch, Identify, SpawnWorker, SpawnWorkerFails,
            RecordPid, RaiseMarker, WorkerEnds, SealResult, GrantRetry, RemoveMarker, RemoveReceipt,
            CrashSupervisor, OrphanEnds, RecordLaunchIntent, RecordRunnerIdentity, GrantPreSpawnRetry, store
      <4> QED BY <1>c, <4>1
    <3> QED BY <1>4, <3>1, <3>2, <3>3, <3>4, <3>5 DEF SupervisorStep
  <2> QED BY <1>2, <2>1, <2>6, <2>7
<1>5. ASSUME NEW p \in Reconcilers, ReconcilerStep(p) \/ CrashReconciler(p) PROVE Goal
  <2>1. /\ Looks(p) \/ Rests(p)
        /\ UNCHANGED <<files, sup, cancelling>> /\ \A q \in Reconcilers : q # p => rec'[q] = rec[q]
    BY <1>5, ReconcilerProgram
  <2>2. rec[p] \in Reconciler /\ rec[p].end # "cancelled" /\ RecOK(p)
    BY <1>0, <1>2 DEF LifecycleInv
  <2>4. rec'[p].end # "cancelled"
    BY <1>2, <2>1, <2>2 DEF Looks, Rests, IdleReconciler
  <2>5. \A a \in Attempts : state'[a] = "cancel_requested" => state[a] = "cancel_requested"
    <3>1. {"queued", "starting"} \subseteq States /\ {"cancelled", "lost"} \subseteq Outcomes
      BY DEF States, ActiveStates, Outcomes
    <3>2. CASE ReapClaim(p)
      BY <1>c, <2>2, <3>2 DEF ReapClaim, RecOK, store
    <3>3. CASE ReapMark(p)
      BY <1>c, <2>2, <3>1, <3>3 DEF ReapMark, RecOK, store
    <3>4. CASE ReapCommit(p) \/ RecordLost(p)
      BY <1>c, <2>2, <3>1, <3>4 DEF ReapCommit, RecordLost, CommitRecoveredLost, RecOK, store
    <3>5. CASE ListUnfinished(p) \/ Observe(p) \/ ListUnstarted(p) \/ CrashReconciler(p)
      BY <1>c, <3>5 DEF ListUnfinished, Observe, ListUnstarted, CrashReconciler, store
    <3> QED BY <1>5, <3>2, <3>3, <3>4, <3>5 DEF ReconcilerStep
  <2> QED BY <1>2, <2>1, <2>4, <2>5 DEF files
<1>6. ASSUME UNCHANGED vars PROVE Goal
  BY <1>2, <1>6 DEF vars, store, files, procs
<1>7. Goal
  BY <1>3, <1>4, <1>5, <1>6 DEF LifecycleNext
<1> QED BY <1>0, <1>7, TablesUncancelled

\* A run ends `cancelled` only after a cancellation of the task was requested.
THEOREM CancellationWasRequested ==
  LifecycleSpec => [](\A a \in Attempts : outcome[a] = "cancelled" => intent # 0)
<1>1. LifecycleInit => CancelInv
  BY DEF LifecycleInit, Init, CancelInv, NewSupervisor, IdleReconciler
<1>2. CancelInv => \A a \in Attempts : outcome[a] = "cancelled" => intent # 0
  BY DEF CancelInv
<1> QED BY <1>1, <1>2, CancelStep, LifecycleInvariant, PTL DEF LifecycleSpec

\* Of a task with a single revision it was that revision's cancellation.  With
\* a second one it need not be: a cancel command may write its marker after the
\* revise that removed it.
THEOREM CancelledOnRequestHolds ==
  ASSUME MaxRevisions = 1
  PROVE  LifecycleSpec => []CancelledOnRequest
<1>1. LifecycleInv /\ (\A a \in Attempts : outcome[a] = "cancelled" => intent # 0) => CancelledOnRequest
  BY DEF LifecycleInv, StoreInv, TypeOK, CancelledOnRequest, Attempts, Revisions
<1> QED BY <1>1, CancellationWasRequested, LifecycleInvariant, PTL

-----------------------------------------------------------------------------
(* Recovery. *)

\* Whether a process may still act for the task is told from the receipt alone.
\* A finished supervisor removes it whoever it names by then, and a new one
\* overwrites it.  The properties below are those of the receipt that stays as
\* long as the supervisor it names is busy with the current revision.
Busy  == {"claiming", "committed"} \cup Holding
Fresh == {"unspawned", "starting_up"}
Late  == {"leaving", "unlinking", "exited", "dead"}

Replaced(r) == r < admitted \/ revising = r

ReceiptStays ==
    receipt # 0 /\ sup[receipt].pc \in Busy /\ ~Replaced(receipt) => receipt' = receipt

OwnReceipt(r) == sup[r].pc \in Busy /\ ~Replaced(r) => receipt = r

\* No claim follows such a result.
Blocked(r) == \E n \in Slots : outcome[<<r, n>>] \in {"candidate", "cancelled", "lost"}

HasCandidate(r) == \E n \in Slots : outcome[<<r, n>>] = "candidate"

\* What a supervisor's place says of its revision: a candidate ends its work, a
\* worker runs under it or outlives it, and once the revision is replaced it
\* holds no attempt and can claim none.
Place(r) ==
    /\ sup[r].pc # "unspawned" => r <= admitted
    /\ sup[r].pc \in Fresh =>
          \A n \in Slots : outcome[<<r, n>>] \in {"none", "cancelled", "lost"}
    /\ sup[r].pc \in Holding /\ sup[r].retry =>
          sup[r].pc \in {"executed", "sealed"} /\ sup[r].end = "failed"
    /\ HasCandidate(r) => sup[r].pc \in Late
    /\ r \in workers => sup[r].pc \in {"spawned", "waiting", "dead"} /\ ~HasCandidate(r)
    /\ Replaced(r) =>
          /\ sup[r].pc \notin Holding \cup {"committed"}
          /\ sup[r].pc \in Fresh \cup {"claiming"} => Blocked(r)

\* A reconciler that means to record an end has seen that no live supervisor
\* holds the attempt, and none comes to hold it later.
JudgedOK(R, p) ==
    /\ rec[p].pc \in {"listed", "judged", "reap_claimed", "reap_marked"}
          => rec[p].run[2] <= rows[rec[p].run[1]]
    /\ rec[p].pc \in {"judged", "reap_claimed", "reap_marked"} /\ rec[p].run[1] \in R
          => ~HeldByLiveSupervisor(rec[p].run)

\* The pid record of a live worker is the current revision's.
PidOK ==
    /\ revising <= admitted
    /\ pidFile # 0 /\ pidFile \in workers => pidFile = admitted /\ revising # pidFile

\* The inductive invariant, where the receipts of the revisions R are kept.
RecoveryInv(R) ==
    /\ \A r \in R : OwnReceipt(r)
    /\ \A r \in Revisions : Place(r)
    /\ \A p \in Reconcilers : JudgedOK(R, p)
    /\ PidOK

\* The places a supervisor can be at, apart.
LEMMA PlacesApart ==
  /\ Holding = {"claimed", "started", "launched", "identified", "running", "spawned", "waiting",
                "executed", "collecting", "sealed"}
  /\ Busy = {"claiming", "committed"} \cup Holding
  /\ Fresh = {"unspawned", "starting_up"} /\ Late = {"leaving", "unlinking", "exited", "dead"}
BY DEF Holding, Busy, Fresh, Late

\* A recorded result stays, and no write takes a row away.
LEMMA ResultsKept ==
  ASSUME LifecycleInv, Write
  PROVE  /\ \A a \in Attempts : outcome[a] # "none" => outcome'[a] = outcome[a]
         /\ \A r \in Revisions : rows[r] <= rows'[r] /\ rows[r] \in Nat /\ rows'[r] \in Nat
         /\ \A r \in Revisions : Blocked(r) => Blocked(r)'
<1>0. TypeOK /\ TypeOK' /\ Grows
  BY WritesGrow, WriteIsStoreStep, TypeStep DEF LifecycleInv, StoreInv
<1>1. \A a \in Attempts : outcome[a] # "none" => outcome'[a] = outcome[a]
  BY <1>0 DEF Write, RecordTask, ClaimAttempt, CompareAndSetState, RecordLaunchIntent,
              RecordRunnerIdentity, CommitTerminal, Acknowledge, RecordDecision,
              GrantPreSpawnRetry, RecordCancellationIntent, store, TypeOK
<1>2. \A r \in Revisions : rows[r] <= rows'[r] /\ rows[r] \in Nat /\ rows'[r] \in Nat
  BY <1>0 DEF TypeOK, Grows
<1>3. \A r \in Revisions : Blocked(r) => Blocked(r)'
  BY <1>1, AttemptPairs DEF Blocked
<1> QED BY <1>1, <1>2, <1>3

\* A candidate, a cancellation or a lost run refuses every later claim.
LEMMA BlockedRefusesClaim ==
  ASSUME LifecycleInv, NEW r \in Revisions, Blocked(r)
  PROVE  ~ClaimAllowed(r)
<1> SUFFICES ASSUME ClaimAllowed(r) PROVE FALSE
  OBVIOUS
<1>0. StoreInv
  BY DEF LifecycleInv
<1>1. PICK n \in Slots : outcome[<<r, n>>] \in {"candidate", "cancelled", "lost"}
  BY DEF Blocked
<1>2. state[<<r, n>>] = "terminal"
  BY <1>0, <1>1, AttemptPairs DEF StoreInv, TerminalHasResult, HasResult
<1>3. n <= rows[r]
  BY <1>0, <1>2 DEF StoreInv, RowsAreDense, TypeOK, Slots
<1> QED BY <1>0, <1>1, <1>3, ClaimFollowsFailures

\* A supervisor that does not move stays where it is as long as its revision is
\* not replaced and gets no result but a recovered one.
LEMMA PlaceKept ==
  ASSUME LifecycleInv, Write, NEW q \in Revisions, Place(q), sup'[q] = sup[q],
         q \in workers' => q \in workers, admitted <= admitted', admitted \in Nat, admitted' \in Nat,
         Replaced(q)' => Replaced(q),
         \A n \in Slots : outcome'[<<q, n>>] \in {outcome[<<q, n>>], "cancelled", "lost"}
  PROVE  Place(q)'
<1>1. HasCandidate(q)' => HasCandidate(q)
  BY DEF HasCandidate
<1>2. Blocked(q) => Blocked(q)'
  BY ResultsKept
<1>3. sup[q].pc # "unspawned" => q <= admitted'
  BY DEF Place, Revisions
<1>4. sup[q].pc \in Fresh => \A n \in Slots : outcome'[<<q, n>>] \in {"none", "cancelled", "lost"}
  BY DEF Place
<1> QED BY <1>1, <1>2, <1>3, <1>4 DEF Place

\* A supervisor's step leaves the results of other revisions alone.
LEMMA OtherResults ==
  ASSUME LifecycleInv, NEW r \in Revisions, ProgramStep(r), NEW q \in Revisions, q # r, NEW n \in Slots
  PROVE  outcome'[<<q, n>>] = outcome[<<q, n>>]
<1>1. outcome \in [Attempts -> Outcomes \cup {"none"}] /\ <<q, n>> \in Attempts /\ <<q, n>> # Current(r)
  BY AttemptPairs DEF LifecycleInv, StoreInv, TypeOK, Current
<1>2. CASE Starts(r) \/ Commits(r)
  BY <1>1, <1>2 DEF Starts, Commits
<1>3. CASE outcome' = outcome
  BY <1>3
<1> QED BY <1>2, <1>3
        DEF ProgramStep, Claims, Works, WorkerStarts, RecordsPid, WorkerStops, Grants, Stops, Bystands,
            ClaimAttempt, store

\* No step of a supervisor changes the latest revision.
LEMMA AdmittedKept ==
  ASSUME NEW r, ProgramStep(r)
  PROVE  admitted' = admitted
BY DEF ProgramStep, Starts, Claims, Works, WorkerStarts, RecordsPid, WorkerStops, Commits, Grants, Stops,
       Bystands, ClaimAttempt, store

\* Each of its own steps leaves a supervisor where its place says.
LEMMA PlaceMoves ==
  ASSUME LifecycleInv, Write, NEW r \in Revisions, Place(r), ProgramStep(r),
         \A q \in Revisions : q # r => sup'[q] = sup[q], revising' = revising
  PROVE  Place(r)'
<1>0. /\ outcome \in [Attempts -> Outcomes \cup {"none"}]
      /\ \A n \in Slots : <<r, n>> \in Attempts
      /\ sup[r].retry \in BOOLEAN /\ SupOK(r)
  BY AttemptPairs DEF LifecycleInv, StoreInv, TypeOK, LifecycleTypeOK, Supervisor
<1>1. admitted' = admitted /\ (Replaced(r)' <=> Replaced(r))
  BY AdmittedKept DEF Replaced
<1>o. ASSUME outcome' = outcome
      PROVE  /\ HasCandidate(r)' <=> HasCandidate(r)
             /\ Blocked(r)' <=> Blocked(r)
             /\ \A n \in Slots : outcome'[<<r, n>>] = outcome[<<r, n>>]
  BY <1>o DEF HasCandidate, Blocked
<1>2. CASE Starts(r)
  <2>1. CASE outcome' = outcome
    BY <1>1, <1>2, <1>o, <2>1, PlacesApart DEF Starts, Moves, Place
  <2>2. CASE outcome' = [outcome EXCEPT ![Current(r)] = "failed"] /\ outcome' # outcome
    <3>1. HasCandidate(r)' => HasCandidate(r)
      BY <1>0, <2>2 DEF HasCandidate
    <3> QED BY <1>1, <1>2, <2>2, <3>1, PlacesApart DEF Starts, Moves, Place
  <2> QED BY <1>2, <2>1, <2>2 DEF Starts
<1>3. CASE Claims(r)
  <2>1. outcome' = outcome /\ ~Replaced(r)
    BY <1>3, BlockedRefusesClaim DEF Claims, ClaimAttempt, Moves, Place
  <2> QED BY <1>1, <1>3, <1>o, <2>1, PlacesApart DEF Claims, Moves, Place
<1>4. CASE Works(r)
  <2>1. sup[r].pc \in Holding /\ sup'[r].pc \in Holding /\ sup'[r].pc \notin {"spawned", "waiting"}
        /\ sup[r].pc \notin {"spawned", "waiting"}
    BY <1>4 DEF Works, Moves, Holding
  <2>2. sup'[r].retry => sup'[r].pc \in {"executed", "sealed"} /\ sup'[r].end = "failed"
    BY <1>4, PlacesApart DEF Works, Moves, Remembers, Place
  <2> QED BY <1>1, <1>4, <1>o, <2>1, <2>2, PlacesApart DEF Works, Place
<1>5. CASE WorkerStarts(r) \/ RecordsPid(r) \/ WorkerStops(r)
  BY <1>1, <1>5, <1>o, PlacesApart DEF WorkerStarts, RecordsPid, WorkerStops, Moves, Remembers, Place, store
<1>6. CASE Commits(r)
  <2>1. ~HasCandidate(r) /\ ~Replaced(r) /\ r \notin workers'
    BY <1>6, PlacesApart DEF Commits, Moves, Place
  <2>2. HasCandidate(r)' => sup[r].end = "candidate"
    BY <1>0, <1>6, <2>1 DEF Commits, HasCandidate
  <2>3. sup[r].retry => sup[r].end = "failed"
    BY <1>6, PlacesApart DEF Commits, Moves, Place
  <2>4. sup'[r].pc \in {"committed", "leaving"} /\ (~sup[r].retry => sup'[r].pc = "leaving")
    BY <1>0, <1>6 DEF Commits, Moves
  <2>5. sup[r].pc = "sealed"
    BY <1>6 DEF Commits, Moves
  <2> QED BY <1>1, <2>1, <2>2, <2>3, <2>4, <2>5, PlacesApart DEF Place
<1>7. CASE Grants(r)
  BY <1>1, <1>7, <1>o, PlacesApart DEF Grants, Moves, Place
<1>8. CASE Stops(r)
  BY <1>1, <1>8, <1>o, PlacesApart DEF Stops, Moves, Place, store
<1>9. CASE Bystands(r)
  BY <1>1, <1>9, <1>o, PlacesApart DEF Bystands, Place, store
<1> QED BY <1>2, <1>3, <1>4, <1>5, <1>6, <1>7, <1>8, <1>9 DEF ProgramStep

\* Only a supervisor that publishes its receipt, or removes what it takes for
\* its own, changes the receipt; neither harms a revision whose receipt is kept.
LEMMA OwnReceiptMoves ==
  ASSUME LifecycleInv, NEW R \in SUBSET Revisions, RecoveryInv(R), NEW r \in Revisions, ProgramStep(r),
         [ReceiptStays]_vars \/ (\A q \in R : q < MaxRevisions /\ MaxRevisions = 2) \/ MaxRevisions = 1,
         \A q \in Revisions : q # r => sup'[q] = sup[q], revising' = revising
  PROVE  \A q \in R : OwnReceipt(q)'
<1> SUFFICES ASSUME NEW q \in R, sup'[q].pc \in Busy, ~Replaced(q)'
             PROVE  receipt' = q
  BY DEF OwnReceipt
<1>0. /\ Place(q) /\ Place(r) /\ OwnReceipt(q) /\ q \in Revisions /\ admitted' = admitted
      /\ ~Replaced(q) /\ admitted \in Nat
  BY AdmittedKept DEF RecoveryInv, Replaced, LifecycleInv, StoreInv, TypeOK
<1>1. CASE q = r
  <2>1. sup[r].pc \in Busy => receipt = r
    BY <1>0, <1>1 DEF OwnReceipt
  <2>2. CASE Starts(r)
    BY <1>1, <2>2, PlacesApart DEF Starts, Moves
  <2>3. CASE Claims(r) \/ Works(r) \/ WorkerStarts(r) \/ RecordsPid(r) \/ WorkerStops(r) \/ Commits(r) \/ Grants(r)
    <3>1. sup[r].pc \in Busy /\ receipt' = receipt
      BY <2>3, PlacesApart
      DEF Claims, Works, WorkerStarts, RecordsPid, WorkerStops, Commits, Grants, Moves, files
    <3> QED BY <1>1, <2>1, <3>1
  <2>4. CASE Stops(r)
    BY <1>1, <2>4, PlacesApart DEF Stops, Moves
  <2>5. CASE Bystands(r)
    BY <1>1, <2>1, <2>5 DEF Bystands
  <2> QED BY <1>0, <2>2, <2>3, <2>4, <2>5 DEF ProgramStep
<1>2. CASE q # r
  <2>1. sup[q].pc \in Busy /\ receipt = q /\ q # 0
    BY <1>0, <1>2 DEF OwnReceipt, Revisions
  <2>2. CASE [ReceiptStays]_vars
    <3>1. receipt' = receipt
      BY <1>0, <2>1, <2>2 DEF ReceiptStays, vars, files
    <3> QED BY <2>1, <3>1
  <2>3. CASE q < MaxRevisions /\ MaxRevisions = 2
    <3>1. q = 1 /\ r = 2
      BY <1>0, <1>2, <2>3 DEF Revisions
    <3>2. ~(r <= admitted)
      BY <1>0, <3>1 DEF Replaced
    <3>3. sup[r].pc = "unspawned"
      BY <1>0, <3>2 DEF Place
    <3>4. receipt' = receipt
      BY <3>2, <3>3, PlacesApart
      DEF ProgramStep, Starts, Claims, Works, WorkerStarts, RecordsPid, WorkerStops, Commits, Grants, Stops,
          Bystands, Moves, files
    <3> QED BY <2>1, <3>4
  <2>4. CASE MaxRevisions = 1
    BY <1>0, <1>2, <2>4 DEF Revisions
  <2> QED BY <2>2, <2>3, <2>4
<1> QED BY <1>1, <1>2

\* A supervisor comes to hold only a row that it claims itself.
LEMMA HoldingIsClaimed ==
  ASSUME LifecycleInv, NEW r \in Revisions, ProgramStep(r), sup'[r].pc \in Holding
  PROVE  \/ sup[r].pc \in Holding /\ sup'[r].slot = sup[r].slot
         \/ sup'[r].slot = rows[r] + 1
BY PlacesApart
DEF ProgramStep, Starts, Claims, Works, WorkerStarts, RecordsPid, WorkerStops, Commits, Grants, Stops,
    Bystands, Moves, Remembers

\* What a reconciler has judged stays so while supervisors move.
LEMMA JudgedKept ==
  ASSUME LifecycleInv, Write, NEW R \in SUBSET Revisions, NEW r \in Revisions, ProgramStep(r),
         \A q \in Revisions : q # r => sup'[q] = sup[q],
         NEW p \in Reconcilers, JudgedOK(R, p), rec'[p] = rec[p]
  PROVE  JudgedOK(R, p)'
<1> DEFINE a == rec[p].run
<1>1. rec[p].pc \in {"listed", "judged", "reap_claimed", "reap_marked"}
        => a \in Attempts /\ a[1] \in Revisions /\ a[2] \in Nat /\ a[2] <= rows[a[1]]
  <2>1. \A b \in Attempts : b[1] \in Revisions /\ b[2] \in Nat
    BY DEF Attempts, Slots
  <2> QED BY <2>1 DEF LifecycleInv, RecOK, JudgedOK
<1>2. \A q \in Revisions : rows[q] <= rows'[q] /\ rows[q] \in Nat /\ rows'[q] \in Nat
  BY ResultsKept
<1>3. rec[p].pc \in {"listed", "judged", "reap_claimed", "reap_marked"} => a[2] <= rows'[a[1]]
  BY <1>1, <1>2
<1>4. ASSUME rec[p].pc \in {"judged", "reap_claimed", "reap_marked"}, a[1] \in R
      PROVE  ~(sup'[a[1]].pc \in Holding /\ sup'[a[1]].slot = a[2])
  <2>1. ~(sup[a[1]].pc \in Holding /\ sup[a[1]].slot = a[2])
    BY <1>4 DEF JudgedOK, HeldByLiveSupervisor
  <2>2. CASE a[1] = r
    BY <1>1, <1>2, <1>4, <2>1, <2>2, HoldingIsClaimed
  <2>3. CASE a[1] # r
    BY <1>1, <1>4, <2>1, <2>3
  <2> QED BY <2>2, <2>3
<1> QED BY <1>3, <1>4 DEF JudgedOK, HeldByLiveSupervisor

\* The pid record follows the current revision.
LEMMA PidMoves ==
  ASSUME LifecycleInv, PidOK, NEW r \in Revisions, Place(r), ProgramStep(r), revising' = revising
  PROVE  PidOK'
<1>0. admitted' = admitted /\ admitted \in Nat /\ r \in Nat /\ r # 0
  BY AdmittedKept DEF LifecycleInv, StoreInv, TypeOK, Revisions
<1>1. CASE WorkerStarts(r) \/ RecordsPid(r)
  <2>1. ~Replaced(r) /\ r <= admitted
    BY <1>1, PlacesApart DEF WorkerStarts, RecordsPid, Moves, Place
  <2>2. r = admitted /\ revising # r
    BY <1>0, <2>1 DEF Replaced
  <2> QED BY <1>0, <1>1, <2>2 DEF WorkerStarts, RecordsPid, PidOK, files
<1>2. CASE WorkerStops(r)
  BY <1>0, <1>2 DEF WorkerStops, PidOK
<1>3. CASE pidFile' = pidFile /\ workers' \subseteq workers
  BY <1>0, <1>3 DEF PidOK
<1> QED BY <1>1, <1>2, <1>3
        DEF ProgramStep, Starts, Claims, Works, Commits, Grants, Stops, Bystands, files

\* A step of a supervisor keeps the recovery invariant.
LEMMA SupervisorRecovery ==
  ASSUME LifecycleInv, NEW R \in SUBSET Revisions, RecoveryInv(R),
         [ReceiptStays]_vars \/ (\A q \in R : q < MaxRevisions /\ MaxRevisions = 2) \/ MaxRevisions = 1,
         NEW r \in Revisions,
         SpawnSupervisor(r) \/ SupervisorStep(r) \/ CrashSupervisor(r) \/ OrphanEnds(r)
  PROVE  RecoveryInv(R)'
<1>0. /\ ProgramStep(r) /\ UNCHANGED <<rec, revising>> /\ \A q \in Revisions : q # r => sup'[q] = sup[q]
      /\ Write /\ admitted' = admitted /\ admitted \in Nat
  <2>1. ProgramStep(r) /\ UNCHANGED <<rec, revising>> /\ \A q \in Revisions : q # r => sup'[q] = sup[q]
    BY SupervisorProgram
  <2> QED BY <2>1, SupervisorWrites, AdmittedKept DEF LifecycleInv, StoreInv, TypeOK
<1>1. \A q \in R : OwnReceipt(q)'
  BY <1>0, OwnReceiptMoves
<1>2. ASSUME NEW q \in Revisions PROVE Place(q)'
  <2>1. CASE q = r
    BY <1>0, <2>1, PlaceMoves DEF RecoveryInv
  <2>2. CASE q # r
    <3>1. \A n \in Slots : outcome'[<<q, n>>] = outcome[<<q, n>>]
      BY <1>0, <2>2, OtherResults
    <3>2. q \in workers' => q \in workers
      BY <1>0, <2>2
      DEF ProgramStep, Starts, Claims, Works, WorkerStarts, RecordsPid, WorkerStops, Commits, Grants, Stops,
          Bystands
    <3>3. Replaced(q)' => Replaced(q)
      BY <1>0 DEF Replaced
    <3>4. Place(q) /\ sup'[q] = sup[q] /\ admitted <= admitted' /\ admitted' \in Nat
      BY <1>0, <2>2 DEF RecoveryInv
    <3> QED BY <1>0, <3>1, <3>2, <3>3, <3>4, PlaceKept
  <2> QED BY <2>1, <2>2
<1>3. ASSUME NEW p \in Reconcilers PROVE JudgedOK(R, p)'
  BY <1>0, JudgedKept DEF RecoveryInv
<1>4. PidOK'
  BY <1>0, PidMoves DEF RecoveryInv
<1> QED BY <1>1, <1>2, <1>3, <1>4 DEF RecoveryInv

\* A reconciler judges by a receipt that is kept, and holds what it claims.
LEMMA ReconcilerRecovery ==
  ASSUME LifecycleInv, NEW R \in SUBSET Revisions, RecoveryInv(R), NEW p \in Reconcilers,
         ReconcilerStep(p) \/ CrashReconciler(p)
  PROVE  RecoveryInv(R)'
<1>0. /\ Looks(p) \/ Rests(p)
      /\ \A q \in Reconcilers : q # p => rec'[q] = rec[q]
      /\ UNCHANGED <<receipt, pidFile, sup, workers, revising>>
      /\ Write /\ RecOK(p) /\ RecOK(p)' /\ TypeOK
  <2>1. TypeOK'
    BY EveryStepWrites, WriteIsStoreStep, TypeStep DEF LifecycleInv, StoreInv, LifecycleNext
  <2>2. RecOK(p)'
    BY <2>1, ReconcilerMoves
  <2>3. RecOK(p) /\ TypeOK
    BY DEF LifecycleInv, StoreInv
  <2> QED BY <2>2, <2>3, ReconcilerProgram, ReconcilerWrites DEF files
<1>1. admitted' = admitted /\ admitted \in Nat
  BY <1>0 DEF Looks, Rests, ClaimAttempt, store, TypeOK
<1>2. \A q \in R : OwnReceipt(q)'
  BY <1>0, <1>1 DEF RecoveryInv, OwnReceipt, Replaced
<1>3. ASSUME NEW q \in Revisions PROVE Place(q)'
  <2>1. ASSUME NEW n \in Slots PROVE outcome'[<<q, n>>] \in {outcome[<<q, n>>], "cancelled", "lost"}
    <3>1. outcome \in [Attempts -> Outcomes \cup {"none"}] /\ <<q, n>> \in Attempts
      BY <1>0, AttemptPairs DEF TypeOK
    <3>2. CASE Looks(p)
      BY <3>2 DEF Looks, ClaimAttempt, store
    <3>3. CASE Rests(p)
      BY <1>0, <3>1, <3>3 DEF Rests, RecOK
    <3> QED BY <1>0, <3>2, <3>3
  <2>2. Place(q) /\ (Replaced(q)' => Replaced(q)) /\ admitted <= admitted'
    BY <1>0, <1>1 DEF RecoveryInv, Replaced
  <2> QED BY <1>0, <1>1, <2>1, <2>2, PlaceKept
<1>4. \A q \in Revisions : rows[q] <= rows'[q] /\ rows[q] \in Nat /\ rows'[q] \in Nat
  BY <1>0, ResultsKept
<1>5. ASSUME NEW q \in Reconcilers, q # p PROVE JudgedOK(R, q)'
  <2>1. /\ JudgedOK(R, q) /\ rec'[q] = rec[q] /\ sup' = sup
        /\ rec[q].pc \in {"listed", "judged", "reap_claimed", "reap_marked"} => rec[q].run \in Attempts
    BY <1>0, <1>5 DEF RecoveryInv, LifecycleInv, RecOK
  <2>2. \A b \in Attempts : b[1] \in Revisions /\ b[2] \in Nat
    BY DEF Attempts, Slots
  <2>3. rec[q].pc \in {"listed", "judged", "reap_claimed", "reap_marked"}
           => rec[q].run[2] <= rows'[rec[q].run[1]]
    BY <1>4, <2>1, <2>2 DEF JudgedOK
  <2> QED BY <2>1, <2>3 DEF JudgedOK, HeldByLiveSupervisor
<1>6. JudgedOK(R, p)'
  <2>0. /\ JudgedOK(R, p) /\ \A q \in R : OwnReceipt(q) /\ Place(q)
        /\ \A q \in Revisions : sup[q].pc \in Holding => sup[q].slot \in Nat /\ sup[q].slot <= rows[q]
    BY DEF RecoveryInv, LifecycleInv, SupOK, Slots
  <2>1. CASE Rests(p)
    BY <2>1 DEF Rests, IdleReconciler, JudgedOK
  <2>2. CASE RecMoves(p, "idle", "listed") /\ state[rec'[p].run] \in ActiveStates /\ rec'[p].run \in Attempts
             /\ UNCHANGED store
    <3> DEFINE a == rec'[p].run
    <3> HIDE DEF a
    <3>1. a \in Attempts /\ state[a] # "absent"
      BY <2>2 DEF a, ActiveStates
    <3>2. a[1] \in Revisions /\ a[2] \in Slots /\ a = <<a[1], a[2]>>
      BY <3>1, AttemptPairs
    <3>3. ~(a[2] > rows[a[1]])
      BY <3>1, <3>2 DEF LifecycleInv, StoreInv, RowsAreDense
    <3>4. a[2] <= rows'[a[1]]
      BY <1>4, <2>2, <3>2, <3>3 DEF Slots, store
    <3> QED BY <2>2, <3>4 DEF RecMoves, JudgedOK, a
  <2>3. CASE RecMoves(p, "listed", "judged") /\ ~ObservedAlive(rec[p].run[1]) /\ rec'[p].run = rec[p].run
             /\ UNCHANGED store
    <3> DEFINE a == rec[p].run
    <3>1. a[2] <= rows'[a[1]]
      BY <2>0, <2>3 DEF RecMoves, JudgedOK, store
    <3>2. a[1] \in R => ~(sup[a[1]].pc \in Holding)
      <4> SUFFICES ASSUME a[1] \in R, sup[a[1]].pc \in Holding PROVE FALSE
        OBVIOUS
      <4>1. sup[a[1]].pc \in Busy /\ SupervisorAlive(a[1])
        BY DEF Busy, SupervisorAlive, AlivePcs
      <4>2. ~Replaced(a[1])
        BY <2>0 DEF Place
      <4>3. receipt = a[1]
        BY <2>0, <4>1, <4>2 DEF OwnReceipt
      <4> QED BY <2>3, <4>1, <4>3 DEF ObservedAlive
    <3> QED BY <1>0, <2>3, <3>1, <3>2 DEF RecMoves, JudgedOK, HeldByLiveSupervisor
  <2>4. CASE RecMoves(p, "idle", "stale")
    BY <2>4 DEF RecMoves, JudgedOK
  <2>5. CASE RecMoves(p, "stale", "reap_claimed") /\ ClaimAttempt(rec[p].run[1])
             /\ rec'[p].run = NextAttempt(rec[p].run[1])
    <3> DEFINE r == rec[p].run[1]
    <3> HIDE DEF r
    <3>1. r \in Revisions /\ ClaimAttempt(r) /\ rec'[p].run = <<r, rows[r] + 1>>
      BY <1>0, <2>5 DEF RecMoves, RecOK, NextAttempt, r
    <3>2. rec'[p].run[1] = r /\ rec'[p].run[2] = rows[r] + 1
      BY <3>1
    <3>3. rows'[r] = rows[r] + 1
      BY <1>0, <3>1 DEF ClaimAttempt, TypeOK
    <3>4. ~(sup'[r].pc \in Holding /\ sup'[r].slot = rows[r] + 1)
      BY <1>0, <1>4, <2>0, <3>1
    <3> QED BY <1>4, <3>1, <3>2, <3>3, <3>4 DEF JudgedOK, HeldByLiveSupervisor
  <2>6. CASE RecMoves(p, "reap_claimed", "reap_marked") /\ rec'[p].run = rec[p].run /\ rows' = rows
    BY <1>0, <2>0, <2>6 DEF RecMoves, JudgedOK, HeldByLiveSupervisor
  <2> QED BY <1>0, <2>1, <2>2, <2>3, <2>4, <2>5, <2>6 DEF Looks
<1>7. PidOK'
  BY <1>0, <1>1 DEF RecoveryInv, PidOK
<1> QED BY <1>2, <1>3, <1>5, <1>6, <1>7 DEF RecoveryInv

\* Revise finds the revision it replaces without a supervisor or a worker.
LEMMA OwnerRecovery ==
  ASSUME LifecycleInv, NEW R \in SUBSET Revisions, RecoveryInv(R), Owner,
         \A r \in Revisions : r < MaxRevisions => r \in R
  PROVE  RecoveryInv(R)'
<1>0. /\ UNCHANGED <<sup, rec, workers, receipt, pidFile>> /\ Write /\ TypeOK
      /\ admitted \in Nat /\ revising \in Nat /\ pidFile \in Nat
  BY OwnerMoves, OwnerWrites DEF LifecycleInv, StoreInv, TypeOK, LifecycleTypeOK
<1>1. UNCHANGED <<rows, outcome>>
  BY DEF Owner, AdmitFirst, CheckRevise, Revise, RequestCancel, CheckNeedsCancel, WriteMarker, Ack, Decide,
         RecordTask, RecordCancellationIntent, Acknowledge, RecordDecision, store
<1>2. \/ CheckRevise
      \/ revising # 0 /\ admitted = revising /\ admitted' = revising + 1 /\ revising' = 0
      \/ admitted = 0 /\ admitted' = 1 /\ revising' = revising
      \/ UNCHANGED <<admitted, revising>>
  <2>1. CASE Revise
    BY <1>0, <2>1 DEF Revise, RecordTask
  <2>2. CASE AdmitFirst
    BY <1>0, <2>2 DEF AdmitFirst, RecordTask, procs
  <2> QED BY <2>1, <2>2
          DEF Owner, RequestCancel, CheckNeedsCancel, WriteMarker, Ack, Decide, RecordCancellationIntent,
              Acknowledge, RecordDecision, store, procs
<1>3. admitted' \in Nat /\ admitted <= admitted'
  BY <1>0, <1>2 DEF CheckRevise, store
<1>4. \A q \in Revisions : Replaced(q) => Replaced(q)'
  BY <1>0, <1>2 DEF CheckRevise, Replaced, Revisions, store
<1>5. \A q \in Revisions : CheckRevise \/ (Replaced(q)' => Replaced(q))
  BY <1>0, <1>2 DEF Replaced, Revisions
<1>6. ASSUME CheckRevise
      PROVE  /\ admitted \in R /\ admitted' = admitted /\ revising = 0 /\ revising' = admitted
             /\ sup[admitted].pc \notin Holding \cup {"committed"}
             /\ sup[admitted].pc \in Fresh \cup {"claiming"} => Blocked(admitted)
             /\ ~(pidFile = admitted /\ pidFile \in workers)
  <2> DEFINE r == admitted
  <2> HIDE DEF r
  <2>1. /\ r = admitted /\ r \in Revisions /\ r \in R /\ Place(r) /\ OwnReceipt(r)
        /\ admitted' = admitted /\ revising = 0 /\ revising' = r /\ r # 0 /\ ~Replaced(r)
    <3>1. r \in Revisions /\ r + 1 \in Revisions /\ revising = 0 /\ revising' = r /\ admitted' = admitted
      BY <1>6 DEF CheckRevise, store, r
    <3>2. r \in R /\ r # 0
      BY <3>1, BoundsAssumption DEF Revisions
    <3>3. ~Replaced(r)
      BY <1>0, <3>1, <3>2 DEF Replaced, r
    <3> QED BY <3>1, <3>2, <3>3 DEF RecoveryInv, r
  <2>2. PICK n \in Slots :
          \/ outcome[<<r, n>>] = "candidate"
          \/ outcome[<<r, n>>] \in {"failed", "lost"} /\ ~WorkerMayBeRunning
    BY <1>6 DEF CheckRevise, Revisable, r
  <2>3. CASE outcome[<<r, n>>] = "candidate"
    <3>1. HasCandidate(r) /\ sup[r].pc \in Late /\ r \notin workers
      BY <2>1, <2>3 DEF HasCandidate, Place
    <3> QED BY <2>1, <3>1, PlacesApart
  <2>4. CASE outcome[<<r, n>>] \in {"failed", "lost"} /\ ~WorkerMayBeRunning
    <3>1. sup[r].pc \in Busy => SupervisorAlive(r)
      BY DEF Busy, SupervisorAlive, AlivePcs, BeforeClaim, AfterCommit
    <3>2. sup[r].pc \notin Busy
      BY <2>1, <2>4, <3>1 DEF OwnReceipt, WorkerMayBeRunning
    <3>3. ~(pidFile = r /\ pidFile \in workers)
      BY <2>1, <2>4 DEF WorkerMayBeRunning
    <3>4. sup[r].pc \in Fresh => Blocked(r)
      BY <2>1, <2>4 DEF Place, Blocked
    <3> QED BY <2>1, <3>2, <3>3, <3>4 DEF Busy
  <2> QED BY <2>2, <2>3, <2>4
<1>7. \A q \in R : OwnReceipt(q)'
  BY <1>0, <1>4 DEF RecoveryInv, OwnReceipt
<1>8. ASSUME NEW q \in Revisions PROVE Place(q)'
  <2>1. Place(q)
    BY DEF RecoveryInv
  <2>2. CASE Replaced(q)' => Replaced(q)
    BY <1>0, <1>1, <1>3, <2>1, <2>2, PlaceKept
  <2>3. CASE Replaced(q)' /\ ~Replaced(q)
    <3>1. CheckRevise
      BY <1>5, <2>3
    <3>2. q = admitted
      BY <1>6, <2>3, <3>1 DEF Replaced
    <3>3. /\ sup'[q].pc \notin Holding \cup {"committed"}
          /\ sup'[q].pc \in Fresh \cup {"claiming"} => Blocked(q)'
      BY <1>0, <1>1, <1>6, <3>1, <3>2 DEF Blocked
    <3> QED BY <1>0, <1>1, <1>6, <2>1, <3>1, <3>3 DEF Place, HasCandidate
  <2> QED BY <2>2, <2>3
<1>9. \A p \in Reconcilers : JudgedOK(R, p)'
  BY <1>0, <1>1 DEF RecoveryInv, JudgedOK, HeldByLiveSupervisor
<1>10. PidOK'
  <2>1. PidOK
    BY DEF RecoveryInv
  <2>2. CASE CheckRevise
    BY <1>0, <1>6, <2>1, <2>2 DEF PidOK
  <2>3. CASE revising # 0 /\ admitted = revising /\ admitted' = revising + 1 /\ revising' = 0
    BY <1>0, <2>1, <2>3 DEF PidOK
  <2>4. CASE admitted = 0 /\ admitted' = 1 /\ revising' = revising
    BY <1>0, <2>1, <2>4 DEF PidOK
  <2>5. CASE UNCHANGED <<admitted, revising>>
    BY <1>0, <2>1, <2>5 DEF PidOK
  <2> QED BY <1>2, <2>2, <2>3, <2>4, <2>5
<1> QED BY <1>7, <1>8, <1>9, <1>10 DEF RecoveryInv

\* The recovery invariant holds at first, and every step keeps it where the
\* receipts are kept.
LEMMA RecoveryInit == ASSUME NEW R \in SUBSET Revisions, LifecycleInit PROVE RecoveryInv(R)
<1>1. /\ \A r \in Revisions : sup[r].pc = "unspawned"
      /\ \A p \in Reconcilers : rec[p].pc = "idle"
      /\ \A a \in Attempts : outcome[a] = "none"
      /\ workers = {} /\ pidFile = 0 /\ revising = 0 /\ admitted = 0
  BY DEF LifecycleInit, Init, NewSupervisor, IdleReconciler
<1>2. ASSUME NEW r \in Revisions PROVE Place(r) /\ OwnReceipt(r)
  <2>1. ~Replaced(r)
    BY <1>1 DEF Replaced, Revisions
  <2> QED BY <1>1, <2>1, AttemptPairs, PlacesApart DEF Place, OwnReceipt, HasCandidate
<1>3. \A p \in Reconcilers : JudgedOK(R, p)
  BY <1>1 DEF JudgedOK
<1>4. PidOK
  BY <1>1 DEF PidOK
<1> QED BY <1>2, <1>3, <1>4 DEF RecoveryInv

LEMMA RecoveryStep ==
  ASSUME LifecycleInv, NEW R \in SUBSET Revisions, RecoveryInv(R), [LifecycleNext]_vars,
         \A r \in Revisions : r < MaxRevisions => r \in R,
         [ReceiptStays]_vars \/ (\A q \in R : q < MaxRevisions /\ MaxRevisions = 2) \/ MaxRevisions = 1
  PROVE  RecoveryInv(R)'
<1>1. CASE UNCHANGED vars
  BY <1>1
  DEF vars, store, files, procs, RecoveryInv, OwnReceipt, Place, JudgedOK, PidOK, Replaced, Blocked,
      HasCandidate, HeldByLiveSupervisor
<1> QED BY <1>1, OwnerRecovery, SupervisorRecovery, ReconcilerRecovery DEF LifecycleNext

\* Only a reconciler records a lost run, of an attempt it has judged.
LEMMA LostByReconciler ==
  ASSUME LifecycleInv, RecoveryInv(Revisions), [LifecycleNext]_vars, NEW a \in Attempts,
         outcome[a] # "lost", outcome'[a] = "lost"
  PROVE  ~HeldByLiveSupervisor(a)
<1>0. outcome \in [Attempts -> Outcomes \cup {"none"}]
  BY DEF LifecycleInv, StoreInv, TypeOK
<1>1. CASE Owner
  BY <1>1 DEF Owner, AdmitFirst, CheckRevise, Revise, RequestCancel, CheckNeedsCancel, WriteMarker, Ack, Decide,
              RecordTask, RecordCancellationIntent, Acknowledge, RecordDecision, store
<1>2. ASSUME NEW r \in Revisions,
             SpawnSupervisor(r) \/ SupervisorStep(r) \/ CrashSupervisor(r) \/ OrphanEnds(r)
      PROVE  FALSE
  <2>1. ProgramStep(r) /\ SupOK(r)
    BY <1>2, SupervisorProgram DEF LifecycleInv
  <2>2. CASE Starts(r)
    BY <1>0, <2>2 DEF Starts
  <2>3. CASE Commits(r)
    BY <1>0, <2>1, <2>3 DEF Commits, Moves, SupOK
  <2> QED BY <2>1, <2>2, <2>3
          DEF ProgramStep, Claims, Works, WorkerStarts, RecordsPid, WorkerStops, Grants, Stops, Bystands,
              ClaimAttempt, store
<1>3. ASSUME NEW p \in Reconcilers, ReconcilerStep(p) \/ CrashReconciler(p)
      PROVE  ~HeldByLiveSupervisor(a)
  <2>1. Looks(p) \/ Rests(p)
    BY <1>3, ReconcilerProgram
  <2>2. CASE Looks(p)
    BY <2>2 DEF Looks, ClaimAttempt, store
  <2>3. CASE Rests(p)
    <3>1. rec[p].pc \in {"judged", "reap_marked"} /\ rec[p].run = a
      BY <1>0, <2>3 DEF Rests
    <3>2. JudgedOK(Revisions, p) /\ a[1] \in Revisions
      BY AttemptPairs DEF RecoveryInv
    <3> QED BY <3>1, <3>2 DEF JudgedOK
  <2> QED BY <2>1, <2>2, <2>3
<1>4. CASE UNCHANGED vars
  BY <1>4 DEF vars, store
<1> QED BY <1>1, <1>2, <1>3, <1>4 DEF LifecycleNext

\* The pid record is overwritten by its own supervisor, or once its worker is
\* gone.
LEMMA PidRecordStep ==
  ASSUME LifecycleInv, NEW R \in SUBSET Revisions, RecoveryInv(R), [LifecycleNext]_vars,
         pidFile # 0, pidFile \in workers, pidFile' # pidFile
  PROVE  pidFile \notin workers'
<1>0. PidOK /\ \A r \in Revisions : Place(r)
  BY DEF RecoveryInv
<1>1. ASSUME NEW r \in Revisions,
             SpawnSupervisor(r) \/ SupervisorStep(r) \/ CrashSupervisor(r) \/ OrphanEnds(r)
      PROVE  pidFile \notin workers'
  <2>1. ProgramStep(r) /\ Place(r) /\ admitted \in Nat /\ r \in Nat
    BY <1>0, <1>1, SupervisorProgram DEF LifecycleInv, StoreInv, TypeOK, Revisions
  <2>2. RecordsPid(r) \/ WorkerStops(r)
    BY <2>1
    DEF ProgramStep, Starts, Claims, Works, WorkerStarts, Commits, Grants, Stops, Bystands, files
  <2>3. ~Replaced(r) /\ r <= admitted
    BY <2>1, <2>2, PlacesApart DEF RecordsPid, WorkerStops, Moves, Place
  <2>4. pidFile = r
    BY <1>0, <2>1, <2>3 DEF PidOK, Replaced
  <2> QED BY <2>2, <2>4 DEF RecordsPid, WorkerStops
<1>2. ASSUME Owner \/ (\E p \in Reconcilers : ReconcilerStep(p) \/ CrashReconciler(p)) \/ UNCHANGED vars
      PROVE  pidFile' = pidFile
  BY <1>2, OwnerMoves, ReconcilerProgram DEF vars, files
<1> QED BY <1>1, <1>2 DEF LifecycleNext

\* Recovery takes no attempt from a live supervisor as long as no supervisor
\* takes the receipt of a busy one: the receipt, removed by whoever finishes,
\* is the only way to lose a live run.
THEOREM LiveRunNotLostWhileReceiptStays ==
  LifecycleSpec /\ [][ReceiptStays]_vars => LiveRunNotLost
<1> DEFINE NotLost == \A a \in Attempts : outcome[a] # "lost" /\ outcome'[a] = "lost"
                                             => ~HeldByLiveSupervisor(a)
<1>1. LifecycleInit => RecoveryInv(Revisions)
  BY RecoveryInit
<1>2. LifecycleInv /\ RecoveryInv(Revisions) /\ [LifecycleNext]_vars /\ [ReceiptStays]_vars
        => RecoveryInv(Revisions)'
  BY RecoveryStep
<1>3. LifecycleInv /\ RecoveryInv(Revisions) /\ [LifecycleNext]_vars => [NotLost]_vars
  BY LostByReconciler
<1> QED BY <1>1, <1>2, <1>3, LifecycleInvariant, PTL DEF LifecycleSpec, LiveRunNotLost

\* A task that is never revised loses no live run, for any number of attempts
\* and reconcilers.
THEOREM LiveRunNotLostHolds ==
  ASSUME MaxRevisions = 1
  PROVE  LifecycleSpec => LiveRunNotLost
<1> DEFINE NotLost == \A a \in Attempts : outcome[a] # "lost" /\ outcome'[a] = "lost"
                                             => ~HeldByLiveSupervisor(a)
<1>1. LifecycleInit => RecoveryInv(Revisions)
  BY RecoveryInit
<1>2. LifecycleInv /\ RecoveryInv(Revisions) /\ [LifecycleNext]_vars => RecoveryInv(Revisions)'
  BY RecoveryStep
<1>3. LifecycleInv /\ RecoveryInv(Revisions) /\ [LifecycleNext]_vars => [NotLost]_vars
  BY LostByReconciler
<1> QED BY <1>1, <1>2, <1>3, LifecycleInvariant, PTL DEF LifecycleSpec, LiveRunNotLost

\* The pid record never forgets a live worker as long as no supervisor takes
\* the receipt of a busy one, however often the task is revised.
THEOREM PidRecordKeepsLiveWorkerWhileReceiptStays ==
  LifecycleSpec /\ [][ReceiptStays]_vars => PidRecordKeepsLiveWorker
<1>1. LifecycleInit => RecoveryInv(Revisions)
  BY RecoveryInit
<1>2. LifecycleInv /\ RecoveryInv(Revisions) /\ [LifecycleNext]_vars /\ [ReceiptStays]_vars
        => RecoveryInv(Revisions)'
  BY RecoveryStep
<1>3. LifecycleInv /\ RecoveryInv(Revisions) /\ [LifecycleNext]_vars
        => [pidFile # 0 /\ pidFile \in workers /\ pidFile' # pidFile => pidFile \notin workers']_vars
  BY PidRecordStep
<1> QED BY <1>1, <1>2, <1>3, LifecycleInvariant, PTL DEF LifecycleSpec, PidRecordKeepsLiveWorker

\* It needs no such hypothesis for a task revised once: the receipt that the
\* first supervisor may take is the second one's, whom no third follows.
THEOREM PidRecordKeepsLiveWorkerHolds ==
  ASSUME MaxRevisions \in {1, 2}
  PROVE  LifecycleSpec => PidRecordKeepsLiveWorker
<1> DEFINE R == IF MaxRevisions = 1 THEN Revisions ELSE {1}
<1>0. /\ R \in SUBSET Revisions /\ \A r \in Revisions : r < MaxRevisions => r \in R
      /\ (\A q \in R : q < MaxRevisions /\ MaxRevisions = 2) \/ MaxRevisions = 1
  BY DEF Revisions
<1> HIDE DEF R
<1>1. LifecycleInit => RecoveryInv(R)
  BY <1>0, RecoveryInit
<1>2. LifecycleInv /\ RecoveryInv(R) /\ [LifecycleNext]_vars => RecoveryInv(R)'
  BY <1>0, RecoveryStep
<1>3. LifecycleInv /\ RecoveryInv(R) /\ [LifecycleNext]_vars
        => [pidFile # 0 /\ pidFile \in workers /\ pidFile' # pidFile => pidFile \notin workers']_vars
  BY <1>0, PidRecordStep
<1> QED BY <1>1, <1>2, <1>3, LifecycleInvariant, PTL DEF LifecycleSpec, PidRecordKeepsLiveWorker

-----------------------------------------------------------------------------
(* The promise to the owner. *)

\* What the owner sees of the tables, as the contract is given it.
latestOf == [r \in Revisions |->
               IF LatestSlots(r) = {} THEN "none"
               ELSE outcome[<<r, CHOOSE n \in LatestSlots(r) : TRUE>>]]
resultsOf == [r \in Revisions |-> Cardinality({n \in Slots : HasResult(<<r, n>>)})]
decisionOf == [r \in Revisions |->
                 IF LatestSlots(r) = {} THEN "none"
                 ELSE verdict[<<r, CHOOSE n \in LatestSlots(r) : TRUE>>]]

\* The number of a revision's results: its rows, but for a last one under way.
Ended(r) == IF rows[r] = 0 THEN 0
            ELSE IF HasResult(<<r, rows[r]>>) THEN rows[r] ELSE rows[r] - 1

OwnersView ==
    \A r \in Revisions :
        /\ Ended(r) \in 0..MaxAttempts /\ resultsOf[r] = Ended(r)
        /\ latestOf[r] = IF Ended(r) = 0 THEN "none" ELSE outcome[<<r, Ended(r)>>]
        /\ decisionOf[r] = IF Ended(r) = 0 THEN "none" ELSE verdict[<<r, Ended(r)>>]

\* The results of a revision are those of its first rows, and the last of them
\* is the one the owner is shown.
LEMMA OwnersViewHolds == StoreInv => OwnersView
<1> SUFFICES ASSUME StoreInv, NEW r \in Revisions
             PROVE  /\ Ended(r) \in 0..MaxAttempts /\ resultsOf[r] = Ended(r)
                    /\ latestOf[r] = IF Ended(r) = 0 THEN "none" ELSE outcome[<<r, Ended(r)>>]
                    /\ decisionOf[r] = IF Ended(r) = 0 THEN "none" ELSE verdict[<<r, Ended(r)>>]
  BY DEF OwnersView
<1> DEFINE k == Ended(r)
<1>0. rows[r] \in 0..MaxAttempts /\ MaxAttempts \in Nat
  BY BoundsAssumption DEF StoreInv, TypeOK
<1>1. k \in 0..MaxAttempts
  BY <1>0 DEF Ended
<1>2. \A n \in Slots : HasResult(<<r, n>>) <=> n \in 1..k
  <2> SUFFICES ASSUME NEW n \in Slots PROVE HasResult(<<r, n>>) <=> n \in 1..k
    OBVIOUS
  <2>1. HasResult(<<r, n>>) => n <= rows[r]
    <3>1. HasResult(<<r, n>>) => state[<<r, n>>] # "absent"
      BY AttemptPairs DEF StoreInv, TerminalHasResult
    <3> QED BY <1>0, <3>1 DEF StoreInv, RowsAreDense, Slots
  <2>2. n < rows[r] => HasResult(<<r, n>>)
    <3>1. n < rows[r] => rows[r] \in Slots /\ state[<<r, rows[r]>>] # "absent"
      BY <1>0 DEF StoreInv, RowsAreDense, Slots
    <3> QED BY <3>1 DEF StoreInv, RetryOnlyAfterGrant, HasResult
  <2>3. CASE rows[r] = 0
    BY <2>1, <2>3 DEF Ended, Slots
  <2>4. CASE rows[r] # 0 /\ HasResult(<<r, rows[r]>>)
    BY <1>0, <2>1, <2>2, <2>4 DEF Ended, Slots
  <2>5. CASE rows[r] # 0 /\ ~HasResult(<<r, rows[r]>>)
    <3>1. k = rows[r] - 1
      BY <2>5 DEF Ended
    <3>2. n # rows[r] => (HasResult(<<r, n>>) <=> n < rows[r])
      BY <1>0, <2>1, <2>2 DEF Slots
    <3> HIDE DEF k
    <3> QED BY <1>0, <2>5, <3>1, <3>2 DEF Slots
  <2> QED BY <2>3, <2>4, <2>5
<1> HIDE DEF k
<1>3. {n \in Slots : HasResult(<<r, n>>)} = 1..k
  BY <1>0, <1>1, <1>2 DEF Slots
<1>4. resultsOf[r] = k
  <2>1. Cardinality(1..k) = k
    BY <1>1, FS_Interval
  <2> QED BY <1>3, <2>1 DEF resultsOf
<1>5. CASE k = 0
  <2>1. LatestSlots(r) = {}
    BY <1>2, <1>5 DEF LatestSlots, IsLatestResult
  <2> QED BY <1>1, <1>4, <1>5, <2>1 DEF latestOf, decisionOf, k
<1>6. CASE k # 0
  <2>1. LatestSlots(r) = {k}
    <3>1. k \in Slots
      BY <1>0, <1>1, <1>6 DEF Slots
    <3>2. ASSUME NEW n \in Slots PROVE IsLatestResult(r, n) <=> n = k
      <4>1. IsLatestResult(r, n) <=> n \in 1..k /\ \A m \in Slots : m \in 1..k => m <= n
        BY <1>2 DEF IsLatestResult
      <4>2. k \in Slots /\ k \in 1..k /\ n \in Nat /\ k \in Nat /\ \A m \in Slots : m \in Nat
        BY <1>1, <3>1 DEF Slots
      <4> QED BY <4>1, <4>2
    <3> QED BY <3>1, <3>2 DEF LatestSlots
  <2>2. (CHOOSE n \in LatestSlots(r) : TRUE) = k
    BY <2>1
  <2> QED BY <1>1, <1>4, <1>6, <2>1, <2>2 DEF latestOf, decisionOf, k
<1> QED BY <1>5, <1>6

\* Rows belong to admitted revisions, decisions to candidates, and a revision
\* that revise has checked keeps the result it found.
ContractInv ==
    /\ \A r \in Revisions : rows[r] # 0 => r <= admitted
    /\ \A a \in Attempts : verdict[a] # "none" => outcome[a] = "candidate"

ReplaceableResult(r) ==
    \E n \in Slots :
        /\ IsLatestResult(r, n)
        /\ \/ outcome[<<r, n>>] = "candidate" /\ verdict[<<r, n>>] = "rejected"
           \/ outcome[<<r, n>>] \in {"failed", "lost"}

RevisingOK == revising # 0 => ReplaceableResult(revising)

\* The tables keep their part.
LEMMA ContractInvStep == LifecycleInv /\ ContractInv /\ Write => ContractInv'
<1> SUFFICES ASSUME LifecycleInv, ContractInv, Write PROVE ContractInv'
  OBVIOUS
<1>0. TypeOK /\ TypeOK'
  BY WriteIsStoreStep, TypeStep DEF LifecycleInv, StoreInv
<1>1. ASSUME NEW r \in Revisions, RecordTask(r) PROVE ContractInv'
  BY <1>0, <1>1 DEF ContractInv, RecordTask, TypeOK, Revisions
<1>2. ASSUME NEW r \in Revisions, ClaimAttempt(r) PROVE ContractInv'
  BY <1>0, <1>2 DEF ContractInv, ClaimAttempt, ClaimAllowed, TypeOK
<1>3. ASSUME NEW a \in Attempts, NEW o \in Outcomes, NEW complete \in BOOLEAN,
             CommitTerminal(a, o, complete)
      PROVE  ContractInv'
  BY <1>0, <1>3 DEF ContractInv, CommitTerminal, TypeOK
<1>4. ASSUME NEW a \in Attempts, NEW v \in Verdicts, RecordDecision(a, v) PROVE ContractInv'
  BY <1>0, <1>4 DEF ContractInv, RecordDecision, TypeOK
<1>5. ASSUME UNCHANGED <<admitted, rows, outcome, verdict>> PROVE ContractInv'
  BY <1>5 DEF ContractInv
<1> QED BY <1>1, <1>2, <1>3, <1>4, <1>5
        DEF Write, CompareAndSetState, RecordLaunchIntent, RecordRunnerIdentity, Acknowledge,
            GrantPreSpawnRetry, RecordCancellationIntent, store

\* The contract's steps, in the owner's view of the tables.
LEMMA ContractUnfolded ==
  /\ Contract!Admit <=>
        /\ admitted < MaxRevisions
        /\ admitted > 0 => \/ latestOf[admitted] = "candidate" /\ decisionOf[admitted] = "rejected"
                           \/ latestOf[admitted] \in {"failed", "lost"}
        /\ admitted' = admitted + 1
        /\ UNCHANGED <<latestOf, resultsOf, decisionOf>>
  /\ \A r, o : Contract!Report(r, o) <=>
        /\ r <= admitted /\ resultsOf[r] < MaxAttempts /\ latestOf[r] \in {"none", "failed"}
        /\ latestOf' = [latestOf EXCEPT ![r] = o]
        /\ resultsOf' = [resultsOf EXCEPT ![r] = @ + 1]
        /\ UNCHANGED <<admitted, decisionOf>>
  /\ \A r, v : Contract!Decide(r, v) <=>
        /\ latestOf[r] = "candidate" /\ decisionOf[r] = "none"
        /\ decisionOf' = [decisionOf EXCEPT ![r] = v]
        /\ UNCHANGED <<admitted, latestOf, resultsOf>>
  /\ Contract!contract = <<admitted, latestOf, resultsOf, decisionOf>>
BY Zenon DEF Contract!Admit, Contract!Replaceable, Contract!Report, Contract!Decide, Contract!contract,
       latestOf, resultsOf, decisionOf

\* A result is reported once, of the row under way, and replaces at most a failure.
LEMMA CommitReports ==
  ASSUME LifecycleInv, LifecycleInv', ContractInv, NEW a \in Attempts, NEW o \in Outcomes,
         NEW complete \in BOOLEAN, CommitTerminal(a, o, complete)
  PROVE  Contract!Next
<1> DEFINE r == a[1]
           n == a[2]
<1>0. /\ r \in Revisions /\ n \in Slots /\ a = <<r, n>> /\ StoreInv /\ StoreInv' /\ TypeOK
      /\ \A q \in Revisions : rows[q] \in 0..MaxAttempts
      /\ \A q \in Revisions, m \in Slots : <<q, m>> \in Attempts
  BY AttemptPairs DEF LifecycleInv, StoreInv, TypeOK
<1>v. OwnersView /\ OwnersView'
  BY <1>0, OwnersViewHolds, PTL
<1> HIDE DEF r, n
<1>1. /\ outcome[a] = "none" /\ state[a] \in ActiveStates /\ outcome' = [outcome EXCEPT ![a] = o]
      /\ UNCHANGED <<admitted, rows, verdict>>
  BY DEF CommitTerminal
<1>2. n = rows[r]
  <2>1. ~(n > rows[r])
    BY <1>0, <1>1 DEF StoreInv, RowsAreDense, ActiveStates
  <2>2. ~(n < rows[r])
    <3> SUFFICES ASSUME n < rows[r] PROVE FALSE
      OBVIOUS
    <3>1. rows[r] \in Slots
      BY <1>0, BoundsAssumption DEF Slots
    <3>2. state[<<r, rows[r]>>] # "absent"
      BY <1>0, <3>1 DEF StoreInv, RowsAreDense, Slots
    <3> QED BY <1>0, <1>1, <3>1, <3>2 DEF StoreInv, RetryOnlyAfterGrant
  <2> QED BY <1>0, <2>1, <2>2 DEF Slots
<1>3. /\ Ended(r) = rows[r] - 1 /\ Ended(r)' = rows[r]
      /\ \A q \in Revisions : q # r => Ended(q)' = Ended(q)
  <2>1. rows[r] # 0 /\ ~HasResult(<<r, rows[r]>>)
    BY <1>0, <1>1, <1>2 DEF HasResult, Slots
  <2>2. rows'[r] = rows[r] /\ outcome'[<<r, rows[r]>>] # "none"
    BY <1>0, <1>1, <1>2 DEF TypeOK, Outcomes
  <2>3. ASSUME NEW q \in Revisions, q # r PROVE Ended(q)' = Ended(q)
    <3>1. rows'[q] = rows[q] /\ (rows[q] # 0 => outcome'[<<q, rows[q]>>] = outcome[<<q, rows[q]>>])
      <4>1. CASE rows[q] \in Slots
        BY <1>0, <1>1, <2>3, <4>1 DEF TypeOK
      <4>2. CASE rows[q] \notin Slots
        BY <1>0, <1>1, <4>2 DEF Slots
      <4> QED BY <4>1, <4>2
    <3> QED BY <3>1 DEF Ended, HasResult
  <2> QED BY <2>1, <2>2, <2>3 DEF Ended, HasResult
<1>4. /\ DOMAIN latestOf = Revisions /\ DOMAIN latestOf' = Revisions
      /\ DOMAIN resultsOf = Revisions /\ DOMAIN resultsOf' = Revisions
      /\ DOMAIN decisionOf = Revisions /\ DOMAIN decisionOf' = Revisions
      /\ latestOf = [q \in Revisions |-> latestOf[q]] /\ latestOf' = [q \in Revisions |-> latestOf'[q]]
      /\ resultsOf = [q \in Revisions |-> resultsOf[q]] /\ resultsOf' = [q \in Revisions |-> resultsOf'[q]]
      /\ decisionOf = [q \in Revisions |-> decisionOf[q]]
      /\ decisionOf' = [q \in Revisions |-> decisionOf'[q]]
  BY DEF latestOf, resultsOf, decisionOf
<1>5. ASSUME NEW q \in Revisions, q # r
      PROVE  latestOf'[q] = latestOf[q] /\ resultsOf'[q] = resultsOf[q] /\ decisionOf'[q] = decisionOf[q]
  <2>1. Ended(q)' = Ended(q) /\ Ended(q) \in 0..MaxAttempts
    BY <1>3, <1>5, <1>v DEF OwnersView
  <2>2. Ended(q) # 0 => outcome'[<<q, Ended(q)>>] = outcome[<<q, Ended(q)>>]
    <3>1. Ended(q) # 0 => <<q, Ended(q)>> \in Attempts /\ <<q, Ended(q)>> # a
      BY <1>0, <1>5, <2>1, BoundsAssumption DEF Slots
    <3> QED BY <1>0, <1>1, <3>1 DEF TypeOK
  <2> QED BY <1>1, <1>v, <2>1, <2>2 DEF OwnersView
<1>6. /\ latestOf'[r] = o /\ resultsOf'[r] = resultsOf[r] + 1 /\ decisionOf'[r] = decisionOf[r]
      /\ latestOf[r] \in {"none", "failed"} /\ resultsOf[r] < MaxAttempts /\ r <= admitted
  <2>1. rows[r] # 0 /\ rows[r] \in Nat /\ rows[r] <= MaxAttempts /\ MaxAttempts \in Nat
    BY <1>0, <1>2, BoundsAssumption DEF Slots
  <2>2. r <= admitted
    BY <1>0, <2>1 DEF ContractInv
  <2>3. outcome'[a] = o /\ verdict[a] = "none"
    BY <1>0, <1>1 DEF TypeOK, ContractInv
  <2>4. rows[r] - 1 # 0 => /\ outcome[<<r, rows[r] - 1>>] = "failed"
                           /\ verdict[<<r, rows[r] - 1>>] = "none"
    <3> SUFFICES ASSUME rows[r] - 1 # 0
                 PROVE  /\ outcome[<<r, rows[r] - 1>>] = "failed"
                        /\ verdict[<<r, rows[r] - 1>>] = "none"
      OBVIOUS
    <3>1. rows[r] - 1 \in Slots /\ rows[r] \in Slots /\ rows[r] - 1 < rows[r]
      BY <2>1 DEF Slots
    <3>2. state[<<r, rows[r]>>] # "absent"
      BY <1>0, <1>1, <1>2 DEF ActiveStates
    <3>3. outcome[<<r, rows[r] - 1>>] = "failed"
      BY <1>0, <3>1, <3>2 DEF StoreInv, RetryOnlyAfterGrant
    <3> QED BY <1>0, <3>1, <3>3 DEF ContractInv
  <2>5. resultsOf[r] = rows[r] - 1 /\ resultsOf'[r] = rows[r]
    BY <1>0, <1>3, <1>v DEF OwnersView
  <2>6. latestOf[r] \in {"none", "failed"} /\ decisionOf[r] = "none"
    BY <1>0, <1>3, <1>v, <2>4 DEF OwnersView
  <2>7. latestOf'[r] = o /\ decisionOf'[r] = "none"
    BY <1>0, <1>1, <1>2, <1>3, <1>v, <2>1, <2>3 DEF OwnersView
  <2> QED BY <2>1, <2>2, <2>5, <2>6, <2>7
<1>7. /\ latestOf' = [latestOf EXCEPT ![r] = o]
      /\ resultsOf' = [resultsOf EXCEPT ![r] = @ + 1]
      /\ decisionOf' = decisionOf
  <2>1. latestOf' = [latestOf EXCEPT ![r] = o]
    BY <1>0, <1>4, <1>5, <1>6
  <2>2. resultsOf' = [resultsOf EXCEPT ![r] = @ + 1]
    BY <1>0, <1>4, <1>5, <1>6
  <2>3. decisionOf' = decisionOf
    <3>1. \A q \in Revisions : decisionOf'[q] = decisionOf[q]
      BY <1>5, <1>6
    <3> QED BY <1>4, <3>1
  <2> QED BY <2>1, <2>2, <2>3
<1>8. Contract!Report(r, o)
  BY <1>1, <1>6, <1>7, ContractUnfolded
<1> QED BY <1>0, <1>8 DEF Contract!Next, Contract!Revisions, Contract!Outcomes, Revisions, Outcomes

\* A decision is on the latest result, whichever attempt it names.
LEMMA DecisionDecides ==
  ASSUME LifecycleInv, LifecycleInv', NEW a \in Attempts, NEW v \in Verdicts, RecordDecision(a, v)
  PROVE  Contract!Next
<1> DEFINE r == a[1]
           n == a[2]
<1>0. /\ r \in Revisions /\ n \in Slots /\ a = <<r, n>> /\ StoreInv /\ StoreInv' /\ TypeOK
      /\ \A q \in Revisions : rows[q] \in 0..MaxAttempts
      /\ \A q \in Revisions, m \in Slots : <<q, m>> \in Attempts
  BY AttemptPairs DEF LifecycleInv, StoreInv, TypeOK
<1>v. OwnersView /\ OwnersView'
  BY <1>0, OwnersViewHolds, PTL
<1> HIDE DEF r, n
<1>1. /\ outcome[a] = "candidate" /\ verdict[a] = "none" /\ verdict' = [verdict EXCEPT ![a] = v]
      /\ UNCHANGED <<admitted, rows, outcome>>
  BY DEF RecordDecision
<1>2. n = rows[r]
  <2>1. ~(n > rows[r])
    <3>1. state[a] # "absent"
      BY <1>0, <1>1 DEF StoreInv, TerminalHasResult, HasResult
    <3> QED BY <1>0, <3>1 DEF StoreInv, RowsAreDense
  <2>2. ~(n < rows[r])
    <3> SUFFICES ASSUME n < rows[r] PROVE FALSE
      OBVIOUS
    <3>1. rows[r] \in Slots
      BY <1>0, BoundsAssumption DEF Slots
    <3>2. state[<<r, rows[r]>>] # "absent"
      BY <1>0, <3>1 DEF StoreInv, RowsAreDense, Slots
    <3> QED BY <1>0, <1>1, <3>1, <3>2 DEF StoreInv, RetryOnlyAfterGrant
  <2> QED BY <1>0, <2>1, <2>2 DEF Slots
<1>3. /\ Ended(r) = n /\ n # 0 /\ \A q \in Revisions : Ended(q)' = Ended(q)
  <2>1. rows[r] # 0 /\ HasResult(<<r, rows[r]>>)
    BY <1>0, <1>1, <1>2 DEF HasResult, Slots
  <2> QED BY <1>1, <1>2, <2>1 DEF Ended, HasResult
<1>4. /\ decisionOf = [q \in Revisions |-> decisionOf[q]]
      /\ decisionOf' = [q \in Revisions |-> decisionOf'[q]]
      /\ latestOf' = latestOf /\ resultsOf' = resultsOf
  BY <1>1 DEF latestOf, resultsOf, decisionOf, LatestSlots, IsLatestResult, HasResult
<1>5. latestOf[r] = "candidate" /\ decisionOf[r] = "none" /\ decisionOf'[r] = v
  <2>1. verdict'[a] = v
    BY <1>0, <1>1 DEF TypeOK
  <2> QED BY <1>0, <1>1, <1>3, <1>v, <2>1 DEF OwnersView
<1>6. ASSUME NEW q \in Revisions, q # r PROVE decisionOf'[q] = decisionOf[q]
  <2>1. Ended(q) \in 0..MaxAttempts
    BY <1>v DEF OwnersView
  <2>2. Ended(q) # 0 => verdict'[<<q, Ended(q)>>] = verdict[<<q, Ended(q)>>]
    <3>1. Ended(q) # 0 => <<q, Ended(q)>> \in Attempts /\ <<q, Ended(q)>> # a
      BY <1>0, <1>6, <2>1, BoundsAssumption DEF Slots
    <3> QED BY <1>0, <1>1, <3>1 DEF TypeOK
  <2> QED BY <1>3, <1>v, <2>2 DEF OwnersView
<1>7. decisionOf' = [decisionOf EXCEPT ![r] = v]
  BY <1>0, <1>4, <1>5, <1>6
<1>8. Contract!Decide(r, v)
  BY <1>1, <1>4, <1>5, <1>7, ContractUnfolded
<1> QED BY <1>0, <1>8 DEF Contract!Next, Contract!Revisions, Revisions, Verdicts

\* Steps that touch neither results nor decisions nor the latest revision.
LEMMA ContractStutters ==
  ASSUME UNCHANGED <<admitted, outcome, verdict>>
  PROVE  UNCHANGED Contract!contract
BY DEF Contract!contract, LatestSlots, IsLatestResult, HasResult

\* An admission is the contract's, if what it replaces may be replaced.
LEMMA AdmissionAdmits ==
  ASSUME LifecycleInv, NEW r \in Revisions, RecordTask(r), r = 1 \/ ReplaceableResult(r - 1)
  PROVE  Contract!Next
<1>0. /\ StoreInv /\ admitted \in Nat /\ r = admitted + 1 /\ admitted' = r /\ r \in Nat /\ r <= MaxRevisions
      /\ MaxRevisions \in Nat
  BY BoundsAssumption DEF LifecycleInv, StoreInv, TypeOK, RecordTask, Revisions
<1>1. UNCHANGED <<latestOf, resultsOf, decisionOf>>
  BY DEF RecordTask, latestOf, resultsOf, decisionOf, LatestSlots, IsLatestResult, HasResult
<1>2. ASSUME admitted > 0
      PROVE  \/ latestOf[admitted] = "candidate" /\ decisionOf[admitted] = "rejected"
             \/ latestOf[admitted] \in {"failed", "lost"}
  <2>1. admitted \in Revisions /\ r - 1 = admitted /\ ReplaceableResult(admitted)
    BY <1>0, <1>2 DEF Revisions
  <2>2. PICK n \in Slots :
          /\ IsLatestResult(admitted, n)
          /\ \/ outcome[<<admitted, n>>] = "candidate" /\ verdict[<<admitted, n>>] = "rejected"
             \/ outcome[<<admitted, n>>] \in {"failed", "lost"}
    BY <2>1 DEF ReplaceableResult
  <2>3. LatestSlots(admitted) = {n}
    <3>1. ASSUME NEW m \in Slots, IsLatestResult(admitted, m) PROVE m = n
      <4>1. m <= n /\ n <= m
        BY <2>2, <3>1 DEF IsLatestResult
      <4> QED BY <4>1 DEF Slots
    <3> QED BY <2>2, <3>1 DEF LatestSlots
  <2>4. (CHOOSE m \in LatestSlots(admitted) : TRUE) = n
    BY <2>3
  <2>5. latestOf[admitted] = outcome[<<admitted, n>>] /\ decisionOf[admitted] = verdict[<<admitted, n>>]
    BY <2>1, <2>3, <2>4 DEF latestOf, decisionOf
  <2> QED BY <2>2, <2>5
<1>3. Contract!Admit
  BY <1>0, <1>1, <1>2, ContractUnfolded
<1> QED BY <1>3 DEF Contract!Next

\* Supervisors, reconcilers and all the owner's commands but revise take the
\* contract's steps, for any number of revisions and attempts.
LEMMA ContractStep ==
  ASSUME LifecycleInv, LifecycleInv', ContractInv, [LifecycleNext]_vars
  PROVE  Revise \/ Contract!Next \/ UNCHANGED Contract!contract
<1>1. CASE AdmitFirst
  <2>1. RecordTask(1) /\ 1 \in Revisions
    BY <1>1, BoundsAssumption DEF AdmitFirst, Revisions
  <2> QED BY <2>1, AdmissionAdmits
<1>2. CASE Owner /\ ~AdmitFirst /\ ~Revise
  <2>1. \/ UNCHANGED <<admitted, outcome, verdict>>
        \/ \E a \in Attempts, v \in Verdicts : RecordDecision(a, v)
    BY <1>2 DEF Owner, CheckRevise, RequestCancel, CheckNeedsCancel, WriteMarker, Ack, Decide,
                RecordCancellationIntent, Acknowledge, store
  <2> QED BY <2>1, DecisionDecides, ContractStutters
<1>3. ASSUME Write, ~Owner, ~(\E r \in Revisions : RecordTask(r))
      PROVE  Contract!Next \/ UNCHANGED Contract!contract
  <2>1. \/ UNCHANGED <<admitted, outcome, verdict>>
        \/ \E a \in Attempts, o \in Outcomes, complete \in BOOLEAN : CommitTerminal(a, o, complete)
        \/ \E a \in Attempts, v \in Verdicts : RecordDecision(a, v)
    BY <1>3 DEF Write, ClaimAttempt, CompareAndSetState, RecordLaunchIntent, RecordRunnerIdentity, Acknowledge,
                GrantPreSpawnRetry, RecordCancellationIntent, store
  <2> QED BY <2>1, CommitReports, DecisionDecides, ContractStutters
<1>4. CASE ~Owner
  <2>1. admitted' = admitted
    <3>1. CASE UNCHANGED vars
      BY <3>1 DEF vars, store
    <3>2. ASSUME NEW p \in Reconcilers, ReconcilerStep(p) \/ CrashReconciler(p) PROVE admitted' = admitted
      BY <3>2, ReconcilerProgram DEF Looks, Rests, ClaimAttempt, store
    <3> QED BY <1>4, <3>1, <3>2, SupervisorProgram, AdmittedKept DEF LifecycleNext
  <2>2. ~(\E r \in Revisions : RecordTask(r))
    BY <2>1 DEF RecordTask, LifecycleInv, StoreInv, TypeOK
  <2> QED BY <1>3, <1>4, <2>2, EveryStepWrites
<1> QED BY <1>1, <1>2, <1>4 DEF Owner

\* A run of the first revision that is reaped as cancelled was listed before
\* any attempt of it was claimed: its supervisor, if it has one, sees the same
\* cancellation before it spawns, so it never fails in a way that is retried.
Reaps(p) == rec[p].pc \in {"stale", "reap_claimed", "reap_marked"}
NoRetryAhead ==
    /\ sup[1].pc \notin {"launched", "identified", "running", "spawned", "waiting", "executed",
                         "collecting", "committed"}
    /\ sup[1].pc = "sealed" => ~sup[1].retry
CancelStops ==
    /\ intent <= admitted
    /\ revising # 0 => revising = admitted
    /\ \A p \in Reconcilers : Reaps(p) => rec[p].run[1] <= admitted
    /\ \A p \in Reconcilers : admitted = 1 /\ Reaps(p) /\ rec[p].end = "cancelled" =>
          /\ intent = 1 /\ NoRetryAhead
          /\ \A n \in Slots : <<1, n>> \notin granted

LEMMA CancelStopsStep ==
  ASSUME LifecycleInv, CancelInv, \A r \in Revisions : Place(r), CancelStops, [LifecycleNext]_vars
  PROVE  CancelStops'
<1>0. /\ Write /\ 1 \in Revisions /\ admitted \in Nat /\ intent \in Nat
      /\ \A p \in Reconcilers : Reaps(p) => rec[p].run[1] \in Revisions
  <2>1. \A p \in Reconcilers : Reaps(p) => rec[p].run[1] \in Revisions
    BY AttemptPairs DEF LifecycleInv, RecOK, Reaps
  <2> QED BY <2>1, EveryStepWrites, BoundsAssumption DEF LifecycleInv, StoreInv, TypeOK, Revisions
\* An attempt is granted only by the supervisor that committed its failure.
<1>g. ASSUME NEW n \in Slots, <<1, n>> \notin granted, sup[1].pc # "committed"
      PROVE  <<1, n>> \notin granted'
  <2>1. ASSUME NEW r \in Revisions, sup[r].pc = "committed", GrantPreSpawnRetry(Current(r))
        PROVE  <<1, n>> \notin granted'
    BY <1>g, <2>1 DEF GrantPreSpawnRetry, Current
  <2>2. CASE granted' = granted
    BY <1>g, <2>2
  <2> QED BY <1>0, <2>1, <2>2
    DEF Write, RecordTask, ClaimAttempt, CompareAndSetState, RecordLaunchIntent, RecordRunnerIdentity,
        CommitTerminal, Acknowledge, RecordDecision, RecordCancellationIntent, store
<1>i. ASSUME admitted' = admitted PROVE intent' \in {intent, admitted}
  BY <1>0, <1>i
  DEF Write, RecordTask, ClaimAttempt, CompareAndSetState, RecordLaunchIntent, RecordRunnerIdentity,
      CommitTerminal, Acknowledge, RecordDecision, GrantPreSpawnRetry, RecordCancellationIntent, store
<1>1. CASE Owner
  <2>1. CASE AdmitFirst
    <3>1. admitted = 0 /\ admitted' = 1 /\ UNCHANGED <<intent, rec, revising>>
      BY <1>0, <2>1 DEF AdmitFirst, RecordTask, procs
    <3>2. \A p \in Reconcilers : ~Reaps(p)
      BY <1>0, <3>1 DEF CancelStops, Revisions
    <3> QED BY <1>0, <3>1, <3>2 DEF CancelStops, Reaps, NoRetryAhead
  <2>2. CASE Revise
    <3>1. /\ admitted' = admitted + 1 /\ revising = admitted /\ revising # 0 /\ revising' = 0
          /\ UNCHANGED <<intent, rec>>
      BY <2>2 DEF Revise, RecordTask, CancelStops
    <3>2. admitted' # 1
      BY <1>0, <3>1
    <3>3. ASSUME NEW p \in Reconcilers, Reaps(p)' PROVE rec'[p].run[1] <= admitted'
      BY <1>0, <3>1, <3>3 DEF CancelStops, Reaps, Revisions
    <3> QED BY <1>0, <3>1, <3>2, <3>3 DEF CancelStops
  <2>3. CASE CheckRevise
    BY <1>0, <2>3 DEF CheckRevise, CancelStops, NoRetryAhead, Reaps, Revisions, store
  <2>4. CASE RequestCancel \/ CheckNeedsCancel \/ WriteMarker \/ Ack \/ Decide
    <3>1. UNCHANGED <<admitted, granted, sup, rec, revising>>
      BY <2>4 DEF RequestCancel, RecordCancellationIntent, CheckNeedsCancel, WriteMarker, Ack, Acknowledge,
                  Decide, RecordDecision, store, procs
    <3> QED BY <1>0, <1>i, <3>1 DEF CancelStops, Reaps, NoRetryAhead
  <2> QED BY <1>1, <2>1, <2>2, <2>3, <2>4 DEF Owner
<1>2. ASSUME NEW r \in Revisions,
             SpawnSupervisor(r) \/ SupervisorStep(r) \/ CrashSupervisor(r) \/ OrphanEnds(r)
      PROVE  CancelStops'
  <2>1. /\ ProgramStep(r) /\ UNCHANGED <<rec, revising>>
        /\ \A q \in Revisions : q # r => sup'[q] = sup[q]
    BY <1>2, SupervisorProgram
  <2>2. admitted' = admitted
    BY <2>1 DEF ProgramStep, Starts, Claims, Works, WorkerStarts, RecordsPid, WorkerStops, Commits, Grants,
                Stops, Bystands, ClaimAttempt, store
  <2>3. ASSUME NEW p \in Reconcilers, admitted = 1, Reaps(p), rec[p].end = "cancelled"
        PROVE  /\ intent' = 1 /\ NoRetryAhead'
               /\ \A n \in Slots : <<1, n>> \notin granted'
    <3>1. /\ intent = 1 /\ CancelSeen /\ NoRetryAhead /\ sup[1].pc # "committed"
          /\ \A n \in Slots : <<1, n>> \notin granted
      BY <2>3 DEF CancelStops, CancelSeen, CancellationRequested, NoRetryAhead
    <3>2. CASE r # 1
      BY <1>0, <1>g, <1>i, <2>1, <2>2, <2>3, <3>1, <3>2 DEF NoRetryAhead
    <3>3. CASE r = 1
      <4>1. sup[1].pc \in {"claimed", "started"} => ~sup[1].retry
        BY <1>0, PlacesApart DEF Place
      <4>2. Works(1) => NoRetryAhead'
        BY <3>1, <4>1 DEF NoRetryAhead, Works, Moves, Remembers
      <4>3. Starts(1) \/ Claims(1) \/ WorkerStarts(1) \/ RecordsPid(1) \/ WorkerStops(1) => NoRetryAhead'
        BY <3>1 DEF NoRetryAhead, Starts, Claims, WorkerStarts, RecordsPid, WorkerStops, Moves
      <4>4. Commits(1) \/ Grants(1) => NoRetryAhead'
        BY <3>1 DEF NoRetryAhead, Commits, Grants, Moves
      <4>5. Stops(1) \/ Bystands(1) => NoRetryAhead'
        BY <3>1 DEF NoRetryAhead, Stops, Bystands, Moves, Remembers
      <4>6. NoRetryAhead'
        BY <2>1, <3>3, <4>2, <4>3, <4>4, <4>5 DEF ProgramStep
      <4> QED BY <1>g, <1>i, <2>2, <2>3, <3>1, <4>6
    <3> QED BY <3>2, <3>3
  <2> QED BY <1>0, <1>i, <2>1, <2>2, <2>3 DEF CancelStops, Reaps, NoRetryAhead
<1>3. ASSUME NEW p \in Reconcilers, ReconcilerStep(p) \/ CrashReconciler(p)
      PROVE  CancelStops'
  <2>1. /\ Looks(p) \/ Rests(p)
        /\ \A q \in Reconcilers : q # p => rec'[q] = rec[q]
        /\ UNCHANGED <<sup, revising>>
    BY <1>3, ReconcilerProgram
  <2>2. UNCHANGED <<admitted, granted>>
    BY <2>1 DEF Looks, Rests, ClaimAttempt, store
  <2>3. CASE ~Reaps(p)'
    BY <1>0, <1>i, <2>1, <2>2, <2>3 DEF CancelStops, Reaps, NoRetryAhead
  <2>4. CASE Reaps(p)' /\ Reaps(p)
    <3>1. rec'[p].run[1] = rec[p].run[1] /\ rec'[p].end = rec[p].end
      BY <2>1, <2>4 DEF Looks, Rests, RecMoves, Reaps, NextAttempt, IdleReconciler
    <3> QED BY <1>0, <1>i, <2>1, <2>2, <2>4, <3>1 DEF CancelStops, Reaps, NoRetryAhead
  <2>5. CASE Reaps(p)' /\ ~Reaps(p)
    <3>1. /\ rec'[p].end = (IF CancelSeen THEN "cancelled" ELSE "lost")
          /\ rec'[p].run[1] \in 1..admitted /\ rows[rec'[p].run[1]] = 0
      BY <2>1, <2>5 DEF Looks, Rests, RecMoves, Reaps, IdleReconciler
    <3>2. ASSUME admitted = 1, rec'[p].end = "cancelled"
          PROVE  /\ intent' = 1 /\ NoRetryAhead
                 /\ \A n \in Slots : <<1, n>> \notin granted
      <4>1. rows[1] = 0
        BY <3>1, <3>2
      <4>2. intent = 1
        BY <1>0, <3>1, <3>2 DEF CancelSeen, CancellationRequested, CancelInv, CancelStops
      <4>3. sup[1].pc \notin Holding \cup {"committed"}
        BY <1>0, <4>1 DEF LifecycleInv, SupOK, Slots
      <4>4. ASSUME NEW n \in Slots PROVE <<1, n>> \notin granted
        BY <1>0, <4>1, AttemptPairs
        DEF LifecycleInv, StoreInv, GrantsAreFailures, RowsAreDense, TerminalHasResult, HasResult, TypeOK,
            Slots, ActiveStates
      <4> QED BY <1>i, <2>2, <3>2, <4>2, <4>3, <4>4, PlacesApart DEF NoRetryAhead
    <3> QED BY <1>0, <1>i, <2>1, <2>2, <3>1, <3>2 DEF CancelStops, Reaps, NoRetryAhead
  <2> QED BY <2>3, <2>4, <2>5
<1>4. CASE UNCHANGED vars
  BY <1>4 DEF CancelStops, Reaps, NoRetryAhead, vars, store, files, procs
<1> QED BY <1>1, <1>2, <1>3, <1>4 DEF LifecycleNext

\* revise itself finds a result to replace.
LEMMA ReviseChecks ==
  ASSUME LifecycleInv, [LifecycleNext]_vars
  PROVE  \/ revising' \in {0, revising}
         \/ /\ revising' = admitted /\ admitted \in Revisions /\ ReplaceableResult(admitted)
            /\ UNCHANGED <<outcome, verdict>>
<1>1. CASE CheckRevise
  BY <1>1 DEF CheckRevise, Revisable, ReplaceableResult, store
<1>2. CASE Owner
  BY <1>1, <1>2 DEF Owner, AdmitFirst, Revise, RequestCancel, CheckNeedsCancel, WriteMarker, Ack, Decide, procs
<1>3. CASE UNCHANGED vars
  BY <1>3 DEF vars, procs
<1> QED BY <1>2, <1>3, SupervisorProgram, ReconcilerProgram DEF LifecycleNext

\* The first of two revisions ends no attempt, while revise replaces it, in a
\* way that revise would not have accepted.
LEMMA EndsReplaceably ==
  ASSUME MaxRevisions = 2, LifecycleInv, RecoveryInv({1}), CancelStops, [LifecycleNext]_vars,
         revising = 1, NEW a \in Attempts, a[1] = 1, outcome[a] = "none", outcome'[a] # "none",
         NEW m \in Slots, <<1, m>> \in granted
  PROVE  outcome'[a] \in {"failed", "lost"}
<1>0. outcome \in [Attempts -> Outcomes \cup {"none"}] /\ 1 \in Revisions /\ admitted = 1
  BY BoundsAssumption DEF LifecycleInv, StoreInv, TypeOK, Revisions, CancelStops
<1>1. CASE Owner \/ UNCHANGED vars
  BY <1>1 DEF Owner, AdmitFirst, CheckRevise, Revise, RequestCancel, CheckNeedsCancel, WriteMarker, Ack, Decide,
              RecordTask, RecordCancellationIntent, Acknowledge, RecordDecision, vars, store
<1>2. ASSUME NEW r \in Revisions,
             SpawnSupervisor(r) \/ SupervisorStep(r) \/ CrashSupervisor(r) \/ OrphanEnds(r)
      PROVE  outcome'[a] \in {"failed", "lost"}
  <2>1. ProgramStep(r) /\ SupOK(r) /\ Place(r)
    BY <1>2, SupervisorProgram DEF LifecycleInv, RecoveryInv
  <2>2. CASE Starts(r)
    BY <1>0, <2>2 DEF Starts
  <2>3. CASE Commits(r)
    <3>1. r # 1 /\ Current(r)[1] # a[1]
      BY <1>0, <2>1, <2>3, PlacesApart DEF Commits, Moves, Place, Replaced, Current
    <3>2. Current(r) # a
      BY <3>1
    <3> QED BY <1>0, <2>3, <3>2 DEF Commits
  <2> QED BY <2>1, <2>2, <2>3
          DEF ProgramStep, Claims, Works, WorkerStarts, RecordsPid, WorkerStops, Grants, Stops, Bystands,
              ClaimAttempt, store
<1>3. ASSUME NEW p \in Reconcilers, ReconcilerStep(p) \/ CrashReconciler(p)
      PROVE  outcome'[a] \in {"failed", "lost"}
  <2>1. (Looks(p) \/ Rests(p)) /\ RecOK(p)
    BY <1>3, ReconcilerProgram DEF LifecycleInv
  <2>2. CASE Looks(p)
    BY <2>2 DEF Looks, ClaimAttempt, store
  <2>3. CASE Rests(p)
    <3>1. CASE rec[p].pc = "judged" /\ outcome' = [outcome EXCEPT ![rec[p].run] = "lost"]
      BY <1>0, <3>1
    <3>2. CASE rec[p].pc = "reap_marked" /\ outcome' = [outcome EXCEPT ![rec[p].run] = rec[p].end]
      <4>1. rec[p].run = a /\ outcome'[a] = rec[p].end
        BY <1>0, <3>2
      <4>2. rec[p].end # "cancelled"
        BY <1>0, <3>2 DEF CancelStops, Reaps
      <4> QED BY <2>1, <3>2, <4>1, <4>2 DEF RecOK
    <3> QED BY <2>3, <3>1, <3>2 DEF Rests
  <2> QED BY <2>1, <2>2, <2>3
<1> QED BY <1>1, <1>2, <1>3 DEF LifecycleNext

\* So a result that revise may replace is followed at most by such a result.
LEMMA ReplaceableKept ==
  ASSUME MaxRevisions = 2, LifecycleInv, LifecycleInv', RecoveryInv({1}), CancelStops, [LifecycleNext]_vars,
         revising = 1, ReplaceableResult(1)
  PROVE  ReplaceableResult(1)'
<1>0. /\ Write /\ TypeOK /\ StoreInv /\ 1 \in Revisions
      /\ \A n \in Slots : <<1, n>> \in Attempts
      /\ \A n \in Slots : n \in Nat
  BY EveryStepWrites, AttemptPairs, BoundsAssumption DEF LifecycleInv, StoreInv, Revisions, Slots
<1>1. PICK n \in Slots :
        /\ IsLatestResult(1, n)
        /\ \/ outcome[<<1, n>>] = "candidate" /\ verdict[<<1, n>>] = "rejected"
           \/ outcome[<<1, n>>] \in {"failed", "lost"}
  BY DEF ReplaceableResult
<1>2. /\ outcome'[<<1, n>>] = outcome[<<1, n>>]
      /\ verdict[<<1, n>>] # "none" => verdict'[<<1, n>>] = verdict[<<1, n>>]
  <2>1. outcome'[<<1, n>>] = outcome[<<1, n>>]
    BY <1>0, <1>1, ResultsKept DEF IsLatestResult, HasResult
  <2> QED BY <1>0, <2>1
          DEF Write, RecordTask, ClaimAttempt, CompareAndSetState, RecordLaunchIntent,
              RecordRunnerIdentity, CommitTerminal, Acknowledge, RecordDecision,
              GrantPreSpawnRetry, RecordCancellationIntent, store, TypeOK
<1>3. CASE \A m \in Slots : outcome'[<<1, m>>] # "none" => outcome[<<1, m>>] # "none"
  BY <1>1, <1>2, <1>3 DEF ReplaceableResult, IsLatestResult, HasResult
<1>4. ASSUME NEW m \in Slots, outcome'[<<1, m>>] # "none", outcome[<<1, m>>] = "none"
      PROVE  ReplaceableResult(1)'
  <2>1. PICK a \in Attempts, o \in Outcomes, complete \in BOOLEAN : CommitTerminal(a, o, complete)
    BY <1>0, <1>4
    DEF Write, RecordTask, ClaimAttempt, CompareAndSetState, RecordLaunchIntent, RecordRunnerIdentity,
        Acknowledge, RecordDecision, GrantPreSpawnRetry, RecordCancellationIntent, store
  <2>2. a = <<1, m>> /\ state[a] \in ActiveStates /\ outcome' = [outcome EXCEPT ![a] = o]
    BY <1>0, <1>4, <2>1 DEF CommitTerminal, TypeOK
  <2>3. state[<<1, n>>] # "absent" /\ state[<<1, m>>] # "absent"
    BY <1>0, <1>1, <2>2 DEF StoreInv, TerminalHasResult, IsLatestResult, HasResult, ActiveStates
  <2>4. n < m /\ <<1, n>> \in granted
    <3>1. ~(m < n)
      BY <1>0, <1>4, <2>3 DEF StoreInv, RetryOnlyAfterGrant
    <3>2. m # n
      BY <1>1, <1>4 DEF IsLatestResult, HasResult
    <3>3. n < m
      BY <1>0, <3>1, <3>2
    <3> QED BY <1>0, <2>3, <3>3 DEF StoreInv, RetryOnlyAfterGrant
  <2>5. outcome'[<<1, m>>] \in {"failed", "lost"}
    BY <1>0, <1>4, <2>4, EndsReplaceably
  <2>6. \A k \in Slots : outcome'[<<1, k>>] # "none" => k <= m
    BY <1>0, <1>1, <2>2, <2>4 DEF IsLatestResult, HasResult, TypeOK
  <2> QED BY <2>5, <2>6 DEF ReplaceableResult, IsLatestResult, HasResult
<1> QED BY <1>3, <1>4

\* What revise has checked still holds when it admits, if a revision has one
\* attempt only, for its result is its last word, or a task two revisions.
LEMMA RevisingStep ==
  ASSUME \/ MaxAttempts = 1 \/ MaxRevisions = 1
         \/ MaxRevisions = 2 /\ RecoveryInv({1}) /\ CancelStops,
         LifecycleInv, LifecycleInv', RevisingOK, [LifecycleNext]_vars
  PROVE  RevisingOK'
<1>0. revising \in 0..(MaxRevisions - 1)
  BY DEF LifecycleInv, LifecycleTypeOK
<1>1. CASE MaxRevisions = 1
  BY <1>1 DEF LifecycleInv, LifecycleTypeOK, RevisingOK
<1>2. ASSUME \A r \in Revisions : revising = r /\ ReplaceableResult(r) => ReplaceableResult(r)'
      PROVE  RevisingOK'
  <2>1. CASE revising' = 0
    BY <2>1 DEF RevisingOK
  <2>2. CASE revising' = revising
    <3>1. revising # 0 => revising \in Revisions /\ ReplaceableResult(revising)
      BY <1>0, BoundsAssumption DEF RevisingOK, Revisions
    <3>2. revising # 0 => ReplaceableResult(revising)'
      BY <1>2, <2>2, <3>1 DEF ReplaceableResult, IsLatestResult, HasResult
    <3> QED BY <2>2, <3>2 DEF RevisingOK
  <2>3. CASE /\ revising' = admitted /\ admitted \in Revisions /\ ReplaceableResult(admitted)
             /\ UNCHANGED <<outcome, verdict>>
    BY <2>3 DEF RevisingOK, ReplaceableResult, IsLatestResult, HasResult
  <2> QED BY <2>1, <2>2, <2>3, ReviseChecks
<1>3. CASE MaxAttempts = 1
  <2>0. /\ Slots = {1} /\ Write /\ TypeOK
        /\ \A a \in Attempts : outcome[a] # "none" => outcome'[a] = outcome[a]
    BY <1>3, EveryStepWrites, ResultsKept DEF Slots, LifecycleInv, StoreInv
  <2>1. \A a \in Attempts : verdict[a] # "none" => verdict'[a] = verdict[a]
    BY <2>0 DEF Write, RecordTask, ClaimAttempt, CompareAndSetState, RecordLaunchIntent,
                RecordRunnerIdentity, CommitTerminal, Acknowledge, RecordDecision,
                GrantPreSpawnRetry, RecordCancellationIntent, store, TypeOK
  <2>2. ASSUME NEW r \in Revisions, ReplaceableResult(r) PROVE ReplaceableResult(r)'
    <3>1. <<r, 1>> \in Attempts
      BY <2>0, AttemptPairs
    <3> QED BY <2>0, <2>1, <2>2, <3>1 DEF ReplaceableResult, IsLatestResult, HasResult
  <2> QED BY <1>2, <2>2
<1>4. CASE MaxRevisions = 2 /\ RecoveryInv({1}) /\ CancelStops
  <2>1. revising \in {0, 1} /\ 0 \notin Revisions
    BY <1>0, <1>4 DEF Revisions
  <2> QED BY <1>2, <1>4, <2>1, ReplaceableKept
<1> QED BY <1>1, <1>3, <1>4

LEMMA ContractInvariant == LifecycleSpec => []ContractInv
<1>1. LifecycleInit => ContractInv
  BY DEF LifecycleInit, Init, ContractInv
<1>2. LifecycleInv /\ ContractInv /\ [LifecycleNext]_vars => ContractInv'
  BY EveryStepWrites, ContractInvStep
<1> QED BY <1>1, <1>2, LifecycleInvariant, PTL DEF LifecycleSpec

LEMMA ContractBegins == LifecycleInit => Contract!Init
<1> SUFFICES ASSUME LifecycleInit PROVE Contract!Init
  OBVIOUS
<1>1. admitted = 0 /\ \A r \in Revisions : LatestSlots(r) = {} /\ {n \in Slots : HasResult(<<r, n>>)} = {}
  BY AttemptPairs DEF LifecycleInit, Init, LatestSlots, IsLatestResult, HasResult
<1>2. Cardinality({}) = 0
  BY FS_EmptySet
<1> QED BY <1>1, <1>2 DEF Contract!Init, Contract!Revisions, Revisions

\* Whatever the bounds, everything but revise takes only steps of the promise
\* made to the owner in ManagedRun: results are reported within the budget and
\* after a failure at most, and a candidate is decided once.
THEOREM OthersKeepContract ==
  LifecycleSpec => Contract!Init /\ [][Contract!Next \/ Revise]_(Contract!contract)
<1>1. LifecycleInv /\ LifecycleInv' /\ ContractInv /\ [LifecycleNext]_vars
        => [Contract!Next \/ Revise]_(Contract!contract)
  BY ContractStep
<1> QED BY <1>1, ContractBegins, ContractInvariant, LifecycleInvariant, PTL DEF LifecycleSpec

\* Supervisors, reconcilers and the owner together implement ManagedRun, for any
\* number of revisions of one attempt each, and for a task revised at most once
\* with any number of attempts: revise admits long after it has checked, but
\* what it has checked cannot change.
THEOREM KeepsContractHolds ==
  ASSUME MaxAttempts = 1 \/ MaxRevisions \in {1, 2}
  PROVE  LifecycleSpec => KeepsContract
<1> DEFINE TwoInv == MaxRevisions = 2 => RecoveryInv({1}) /\ CancelInv /\ CancelStops
<1>1. LifecycleInit => RevisingOK /\ TwoInv
  <2> SUFFICES ASSUME LifecycleInit PROVE RevisingOK /\ TwoInv
    OBVIOUS
  <2>1. RevisingOK /\ CancelInv /\ CancelStops
    BY DEF LifecycleInit, Init, RevisingOK, CancelInv, CancelStops, Reaps, NewSupervisor, IdleReconciler
  <2>2. MaxRevisions = 2 => RecoveryInv({1})
    BY RecoveryInit DEF Revisions
  <2> QED BY <2>1, <2>2
<1>2. LifecycleInv /\ LifecycleInv' /\ RevisingOK /\ TwoInv /\ [LifecycleNext]_vars => RevisingOK' /\ TwoInv'
  <2> SUFFICES ASSUME LifecycleInv, LifecycleInv', RevisingOK, TwoInv, [LifecycleNext]_vars
               PROVE  RevisingOK' /\ TwoInv'
    OBVIOUS
  <2>1. RevisingOK'
    BY RevisingStep
  <2>2. ASSUME MaxRevisions = 2 PROVE RecoveryInv({1})' /\ CancelInv' /\ CancelStops'
    <3>1. /\ {1} \in SUBSET Revisions /\ \A r \in Revisions : r < MaxRevisions => r \in {1}
          /\ \A q \in {1} : q < MaxRevisions /\ MaxRevisions = 2
      BY <2>2 DEF Revisions
    <3>2. RecoveryInv({1})'
      BY <2>2, <3>1, RecoveryStep
    <3>3. CancelStops'
      BY <2>2, CancelStopsStep DEF RecoveryInv
    <3> QED BY <2>2, <3>2, <3>3, CancelStep
  <2> QED BY <2>1, <2>2
<1> HIDE DEF TwoInv
<1>3. LifecycleInv /\ LifecycleInv' /\ ContractInv /\ RevisingOK /\ [LifecycleNext]_vars
        => [Contract!Next]_(Contract!contract)
  <2> SUFFICES ASSUME LifecycleInv, LifecycleInv', ContractInv, RevisingOK, [LifecycleNext]_vars
               PROVE  [Contract!Next]_(Contract!contract)
    OBVIOUS
  <2>1. CASE Revise
    <3>1. /\ RecordTask(revising + 1) /\ ReplaceableResult(revising) /\ revising \in 0..(MaxRevisions - 1)
      BY <2>1 DEF Revise, RevisingOK, LifecycleInv, LifecycleTypeOK
    <3>2. revising + 1 \in Revisions /\ (revising + 1) - 1 = revising
      BY <3>1, BoundsAssumption DEF Revisions
    <3>3. Contract!Next
      BY <3>1, <3>2, AdmissionAdmits
    <3> QED BY <3>3
  <2> QED BY <2>1, ContractStep
<1> QED BY <1>1, <1>2, <1>3, ContractBegins, ContractInvariant, LifecycleInvariant, PTL
        DEF LifecycleSpec, KeepsContract, Contract!Spec
=============================================================================
