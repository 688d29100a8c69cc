---------------------------- MODULE TaskAdmission ----------------------------
(* How a task gets from `brgr run`, `brgr revise` or a workflow step to a      *)
(* worker: the harness is loaded from the registry, the repository's admission *)
(* lock is taken, a checkout is prepared, the launch file is written, the task *)
(* is recorded, and a supervisor is started that checks what the launch has    *)
(* pinned.  Starts race each other for one revision or one workflow step, they *)
(* are killed anywhere, and what they leave is found by the next one.          *)
(*                                                                             *)
(* A slot stands for a revision of a task: its checkout and branch, its launch *)
(* file and its row in the store have names made from it.                      *)
EXTENDS HarnessRegistry

CONSTANTS
    Starters,        \* processes of `brgr run` and `brgr revise`
    Slots,           \* revisions
    Nobody,
    AllPlans,        \* the situations looked at: see Plans
    MaxDeaths        \* bound of the starts that are killed

ASSUME StartersAssumption ==
    /\ Starters # {} /\ Starters \subseteq Certifiers
    /\ Nobody \notin Starters /\ Nobody \notin [pid : Starters, signed : BOOLEAN]

VARIABLES
    plan,            \* the situation of this behaviour
    starter,         \* the starts, by process
    lock,            \* the admission lock of the repository: nobody, or pid and whether it is signed
    broken,          \* history: a live holder has lost the lock file
    checkout,        \* the worktree of each slot: who made it and what it holds
    launch,          \* the launch file of each slot: who wrote it and what it pins
    task,            \* the store's row of each slot, and how far its run is
    head             \* how often the owner's binding has moved

admissionVars == <<plan, starter, lock, broken, checkout, launch, task, head>>
vars == <<registryVars, admissionVars>>

NoPin == [recipe |-> NoRecipe, bytes |-> 0]
Pins == [recipe : Recipes \cup {NoRecipe}, bytes : 0..MaxCli]
NoCheckout == [by |-> Nobody, holds |-> "nothing"]
NoLaunch == [by |-> Nobody, pin |-> NoPin]
Unrecorded == [by |-> Nobody, run |-> "none"]

\* A plan: for every starter its slot, whether it revises, is a workflow step, has
\* a snapshot to put into the checkout, may certify on its own, and whether its
\* harness is loaded already; the recipe registered; whether registry and binding
\* move; and the revisions that have run before.
Job(slot, kind, snapshot, auto, loaded) ==
    [slot |-> slot, kind |-> kind, snapshot |-> snapshot, auto |-> auto, loaded |-> loaded]
NoJob == Job(Nobody, "none", FALSE, FALSE, FALSE)

ASSUME PlansAssumption ==
    \A p \in AllPlans :
        /\ \A s \in Starters :
              \/ p.jobs[s] = NoJob
              \/ /\ p.jobs[s].slot \in Slots
                 /\ p.jobs[s].kind \in {"run", "revise", "step", "apply"}
                 /\ p.jobs[s].auto \in BOOLEAN
        /\ p.recipe \in Recipes /\ p.past \subseteq Slots

EarlierStart == CHOOSE s \in Starters : TRUE

StartSteps == {"none", "probe", "receipt", "prints", "certify", "load", "digest", "bind", "lock",
    "sign", "steal", "prepare", "snapshot", "launch", "commit", "step", "rollback", "unlock",
    "check", "intent", "patch", "settle", "started", "applied", "replayed", "refused", "failed", "dead"}
Over == {"none", "started", "applied", "replayed", "refused", "failed", "dead"}

AdmissionTypeOK ==
    /\ RegistryTypeOK
    /\ plan \in AllPlans
    /\ \A s \in Starters :
          /\ starter[s].step \in StartSteps /\ starter[s].end \in Over
          /\ starter[s].seen \in Recipes \cup {NoRecipe} /\ starter[s].pin \in Pins
          /\ starter[s].proof \in 0..1 /\ starter[s].created \in BOOLEAN
          /\ starter[s].wrote \in BOOLEAN /\ starter[s].auto \in BOOLEAN
    /\ lock \in [pid : Starters, signed : BOOLEAN] \cup {Nobody}
    /\ broken \in BOOLEAN /\ head \in 0..1
    /\ \A k \in Slots :
          /\ checkout[k].by \in Starters \cup {Nobody}
          /\ checkout[k].holds \in {"nothing", "base", "work"} \cup Starters
          /\ launch[k].by \in Starters \cup {Nobody} /\ launch[k].pin \in Pins
          /\ launch[k] # NoLaunch => launch[k].pin # NoPin
          /\ task[k].by \in Starters \cup {Nobody}
          /\ task[k].run \in {"none", "admitted", "spawned", "left", "running", "over"}

Init ==
    /\ plan \in AllPlans
    /\ RegistryInit(plan.recipe)
    /\ starter = [s \in Starters |->
          [step |-> IF plan.jobs[s] = NoJob THEN "none"
                    ELSE IF plan.jobs[s].loaded THEN "bind" ELSE "probe",
           end |-> "none", seen |-> NoRecipe,
           pin |-> IF plan.jobs[s].loaded THEN [recipe |-> plan.recipe, bytes |-> 1] ELSE NoPin,
           proof |-> 0, created |-> FALSE, wrote |-> FALSE, auto |-> plan.jobs[s].auto]]
    /\ lock = Nobody /\ broken = FALSE /\ head = 0
    /\ checkout = [k \in Slots |-> IF k \in plan.past THEN [by |-> EarlierStart, holds |-> "work"]
                                   ELSE NoCheckout]
    /\ launch = [k \in Slots |-> IF k \in plan.past
                                 THEN [by |-> EarlierStart, pin |-> [recipe |-> plan.recipe, bytes |-> 1]]
                                 ELSE NoLaunch]
    /\ task = [k \in Slots |-> IF k \in plan.past THEN [by |-> EarlierStart, run |-> "over"]
                               ELSE Unrecorded]

\* ------------------------------------------------------------------ helpers
At(s, step) == starter[s].step = step
Slot(s) == plan.jobs[s].slot
Go(s, step) == starter' = [starter EXCEPT ![s].step = step]
\* Ends that give the lock back on the way out.
Leave(s, end) == starter' = [starter EXCEPT ![s].step = "unlock", ![s].end = end]
Recorded(k) == task[k].by # Nobody
Dead(s) == At(s, "dead")
Disk == <<checkout, launch>>
Quiet == <<plan, broken, head>>

\* --------------------------------------------------- the harness is loaded
\* health_probed: the manifest, then the receipt and the executable, then its prints.
ReadForProbe(s) ==
    /\ At(s, "probe")
    /\ starter' = [starter EXCEPT ![s].step = "receipt", ![s].seen = manifest]
    /\ UNCHANGED <<registryVars, Quiet, lock, Disk, task>>

\* recertify_if_allowed: a changed CLI is certified once more, if the owner said so.
Drifted(s) ==
    starter' = [starter EXCEPT ![s].step = IF starter[s].auto THEN "certify" ELSE "refused",
                               ![s].auto = FALSE]

CheckReceipt(s) ==
    /\ At(s, "receipt")
    /\ IF ~Belongs(starter[s].seen, receipt) THEN Go(s, "refused")
       ELSE IF cli.bytes # receipt.bytes THEN Drifted(s)
       ELSE Go(s, "prints")
    /\ UNCHANGED <<registryVars, Quiet, lock, Disk, task>>

CheckPrints(s) ==
    /\ At(s, "prints")
    /\ \/ IF cli.prints = receipt.prints THEN Go(s, "load") ELSE Drifted(s)
       \/ Go(s, "refused")                       \* the probe fails or times out
    /\ UNCHANGED <<registryVars, Quiet, lock, Disk, task>>

Recertify(s) ==
    /\ At(s, "certify")
    /\ \/ BeginRecertify(s) /\ UNCHANGED starter
       \/ /\ certifier[s].step \in {"done", "failed"}
          /\ Go(s, IF certifier[s].step = "done" THEN "probe" ELSE "refused")
          /\ UNCHANGED registryVars
    /\ UNCHANGED <<Quiet, lock, Disk, task>>

ReadForLaunch(s) ==
    /\ At(s, "load")
    /\ starter' = [starter EXCEPT ![s].step = "digest", ![s].seen = manifest]
    /\ UNCHANGED <<registryVars, Quiet, lock, Disk, task>>

\* Mistake: the digest is not put into the launch.
PinNothing(s) ==
    /\ At(s, "digest")
    /\ Go(s, IF Belongs(starter[s].seen, receipt) THEN "bind" ELSE "refused")
    /\ UNCHANGED <<registryVars, Quiet, lock, Disk, task>>

\* load_healthy_with_receipt: both files and the digest once more; this is the pin.
PinHarness(s) ==
    /\ At(s, "digest")
    /\ IF Belongs(starter[s].seen, receipt) /\ cli.bytes = receipt.bytes
       THEN starter' = [starter EXCEPT ![s].step = "bind",
                ![s].pin = [recipe |-> starter[s].seen, bytes |-> receipt.bytes]]
       ELSE Go(s, "refused")
    /\ UNCHANGED <<registryVars, Quiet, lock, Disk, task>>

\* --------------------------------------------------------- the admission lock
\* The session must be the owner's head, and the proof says since when.  A step
\* that is recorded already is answered from the store.
StepTaken == \E q \in Starters : plan.jobs[q].kind = "step" /\ Recorded(Slot(q))

Prove(s) ==
    /\ At(s, "bind")
    /\ IF head # 0 THEN Go(s, "refused")
       ELSE IF plan.jobs[s].kind = "step" /\ StepTaken THEN Go(s, "replayed")
       ELSE starter' = [starter EXCEPT ![s].step = "lock", ![s].proof = head]
    /\ UNCHANGED <<registryVars, Quiet, lock, Disk, task>>

\* The file is created; only then is the pid written into it.
CreateLock(s) ==
    /\ At(s, "lock") /\ lock = Nobody
    /\ lock' = [pid |-> s, signed |-> FALSE]
    /\ Go(s, "sign")
    /\ UNCHANGED <<registryVars, Quiet, Disk, task>>

SignLock(s) ==
    /\ At(s, "sign")
    /\ lock' = IF lock # Nobody /\ lock.pid = s THEN [lock EXCEPT !.signed = TRUE] ELSE lock
    /\ Go(s, IF plan.jobs[s].kind = "apply" THEN "check" ELSE "prepare")
    /\ UNCHANGED <<registryVars, Quiet, Disk, task>>

\* A waiter that finds the pid of a dead process removes the file, whatever file
\* is there when it gets to it.  An unsigned file belongs to nobody it could ask.
SeeDeadHolder(s) ==
    /\ At(s, "lock") /\ lock # Nobody /\ lock.signed /\ Dead(lock.pid)
    /\ Go(s, "steal")
    /\ UNCHANGED <<registryVars, Quiet, lock, Disk, task>>

LosesLock(by) == lock # Nobody /\ lock.pid # by /\ ~Dead(lock.pid)

Steal(s) ==
    /\ At(s, "steal")
    /\ lock' = Nobody /\ broken' = (broken \/ LosesLock(s))
    /\ Go(s, "lock")
    /\ UNCHANGED <<registryVars, plan, head, Disk, task>>

\* Mistake: a waiter waits for ever.
WaitForEver(s) == FALSE

\* ADMISSION_LOCK_WAIT is over.
GivesUp(s) == lock # Nobody

TimeOut(s) ==
    /\ At(s, "lock") /\ GivesUp(s)
    /\ Go(s, "refused")
    /\ UNCHANGED <<registryVars, Quiet, lock, Disk, task>>

\* Drop removes the path, whosever file it is.
Unlock(s) ==
    /\ At(s, "unlock")
    /\ lock' = Nobody /\ broken' = (broken \/ LosesLock(s))
    /\ Go(s, starter[s].end)
    /\ UNCHANGED <<registryVars, plan, head, Disk, task>>

\* --------------------------------------------------- checkout and launch file
\* Only a revision reuses, and only a checkout nothing has touched.
Reuses(s) == plan.jobs[s].kind = "revise" /\ checkout[Slot(s)].holds = "base"

\* refuse_existing_path_or_branch: git makes a checkout only where there is none.
Free(k) == checkout[k] = NoCheckout

\* What follows in prepare_task_workspace.
Prepared(s) == IF plan.jobs[s].snapshot THEN "snapshot" ELSE "launch"

Prepare(s) ==
    /\ At(s, "prepare")
    /\ \/ /\ Free(Slot(s))
          /\ checkout' = [checkout EXCEPT ![Slot(s)] = [by |-> s, holds |-> "base"]]
          /\ starter' = [starter EXCEPT ![s].step = Prepared(s), ![s].created = TRUE]
       \/ /\ ~Free(Slot(s))
          /\ IF Reuses(s) THEN Go(s, Prepared(s)) ELSE Leave(s, "refused")
          /\ UNCHANGED checkout
    /\ UNCHANGED <<registryVars, Quiet, lock, launch, task>>

\* The selected files are copied in.  An error here returns at once: nothing is
\* rolled back.
Snapshot(s) ==
    /\ At(s, "snapshot")
    /\ checkout' = IF checkout[Slot(s)] = NoCheckout THEN checkout
                   ELSE [checkout EXCEPT ![Slot(s)].holds = s]
    /\ \/ checkout[Slot(s)] # NoCheckout /\ Go(s, "launch")
       \/ Leave(s, "failed")
    /\ UNCHANGED <<registryVars, Quiet, lock, launch, task>>

\* write_json_new never replaces a launch file.
WriteLaunch(s) ==
    /\ At(s, "launch")
    /\ IF launch[Slot(s)] = NoLaunch
       THEN /\ launch' = [launch EXCEPT ![Slot(s)] = [by |-> s, pin |-> starter[s].pin]]
            /\ starter' = [starter EXCEPT ![s].step = "commit", ![s].wrote = TRUE]
       ELSE Go(s, "rollback") /\ UNCHANGED launch
    /\ UNCHANGED <<registryVars, Quiet, lock, checkout, task>>

\* --------------------------------------------------------------- the record
Record(s) == task' = [task EXCEPT ![Slot(s)] = [by |-> s, run |-> "admitted"]]

\* The transaction that records the task looks at the binding again.
StillHead(s) == starter[s].proof = head

\* A revision is recorded once.  Anything else is an error, which is rolled back.
CommitTask(s) ==
    /\ At(s, "commit") /\ plan.jobs[s].kind # "step"
    /\ IF StillHead(s) /\ ~Recorded(Slot(s))
       THEN Record(s) /\ Leave(s, "started")
       ELSE Go(s, "rollback") /\ UNCHANGED task
    /\ UNCHANGED <<registryVars, Quiet, lock, Disk>>

\* Mistake: what a start has not made is discarded too.
DiscardAll(s) ==
    /\ launch' = IF starter[s].wrote THEN [launch EXCEPT ![Slot(s)] = NoLaunch] ELSE launch
    /\ checkout' = [checkout EXCEPT ![Slot(s)] = NoCheckout]
\* Mistake: the launch file is kept for the next try.
DiscardCheckout(s) ==
    /\ checkout' = IF starter[s].created THEN [checkout EXCEPT ![Slot(s)] = NoCheckout] ELSE checkout
    /\ UNCHANGED launch

\* discard_unrecorded_admission takes back what this start has made.
Discard(s) ==
    /\ launch' = IF starter[s].wrote THEN [launch EXCEPT ![Slot(s)] = NoLaunch] ELSE launch
    /\ checkout' = IF starter[s].created THEN [checkout EXCEPT ![Slot(s)] = NoCheckout] ELSE checkout

\* The step's row decides: recorded, there already, the run is at its limit, or an error.
CommitStep(s) ==
    /\ At(s, "commit") /\ plan.jobs[s].kind = "step"
    /\ \/ /\ ~StepTaken
          /\ Record(s) /\ Go(s, "step")
          /\ UNCHANGED Disk
       \/ /\ StepTaken
          /\ Discard(s) /\ Leave(s, "replayed")
          /\ UNCHANGED task
       \/ /\ ~StepTaken
          /\ Discard(s) /\ Leave(s, "refused")
          /\ UNCHANGED task
    /\ UNCHANGED <<registryVars, Quiet, lock>>

\* record_task_checkout comes after the step's row; its failure is an error of the
\* whole start, although the step is recorded.
RecordCheckout(s) ==
    /\ At(s, "step")
    /\ Leave(s, "started") \/ Go(s, "rollback")
    /\ UNCHANGED <<registryVars, Quiet, lock, Disk, task>>

Rollback(s) ==
    /\ At(s, "rollback")
    /\ Discard(s) /\ Leave(s, "refused")
    /\ UNCHANGED <<registryVars, Quiet, lock, task>>

\* --------------------------------------------------------------- the run
\* The start goes on without the lock: a detached supervisor, or the run is failed.
Spawn(s) ==
    LET k == Slot(s)
    IN  /\ At(s, "started") /\ task[k] = [by |-> s, run |-> "admitted"]
        /\ \E run \in {"spawned", "over"} : task' = [task EXCEPT ![k].run = run]
        /\ UNCHANGED <<registryVars, plan, starter, lock, broken, Disk, head>>

\* pinned_manifest_for_launch, then the claim.  A supervisor that cannot read its
\* launch, or finds another executable than the pinned one, leaves without a word.
Supervise(k) ==
    /\ task[k].run = "spawned"
    /\ task' = [task EXCEPT ![k].run =
            IF launch[k] # NoLaunch /\ launch[k].pin.bytes = cli.bytes THEN "running" ELSE "left"]
    /\ UNCHANGED <<registryVars, plan, starter, lock, broken, Disk, head>>

Work(k) ==
    /\ task[k].run = "running"
    /\ \/ /\ checkout[k] # NoCheckout /\ checkout' = [checkout EXCEPT ![k].holds = "work"]
          /\ UNCHANGED task
       \/ task' = [task EXCEPT ![k].run = "over"] /\ UNCHANGED checkout
    /\ UNCHANGED <<registryVars, plan, starter, lock, broken, launch, head>>

\* Mistake: only a launch file that has grown old tells of a stale admission.
StaleByAge(k) == launch[k] # NoLaunch /\ task[k].run \in {"admitted", "left"}

\* unstarted_admission_is_stale: the checkout or the launch file is gone, or the
\* grace is over and no supervisor lives.
Stale(k) ==
    \/ checkout[k] = NoCheckout \/ launch[k] = NoLaunch
    \/ task[k].run \in {"admitted", "left"}

Reap(k) ==
    /\ task[k].run \in {"admitted", "spawned", "left"} /\ Stale(k)
    /\ task' = [task EXCEPT ![k].run = "over"]
    /\ UNCHANGED <<registryVars, plan, starter, lock, broken, Disk, head>>

\* --------------------------------------------------------------- the rest
\* A start is killed; a certification it is in goes no further.
Die(s) ==
    /\ plan.deaths /\ Cardinality({q \in Starters : Dead(q)}) < MaxDeaths
    /\ ~At(s, "none") /\ starter[s].step \notin {"applied", "replayed", "refused", "failed", "dead"}
    /\ Go(s, "dead")
    /\ certifier' = [certifier EXCEPT ![s] = Idle]
    /\ UNCHANGED <<Files, Quiet, lock, Disk, task>>

\* Another session becomes the owner's head.
MoveHead ==
    /\ plan.moves /\ head = 0
    /\ head' = 1
    /\ UNCHANGED <<registryVars, plan, starter, lock, broken, Disk, task>>

\* The registry's own life beside the starts.
ByHand == Certifiers \ Starters
RegistryMoves ==
    /\ \/ plan.registry /\ (UpdateCli \/ \E c \in ByHand :
                                BeginAdd(c) \/ BeginAuthored(c) \/ BeginRecertify(c))
       \/ \E c \in ByHand : Certify(c)
    /\ UNCHANGED admissionVars

CertifyFor(s) == ~Dead(s) /\ Certify(s) /\ UNCHANGED admissionVars

Start(s) ==
    \/ ReadForProbe(s) \/ CheckReceipt(s) \/ CheckPrints(s) \/ Recertify(s) \/ CertifyFor(s)
    \/ ReadForLaunch(s) \/ PinHarness(s) \/ Prove(s) \/ CreateLock(s) \/ SignLock(s)
    \/ SeeDeadHolder(s) \/ Steal(s) \/ TimeOut(s) \/ Unlock(s) \/ Prepare(s) \/ Snapshot(s)
    \/ WriteLaunch(s) \/ CommitTask(s) \/ CommitStep(s) \/ RecordCheckout(s) \/ Rollback(s)

Settle(k) == Reap(k) \/ Supervise(k) \/ (Work(k) /\ checkout' = checkout)

Next ==
    \/ \E s \in Starters : Start(s) \/ Spawn(s) \/ Die(s)
    \/ \E k \in Slots : Supervise(k) \/ Work(k) \/ Reap(k)
    \/ RegistryMoves \/ MoveHead

Spec == Init /\ [][Next]_vars

\* A start goes on unless it is killed, and the reconciliation of any later
\* command settles what a supervisor has not.
FairSpec ==
    /\ Spec
    /\ \A s \in Starters : WF_vars(Start(s))
    /\ \A k \in Slots : WF_vars(Settle(k))

-----------------------------------------------------------------------------
(* Whatever a supervisor may start was tried by a scratch run: this recipe with *)
(* an executable of exactly these bytes (activate_checked, persist_activation,  *)
(* load_healthy_with_receipt), although two certifications write the package's  *)
(* two files at once and the CLI is updated in between.                         *)
PinIsCertified ==
    \A k \in Slots : launch[k] # NoLaunch => launch[k].pin \in certified

(* A recorded revision that is not over has the checkout and the launch file of  *)
(* the start that recorded it: no later or failing start of the same revision    *)
(* takes them (start_task's lock and discard_unrecorded_admission).  Not so once *)
(* a live holder has lost the lock, or when the start itself has reported an     *)
(* error: see the README.                                                        *)
RecordedHasItsFiles ==
    \A k \in Slots :
        Recorded(k) /\ task[k].run # "over" /\ ~broken /\ starter[task[k].by].end # "refused" =>
        /\ checkout[k] # NoCheckout
        /\ launch[k].by = task[k].by

(* A start that ends without its task leaves neither a checkout nor a launch     *)
(* file: the next one of that revision finds the place free.                     *)
NothingLeftBehind ==
    \A s \in Starters :
        At(s, "refused") \/ At(s, "replayed") =>
        \A k \in Slots : ~Recorded(k) => checkout[k].by # s /\ launch[k].by # s

(* What a running worker wrote stays: no start of the same revision prepares the *)
(* checkout a second time (start_task holds the lock for that).                  *)
WorkStays ==
    [][\A k \in Slots : checkout[k].holds = "work" /\ task[k].run = "running"
          => checkout'[k].holds = "work"]_vars

(* A start is over: with its task, with an answer, or killed.  In the end all    *)
(* are: nobody waits for the lock of a process that died before it signed.       *)
EveryStartIsOver == \A s \in Starters : starter[s].step \in Over

(* What is recorded is settled in the end, even when its start died before it    *)
(* spawned the supervisor, the pinned executable is gone, or the launch file was *)
(* rolled back after the record.                                                 *)
EveryAdmissionIsSettled == \A k \in Slots : Recorded(k) => task[k].run = "over"

(* What is recorded has its files, and what is not recorded leaves none.         *)
AdmissionInv == AdmissionTypeOK /\ RecordedHasItsFiles /\ NothingLeftBehind

(* Neither a start nor the task it recorded stays half done, whatever is started *)
(* later.                                                                        *)
StartsEnd == []<>(EveryStartIsOver /\ EveryAdmissionIsSettled)
=============================================================================
