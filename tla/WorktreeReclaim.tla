--------------------------- MODULE WorktreeReclaim ---------------------------
(* What becomes of a task's checkout once the task is over.  The owner's       *)
(* decision applies the sealed patch elsewhere and reclaims the checkout; the  *)
(* cleanup of a pane reclaims it when the pane has closed; `brgr prune` sweeps *)
(* what was left; and a worker nobody supervises any more may still write into *)
(* it.  All of them beside the starts of TaskAdmission: a patch is applied     *)
(* under the admission lock, a newer revision keeps the older one's checkout.  *)
(*                                                                             *)
(* The revision looked at is Old, recorded and run; New is the next one.       *)
EXTENDS TaskAdmission

CONSTANTS
    Deciders,        \* `brgr accept | reject | result --ack`
    Cleaner,         \* cleanup_settled: the session loop, a hook, a reconciliation
    Pruner,          \* `brgr prune --apply`
    Old, New,
    NoStory          \* a plan without a finished revision

Hands == Deciders \cup {Cleaner, Pruner}
ASSUME HandsAssumption ==
    /\ Old \in Slots /\ New \in Slots /\ Old # New /\ Nobody \notin Hands
    /\ Cleaner # Pruner /\ {Cleaner, Pruner} \cap Deciders = {}

\* A story is about a revision that has run; a candidate's worker is not an orphan,
\* and nobody starts the revision again.
ASSUME StoriesAssumption ==
    \A p \in AllPlans : p.story # NoStory =>
        /\ Old \in p.past
        /\ \A s \in Starters : p.jobs[s].slot = Old => p.jobs[s].kind = "apply"
        /\ p.story.outcome \in {"candidate", "lost"}
        /\ p.story.worker \in {"gone", "leaving", "orphan"}
        /\ p.story.outcome = "candidate" => p.story.worker # "orphan"
        /\ p.story.pane \in {"none", "open", "closed"}
        /\ p.story.ignored \subseteq BOOLEAN
        /\ p.story.changes \subseteq {"none", "cache", "sealed", "plain", "nested"}
        /\ p.story.branch \subseteq {"base", "only", "sealed", "elsewhere", "gone"}

VARIABLES
    hand,            \* who is reclaiming, and how far
    decision,        \* the recorded decision, named for the process that made it
    settlement,      \* of Old
    mark,            \* the include-ignored marker: the decision it names
    assessed,        \* the once-only marker
    reclaimLock,     \* the flock of this revision's reclaim
    worker,          \* of Old: gone, its supervisor is leaving, or an orphan of a lost run
    pane,            \* Old's pane
    report,          \* the report file of a pane worker: in the checkout, or archived
    changes,         \* what git status lists in the checkout
    ignored,         \* the checkout holds ignored files that nothing can rebuild
    branch,          \* the task branch: where else its commits are
    applied,         \* history: how often the sealed patch went into the target
    integration      \* the integration receipt

reclaimVars == <<hand, decision, settlement, mark, assessed, reclaimLock, worker, pane,
                 report, changes, ignored, branch, applied, integration>>
checkoutVars == <<vars, reclaimVars>>

story == plan.story
HandSteps == {"away", "mark", "record", "remark", "look", "newer", "exit", "lock",
              "assess", "remove", "branch", "done", "dead"}
Here == checkout[Old] # NoCheckout
Settled == settlement # "open"
Asks(d) == story.asks[d]              \* --include-ignored

\* One process at a time holds the lock, from its assessment on.
ReclaimTypeOK ==
    /\ \A h \in Hands : hand[h].step \in HandSteps /\ hand[h].force \in BOOLEAN
    /\ decision \in Deciders \cup {Nobody} /\ mark \in Deciders \cup {Nobody}
    /\ settlement \in {"open", "decided", "acknowledged"}
    /\ assessed \in BOOLEAN /\ ignored \in BOOLEAN
    /\ reclaimLock \in (Hands \ {Pruner}) \cup {Nobody}
    /\ \A h \in Hands \ {Pruner} :
          reclaimLock = h <=> hand[h].step \in {"assess", "remove", "branch"}
    /\ worker \in {"gone", "leaving", "orphan"}
    /\ pane \in {"none", "open", "closed"} /\ report \in {"none", "inside", "archived"}
    /\ changes \in {"none", "cache", "sealed", "plain", "nested"}
    /\ branch \in {"base", "only", "sealed", "elsewhere", "gone"}
    /\ applied \in 0..2 /\ integration \in {"none", "started", "failed", "applied"}

ReclaimInit ==
    /\ hand = [h \in Hands |-> [step |-> "away", force |-> FALSE]]
    /\ decision = Nobody /\ settlement = "open" /\ mark = Nobody
    /\ assessed = FALSE /\ reclaimLock = Nobody
    /\ applied = 0 /\ integration = "none"
    /\ IF story = NoStory
       THEN /\ worker = "gone" /\ pane = "none" /\ report = "none" /\ ignored = FALSE
            /\ changes = "none" /\ branch = "base"
       ELSE /\ worker = story.worker /\ pane = story.pane
            /\ report = IF story.pane = "none" THEN "none" ELSE "inside"
            /\ ignored \in story.ignored
            /\ changes \in story.changes
            /\ branch \in story.branch

To(h, step) == hand' = [hand EXCEPT ![h].step = step]
InHand(h, step) == hand[h].step = step
Contents == <<worker, pane, report, changes, ignored, branch>>
Owner == <<decision, settlement, mark>>
Integration == <<applied, integration>>
Locked == <<assessed, reclaimLock>>

-----------------------------------------------------------------------------
(* The owner decides, or acknowledges a lost run (record_verdict, result --ack).*)

\* The marker names the decision it was given with, and is written before it.
Mark(d) ==
    /\ InHand(d, "away") /\ story # NoStory /\ d \in story.deciders
    /\ mark' = IF story.outcome = "candidate" /\ Asks(d) THEN d ELSE mark
    /\ To(d, "record")
    /\ UNCHANGED <<vars, decision, settlement, Locked, Contents, Integration>>

\* One decision is recorded; the same verdict again is a replay of it, another one
\* is an error, and an error withdraws the marker.
Agrees(d) == decision # Nobody /\ story.verdict[d] = story.verdict[decision]

RecordDecision(d) ==
    /\ InHand(d, "record") /\ story.outcome = "candidate"
    /\ \/ /\ decision = Nobody
          /\ decision' = d /\ settlement' = "decided"
          /\ To(d, "remark") /\ UNCHANGED mark
       \/ /\ Agrees(d)
          /\ To(d, "remark") /\ UNCHANGED Owner
       \/ /\ ~Agrees(d)
          /\ mark' = IF Asks(d) THEN Nobody ELSE mark
          /\ To(d, "done") /\ UNCHANGED <<decision, settlement>>
    /\ UNCHANGED <<vars, Locked, Contents, Integration>>

Acknowledge(d) ==
    /\ InHand(d, "record") /\ story.outcome = "lost"
    /\ settlement' = "acknowledged"
    /\ To(d, "look")
    /\ UNCHANGED <<vars, decision, mark, Locked, Contents, Integration>>

\* A replay's marker names the decision that was recorded.
Remark(d) ==
    /\ InHand(d, "remark")
    /\ mark' = IF Asks(d) /\ decision # d THEN decision ELSE mark
    /\ To(d, "look")
    /\ UNCHANGED <<vars, decision, settlement, Locked, Contents, Integration>>

\* revisable_revision: a rejected candidate, or a lost run whose worker has gone.
Revisable ==
    IF story.outcome = "lost" THEN worker = "gone"
    ELSE decision # Nobody /\ story.verdict[decision] = "rejected"

AsksToRevise(s) == story # NoStory /\ At(s, "bind") /\ Slot(s) = New

NotRevisable(s) ==
    /\ AsksToRevise(s) /\ ~Revisable
    /\ Go(s, "refused")
    /\ UNCHANGED <<registryVars, Quiet, lock, Disk, task, reclaimVars>>

\* The starts beside; one for New goes on only from there.
Starting ==
    /\ Next /\ UNCHANGED reclaimVars
    /\ \A s \in Starters : AsksToRevise(s) /\ starter'[s].step = "lock" => Revisable

\* The start of the next revision acknowledges what it replaces.
AcknowledgeByRevise ==
    /\ story # NoStory /\ Recorded(New) /\ story.outcome = "lost"
    /\ settlement' = "acknowledged"
    /\ UNCHANGED <<vars, hand, decision, mark, Locked, Contents, Integration>>

-----------------------------------------------------------------------------
(* reclaim_task: the gates are read one after the other.                        *)

\* The cleanup of a pane comes here once the pane is closed and the report moved.
Clean ==
    /\ InHand(Cleaner, "away") /\ Settled /\ pane = "closed" /\ report = "archived"
    /\ To(Cleaner, "look")
    /\ UNCHANGED <<vars, Owner, Locked, Contents, Integration>>

\* Where a reclaim ends; the cleanup of a pane is called again.
Ends(h) == To(h, IF h = Cleaner THEN "away" ELSE "done")

\* Mistake: only an open pane leaves the checkout to its cleanup.
LeftToOpenPane == pane = "open"

\* left_to_the_pane_cleanup
LeftToPaneCleanup == pane = "open" \/ (Settled /\ report = "inside")

Look(h) ==
    /\ InHand(h, "look")
    /\ IF LeftToPaneCleanup \/ ~Settled THEN Ends(h) ELSE To(h, "newer")
    /\ UNCHANGED <<vars, Owner, Locked, Contents, Integration>>

\* newer_revision_is_pending.  (The owner has handled New when it is over.)
NewerPending == Recorded(New) /\ task[New].run # "over"

AskNewer(h) ==
    /\ InHand(h, "newer")
    /\ IF NewerPending THEN Ends(h) ELSE To(h, "exit")
    /\ UNCHANGED <<vars, Owner, Locked, Contents, Integration>>

\* Mistake: nobody asks whether the worker has gone.
ExitIsAssumed == TRUE

ExitIsSafe == worker = "gone"

\* A decision waits five seconds for the supervisor to leave; a cleanup does not.
AskExit(h) ==
    /\ InHand(h, "exit")
    /\ IF ExitIsSafe THEN To(h, "lock") ELSE Ends(h)
    /\ UNCHANGED <<vars, Owner, Locked, Contents, Integration>>

TakeLock(h) ==
    /\ InHand(h, "lock")
    /\ IF reclaimLock = Nobody /\ Here /\ ~assessed
       THEN To(h, "assess") /\ reclaimLock' = h
       ELSE Ends(h) /\ UNCHANGED reclaimLock
    /\ UNCHANGED <<vars, Owner, assessed, Contents, Integration>>

\* Mistake: any marker allows it.
AnyMark == mark # Nobody

\* ignored_files_allowed: the marker names the decision that was recorded.
IgnoredAllowed == mark # Nobody /\ mark = decision

\* Mistake: a patch is trusted to hold whatever has changed.
NestedOnly(include) == changes = "nested" \/ report = "inside" \/ (ignored /\ ~include)

\* What is not lost with the checkout: a harness's cache, and exactly the sealed patch.
Disposable == {"cache", "sealed"}

\* changes_objection: what no sealed patch holds keeps the checkout.
Objects(include) ==
    \/ changes \notin Disposable \cup {"none"}
    \/ report = "inside"
    \/ ignored /\ ~include

\* A lost run's worker may still be there (unsettled).
WorkerInIt == settlement = "acknowledged" /\ worker # "gone"

Assess(h) ==
    /\ InHand(h, "assess")
    /\ assessed' = TRUE
    /\ IF WorkerInIt \/ Objects(IgnoredAllowed)
       THEN Ends(h) /\ reclaimLock' = Nobody
       ELSE /\ hand' = [hand EXCEPT ![h].step = "remove", ![h].force = changes # "none"]
            /\ UNCHANGED reclaimLock
    /\ UNCHANGED <<vars, Owner, Contents, Integration>>

\* Mistake: a removal git refuses keeps the lock.
KeepLock(h) == reclaimLock

FreeLock(h) == IF reclaimLock = h THEN Nobody ELSE reclaimLock

\* git worktree remove: without --force it refuses a checkout that is not clean.
Remove(h) ==
    /\ InHand(h, "remove")
    /\ IF Here /\ (hand[h].force \/ (changes = "none" /\ report # "inside"))
       THEN /\ checkout' = [checkout EXCEPT ![Old] = NoCheckout]
            /\ To(h, "branch") /\ UNCHANGED reclaimLock
       ELSE /\ IF h = Pruner THEN To(h, "away") ELSE Ends(h)
            /\ reclaimLock' = FreeLock(h) /\ UNCHANGED checkout
    /\ UNCHANGED <<registryVars, plan, starter, lock, broken, launch, task, head,
                   Owner, assessed, Contents, Integration>>

\* Mistake: a decision, too, drops the branch for the sealed copy.
PreservedForAll(h) == branch \in {"base", "elsewhere", "sealed"}

\* The sealed patch holds every line the branch changes.
HeldBySeal == branch = "sealed"

\* preservation: the branch goes when its commits are elsewhere; the sealed copy is
\* enough for an explicit prune only.
Preserved(h) == branch \in {"base", "elsewhere"} \/ (HeldBySeal /\ h = Pruner)

\* delete_task_branch.  A branch that moves meanwhile is put back where it was.
DropBranch(h) ==
    /\ InHand(h, "branch")
    /\ branch' = IF Preserved(h) THEN "gone" ELSE branch
    /\ IF h = Pruner THEN To(h, "away") ELSE Ends(h)
    /\ reclaimLock' = FreeLock(h)
    /\ UNCHANGED <<vars, Owner, assessed, worker, pane, report, changes, ignored, Integration>>

-----------------------------------------------------------------------------
(* brgr prune --apply: neither the lock nor the markers.                        *)

Sweep ==
    /\ InHand(Pruner, "away") /\ story # NoStory /\ story.prunes
    /\ Here /\ Settled /\ ~WorkerInIt /\ ~Objects(story.pruneIgnored)
    /\ hand' = [hand EXCEPT ![Pruner].step = "remove", ![Pruner].force = changes # "none"]
    /\ UNCHANGED <<vars, Owner, Locked, Contents, Integration>>

\* A branch of a settled revision whose checkout is gone.
Orphaned == ~Here /\ Settled /\ branch # "gone"

SweepBranch ==
    /\ InHand(Pruner, "away") /\ story # NoStory /\ story.prunes /\ Orphaned
    /\ To(Pruner, "branch")
    /\ UNCHANGED <<vars, Owner, Locked, Contents, Integration>>

-----------------------------------------------------------------------------
(* apply_core, with the admission lock held by a start of kind "apply".          *)

\* git apply --check.
CheckPatch(s) ==
    /\ At(s, "check")
    /\ Go(s, "intent") \/ Leave(s, "refused")
    /\ UNCHANGED <<registryVars, Quiet, lock, Disk, task, reclaimVars>>

\* Mistake: a receipt that says "started" is taken for a failed attempt.
RetriesStarted == integration # "applied"

\* A failed attempt may be made again; one that was started may have been applied.
MayApply == integration \in {"none", "failed"}

NoteIntent(s) ==
    /\ At(s, "intent")
    /\ IF decision # Nobody /\ story.verdict[decision] = "accepted" /\ MayApply
       THEN Go(s, "patch") /\ integration' = "started"
       ELSE Leave(s, "refused") /\ UNCHANGED integration
    /\ UNCHANGED <<registryVars, Quiet, lock, Disk, task, Owner, hand, Locked, Contents, applied>>

ApplyPatch(s) ==
    /\ At(s, "patch")
    /\ \/ applied < 2 /\ applied' = applied + 1 /\ Go(s, "settle") /\ UNCHANGED integration
       \/ integration' = "failed" /\ Leave(s, "refused") /\ UNCHANGED applied
    /\ UNCHANGED <<registryVars, Quiet, lock, Disk, task, Owner, hand, Locked, Contents>>

NoteApplied(s) ==
    /\ At(s, "settle")
    /\ integration' = "applied" /\ Leave(s, "applied")
    /\ UNCHANGED <<registryVars, Quiet, lock, Disk, task, Owner, hand, Locked, Contents, applied>>

Apply(s) == CheckPatch(s) \/ NoteIntent(s) \/ ApplyPatch(s) \/ NoteApplied(s)

-----------------------------------------------------------------------------
(* The worker and its pane; the owner's repository; processes that are killed.   *)

\* An orphan, or the agent of an open pane, writes, leaves a nested repository, and
\* commits.
Inside == worker = "orphan" \/ pane = "open"

WorkerWrites ==
    /\ story # NoStory /\ Here /\ Inside
    /\ \/ changes' \in {"plain", "nested"} /\ UNCHANGED branch
       \/ branch # "gone" /\ branch' = "only" /\ UNCHANGED changes
    /\ UNCHANGED <<vars, hand, Owner, Locked, worker, pane, report, ignored, Integration>>

WorkerExits ==
    /\ worker # "gone"
    /\ worker' = "gone"
    /\ UNCHANGED <<vars, hand, Owner, Locked, pane, report, changes, ignored, branch, Integration>>

\* The pane cleanup (PaneRun): the pane of a settled revision, then its report.
ClosePane ==
    /\ pane = "open" /\ Settled
    /\ pane' = "closed"
    /\ UNCHANGED <<vars, hand, Owner, Locked, worker, report, changes, ignored, branch, Integration>>

ArchiveReport ==
    /\ pane = "closed" /\ Settled /\ report = "inside"
    /\ report' = "archived"
    /\ UNCHANGED <<vars, hand, Owner, Locked, worker, pane, changes, ignored, branch, Integration>>

OwnerMerges ==
    /\ story # NoStory /\ branch \in {"only", "sealed"}
    /\ branch' = "elsewhere"
    /\ UNCHANGED <<vars, hand, Owner, Locked, worker, pane, report, changes, ignored, Integration>>

\* The flock goes with the process.
HandDies(h) ==
    /\ story # NoStory /\ story.deaths
    /\ hand[h].step \notin {"away", "done", "dead"}
    /\ To(h, "dead")
    /\ reclaimLock' = FreeLock(h)
    /\ UNCHANGED <<vars, Owner, assessed, Contents, Integration>>

Reclaims(h) ==
    \/ Look(h) \/ AskNewer(h) \/ AskExit(h) \/ TakeLock(h) \/ Assess(h)
    \/ Remove(h) \/ DropBranch(h)

CheckoutInit == Init /\ ReclaimInit

CheckoutNext ==
    \/ Starting
    \/ \E d \in Deciders : Mark(d) \/ RecordDecision(d) \/ Acknowledge(d) \/ Remark(d)
    \/ \E h \in Hands : Reclaims(h) \/ HandDies(h)
    \/ \E s \in Starters : NotRevisable(s) \/ Apply(s)
    \/ AcknowledgeByRevise \/ Clean \/ Sweep \/ SweepBranch
    \/ WorkerWrites \/ WorkerExits \/ ClosePane \/ ArchiveReport \/ OwnerMerges

CheckoutSpec == CheckoutInit /\ [][CheckoutNext]_checkoutVars

\* As in TaskAdmission; and the hooks, loops and reconciliations that clean up come
\* back as long as there is something to clean.
FairCheckoutSpec ==
    /\ CheckoutSpec
    /\ \A s \in Starters : WF_vars(Start(s)) /\ WF_checkoutVars(Apply(s))
    /\ \A k \in Slots : WF_vars(Settle(k))
    /\ WF_checkoutVars(ClosePane) /\ WF_checkoutVars(ArchiveReport)
    /\ WF_checkoutVars(Clean) /\ WF_checkoutVars(WorkerExits)
    /\ \A h \in Hands \ {Pruner} : WF_checkoutVars(Reclaims(h))

-----------------------------------------------------------------------------
Removes(h) == InHand(h, "remove") /\ Here /\ checkout'[Old] = NoCheckout

(* A checkout that goes holds nothing that exists only there, whoever removes it *)
(* and whatever a worker did in between; a branch never goes with commits only   *)
(* it has, and for the sealed copy only in an explicit prune (objection, remove, *)
(* delete_task_branch).                                                          *)
NothingOnlyHereIsLost ==
    [][/\ Here /\ checkout'[Old] = NoCheckout =>
              changes \notin {"plain", "nested"} /\ report # "inside"
       /\ branch' = "gone" =>
              branch # "only" /\ (branch = "sealed" => InHand(Pruner, "branch"))]_checkoutVars

(* Ignored files go only with the owner's --include-ignored: given to the        *)
(* decision that was recorded or to a replay of it, never to one that was        *)
(* refused; or to the prune.                                                     *)
IgnoredGoOnlyWhenAllowed ==
    [][\A h \in Hands : Removes(h) /\ ignored =>
          IF h = Pruner THEN story.pruneIgnored
          ELSE \E d \in Deciders : Asks(d) /\ Agrees(d)]_checkoutVars

(* No checkout is taken from under its worker: the revision is settled, its pane *)
(* closed, no orphan in it, and a decision lets the supervisor leave first.      *)
NoRemovalUnderAWorker ==
    [][\A h \in Hands : Removes(h) =>
          /\ Settled /\ pane # "open" /\ worker # "orphan"
          /\ h # Pruner => worker = "gone"]_checkoutVars

(* Of two applies, retried after failures and deaths, at most one puts the       *)
(* patch into the target (the integration receipt and the admission lock).       *)
PatchAppliedOnce == ~broken => applied <= 1

(* The checkout of a settled pane run goes, or it was assessed and something in  *)
(* it is worth keeping.  Decision and pane cleanup race for it, and the one that *)
(* comes too early must leave it unassessed for the other.                       *)
SettledIsReclaimed ==
    (story # NoStory /\ pane # "none" /\ ~story.deaths /\ Settled) ~>
        (~Here \/ changes \in {"plain", "nested"} \/ ignored)

(* Decision, cleanup, prune and apply keep to their types and to one patch.      *)
ReclaimInv == ReclaimTypeOK /\ PatchAppliedOnce

(* A checkout that is removed is not missed by anybody.                          *)
RemovalIsSafe == NothingOnlyHereIsLost /\ IgnoredGoOnlyWhenAllowed /\ NoRemovalUnderAWorker
=============================================================================
