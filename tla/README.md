# Verification of brgr

This directory holds TLA+ models of brgr (a CLI that hands work to coding agents
and returns sealed results to an owner session), the TLC configurations that
check them on small instances, and TLAPS proofs for every value of the
constants. Everything is translated from the source; `map` in `PROJECT.json`
names the lines of each definition. Run `tlc -config X.cfg M` or `tlapm M.tla`
here.

## The system

brgr has no daemon. Every command is a short process over one SQLite database
(`brgr-store`) and a directory of files; the only long-lived processes are one
detached *supervisor* per admitted task revision, the harness it runs, and, for
an agent in a terminal pane, a pane runner and a session server. All
coordination is therefore through transactions, files, terminals and process
probes, and any process may die between two of its steps.

| Component | State | Operations | Talks to | Hard part |
|---|---|---|---|---|
| Attempt store (`brgr-store`: attempt, result, task, tree) | tasks, attempts, launch intents, results, retry grants, completions, inbox, decisions, cancellation intents | one transaction each: record, claim, compare-and-set state, commit, grant, acknowledge, decide, request cancellation | everyone | callers race; each checks only what it read in its own transaction |
| Attempt execution (`brgr-core`) | in-memory attempt, harness process | claim, launch intent, spawn, wait, collect, seal, commit, grant retry | store, runner | crash between any two writes; retry after a failed spawn |
| Process runner (`brgr-runner`) | process group, pipes, captures | spawn, wait, stop, reduce and collect output, probe | the harness | descendants that outlive the leader and keep its pipes |
| Evidence (`brgr-core` git_diff, git_stash, evidence) | worktree, index copy, artifacts | diff, stash notes, seal, apply | Git, worker leftovers | files that change while they are read |
| Supervision and recovery (`supervision.rs`) | receipt, cancel marker and pid files of the task | supervise, reconcile, reap, collect, stop | store, processes, panes | recovery against live runs; files that name no revision |
| Owner commands (`admission.rs`, `task_commands.rs`, `workspace.rs`) | admission lock, checkouts, launch files | start, revise, cancel, result, accept, reject, apply | registry, store, Git | values read long before they are used; partial failure |
| Harness registry (`brgr-registry`) | manifest and receipt of each harness | certify, recertify, load, pin, verify | the harness CLI, which is updated | four reads of a thing that changes |
| Owner bindings and head takeover (`owner.rs`, `takeover.rs`, `head.rs`) | binding with epoch, takeovers, offers | bind, request, prepare, commit, resume, retire, abort, claim | store, notices | two sessions issuing and replaying steps |
| Completion notices (`notification.rs` in store and CLI) | notice rows with leases, surface, dispatcher lock | queue, claim, type, mark, release, rebind | owner panes | lease expiry, rebinding while typing |
| Delegation and messages (`delegation.rs`, `tree.rs`, `message.rs`) | edges, child limits, questions | admit a child, cancel a tree, ask, reply, withdraw | attempts, owner | limits and questions against racing ends |
| Workflow runs (`workflow.rs`, driver, `brgr-workflow.mjs`) | runs, journaled steps, driver pid file | record step, retry, block, settle, resume, cancel | store, node | replay beside an orphaned script |
| Debate groups (`debate.rs`, `native.rs`) | groups, members, mail, deliveries | start, post, wait, type | attempts, panes | two typists, ends and restarts |
| Pane adapter (`pane_adapter*`, `omp_adapter.rs`) | pane receipt, report, archive, screens | open, prompt, answer screens, seal, stop, archive, close | Herdr, the agent | everything the terminal's user may do meanwhile |
| Reclaim (`worktree_prune.rs`, `pane_cleanup.rs`) | checkouts, branches, markers | assess, remove, prune, close | Git, panes | deleting what is still in use |
| Files of the home (`error_memo.rs`, `statusline_install.rs`, `codex_integration.rs`, `handoff_condition.rs`, `artifact.rs`) | ledger, other programs' settings, notes, objects | read, change, replace | GitHub, the user's editor | no transaction at all |
| Boards, layout, watch, mods | notes, output | append, print | | sequential |

What makes each correct, in short: a revision never has two active attempts and
a result is never replaced; a run that is alive is not called lost; every
admitted revision reports; a takeover moves the binding at most once; a notice
reaches the present head and is not typed twice; child limits hold and a sealed
parent stands for a settled tree; a workflow step runs once; what an agent
sealed survives every cleaner; a key press reaches the screen it was chosen for;
a start leaves either a task with everything it needs or nothing; nothing that
exists only in a checkout is removed; and what the user wrote into a file that
brgr also writes is still there.

## The modules

In the order of the plan; all of it is written except what the last section
lists. A module `XProofs` holds the theorems about module `X` (`GroupProofs`
those about `DebateGroup` and `WorkflowRun`), and `MCX` its instance for TLC.

| Module | Models | Composes |
|---|---|---|
| `AttemptStore` | the attempt tables of one task, one operator per transaction | |
| `AttemptLifecycle` | owner, supervisors and reconcilers over those tables | `AttemptStore` |
| `ManagedRun` | the abstract promise of a managed run | implemented by `AttemptLifecycle` |
| `HeadTakeover`, `HandoffContract` | bindings and takeovers; the abstract handoff | the first implements the second |
| `Notifications` | one notice queue, its dispatchers and the moving head | |
| `WorkerTree` | delegation, questions, cancellation of a subtree | |
| `WorkflowRun` | one workflow run, its drivers and scripts | |
| `DebateGroup` | a debate and the typing of its mail | |
| `PaneRun`, `PaneScreens`, `OmpPane` | a run in a pane; the screens on its way; panes of the omp launcher | composed in `Panes` |
| `HarnessRegistry`, `TaskAdmission`, `WorktreeReclaim` | certified harnesses; starts; what becomes of the checkout | each extends the one before |
| `WorkerProcess`, `ResultStream`, `WorkerPatch`, `ArtifactFiles` | from process to sealed result | composed in `HomeFiles` |
| `ErrorMemo`, `StatusLine`, `CodexHooks`, `HandoffNote` | files written outside any transaction | composed in `HomeFiles` |

Models of parts that share nothing are composed by a variable `subject`: one
behaviour is about one part, the others stay in a resting state. That costs the
sum of the parts and not their product, and hides no interaction, because there
is none in the code. In the same way a module that has many independent
incidents takes the ones that may happen in a behaviour from a *scene* (a
constant set of sets, `scene`, `plan` or `story` at Init); the scenes are listed
in the MC module and chosen so that every incident meets every other one it can
interact with.

### Attempts: `AttemptStore`, `AttemptLifecycle`, `ManagedRun`

`AttemptStore` has one operator per transaction; its unprimed conjuncts are the
checks the transaction makes, so a disabled operator is a transaction that
returns an error. `Next` lets anybody call anything at any time: whatever holds
here does not depend on how callers behave. Rows are `<<r, n>>`: the n-th attempt
of revision r. `MaxAttempts` is `budget.max_attempts`, 1 or 2. Identifiers,
digests, events and clocks are left out; the owner's session checks are in
`HeadTakeover`.

`AttemptLifecycle` has the processes that call those transactions for a harness
run as one process: the owner (admit, revise in two halves, cancel in three,
acknowledge, decide), the admitting process, one supervisor per revision with
one action per durable write in the order of `supervise_inner` and
`run_single_attempt` and a crash possible before each, and reconcilers, whose
recovery lists, probes and commits in three steps and whose reaper takes four.
Receipt, cancel marker and pid record are files of the task and are shared by
all its supervisors. Over-approximations: the claim window is a delay of any
length; a reaper may find the worktree gone at any time; questions, children and
evidence are one choice in `SealResult` (they are `WorkerTree` and
`WorkerPatch`).

`ManagedRun` is what the owner is promised: each revision reports a bounded
number of results, only a failure is followed by another, a candidate is decided
once, and only a rejected candidate, a failure or a lost run is replaced.

### Heads: `HeadTakeover`, `HandoffContract`

One owner: its binding `<<head, epoch>>`, takeovers by idempotency key, offer
files, the work it commands, and per session the command that is under way. A
command that reads in one transaction and decides in another is two actions, and
`cmd[s]` carries what it read. A repeated request, prepare, commit, claim or
retire only reports its record, so it is a stutter.

### `Notifications`

`notices` are the rows of one queue (of a task or of a workflow run, `queue` at
Init), with the claim token and whether its lease still runs; `surface` is the
registered pane; `disp[d]` is a dispatcher, from the try of the lock file through
claim, prompt and mark to its leaving; `typed` is the history of what a head was
shown. Questions are read and typed by the dispatcher of a task too. The clock is
`LeaseExpires`.

### `WorkerTree`

Per task the latest revision, its latest attempt and state, results, retry grant,
intent and open questions; `edge[c]` is the parent's exact attempt. `StartChild`
is the check before the checkout, `RecordChild` the transaction. A success is
`RunSucceeds`, `ReadChildren`, `ReadQuestions`, `Seal`, in the code's order. A
revision replaces only a run that is over, and markers are abstracted to intents.

### `WorkflowRun`

`steps[k]`, keyed by agent and retry, is the journal; `agent[d]` are the
promises of the script that driver d runs, each with the `brgr run` it started,
which may outlive node; the state of the run, the pid file, who asked and who
was told complete it. `Launch`, `AdmitStep`, `WaitRound` and `Deadline`,
with its blocking and clearing of the run, are separate steps, as in `brgr-workflow.mjs`.

### `DebateGroup`

Group, members, mail with its delivery rows, waits of the workers, and the two
processes beside the pane (`session` and `runner`) that both read unread mail,
claim it and type it. Herdr's answers to a prompt are sent, refused before
sending, or uncertain.

### Panes: `PaneRun`, `PaneScreens`, `OmpPane`, `Panes`

`PaneRun` follows one revision: supervisor, runner, agent, report, archive, pane
receipt with its cleanup state, `recover.lock`, and the two helpers that look
after what is left (`session`: the session server; `command`: any brgr command).
The report's bytes are numbers, so that a rewritten report is told from the
sealed one.

`PaneScreens` follows the keys: a screen is a record of what a rule of
`screens.rs` can tell (which phrases it shows, the options and the cursor), the
rules are `Classify`, and between reading a screen and pressing a key the screen
may be redrawn, answered by hand or be replaced by the next dialog (`hands`,
`slow`). `watch` is `ScreenWatch` with its budget and clock.

`OmpPane` follows the task's one pane receipt of the `omp-role` adapter: wrapper,
agent, and commands that mark, ask, write `closing`, ask again, pull and confirm,
each a step of its own, over a receipt they read first and write back later.

### Starts and checkouts: `HarnessRegistry`, `TaskAdmission`, `WorktreeReclaim`

`HarnessRegistry` has the CLI (two digests that only move forward), the recipe,
the two files of a certification and the certifications under way.
`TaskAdmission` adds starters (`run`, `revise`, a workflow step, and the apply of
a decision, which takes the same lock), the lock file with its blank moment, the
checkout and its receipts, launch file and record, the supervisor's own start
with the check of the pin, and kills anywhere. `WorktreeReclaim` adds what
becomes of the checkout of a finished revision: two deciding commands, the
pane's cleanup, `brgr prune`, a worker that goes on writing, and the branch with
its reflog, all beside the starts. What a checkout holds is a member of a small
set: nothing, what was sealed, changes nobody has, ignored files, a nested
repository, commits only here.

### Results: `WorkerProcess`, `ResultStream`, `WorkerPatch`, `ArtifactFiles`

`WorkerProcess`: the leader, descendants inside and outside the group, the two
pipes and who holds them, brgr's steps from spawn to return, for a run and for a
probe. Time is in half seconds, brgr and its readers are prompt: time passes only
when they have nothing to do. `ResultStream`: the reduction of event lines as
they arrive, the limits, and the answer that is later looked for in what was
kept, compared with the one in the whole stream. `WorkerPatch`: the worktree's
files with size and time, the index and its copy, each Git command, and a worker
or its leftovers that write in between; the patch is compared with what was
there. `ArtifactFiles`: inodes, directory entries, what is synced, objects,
committed results, kills and a power loss.

### Files of the home: `ErrorMemo`, `StatusLine`, `CodexHooks`, `HandoffNote`

Each is a set of processes that read, change and replace files, beside a user who
edits them and a kill at any step. An error text is a sequence of pieces by kind
(quoted, secret, path, count, screen); a status line is the chain of commands it
runs; GitHub may take a call and lose its answer.

## What the runs check

All runs need less than five minutes. A property that is a conjunction names its
parts in the module, each with its own comment; `PROJECT.json` lists, for the
parts, the plausible bugs of the code (`mutants`) that break them.

| Run | Instance | States | Shows |
|---|---|---|---|
| `one` | 1 revision, 2 attempts, 2 reconcilers, one of them reliable | 412 k | `LifecycleTypeOK`; `StoreSafety` (`OneActiveAttempt`, `TerminalHasResult`, `RetryOnlyAfterGrant`); `CompletionIsLast`; `CancelledOnRequest`; `ResultsStand` (`FirstWriterWins`, `OutcomeMatchesState`); `LiveRunNotLost`; `EveryRunEnds` |
| `two` | 2 revisions, 1 attempt, 1 reconciler | 774 k | `PidRecordKeepsLiveWorker`; `KeepsContract` (refinement of `ManagedRun`) |
| `lost` | as `two` | | `LiveRunNotLost` is violated; see findings |
| `head_protocol` | 3 sessions, 2 keys, 1 task, epochs to 4, symmetric | 1.0 M | `TypeOK`; `HeadSafety` (`OneOpenTakeover`, `EpochFencing`); `TakeoverSteps` (`TakeoverGraph`, `ResumedByIncomingHead`); `ImplementsContract` |
| `notices` | 2 sessions, 2 dispatchers, 2 notices, epochs to 2, 1 death | 273 k | `NoticesInv` (types, `TypedOnce`); `DeliveredToHead`; `EverythingArrives` (`NoticesArrive`, `QuestionsArrive`) |
| `tree` | a root with two children, or a chain of three; 2 revisions, 2 attempts, child limit 1, depth 2 | 420 k | `TreeInv` (types, `ChildLimit`, `TreeCancelIsClosed`); `SealedParentIsSettled`; `SlotIsFreed` |
| `workflow` | 2 drivers, 2 agents, 1 retry, 10 scenes | 533 k | `WorkflowInv` (types, `OneAttemptAtATime`, `NotBlockedAtTheEnd`); `CancelledRunIsQuiet`; `RunStepsAreLegal` (`ParallelCap`, `TerminalIsFinal`); `DriverEnds` |
| `debate` | 2 members, a question and its answer, 2 typists, 10 scenes | 418 k | `DebateInv` (types, `HandedOverOnce`, `StartInvitedAll`); `AnswersReachTheAsker`; `DebateIsHeard` (`WaitsHear`, `MailIsTyped`, `OverIsFinal`) |
| `panes` | 17 scenes of a run; 1 or 2 dialogs, 1 press allowed, 1 hand and 1 slow redraw; 2 commands and 1 incident at an omp pane | 710 k | `PaneInv` (types, `SealedSurvives`, `CandidateIsSealed`, `ArchivesAgree`); `PanesStay` (`UnreadPaneStays`, `OmpInv`); `GoodWorkIsKept` (`SealedIsNotLost`, `InTimeIsNotFailed`); `ScreenInv` (types, `KeysReachTheirScreen`, `OnlySafeAnswers`, `OwnerIsTold`, `NoticesAreWithdrawn`); `NothingIsLeftOpen` (`RunHasEnded`, `PaneReclaimed`, `ScreensHavePassed`, `EligibleIsClosed`) |
| `checkouts` | 3 starters, 2 deciders, cleaner, pruner, 3 slots, 2 updates of the CLI, 1 death; 12 situations | 180 k | `AdmissionInv` (types, `RecordedHasItsFiles`, `NothingLeftBehind`); `PinIsCertified`; `ReclaimInv` (types, `PatchAppliedOnce`); `StartsEnd` (`EveryStartIsOver`, `EveryAdmissionIsSettled`); `RemovalIsSafe` (`NothingOnlyHereIsLost`, `IgnoredGoOnlyWhenAllowed`, `NoRemovalUnderAWorker`); `SettledIsReclaimed` |
| `late_revise` | the situations of starts alone | | `WorkStays` is violated; see findings |
| `files` | 2 processes of each kind, 1 kill, 1 or 2 edits, 3 commands; files a, n, q; deadline 2, grace 1 | 1.96 M | `ResultsAreWhole` (`ProcessInv`, `StreamInv`, `PatchInv`, `SealInv`); `HomeInv` (`MemoInv`, `LineInv`, `HooksInv`, `NoteInv`); `EditedSkillStays` |

Why the bounds are enough. Two attempts are the largest budget the code accepts.
Two reconcilers, dispatchers, drivers, typists, cleaners, deciders or installers
are needed because the interesting races are between two of a kind, and no step
of the code looks at a third. Two revisions, because files are shared between a
revision and its successor; a third adds no new pair of actors (but lets the
receipt race below reach further). Three sessions are the outgoing, the incoming
and one that interferes; epoch 4 lets the head leave a session and come back.
Three starters are the holder of a lock, its waiter and the one that finds it
free again. One death per behaviour is a crash at every step; two at once show
nothing that one after the other does not. Limits (`PressLimit`, `Deadline`,
`MaxBytes`, child limit) are the smallest that can be met and exceeded.

`CHECK_DEADLOCK FALSE` is in the configurations of systems that stop: a finished
run, an empty queue, a checkout that is gone.

### Fairness

Weak fairness is assumed of a process that is alive and whose next step does not
depend on others: supervisors (their worker is killed at its deadline), the
reliable reconciler (status, wait, watch and hooks keep calling
`reconcile_pending`), dispatchers, drivers and their rounds, typists, helpers,
runners, starts, cleaners, commands at an omp pane. It is assumed of clocks:
leases, deadlines. Strong fairness is assumed where something comes and goes and
the code polls for it: Herdr accepting a prompt (`PromptAccepted`,
`TypeQuestion`, `SendPrompt(s, "sent")`, `PromptRefused`), a report that is there
(`ReportIsThere`), the screen's deadline. `Served` (`Notifications`) says that
after every lost wake-up some hook runs again. Nothing is assumed of the owner,
of agents' answers, of resume or cancel, and processes may die at any time within
the bound.

## Findings

- `lost` (`LiveRunNotLost`): a finishing supervisor removes its successor's
  receipt, because the file names the task only, and the live successor is
  recorded `lost`. The wait of five seconds after a decision
  (`worktree_prune.rs`) narrows this for worktrees that brgr made. With a third
  revision the same race lets revise overlook a live worker, so
  `PidRecordKeepsLiveWorker` is stated for what two revisions can do.
- `late_revise` (`WorkStays`): a revise that lost the race for its revision takes
  back what it made, and with it the checkout of the revision that won, although
  the comment says it removes only its own; the winner's snapshot receipt goes
  too.

## Gaps the models show

Behaviour that the models have because the code has it. No run forbids it; where
a property would be violated, the property exempts exactly this case and says
so in its comment.

**Attempts.** The reaper's own attempt can be recorded `lost` by a second
reconciler while it is recording `cancelled`, although the architecture guide
promises `cancelled`. Acknowledged between the failed commit and the retry
grant, a revision reads "nothing can run again" and then runs again. A grant
after the last budgeted attempt makes the revision read "retry granted, may
still start" for good. A supervisor that dies between spawn and pid record leaves
a worker that revise does not see. A cancel command that is slow to write its
marker cancels the next revision, although `admission.rs:551` removes the marker
so that it does not: `CancelledOnRequest` is checked for a task with one
revision. With a third revision the race of finding `lost` lets revise overlook a
live worker. And with a third revision of two attempts it lets revise begin between
a failed commit and its granted retry: the retry replaces the result on which
revise then admits, so `KeepsContract` needs at most two revisions or one attempt.

**Heads.** `bind` looks for an open takeover in one transaction
(`task_commands.rs:737`) and rebinds in another: a takeover committed in between
stays open, no longer holds the head, and can never be resumed, retired or
superseded. The first start of an owner binds on an earlier reading
(`admission.rs:800`). `take` compares the offer with one reading and claims the
next (`head.rs:917`), so it can depose a head that made no offer. A task that was
admitted but not yet claimed does not count as open work, so an idle handoff may
retire beside it. `head exit` may close the pane of a session that became head
again (`head.rs:999`). Two commands of one head that read the note at once may
both start an automatic handoff, although the comment before the write says it
is "not started twice by a second command" (the store refuses the second open
takeover; exempt by `crossed`). A window that is no longer reported while the
other one is low re-arms the note.

**Notices.** A dispatcher that has decided to leave still holds the lock, and a
newly spawned one gives up: the notice waits for the next hook, bind or takeover
(`Served`). `register_for_task` accepts a surface of any epoch. Nothing starts a
dispatcher for a question alone. Workflow notices are never resolved
(`resolve_workflow_notification` has no caller), so a rebind queues them again.

**Trees.** `unsettled_child_tasks` does not look at completions, so a child whose
failure was acknowledged before its granted retry ran counts as settled. A
supervisor that dies between its failed commit and the retry leaves the child's
slot taken for ever (`tree.rs:140`).

**Workflows.** With two agents blocked, the first to clear its block sets the run
running while the other still waits. A script that fails, or dies and is
overtaken, while blocked leaves the run blocked. Two drivers are possible when
`resume` runs before the pid file is written, and a `PidGuard` removes another
driver's pid file. Revise may push unfinished steps above `max_parallel`. A
`brgr run` killed between record and spawn leaves a step without a supervisor
that resume only replays.

**Debates.** An invitation may go to an attempt that was revised after the group
was made. A member that finishes between creation and its invitation leaves the
later members uninvited, and the same request is then refused. A typist that
dies after its claim leaves the mail untyped (exempt by `Orphaned`); an uncertain
Herdr error may have typed nothing. `cli/debate.rs:60` says a wait "exits early
if an owner message needs attention"; the code never looks at owner messages.

**Pane runs.** A supervisor that dies before the receipt is written makes recovery
record `lost` although the orphaned runner opens the pane and the agent works; a
runner that dies between opening and receipt leaks the pane. `stop_external`
closes the pane before it commits, and another reconciler may record `lost` in
between. `recover_one` acts on a list that may be stale. The runner's finish
overwrites `finished_at`, so a report sealed in time may count as late. A report
sealed in time and then removed or changed, without a supervisor, keeps the
attempt open. A transient Herdr error makes a live worker `lost`; so does an
agent that seals and goes between two looks; and when somebody closes the pane of an
agent that stopped without sealing, recovery may record `lost` just before the runner
seals its report. An agent stuck at a dialog with a
dead supervisor keeps its pane after settlement. The session server closes the
pane of a cancelled run even with `--keep-pane`, which `stop_external` and the
release notes of 2.9.1 keep. The cleanup checks and then closes.

**Screens.** `poll_unclassified` never observes a screen that a rule answers, so
the clock of an unknown screen is not restarted by it, and a later unknown
screen may get less than `SCREEN_DEADLINE`. A second unknown screen right after
the first is not told to the owner. In `settle` a screen that only Herdr calls
blocked is never told before the run fails. Notices of `start_native` are not
withdrawn at readiness, nor those of a run whose report is sealed while blocked.
Keys meet another screen when the owner presses in between or the harness draws
later than `REDRAW` (exempt by `hands`, `slow`). A slow shell question eats the
launch command. A native agent that shows neither dialog nor editor is left to
the task's deadline.

**Panes of the omp launcher.** There is one receipt per task: a newer revision's
overwrites the older one's, whose pane then leaks; and a command that still holds
the older receipt writes it back over the newer one, asks about the newer and
closes the older (`crossed`). A command killed before `mark_pending` leaves the
receipt retained for ever. `mark_pending` overwrites `closing`: if the pane is
already gone, `status` fails for good. `cancel_owned_pane` ignores
`--keep-pane`. A launcher that fails after opening leaves an unrecorded pane. An
agent that is idle in the middle of its work with a report file is taken as
done. Between the last look and the close anything may happen, as the comment of
`close_if_eligible` says (`sure` marks it).

**Starts.** The blank lock file of a process killed between creating and signing
it is never stolen: every start of that repository is refused until the file is
removed by hand. Two waiters see the same dead holder, and the second removes
the first one's live lock; a dropped lock removes the path whoever owns it
(`broken`). A failure after `git worktree add` in `prepare_task_workspace` is not
rolled back. A start killed between launch file and record makes every later
revise of that revision fail, because the launch file is never replaced.
`record_task_checkout` failing after a recorded workflow step rolls back files of
a recorded step. A crash between manifest and receipt leaves `ManifestDrift` until
certified by hand. Between `verify_pinned_executable` and spawn the CLI may be
updated.

**Checkouts.** "A later reconcile retries" (`worktree_prune.rs`) does not hold for
headless runs. Concurrent decisions overwrite or forget each other's
`--include-ignored` marker, in the safe direction; one given after the
assessment does nothing. A crash between `branch -D` and the restore loses a
branch that was moved meanwhile. Ignored files written between the last look and
a forced removal go with it. A worker that does not exit within five seconds, or
a killed decider, leaves the checkout to `prune`. `prune` of a decided revision
does not ask whether an agent still sits in its pane.

**Results.** A descendant that left the process group and keeps a pipe holds a
finished or cancelled run until the task's deadline, and the run then ends as
failed. A leader that exits normally leaves group members without a pipe
running. When the worker's index is replaced between copy and stamp, the copy of
the old index gets the new one's time and an edit of equal size may be hidden
(exempt by `raced`). A stash made on another branch or with a detached head is
not counted, although `git_stash.rs` says a result must tell it. A sealer that
finds another's object whose directory entry is not synced returns without
syncing it, so a power loss may leave a committed result without its object
(exempt by `borrowed`). Temporary files of killed sealers stay.

**Files of the home.** A filer that loaded the ledger before a count was reached
misses it, and the one spawned for it leaves: filed at the next failure. An
unreadable ledger is taken as empty and overwritten. A lost answer or a slow
search may double an issue (exempt by `unsure`). A kill between settings and
receipt makes install refuse and uninstall report `not_installed`; after a killed
reinstall with a moved executable, uninstall leaves brgr's line; an edit between
read and write is overwritten; a re-pointed symbolic link leaves brgr's line in
the old file. A kill before the receipt leaves hooks and skill without an owner,
and an entry into which the user grouped brgr's command is never removed.

## What is proved

Each proof module EXTENDS the modules it is about. A theorem is about their
specification without fairness (`Spec`, `DebateSpec`, `LifecycleSpec`,
`CheckoutSpec`), which the fair specifications of the runs imply, or, for panes
and home files, about the one of the run (`PanesSpec`, `HomeSpec`), and for every
value of the constants that meets the assumptions declared beside them.

| Module | About | Properties of the runs that it proves |
|---|---|---|
| `AttemptLifecycleProofs` | the tables, any callers (`AttemptStore`); any revisions, attempts, reconcilers (`AttemptLifecycle`) | `StoreSafety`, `FirstWriterWins`; `LifecycleTypeOK`, `CompletionIsLast`, `ResultsStand`; with a hypothesis each: `CancelledOnRequest`, `LiveRunNotLost`, `PidRecordKeepsLiveWorker`, `KeepsContract` |
| `HeadTakeoverProofs` | any sessions, keys, tasks, epochs | `HeadSafety`, `TakeoverSteps`, `ImplementsContract` |
| `NotificationsProofs` | any sessions, dispatchers, notices, deaths | `NoticesInv`, `DeliveredToHead` |
| `WorkerTreeProofs` | any tasks, depth, child limit, budget, plans | `TreeInv`, `SealedParentIsSettled` |
| `GroupProofs` | any drivers, agents, scenes (`WorkflowRun`); any tasks, messages, servers, scenes (`DebateGroup`) | `WorkflowInv`, `CancelledRunIsQuiet`, `RunStepsAreLegal`; `DebateInv`, `AnswersReachTheAsker`, and `OverIsFinal` of `DebateIsHeard` |
| `WorktreeReclaimProofs` | any starts, certifications, slots, deciders, plans | `AdmissionInv`, `PinIsCertified`, `ReclaimInv`, `RemovalIsSafe` |
| `PanesProofs` | any incidents, dialogs, commands, moves of others | `PaneInv`, `PanesStay`, `GoodWorkIsKept`, `ScreenInv` |
| `HomeFilesProofs` | any output, work files, contents, errors, releases, commands, kills | `ResultsAreWhole`, `HomeInv`, `EditedSkillStays` |

**The assumptions** say what the code's types and the scenes mean. Bounds are
positive naturals; names that stand for nobody are not in the sets of somebodies;
`Reliable` is a set of reconcilers; a scene, plan or story names only incidents
the module knows. These say a little more. `StartersAssumption`: an admission may
certify, so a starter is a certifier. `PlansAssumption`: a job names a slot and a
command. `StoriesAssumption`: a story is about a revision that has run, whose
worker, if it is a candidate, has not outlived it, and that nobody starts again.
`DebateConstants`: the identifiers of invitations and of messages are apart, as
those of two tables are. `MemoConstants`: an error begins with words of brgr and
quotes a worker or a screen only behind one of the markers, which is where
`error_memo.rs` cuts, and the least count is not 0, which `validate_issue_reporting`
refuses. `LineConstants`: a user's own line does not run brgr.
`HooksConstants`: no hook of the user's own is a command of brgr's, and an edited
skill is not, to the byte, the text of a release.

**The shape of an argument.** A proof first says what a step may do to each part
of the state: every action is one of a few relations (`EveryStepWrites`,
`SupervisorProgram`, `EveryStepIsWriting`, `EveryStepMoves`, `SupervisorMoves`,
`StartStep`, `HandStep`). Then each part of the invariant is shown for the
relations, not for the actions, so that adding an action means proving one
relation of it. The invariant always holds more than the property: what each
process may rely on between reading and writing.

**Attempts.** The store's invariant is `StoreInv`: types, *rows are dense* (row n
exists exactly if n is at most the count, so a claim's slot is fresh and "the
latest result" is the highest slot), *grants are failures*, and `StoreSafety`.
`RetryOnlyAfterGrant` is not inductive alone: a claim looks only at the latest
result, and that all earlier slots failed with a grant follows from density and
the absence of an active attempt (`ClaimFollowsFailures`).

`LifecycleInv` adds what a supervisor's or a reconciler's program counter implies
about the row it holds (`SupOK`, `RecOK`), and `CompletionClosed`: a completion
names the last attempt row of its revision, that row has its result, and nothing
can be claimed behind it. Every step writes the tables in one of a few ways, each
is a store step (`WriteIsStoreStep`) and only grows the tables (`WritesGrow`),
and what the other processes know survives growth (`OthersKeep`). So the composed
system is one of the store's callers (`LifecycleImplementsStore`).

*Recovery.* `RecoveryInv(R)` says, for the revisions R whose receipts are kept:
a busy supervisor of a revision that is not replaced is the one the receipt
names; a replaced revision holds no attempt and can claim none (`Place`); what a
reconciler has judged without a live supervisor stays so (`JudgedOK`); and the
pid record of a live worker is that of the current revision. The one step that
breaks it is a finishing supervisor that removes its successor's receipt. Hence
two theorems for each property: under the hypothesis `[][ReceiptStays]_vars`, for
any number of revisions (`LiveRunNotLostWhileReceiptStays`,
`PidRecordKeepsLiveWorkerWhileReceiptStays`), which shows that this step is the
only way to the violation in finding `lost`; and without it, where no successor
can be hit: one revision for `LiveRunNotLost`, two for `PidRecordKeepsLiveWorker`.

*Cancellation.* For any number of revisions, nothing is cancelled unless some
cancellation was asked for (`CancellationWasRequested`); that it was this
revision's holds of one revision.

*The promise.* The owner's view of the tables is a count and the last row that
has a result (`OwnersViewHolds`). Every step but revise is a step of `ManagedRun`,
whatever the bounds (`OthersKeepContract`); revise is one if what it read before
it made its checkout still holds (`RevisingOK`), which it does with one attempt
for each revision and with at most two revisions of any number of attempts
(`KeepsContractHolds`): the first revision's supervisor is not busy or the receipt
would have refused revise, and a reaper that found the run cancelled and
unclaimed excludes every retry (`CancelStops`).

**Heads.** `HeadInv` is the type invariant, `HeadSafety`, and `CommandsOK`: a
command that waits to prepare, take or resume names a takeover key, and one that
waits to resume names a takeover that has moved the head to its session. Every
step writes binding and takeovers in one of eight ways. The heart is
`FencingStep`: a step that does not move a takeover only raises the epoch, which
keeps every row fenced, and a step that does takes the next epoch, which no row
has used. From it follow the safety properties, `TakeoverStepsHold` (two rows
that moved the head cannot share the epoch that `resume_idle_takeover` compares)
and the refinement `HeadImplementsContract`.

**Notices.** `NoticeInv` says that only the dispatcher with the lock works
(`WorkerInv`); that between claim and mark, as long as the head does not move,
the row is still its own, the head's pane is the one it typed into, and the row
was typed exactly if its step says so (`ClaimInv`); and that a typed row that is
open again is about to be marked or its receipt was lost (`ReceiptInv`). A lease
may expire and be claimed again, but the claimant needs the lock.

**Trees.** `TreeSafe` adds to `TreeInv` that an edge leads one level down from an
attempt that happened (`EdgeInv`), that an admission under way is the only one of
its task (`AskingInv`), and that from the moment an attempt has read its children
as settled they stay so, because it no longer starts or decides anything
(`VerdictInv`). That `cancel` reaches a whole subtree needs that the iteration of
`query_subtree` has reached its fixed point after `MaxDepth` levels
(`SubtreeClosed`); depth grows along an edge and is bounded, and the induction on
levels is over a set of numbers, by its least missing member.

**Workflow runs.** `RunInv`: the journal is a chain for each agent with at most
its end at work (`ChainInv`), although `require_failed_predecessor` looks one
step back; a process that is starting a step is the one its script waits for
(`LaunchInv`); with a single driver a blocked run has an agent that will lift it
(`BlockInv`); and `workflow cancel` ends the run before it lists the steps
(`CancelInv`), so that none is added to its list.

**Debates.** `GroupInv`: a message is held by one server and claimed for it, and
a claim that will be given back is of a message nobody has typed (`ClaimInv`);
`debate start` has invited everybody who is not on its list (`StarterInv`); a
message goes between the attempts that joined, and an answer the way its question
came, reversed (`PostInv`).

**Starts and checkouts.** `CheckoutInv` is one invariant of registry, starts and
reclaim, as they share lock, checkout and decision. `RegistryInv`: the receipt in
force names recipe and bytes that a scratch run has tried, which needs that the
digest after the run is at least as new as the one tried. `MadeInv`: what a start
has made of an unrecorded revision it knows to be its own. `LockInv` and
`FilesInv`: while no live holder has lost the lock file (`broken`), a start under
the lock touches only a revision nobody counts on. `MarkInv` and `GatesInv`: what
the gates of a cleaner saw stays true until it removes, because the worker is
gone, the pane closed and a decision final. `PatchInv`: one start at a time is
between the intent in the receipt and its last word.

**Panes.** `PaneRunInv` ties pane, agent and receipt together (`TiesOK`), says
what supervisor and each helper have seen (`SupervisorOK`, `HelperOK`), and keeps
report, digest, archive and candidate equal unless the agent rewrites its report
(`ReportOK`). That recovery does not give up good work needs `Hopeless`: an agent
that is gone with nothing sealed in time, and no runner left that could still seal
it. Who gives up an attempt has seen that (`GivenUp`), and no step takes it back
(`Lasting`), so it holds when the loss is recorded. `UnreadOK` says while which
events nobody has a reason to close the pane (`Kept`). For the other launcher,
`OmpPaneInv` says what each command has seen of the receipt it holds (`ActOK`) as
long as no command wrote one revision's receipt over another's (`crossed`): a
command about to close holds a settled run (`MayClose`), and what it saw in the
pane is still there unless somebody outside brgr moved (`PaneLasts`).

Of screens, `ScreensInv` says that what the runner is about to answer is what the
agent is at, unless the owner's hand or a late drawing came between (`AnswersOK`),
that every screen the agent comes to keeps what its kind promises also under
Cursor's box, which stays drawn above it (`Honest`), and that whoever is waited for
was told (`TellingOK`). That the rules are safe is a lemma about one screen
(`Answering`): the presses of `keys_between` lead from wherever the cursor is to
the option the rule names, and not beyond (`Moving`, `Selecting`). A behaviour is
about one part, and the others stand still in their invariants.

**Files of the home.** The parts of `HomeFiles` share nothing, so `HomeIInv` is one
invariant for each part, and a step of one leaves the others' alone
(`OnePartMoves`). Each holds more than is promised:

- *Processes* (`ProcessIInv`): every wait has an end (`WaitsAreBounded`), a reader
  that stopped has read everything, or read too much, or has nobody left to read
  from (`ReaderStopped`), and who was stopped is gone (`StoppedIsGone`). A probe
  is past a pipe only when that has no reader (`ProbeIsPast`).
- *Captured lines* (`StreamIInv`): the lines kept say the same as all lines
  written (`SaysTheSame`): the last message, whether a turn ended, and how. That
  is not inductive for the answer alone, which looks at the last of several
  events. The proof compares what one more line does to both sequences; "the
  last that matters" is a greatest element, by well-ordering.
- *The patch* (`PatchIInv`): an index entry that Git trusts for its time tells the
  truth (`Sound`), for the worktree's index and for brgr's copy (`CopyIsSound`,
  which starts as the entries of the original with its time); and what is
  claimed as work was there at some time while it was sealed (`Shows`).
- *Objects* (`SealIInv`): an object has its name before its content is a result's
  (`SealerKnows`), whole before it has a name (`Whole`), and in a synced directory
  before a result is committed (`Durable`).
- *The ledger of failures* (`MemoIInv`): a filer's copy is the ledger with what it
  did itself (`Brings`), so merging it loses no issue of another; an issue that
  exists is in the ledger or in the hands of a filer (`IssueIsKnown`), and so is
  the last milestone commented on (`CommentsAreDue`). That no quote is left is a
  lemma about one error: whatever marker comes first, the cut is not behind it.
- *Status line and hooks* (`LineIInv`, `HooksIInv`): what the settings hold, or
  what the command in between is about to write, is the user's file with brgr's
  part in front of it, and the receipt names that part (`Known`, `NamesAll`,
  `Halfway`).
- *The note* (`NoteIInv`): the state that will be read next knows when the user
  was last told and is armed again only if usage was low since (`StateKnows`).

**What the proofs taught about the model.** Three properties turned out to be
false beyond the instance that checks them, with counterexamples that TLC
confirms on a larger one: `CancelledOnRequest` with two revisions,
`PidRecordKeepsLiveWorker` with three, `KeepsContract` with three revisions of two
attempts. Each is behaviour of the code (see Gaps), so the model keeps it and the
theorem names the bound; together they leave no bounds open. A fourth was false for
incidents that no scene of the run combines: when somebody closes by hand the pane
of an agent that stopped without sealing, and the supervisor is dead, recovery
records `lost` and the runner seals in time a moment later; `SealMayBeMissed` now
names these incidents. A fifth was a mistake of the model: `WithoutFreeText` cut an
error at its first colon, where the code looks for the colon behind the marker of
the screen; the proof did not go through for an error with a colon before it, and
the instance now has one.

**Only model-checked.** Liveness under fairness (`EveryRunEnds`,
`EverythingArrives`, `SlotIsFreed`, `DriverEnds`, `WaitsHear`, `MailIsTyped`, `NothingIsLeftOpen`, `StartsEnd`,
`SettledIsReclaimed`), which is outside the prover, and what recursive definitions
compute for every input. Every safety property of the passing runs is a
theorem, some with the hypothesis named above.

## What is not modelled

- *Boards*: append-only notes; each write is one transaction and nothing reads
  them back into a decision.
- *SQL text, busy retries, schema stamps*: the reason why a transaction is one
  atomic action everywhere.
- *Message replays by request id*, the order of pending mail, wait markers, owner
  proof in workflows and debates (it is that of `HeadTakeover`).
- *Failure wording, redaction character by character, reminder texts, layout,
  pane titles, `watch` and other output, argument and config parsing.*
- *Inputs and digests of workflow steps*: a diverging input is refused before any
  state changes.
- *Logs requested as evidence, results taken from a file, reuse of process ids,
  the lookup of repositories and the inventory that `prune` prints,
  `--keep-worktree`.*
- *The plugin bridge and the editor mods*: they call the CLI and keep nothing.
- In the lifecycle, harnesses that delegate to a pane: they are `PaneRun`, which
  does not repeat the attempt tables but their outcome.

Left for later work, in this order: an abstract specification of pane cleanup that
`PaneRun` and `OmpPane` both implement, and the repeated requests of the store's
idempotency table.
