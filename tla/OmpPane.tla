------------------------------- MODULE OmpPane -------------------------------
(***************************************************************************)
(* Workers of the `omp-role` adapter (crates/brgr-cli/src/omp_adapter.rs,  *)
(* pane_cleanup.rs).  A launcher that is not brgr opens the pane; a        *)
(* wrapper process notes whom it found there in the task's one pane        *)
(* receipt, prompts the agent, and takes its report as the result.  When   *)
(* the owner has dealt with the result, whichever brgr command runs next   *)
(* in the owner's pane closes the worker's, if it is still the same agent, *)
(* idle, and not in the protected tab.  Cancellation closes it at once.    *)
(* Every check is a question to Herdr, and the answer may be old when brgr *)
(* acts on it.                                                             *)
(***************************************************************************)
EXTENDS Naturals

CONSTANTS
    Deciders,      \* commands that acknowledge, decide or cancel
    Reconcilers,   \* other commands in the owner's pane
    MaxMoves       \* bound: changes of panes by others, failures, killed commands

VARIABLES
    task,          \* each revision's run: state, outcome, what the owner did
    child,         \* each revision's pane: is it open, who sits in it and does what
    written,       \* each revision's report file: whose it is
    wrapper,       \* each revision's `brgr __omp-run`
    note,          \* TASK.pane.json
    keeps,         \* --keep-pane
    act,           \* what each command is doing
    revises,       \* will the owner revise the task?
    moves,
    \* history
    shut,          \* how each pane was closed
    harm           \* what a command did against what it had just seen

ompVars == <<task, child, written, wrapper, note, keeps, revises, act, moves, shut, harm>>

OmpCommands == Deciders \cup Reconcilers
Revisions == 1..2
NoNote == [of |-> 0, state |-> "none", result |-> 0]
NoCommand == [step |-> "idle", here |-> FALSE, copy |-> NoNote, sure |-> FALSE, of |-> 0]
NotAdmitted == [state |-> "none", outcome |-> "none", acked |-> FALSE, decided |-> FALSE]
NoChild == [at |-> "none", session |-> "own", status |-> "idle", lobby |-> FALSE]

\* A run that was just admitted, or one whose result was rejected and whose worker still sits in its
\* pane: then the task is revised.
Admitted == [NotAdmitted EXCEPT !.state = "active"]
DealtWith == [state |-> "over", outcome |-> "candidate", acked |-> TRUE, decided |-> TRUE]
OmpInit ==
    /\ \E first \in {Admitted, DealtWith} :
          /\ task = <<first, NotAdmitted>>
          /\ IF first = Admitted
             THEN /\ child = <<NoChild, NoChild>> /\ written = <<"nobody", "nobody">>
                  /\ wrapper = <<"none", "none">> /\ note = NoNote
                  /\ revises = FALSE /\ moves = 0 /\ keeps \in BOOLEAN
             ELSE /\ child = <<[NoChild EXCEPT !.at = "open"], NoChild>>
                  /\ written = <<"nobody", "nobody">> /\ wrapper = <<"ended", "none">>
                  /\ note \in {[of |-> 1, state |-> "retained", result |-> 0], [of |-> 1, state |-> "pending", result |-> 1]}
                  /\ revises = TRUE /\ moves = MaxMoves /\ keeps = FALSE
    /\ act = [c \in OmpCommands |-> NoCommand]
    /\ shut = <<"no", "no">> /\ harm = {}

IsOpen(r) == child[r].at = "open"
Forget == [c \in OmpCommands |-> [act[c] EXCEPT !.sure = FALSE]]

----------------------------------------------------------------------------
(* The agent, and whoever else uses the terminal.                           *)

AgentWorks(r) ==
    /\ IsOpen(r) /\ child[r].status = "working"
    /\ \/ task[r].state = "active" /\ written' = [written EXCEPT ![r] = child[r].session] /\ UNCHANGED child
       \/ \E s \in {"idle", "blocked"} : child' = [child EXCEPT ![r].status = s] /\ UNCHANGED written
    /\ UNCHANGED <<task, wrapper, note, keeps, revises, act, moves, shut, harm>>

Moves == moves < MaxMoves /\ moves' = moves + 1

\* Another session in the same pane; another prompt; another tab; closed by hand.
Moved(r) ==
    /\ Moves /\ IsOpen(r) /\ note.of >= r
    /\ \/ child' = [child EXCEPT ![r].session = "other", ![r].status = "working"] /\ UNCHANGED shut
       \/ child' = [child EXCEPT ![r].status = "working"] /\ UNCHANGED shut
       \/ child' = [child EXCEPT ![r].lobby = TRUE] /\ UNCHANGED shut
       \/ child' = [child EXCEPT ![r].at = "gone"] /\ shut' = [shut EXCEPT ![r] = "by hand"]
    /\ act' = Forget
    /\ wrapper' = [wrapper EXCEPT ![r] = IF @ = "seen" THEN "seen before" ELSE @]
    /\ UNCHANGED <<task, written, note, keeps, revises, harm>>

----------------------------------------------------------------------------
(* The wrapper (run_omp_adapter).                                           *)

Wraps(r, from) == wrapper[r] = from /\ task[r].state = "active"
WrapperGoes(r, to) == wrapper' = [wrapper EXCEPT ![r] = to]

\* launch_omp, recover_omp_contract: it may fail with the pane open.
LaunchOmp(r) ==
    /\ Wraps(r, "none")
    /\ \E opened \in BOOLEAN, ok \in BOOLEAN :
          /\ ok => opened
          /\ child' = IF opened THEN [child EXCEPT ![r].at = "open"] ELSE child
          /\ WrapperGoes(r, IF ok THEN "launched" ELSE "failed")
    /\ UNCHANGED <<task, written, note, keeps, revises, act, moves, shut, harm>>

\* record_spawn: there is one receipt of a task, and it is the latest run's.
RecordSpawn(r) ==
    /\ Wraps(r, "launched")
    /\ \E ok \in BOOLEAN :
          /\ WrapperGoes(r, IF ok THEN "recorded" ELSE "failed")
          /\ note' = IF ok THEN [of |-> r, state |-> "retained", result |-> 0] ELSE note
    /\ UNCHANGED <<task, child, written, keeps, revises, act, moves, shut, harm>>

\* omp_spawn_matches_initial
SameAgent(r) == IsOpen(r) /\ child[r].session = "own"
CheckSpawn(r) ==
    /\ Wraps(r, "recorded") /\ WrapperGoes(r, IF SameAgent(r) THEN "checked" ELSE "failed")
    /\ UNCHANGED <<task, child, written, note, keeps, revises, act, moves, shut, harm>>

\* The prompt may arrive although it is not confirmed.
SendPrompt(r) ==
    /\ Wraps(r, "checked")
    /\ \E arrives \in BOOLEAN, ok \in BOOLEAN :
          /\ (ok => arrives) /\ (arrives => IsOpen(r))
          /\ child' = IF arrives THEN [child EXCEPT ![r].status = "working"] ELSE child
          /\ WrapperGoes(r, IF ok THEN "prompted" ELSE "failed")
    /\ UNCHANGED <<task, written, note, keeps, revises, act, moves, shut, harm>>

\* Mistake: the pane is asked for the name alone.
AnyAgent(r) == IsOpen(r)
StillTheAgent(r) == SameAgent(r)
\* omp_completion_ready: it fails when the agent is another or is blocked.
CompletionReady(r) == child[r].status = "idle"
PollAgent(r) ==
    /\ Wraps(r, "prompted")
    /\ IF ~StillTheAgent(r) \/ child[r].status = "blocked" THEN WrapperGoes(r, "failed")
       ELSE CompletionReady(r) /\ written[r] # "nobody" /\ WrapperGoes(r, "seen")
    /\ UNCHANGED <<task, child, written, note, keeps, revises, act, moves, shut, harm>>

\* read_bounded_regular_report; a report that does not fit is none.
ReadOmpReport(r) ==
    /\ wrapper[r] \in {"seen", "seen before"} /\ task[r].state = "active"
    /\ \E fits \in BOOLEAN :
          /\ WrapperGoes(r, IF fits THEN "done" ELSE "failed")
          /\ harm' = IF fits /\ wrapper[r] = "seen" /\ written[r] # "own" THEN harm \cup {"stranger"} ELSE harm
    /\ UNCHANGED <<task, child, written, note, keeps, revises, act, moves, shut>>

\* The wrapper ends, or is stopped at the deadline or with the marker: the run is over, and
\* nobody looks at the report again.
RunOver(r) ==
    /\ task[r].state = "active"
    /\ \E stop \in BOOLEAN :
          /\ stop \/ wrapper[r] \in {"done", "failed"}
          /\ task' = [task EXCEPT ![r].state = "over",
                ![r].outcome = IF ~stop /\ wrapper[r] = "done" THEN "candidate" ELSE "lost"]
    /\ WrapperGoes(r, "ended") /\ written' = [written EXCEPT ![r] = "nobody"]
    /\ UNCHANGED <<child, note, keeps, revises, act, moves, shut, harm>>

----------------------------------------------------------------------------
(* What is asked before a pane is closed (status).                          *)

LatestResult == IF task[2].state = "over" THEN 2 ELSE IF task[1].state = "over" THEN 1 ELSE 0
Settled(r) == task[r].acked /\ (task[r].outcome = "candidate" => task[r].decided)

\* Mistake: a result that was read is settled.
ReadIsSettled(n) == n.result = n.of /\ n.of = LatestResult /\ task[n.of].acked
\* decision_is_complete
DecisionIsComplete(n) == n.result = n.of /\ n.of = LatestResult /\ Settled(n.of)

Closeable(n) ==
    /\ n.of # 0 /\ ~keeps /\ n.state \notin {"retained", "closed"}
    /\ DecisionIsComplete(n)
Eligible(n) ==
    /\ Closeable(n) /\ SameAgent(n.of)
    /\ child[n.of].status = "idle" /\ ~child[n.of].lobby

----------------------------------------------------------------------------
(* The owner's commands.                                                    *)

Step(c, to) == act' = [act EXCEPT ![c].step = to]
Quit(c) == act' = [act EXCEPT ![c] = NoCommand]
AtRest(c) == act[c].step = "idle"
Starts(c, step, here, r) == act' = [act EXCEPT ![c] = [NoCommand EXCEPT !.step = step, !.here = here, !.of = r]]

\* result --ack, accept, reject
Settle(c) ==
    /\ AtRest(c) /\ LatestResult # 0
    /\ \E decide \in BOOLEAN, here \in BOOLEAN :
          /\ decide => task[LatestResult].outcome = "candidate"
          /\ task' = [task EXCEPT ![LatestResult].acked = TRUE, ![LatestResult].decided = @ \/ decide]
          /\ Starts(c, "mark", here, LatestResult)
    /\ UNCHANGED <<child, written, wrapper, note, keeps, revises, moves, shut, harm>>

Revise ==
    /\ revises /\ task[2].state = "none"
    /\ task' = [task EXCEPT ![2].state = "active"]
    /\ UNCHANGED <<child, written, wrapper, note, keeps, revises, act, moves, shut, harm>>

\* mark_pending
Mark(c) ==
    /\ act[c].step = "mark"
    /\ IF note.of \notin {0, act[c].of} THEN Quit(c) /\ UNCHANGED note
       ELSE /\ Step(c, "close")
            /\ note' = IF note.of = 0 \/ keeps \/ note.state = "closed" THEN note
                       ELSE [note EXCEPT !.state = "pending", !.result = act[c].of]
    /\ UNCHANGED <<task, child, written, wrapper, keeps, revises, moves, shut, harm>>

\* Every command reconciles.
Reconciles(c) ==
    /\ AtRest(c) /\ note.of # 0 /\ Starts(c, "close", TRUE, 0)
    /\ UNCHANGED <<task, child, written, wrapper, note, keeps, revises, moves, shut, harm>>

\* close_if_eligible works on the receipt it read first.
CloseIfEligible(c) ==
    /\ act[c].step = "close"
    /\ IF note.state = "closing" /\ ~IsOpen(note.of)
       THEN note' = [note EXCEPT !.state = "closed"] /\ Quit(c)
       ELSE /\ UNCHANGED note
            /\ IF note.of = 0 \/ keeps \/ note.state = "closed" \/ ~act[c].here THEN Quit(c)
               ELSE act' = [act EXCEPT ![c].step = "ask", ![c].copy = note]
    /\ UNCHANGED <<task, child, written, wrapper, keeps, revises, moves, shut, harm>>

Ask(c) ==
    /\ act[c].step = "ask"
    /\ IF Eligible(note) THEN Step(c, "closing") ELSE Quit(c)
    /\ UNCHANGED <<task, child, written, wrapper, note, keeps, revises, moves, shut, harm>>

Crossing(c) == IF note.of # act[c].copy.of THEN harm \cup {"crossed"} ELSE harm
\* The command writes its own copy back, over a receipt that may be a later revision's by now.
WriteBack(c, state) ==
    /\ note' = [act[c].copy EXCEPT !.state = state]
    /\ harm' = Crossing(c)
WriteClosing(c) ==
    /\ act[c].step = "closing" /\ Step(c, "ask again") /\ WriteBack(c, "closing")
    /\ UNCHANGED <<task, child, written, wrapper, keeps, revises, moves, shut>>

\* Mistake: what was eligible a moment ago still is.
Trusts(n) == TRUE
EligibleStill(n) == Eligible(n)
\* An agent that cannot be found any more is an error, and the receipt stays as it is.
AskAgain(c) ==
    /\ act[c].step = "ask again"
    /\ IF EligibleStill(note)
       THEN /\ act' = [act EXCEPT ![c].step = "pull", ![c].sure = note.of = act[c].copy.of]
            /\ harm' = Crossing(c) /\ UNCHANGED note
       ELSE /\ Quit(c)
            /\ IF Closeable(note) /\ ~IsOpen(note.of) THEN UNCHANGED <<note, harm>>
               ELSE WriteBack(c, "pending")
    /\ UNCHANGED <<task, child, written, wrapper, keeps, revises, moves, shut>>

\* Herdr closes the pane, or it fails.
Closes(c, r, how) ==
    \/ /\ child' = [child EXCEPT ![r].at = "gone"]
       /\ shut' = IF IsOpen(r) THEN [shut EXCEPT ![r] = how] ELSE shut
       /\ harm' = IF /\ IsOpen(r) /\ act[c].sure
                     /\ \/ child[r].session # "own"
                        \/ how = "settled" /\ (child[r].status # "idle" \/ child[r].lobby)
                  THEN harm \cup {"stranger"} ELSE harm
       /\ UNCHANGED moves
    \/ Moves /\ UNCHANGED <<child, shut, harm>>

Pull(c) ==
    /\ act[c].step = "pull" /\ Step(c, "confirm")
    /\ Closes(c, act[c].copy.of, "settled")
    /\ UNCHANGED <<task, written, wrapper, note, keeps, revises>>

Confirm(c) ==
    /\ act[c].step \in {"confirm", "confirm cancel"} /\ Quit(c)
    /\ IF ~IsOpen(act[c].copy.of) THEN WriteBack(c, "closed")
       ELSE IF act[c].step = "confirm" THEN WriteBack(c, "pending") ELSE UNCHANGED <<note, harm>>
    /\ UNCHANGED <<task, child, written, wrapper, keeps, revises, moves, shut>>

\* cancel of a running task, or of any with --force
CancelTask(c) ==
    /\ AtRest(c) /\ note.of # 0 /\ Starts(c, "cancel", TRUE, 0)
    /\ UNCHANGED <<task, child, written, wrapper, note, keeps, revises, moves, shut, harm>>

\* cancel_owned_pane: busy or kept, if it is the same agent.
CancelOwnedPane(c) ==
    /\ act[c].step = "cancel"
    /\ IF note.of = 0 \/ note.state = "closed" THEN Quit(c) /\ UNCHANGED note
       ELSE IF ~IsOpen(note.of) THEN Quit(c) /\ note' = [note EXCEPT !.state = "closed"]
       ELSE /\ UNCHANGED note
            /\ IF ~SameAgent(note.of) THEN Quit(c)
               ELSE act' = [act EXCEPT ![c].step = "pull cancel", ![c].copy = note, ![c].sure = TRUE]
    /\ UNCHANGED <<task, child, written, wrapper, keeps, revises, moves, shut, harm>>

PullCancel(c) ==
    /\ act[c].step = "pull cancel" /\ Step(c, "confirm cancel")
    /\ Closes(c, act[c].copy.of, "cancelled")
    /\ UNCHANGED <<task, written, wrapper, note, keeps, revises>>

CommandDies(c) ==
    /\ ~AtRest(c) /\ Moves /\ Quit(c)
    /\ UNCHANGED <<task, child, written, wrapper, note, keeps, revises, shut, harm>>

WrapperWorks(r) ==
    \/ LaunchOmp(r) \/ RecordSpawn(r) \/ CheckSpawn(r) \/ SendPrompt(r)
    \/ PollAgent(r) \/ ReadOmpReport(r) \/ RunOver(r)
CommandWorks(c) ==
    \/ Mark(c) \/ CloseIfEligible(c) \/ Ask(c) \/ WriteClosing(c) \/ AskAgain(c)
    \/ Pull(c) \/ Confirm(c) \/ CancelOwnedPane(c) \/ PullCancel(c)

OmpNext ==
    \/ \E r \in Revisions : WrapperWorks(r) \/ AgentWorks(r) \/ Moved(r)
    \/ Revise
    \/ \E c \in OmpCommands : CommandWorks(c) \/ CommandDies(c)
    \/ \E c \in Deciders : Settle(c) \/ CancelTask(c)
    \/ \E c \in Reconcilers : Reconciles(c)

----------------------------------------------------------------------------
(* A pane is closed for its result only when the owner has settled that     *)
(* very result, and never if it was to be kept.  Nothing is said once a     *)
(* command has written an older revision's receipt over a later one's.      *)
OnlySettledIsClosed ==
    "crossed" \notin harm =>
        \A r \in Revisions : shut[r] = "settled" => Settled(r) /\ ~keeps /\ task[r].state = "over"

(* Nothing is done to somebody else: no pane is closed, and no report taken *)
(* for the worker's, when what was last seen there was not the worker,      *)
(* idle and in its own tab; nor is a pane called closed that is not.        *)
NobodyElseIsHarmed == "stranger" \notin harm /\ (note.state = "closed" => child[note.of].at = "gone")

OmpInv ==
    /\ note.state \in {"none", "retained", "pending", "closing", "closed"}
    /\ OnlySettledIsClosed /\ NobodyElseIsHarmed

\* In the end a pane that may be closed is closed, when brgr is used there.
EligibleIsClosed == ~Eligible(note)
=============================================================================
