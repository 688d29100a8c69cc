------------------------------ MODULE PaneRun ------------------------------
(***************************************************************************)
(* One revision whose worker runs in a Herdr pane.                         *)
(*                                                                         *)
(* The supervisor starts a pane runner, the runner opens the pane, prompts *)
(* the agent and waits for its report; the agent outlives both of them.    *)
(* The pane receipt in the run directory is what they share.  Beside them  *)
(* the session server of the task and every brgr command look after        *)
(* whatever is left: they stop, collect or give up an attempt without a    *)
(* supervisor, close the pane once the owner is done with the result, and  *)
(* move the report into the run directory.  Nothing but `recover.lock`     *)
(* and the atomic update of the receipt orders them.                       *)
(***************************************************************************)
EXTENDS Integers, FiniteSets

CONSTANTS
  session,         \* the session server, `__session`
  command,         \* brgr commands, one at a time
  PressBudget,     \* PRESS_BUDGET
  Scenes           \* bound: the incidents of one behaviour

Incidents == {
  "native",        \* the agent runs under the native host, Herdr does not name it
  "cursor",        \* its hook file was extended for this run
  "keep",          \* --keep-pane
  "dialog",        \* a screen stops the agent while it starts
  "silent",        \* the agent may stop without a report
  "unsealed",      \* the agent may leave its report unsealed
  "rewrite",       \* the agent changes its report after sealing it
  "supervisor", "runner", "helpers",   \* these processes may be killed, helpers once
  "early",         \* the supervisor may be killed before the receipt is written
  "cancel", "late",                    \* the owner cancels, the deadline passes
  "pane",          \* somebody closes the pane by hand
  "herdr",         \* a Herdr call may fail ...
  "back"}          \* ... and no more

Helpers == {session, command}

ASSUME PaneConstants ==
  session # command /\ PressBudget \in Nat \ {0} /\ Scenes \subseteq SUBSET Incidents

VARIABLES
  scene,           \* what may still happen in this behaviour
  attempt,         \* the attempt in the store: state, sealed bytes, reason
  settled,         \* revision_settlement: the owner is done with the result
  cancel, late,    \* cancellation requested; the deadline has passed
  pane,            \* none, open or gone
  agent,           \* what the agent does, and the digest its seal command holds
  report,          \* the bytes of the report file, 0: no file
  receipt,         \* the pane receipt
  archive,         \* the bytes of the archived report, 0: no file
  hook,            \* the Cursor hook file of the workspace
  sup,             \* the supervisor
  runner,          \* the pane runner
  helper,          \* session server and command
  lock             \* recover.lock

files == <<report, archive, hook>>
world == <<pane, agent, files>>
facts == <<scene, cancel, late>>
vars == <<scene, attempt, settled, cancel, late, pane, agent, report, receipt, archive, hook,
          sup, runner, helper, lock>>

Happens(i) == i \in scene
Bytes == 0..2
Open == {"running", "collecting"}
Unfinished == attempt.state \in Open
Free == "free"
Idle == [pc |-> "idle", seen |-> "none", bytes |-> 0]

Init ==
  /\ scene \in Scenes
  /\ attempt = [state |-> "running", bytes |-> 0, why |-> "none"]
  /\ settled = FALSE /\ cancel = FALSE /\ late = FALSE
  /\ pane = "none"
  /\ agent = [at |-> "none", sealing |-> 0]
  /\ report \in IF Happens("rewrite") THEN {0, 1} ELSE {0}    \* a file of an earlier try
  /\ receipt = [made |-> FALSE, cleanup |-> "none", digest |-> 0, fin |-> "no",
                archived |-> FALSE, refused |-> FALSE]
  /\ archive = 0
  /\ hook = "own"
  /\ sup = "wait"
  /\ runner = [pc |-> "clear", bytes |-> 0, reminded |-> FALSE, presses |-> 0]
  /\ helper = [h \in Helpers |-> [Idle EXCEPT !.pc = IF h = session THEN "off" ELSE "idle"]]
  /\ lock = Free

----------------------------------------------------------------------------
(* The receipt, the report and the pane. *)

Closed == receipt.cleanup = "closed"
Cleanup(r, s) == [r EXCEPT !.cleanup = s]
\* Mistake: a pane is there until somebody closes it through the receipt.
TrustsReceipt == receipt.made
\* receipt_pane_present: Herdr still shows the recorded pane
Present == receipt.made /\ pane = "open"
Finished(r) == [r EXCEPT !.fin = IF @ = "no" THEN (IF late THEN "late" ELSE "in") ELSE @]
\* the sealed report is in the workspace, unchanged
Sealed == receipt.digest # 0 /\ report = receipt.digest
\* Herdr or the screen says that the agent waits for input
AgentReady == agent.at \in {"ready", "idle"}
Gone == [agent EXCEPT !.at = "gone", !.sealing = 0]

\* close_leftover_pane without a failure: the pane and everything in it is gone
Shut ==
  IF ~receipt.made \/ Closed
    THEN UNCHANGED <<pane, agent, receipt>>
    ELSE /\ receipt' = Cleanup(receipt, "closed")
         /\ pane' = "gone" /\ agent' = Gone

StartServer(hs) == [hs EXCEPT ![session].pc = IF @ = "off" THEN "idle" ELSE @]

----------------------------------------------------------------------------
(* The pane runner, `__pane-run`. *)

RunnerTo(pc) == runner' = [runner EXCEPT !.pc = pc]
beside == <<facts, attempt, settled, archive, sup, lock>>

\* run_pane_adapter removes a report of an earlier try and takes layout.lock.
ClearReport ==
  /\ runner.pc = "clear"
  /\ report' = 0
  /\ RunnerTo("open")
  /\ UNCHANGED <<beside, pane, agent, hook, receipt, helper>>

OpenPane ==
  /\ runner.pc = "open"
  /\ \/ pane' = "open" /\ RunnerTo("record")
     \/ Happens("herdr") /\ RunnerTo("fail") /\ UNCHANGED pane
  /\ UNCHANGED <<beside, agent, files, receipt, helper>>

\* The receipt names the pane; then the agent is started in it.
RecordPane ==
  /\ runner.pc = "record"
  /\ receipt' = [receipt EXCEPT !.made = TRUE]
  /\ hook' = IF Happens("cursor") THEN "generated" ELSE hook
  /\ agent' = IF pane = "open" THEN [agent EXCEPT !.at = "booting"] ELSE Gone
  /\ RunnerTo("start")
  /\ UNCHANGED <<beside, pane, report, archive, helper>>

\* Mistake: one press too many.
TiresLate == runner.presses > PressBudget
Tired == runner.presses = PressBudget
\* settle, start_native: press what a rule says, at most PressBudget times.
Press ==
  /\ runner.pc = "start" /\ agent.at = "dialog"
  /\ IF Tired
       THEN RunnerTo("fail") /\ UNCHANGED agent
       ELSE /\ runner' = [runner EXCEPT !.presses = @ + 1]
            /\ agent' \in {agent, [agent EXCEPT !.at = "ready"]}
  /\ UNCHANGED <<beside, pane, files, receipt, helper>>

\* A screen no rule answers has stood past its deadline, or the agent is gone.
StartFails ==
  /\ runner.pc = "start" /\ agent.at \in {"dialog", "gone"}
  /\ RunnerTo("fail")
  /\ UNCHANGED <<beside, world, receipt, helper>>

\* send_first_prompt, then the session server is started
Prompt ==
  /\ runner.pc = "start" /\ agent.at = "ready"
  /\ agent' = [agent EXCEPT !.at = "working"]
  /\ helper' = StartServer(helper)
  /\ RunnerTo("poll")
  /\ UNCHANGED <<beside, pane, files, receipt>>

\* drive reads the receipt: a sealed report ends the run.
Poll ==
  /\ runner.pc = "poll"
  /\ RunnerTo(CASE receipt.digest = 0 -> "look" [] Sealed -> "finish" [] OTHER -> "fail")
  /\ UNCHANGED <<beside, world, receipt, helper>>

\* the report is the completion signal of an agent Herdr classifies
TakesReport == report # 0 /\ ~Happens("native")

\* drive looks at the agent; IdleReport.settle is an idle agent without a report.
Look ==
  /\ runner.pc = "look"
  /\ UNCHANGED <<beside, pane, files>>
  /\ \/ /\ agent.at = "gone" /\ RunnerTo("fail")
        /\ UNCHANGED <<agent, receipt, helper>>
     \/ /\ agent.at = "working" /\ RunnerTo("poll")
        /\ UNCHANGED <<agent, receipt, helper>>
     \/ /\ agent.at = "idle" /\ TakesReport /\ RunnerTo("finish")
        /\ UNCHANGED <<agent, receipt, helper>>
     \/ /\ agent.at = "idle" /\ ~TakesReport /\ report # 0   \* seal_native_report
        /\ IF Closed \/ receipt.digest \notin {0, report}
             THEN RunnerTo("fail") /\ UNCHANGED <<receipt, helper>>
             ELSE /\ receipt' = Finished([receipt EXCEPT !.digest = report])
                  /\ helper' = StartServer(helper)
                  /\ RunnerTo("poll")
        /\ UNCHANGED agent
     \/ /\ agent.at = "idle" /\ report = 0 /\ ~runner.reminded
        /\ runner' = [runner EXCEPT !.reminded = TRUE, !.pc = "poll"]
        /\ agent' = [agent EXCEPT !.at = "working"]
        /\ UNCHANGED <<receipt, helper>>
     \/ /\ agent.at = "idle" /\ report = 0 /\ runner.reminded /\ RunnerTo("noreport")
        /\ UNCHANGED <<agent, receipt, helper>>

\* The runner records the report it prints.
Finish ==
  /\ runner.pc = "finish"
  /\ IF report = 0
       THEN RunnerTo("fail") /\ UNCHANGED receipt
       ELSE /\ receipt' = [receipt EXCEPT !.digest = report, !.fin = IF late THEN "late" ELSE "in"]
            /\ runner' = [runner EXCEPT !.pc = "ok", !.bytes = report]
  /\ UNCHANGED <<beside, world, helper>>

\* ... or AgentGaveNoReport: the pane is closed unless a report is there.
ClosesFailedPane == ~Happens("keep") /\ report = 0

Fail ==
  /\ runner.pc \in {"fail", "noreport"}
  /\ IF ClosesFailedPane THEN Shut ELSE UNCHANGED <<pane, agent, receipt>>
  /\ RunnerTo(IF runner.pc = "fail" THEN "err" ELSE "none")
  /\ UNCHANGED <<beside, files, helper>>

RunnerOver == runner.pc \in {"ok", "none", "err", "dead"}
RunnerDies ==
  /\ Happens("runner") /\ ~RunnerOver
  /\ RunnerTo("dead")
  /\ UNCHANGED <<beside, world, receipt, helper>>

Runner == ClearReport \/ OpenPane \/ RecordPane \/ Press \/ StartFails \/ Prompt \/ Poll \/ Look
          \/ Finish \/ Fail

----------------------------------------------------------------------------
(* The supervisor of the runner. *)

\* finish_execution: a pane run that was stopped or failed may have left a worker.
Outcome ==
  CASE runner.pc = "ok"   -> [state |-> "candidate", bytes |-> runner.bytes, why |-> "none"]
    [] runner.pc = "none" -> [state |-> "failed", bytes |-> 0, why |-> "no report"]
    [] OTHER              -> [state |-> "lost", bytes |-> 0, why |-> "runner"]

\* The runner has ended, or the supervisor stops it: cancel file or deadline.
Conclude ==
  /\ sup = "wait" /\ (RunnerOver \/ cancel \/ late)
  /\ attempt' = Outcome
  /\ runner' = IF RunnerOver THEN runner ELSE [runner EXCEPT !.pc = "dead"]
  /\ sup' = "close"
  /\ UNCHANGED <<facts, settled, world, receipt, helper, lock>>

\* Mistake: the pane goes with the supervisor.
ClosesAnyPane == ~Happens("keep")
ClosesLeftover == ~Happens("keep") /\ attempt.state # "candidate"

CloseLeftover ==
  /\ sup = "close"
  /\ IF ClosesLeftover THEN Shut ELSE UNCHANGED <<pane, agent, receipt>>
  /\ sup' = "done"
  /\ UNCHANGED <<facts, attempt, settled, files, runner, helper, lock>>

SupervisorAlive == sup \in {"wait", "close"}
SupervisorDies ==
  /\ Happens("supervisor") /\ SupervisorAlive /\ (receipt.made \/ Happens("early"))
  /\ sup' = "dead"
  /\ UNCHANGED <<facts, attempt, settled, world, receipt, runner, helper, lock>>

----------------------------------------------------------------------------
(* The agent, the owner and the person at the terminal. *)

elsewhere == <<facts, attempt, settled, archive, sup, runner, lock>>
Does(s) == agent' = [agent EXCEPT !.at = s]

Boots ==
  /\ agent.at = "booting"
  /\ Does("ready") \/ (Happens("dialog") /\ Does("dialog"))
  /\ UNCHANGED <<elsewhere, pane, report, hook, receipt, helper>>

\* The agent writes its report, perhaps twice; `submit` also restores the hook.
Writes ==
  /\ agent.at = "working" /\ agent.sealing = 0 /\ receipt.digest = 0 /\ report < 2
  /\ report' = report + 1
  /\ hook' = "own"
  /\ UNCHANGED <<elsewhere, pane, agent, receipt, helper>>

\* seal_native_report reads the receipt and the report ...
Sealable == report # 0 /\ ~Closed /\ receipt.digest \in {0, report}
SealReads ==
  /\ agent.at = "working" /\ agent.sealing = 0 /\ ~(Sealed /\ receipt.fin # "no") /\ Sealable
  /\ agent' = [agent EXCEPT !.sealing = report]
  /\ UNCHANGED <<elsewhere, pane, report, hook, receipt, helper>>
\* ... and records the digest, when something else may have happened.
SealWrites ==
  /\ agent.sealing # 0
  /\ receipt' = Finished([receipt EXCEPT !.digest = agent.sealing])
  /\ agent' = [agent EXCEPT !.sealing = 0]
  /\ helper' = StartServer(helper)
  /\ UNCHANGED <<elsewhere, pane, report, hook>>

Stops ==
  /\ agent.at = "working" /\ agent.sealing = 0
  /\ receipt.digest # 0 \/ Happens("silent") \/ (Happens("unsealed") /\ report # 0)
  /\ Does("idle")
  /\ UNCHANGED <<elsewhere, pane, report, hook, receipt, helper>>

Rewrites ==
  /\ Happens("rewrite") /\ agent.at \in {"working", "idle"} /\ receipt.digest # 0 /\ report # 0
  /\ report' \in {0, 3 - report}
  /\ UNCHANGED <<elsewhere, pane, agent, hook, receipt, helper>>

Agent == Boots \/ Writes \/ SealReads \/ SealWrites \/ Stops

ClosedByHand ==
  /\ Happens("pane") /\ pane = "open"
  /\ pane' = "gone" /\ agent' = Gone
  /\ UNCHANGED <<elsewhere, report, hook, receipt, helper>>

HerdrIsBack ==
  /\ Happens("herdr")
  /\ scene' = (scene \ {"herdr"}) \cup {"back"}
  /\ UNCHANGED <<attempt, settled, cancel, late, world, receipt, sup, runner, helper, lock>>

owner == <<scene, attempt, world, receipt, sup, runner, helper, lock>>
Cancel ==
  /\ Happens("cancel") /\ Unfinished /\ ~cancel
  /\ cancel' = TRUE
  /\ UNCHANGED <<owner, settled, late>>
Deadline ==
  /\ Happens("late") /\ ~late
  /\ late' = TRUE
  /\ UNCHANGED <<owner, settled, cancel>>
\* accept or reject, and acknowledge
Decide ==
  /\ ~Unfinished /\ ~settled
  /\ settled' = TRUE
  /\ UNCHANGED <<owner, cancel, late>>

----------------------------------------------------------------------------
(* reconcile_pending, in the session server and in a command. *)

Goes(h, pc) == helper' = [helper EXCEPT ![h].pc = pc]
Rest(h) == IF h = session /\ Closed THEN "off" ELSE "idle"
others == <<facts, settled, sup, runner>>

\* serve_session stops a cancelled pane and ends; everybody else reconciles.
Begin(h) ==
  /\ helper[h].pc = "idle"
  /\ UNCHANGED <<others, attempt, files, lock>>
  /\ IF h = session /\ (Closed \/ cancel)
       THEN Goes(h, "off") /\ IF cancel THEN Shut ELSE UNCHANGED <<pane, agent, receipt>>
       ELSE /\ Goes(h, IF Unfinished /\ ~SupervisorAlive THEN "recover" ELSE "cleanup")
            /\ UNCHANGED <<pane, agent, receipt>>

\* Mistake: whoever finished, the deadline has passed.
ExpiresAlways == late
\* Mistake: only a report that came late has missed the deadline.
ExpiresLateReports == late /\ receipt.fin = "late"
Expired == late /\ receipt.fin # "in"
ToStop == receipt.made /\ (cancel \/ Expired)
\* Mistake: a report file is a result.
CollectsAnyReport == report # 0
Collectable == Sealed

\* recover_one: whoever has the lock stops the attempt or collects its report.
Recover(h) ==
  /\ helper[h].pc = "recover"
  /\ UNCHANGED <<others, files>>
  /\ IF lock # Free
       THEN Goes(h, "judge") /\ UNCHANGED <<attempt, pane, agent, receipt, lock>>
     ELSE IF ToStop                                           \* stop_external
       THEN /\ lock' = h
            /\ helper' = [helper EXCEPT ![h] =
                 [pc |-> "stop", seen |-> IF cancel THEN "cancelled" ELSE "failed", bytes |-> 0]]
            /\ CASE ~Happens("keep")  -> Shut
                 [] Happens("native") -> agent' = Gone /\ pane' = "gone" /\ UNCHANGED receipt
                 [] OTHER             -> UNCHANGED <<pane, agent, receipt>>
            /\ UNCHANGED attempt
     ELSE IF Collectable /\ Unfinished                        \* collect_recovered
       THEN /\ lock' = h
            /\ attempt' = [attempt EXCEPT !.state = "collecting"]
            /\ receipt' = Finished(receipt)
            /\ helper' = [helper EXCEPT ![h] = [pc |-> "collect", seen |-> "none", bytes |-> report]]
            /\ UNCHANGED <<pane, agent>>
     ELSE Goes(h, "judge") /\ UNCHANGED <<attempt, pane, agent, receipt, lock>>

\* commit_terminal_result_final: the first result stays.
CommitStopped(h) ==
  /\ helper[h].pc = "stop"
  /\ attempt' = IF Unfinished THEN [state |-> helper[h].seen, bytes |-> 0, why |-> "stopped"]
                ELSE attempt
  /\ lock' = Free
  /\ Goes(h, "judge")
  /\ UNCHANGED <<others, world, receipt>>

CommitCollected(h) ==
  /\ helper[h].pc = "collect"
  /\ attempt' = IF Unfinished THEN [state |-> "candidate", bytes |-> helper[h].bytes, why |-> "none"]
                ELSE attempt
  /\ lock' = Free
  /\ Goes(h, "judge")
  /\ UNCHANGED <<others, world, receipt>>

\* Mistake: an agent that is gone has left nothing.
AliveInPane == receipt.made /\ ~Closed /\ agent.at \notin {"none", "gone"}
\* external_alive
ExternalAlive == receipt.made /\ ~Closed /\ (Sealed \/ agent.at \notin {"none", "gone"})

\* reconcile_after_restart observes the attempt, later records it lost.
Judge(h) ==
  /\ helper[h].pc = "judge"
  /\ \/ /\ Unfinished /\ ~SupervisorAlive /\ (~ExternalAlive \/ (Happens("herdr") /\ ~Sealed))
        /\ helper' = [helper EXCEPT ![h].pc = "lose", ![h].seen = attempt.state]
     \/ /\ ~Unfinished \/ SupervisorAlive \/ ExternalAlive
        /\ Goes(h, "cleanup")
  /\ UNCHANGED <<others, attempt, world, receipt, lock>>

\* commit_recovered_lost
Lose(h) ==
  /\ helper[h].pc = "lose"
  /\ attempt' = IF attempt.state = helper[h].seen
                  THEN [state |-> "lost", bytes |-> 0, why |-> "unknown"] ELSE attempt
  /\ Goes(h, "cleanup")
  /\ UNCHANGED <<others, world, receipt, lock>>

\* cleanup_settled looks at the result of this revision
Handled == settled

CleanupSettled(h) ==
  /\ helper[h].pc = "cleanup"
  /\ UNCHANGED <<others, attempt, world, lock>>
  /\ \/ /\ Happens("keep") \/ ~Handled \/ ~receipt.made
        /\ Goes(h, Rest(h)) /\ UNCHANGED receipt
     \/ /\ Handled /\ ~Happens("keep") /\ receipt.made
        /\ \/ (Closed \/ ~Present) /\ receipt' = Cleanup(receipt, "closed") /\ Goes(h, "archive")
           \/ ~Closed /\ Present /\ ~AgentReady /\ Goes(h, Rest(h)) /\ UNCHANGED receipt
           \/ /\ ~Closed /\ Present /\ AgentReady
              /\ receipt' = Cleanup(receipt, "closing") /\ Goes(h, "close")
           \/ /\ Happens("herdr") /\ ~Closed
              /\ receipt' = Cleanup(receipt, "pending") /\ Goes(h, Rest(h))

\* `pane close`; closing a pane that is gone fails like any other Herdr error.
ClosePane(h) ==
  /\ helper[h].pc = "close"
  /\ UNCHANGED <<others, attempt, files, lock>>
  /\ \/ /\ pane = "open" /\ pane' = "gone" /\ agent' = Gone
        /\ receipt' = Cleanup(receipt, "closed") /\ Goes(h, "archive")
     \/ /\ pane = "gone" \/ Happens("herdr")
        /\ receipt' = Cleanup(receipt, "pending") /\ Goes(h, Rest(h))
        /\ UNCHANGED <<pane, agent>>

\* archive_report: restore_cursor, then pending_archive
Archive(h) ==
  /\ helper[h].pc = "archive"
  /\ hook' = "own"
  /\ IF receipt.archived \/ receipt.refused \/ receipt.digest = 0
       THEN Goes(h, Rest(h))
       ELSE helper' = [helper EXCEPT ![h].pc = "read", ![h].bytes = receipt.digest]
  /\ UNCHANGED <<others, attempt, pane, agent, report, archive, receipt, lock>>

\* Mistake: a report that is not there has been lost.
MissingIsRefused(digest) == FALSE
\* the other process archives before it removes
ArchivedByOther(digest) == archive = digest

ReadReport(h) ==
  LET digest == helper[h].bytes IN
  /\ helper[h].pc = "read"
  /\ IF report = digest
       THEN Goes(h, "write") /\ UNCHANGED receipt
       ELSE /\ receipt' = IF report = 0 /\ ArchivedByOther(digest)
                            THEN [receipt EXCEPT !.archived = TRUE]
                            ELSE [receipt EXCEPT !.refused = TRUE]
            /\ Goes(h, Rest(h))
  /\ UNCHANGED <<others, attempt, world, lock>>

\* Mistake: the report is moved away before the archive is there.
RemovesFirst(h) == report' = 0 /\ UNCHANGED archive
WritesArchive(h) == archive' = helper[h].bytes /\ UNCHANGED report

WriteArchive(h) ==
  /\ helper[h].pc = "write"
  /\ WritesArchive(h)
  /\ Goes(h, "remove")
  /\ UNCHANGED <<others, attempt, pane, agent, hook, receipt, lock>>

RemoveReport(h) ==
  /\ helper[h].pc = "remove"
  /\ report' = 0
  /\ Goes(h, "note")
  /\ UNCHANGED <<others, attempt, pane, agent, hook, archive, receipt, lock>>

NoteArchive(h) ==
  /\ helper[h].pc = "note"
  /\ receipt' = [receipt EXCEPT !.archived = TRUE]
  /\ Goes(h, Rest(h))
  /\ UNCHANGED <<others, attempt, world, lock>>

\* A killed process lets its lock go.  Bound: once.
HelperDies(h) ==
  /\ Happens("helpers") /\ helper[h].pc \notin {"off", "idle"}
  /\ scene' = scene \ {"helpers"}
  /\ helper' = [helper EXCEPT ![h] = [Idle EXCEPT !.pc = IF h = session THEN "off" ELSE "idle"]]
  /\ lock' = IF lock = h THEN Free ELSE lock
  /\ UNCHANGED <<cancel, late, settled, sup, runner, attempt, world, receipt>>

Reconcile(h) ==
  \/ Begin(h) \/ Recover(h) \/ CommitStopped(h) \/ CommitCollected(h) \/ Judge(h) \/ Lose(h)
  \/ CleanupSettled(h) \/ ClosePane(h) \/ Archive(h) \/ ReadReport(h) \/ WriteArchive(h)
  \/ RemoveReport(h) \/ NoteArchive(h)

Next ==
  \/ Runner \/ RunnerDies \/ Conclude \/ CloseLeftover \/ SupervisorDies
  \/ Agent \/ Rewrites \/ ClosedByHand \/ HerdrIsBack \/ Cancel \/ Deadline \/ Decide
  \/ \E h \in Helpers : Reconcile(h) \/ HelperDies(h)

----------------------------------------------------------------------------
(* Properties. *)

Attempts ==
  [state : Open \cup {"candidate", "failed", "cancelled", "lost"}, bytes : Bytes,
   why : {"none", "no report", "runner", "stopped", "unknown"}]
Agents ==
  [at : {"none", "booting", "dialog", "ready", "working", "idle", "gone"}, sealing : Bytes]
Receipts ==
  [made : BOOLEAN, cleanup : {"none", "pending", "closing", "closed"}, digest : Bytes,
   fin : {"no", "in", "late"}, archived : BOOLEAN, refused : BOOLEAN]
RunnerPlaces ==
  {"clear", "open", "record", "start", "poll", "look", "finish", "fail", "noreport",
   "ok", "none", "err", "dead"}
Runners ==
  [pc : RunnerPlaces, bytes : Bytes, reminded : BOOLEAN, presses : 0..PressBudget]
HelperPlaces ==
  {"off", "idle", "recover", "stop", "collect", "judge", "lose",
   "cleanup", "close", "archive", "read", "write", "remove", "note"}
Views == [pc : HelperPlaces, seen : Open \cup {"none", "cancelled", "failed"}, bytes : Bytes]

PaneTypeOK ==
  /\ scene \subseteq Incidents
  /\ attempt \in Attempts /\ agent \in Agents /\ receipt \in Receipts
  /\ settled \in BOOLEAN /\ cancel \in BOOLEAN /\ late \in BOOLEAN
  /\ pane \in {"none", "open", "gone"}
  /\ report \in Bytes /\ archive \in Bytes /\ hook \in {"own", "generated"}
  /\ sup \in {"wait", "close", "done", "dead"} /\ runner \in Runners
  /\ helper \in [Helpers -> Views] /\ lock \in Helpers \cup {Free}

\* A report whose digest is recorded is in the workspace or in the archive, whatever two cleaners
\* and their deaths do, unless the agent itself changes it.
SealedSurvives ==
  receipt.digest # 0 /\ ~Happens("rewrite") => receipt.digest \in {report, archive}

\* What was sealed into the store is what the receipt says the agent completed.
CandidateIsSealed ==
  attempt.state = "candidate" /\ ~Happens("rewrite") => attempt.bytes = receipt.digest

\* The two cleaners agree: an archive holds the sealed bytes, a report is refused only if it was
\* changed, and the workspace has its own hook file back when the report has been dealt with.
ArchivesAgree ==
  /\ receipt.archived /\ ~Happens("rewrite") => archive = receipt.digest
  /\ receipt.refused => Happens("rewrite")
  /\ receipt.archived \/ receipt.refused => hook = "own"

\* The pane of a result nobody has dealt with stays open, unless cancellation or deadline took it,
\* or the report was taken from under its runner.
UnreadPaneStays ==
  /\ attempt.state = "candidate" /\ ~settled
  /\ ~cancel /\ ~late /\ ~Happens("pane") /\ ~Happens("rewrite")
  => pane = "open"

\* Recovery does not give up an attempt whose report is sealed in time, now or later: an agent
\* that can still seal one is alive.  Cancellation may close the pane first; before there is a
\* receipt, and when Herdr does not answer, nobody can tell; and when somebody closes the pane of
\* an agent that has stopped without sealing, recovery finds neither agent nor seal, and the
\* runner may take the report a moment later.
SealMayBeMissed ==
  \/ {"early", "herdr", "back"} \cap scene # {}
  \/ Happens("pane") /\ {"silent", "unsealed", "rewrite"} \cap scene # {}
SealedIsNotLost ==
  attempt.why = "unknown" /\ ~cancel /\ ~SealMayBeMissed => ~(Sealed /\ receipt.fin = "in")

\* A report completed before the deadline is not failed for the deadline.
InTimeIsNotFailed ==
  attempt.why = "stopped" /\ attempt.state = "failed" => receipt.fin # "in"

\* Work that was done in time is neither given up nor failed.
GoodWorkIsKept == SealedIsNotLost /\ InTimeIsNotFailed

\* What comes about in the end (NothingIsLeftOpen).  The attempt is over, although supervisor, runner
\* or agent are gone; a sealed report that the agent then took away may keep it open.
RunHasEnded == ~Unfinished \/ Happens("rewrite")

\* Once the owner is done with a result its pane is gone and its report is put away; only an agent
\* that waits at a screen nobody answers, and whose supervisor is gone, keeps its pane.
PutAway ==
  Closed /\ pane = "gone" /\ (receipt.digest # 0 => receipt.archived \/ receipt.refused)
PaneReclaimed ==
  settled /\ receipt.made /\ ~Happens("keep")
    => PutAway \/ (agent.at = "dialog" /\ sup = "dead")

\* Seal, archive and store agree on the report, whatever was killed between them.
PaneInv == PaneTypeOK /\ SealedSurvives /\ CandidateIsSealed /\ ArchivesAgree
=============================================================================
