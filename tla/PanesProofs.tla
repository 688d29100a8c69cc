------------------------------ MODULE PanesProofs ------------------------------
(***************************************************************************)
(* Runs in panes keep their promises whatever becomes of their processes   *)
(* and whichever incidents coincide: what the agent has sealed survives,   *)
(* is not called lost or late, and its pane stays until it is read.  Panes *)
(* of the other launcher are closed for a settled result only, and only if *)
(* they are still the very agent's, for any number of commands at work at  *)
(* the same time.  And whatever screens stop an agent, brgr answers them   *)
(* safely or tells the owner.                                              *)
(***************************************************************************)
EXTENDS Panes, FiniteSetTheorems, WellFoundedInduction, SequenceTheorems, TLAPS

----------------------------------------------------------------------------
(* A run and whoever looks after it.                                        *)

\* Nothing but the agent itself changes a sealed report.
Steady == ~Happens("rewrite")
\* Nobody has a reason to close the pane: nothing is settled, no deadline, no cancellation, and
\* the attempt is open or has its candidate.
Kept ==
  /\ ~settled /\ ~cancel /\ ~late /\ ~Happens("pane") /\ Steady
  /\ attempt.state \in Open \cup {"candidate"}
Unopened == runner.pc \in {"clear", "open", "record"}
\* The deadline has passed over an unfinished report; that does not change any more.
Missed == late /\ receipt.fin # "in"
\* The agent is gone, and nothing can seal its report in time.
Hopeless ==
  /\ agent.at = "gone" /\ receipt.made
  /\ report = 0 \/ Missed \/ (receipt.digest = 0 /\ runner.pc # "finish")

\* Pane, agent and receipt belong together.
TiesOK ==
  /\ Unopened => ~receipt.made
  /\ runner.pc \in {"start", "poll", "look", "finish"} => receipt.made
  /\ ~receipt.made =>
       /\ receipt.digest = 0 /\ receipt.cleanup = "none" /\ agent.at \in {"none", "gone"}
       /\ ~receipt.archived /\ ~receipt.refused
  /\ receipt.made => agent.at # "none"
  /\ agent.at \notin {"none", "gone"} => pane = "open"
  /\ receipt.digest # 0 => receipt.fin # "no"
  /\ agent.sealing # 0 =>
       agent.at = "working" /\ receipt.digest = 0 /\ agent.sealing = report
  /\ runner.pc = "finish" => receipt.digest # 0 \/ agent.at \in {"idle", "gone"}

\* The supervisor concludes an attempt once, and only of an open one; an owner settles what is over.
SupervisorOK ==
  /\ sup = "wait" => Unfinished
  /\ sup \in {"close", "done"} => ~Unfinished
  /\ sup = "dead" /\ ~Happens("early") => receipt.made
  /\ settled => ~Unfinished

Filing == {"read", "write", "remove", "note"}
\* What a process that looks after the attempt has seen stays true while it acts on it.
HelperOK(h) ==
  /\ helper[h].pc \in Filing \cup {"close", "archive"} => receipt.made /\ settled
  /\ helper[h].pc \in Filing =>
       receipt.digest # 0 /\ hook = "own" /\ (Steady => helper[h].bytes = receipt.digest)
  /\ helper[h].pc \in {"remove", "note"} /\ Steady => archive = receipt.digest
  /\ helper[h].pc = "collect" /\ Steady => helper[h].bytes = receipt.digest /\ receipt.digest # 0
  /\ helper[h].pc \in {"recover", "stop", "collect", "judge", "lose"} => ~SupervisorAlive
  /\ helper[h].pc = "stop" => helper[h].seen = "cancelled" \/ (helper[h].seen = "failed" /\ Missed)
  /\ helper[h].pc = "lose" /\ ~cancel /\ ~SealMayBeMissed => Hopeless
HelpersOK == \A h \in Helpers : HelperOK(h)

\* The report is where the receipt says; who takes it away had put it into the archive before, and
\* the owner was done with it.
ReportOK ==
  /\ receipt.archived \/ receipt.refused => hook = "own"
  /\ receipt.refused => ~Steady
  /\ Steady /\ receipt.digest # 0 =>
       report = receipt.digest \/ (report = 0 /\ archive = receipt.digest /\ settled)
  /\ receipt.archived /\ Steady => archive = receipt.digest /\ receipt.digest # 0
  /\ runner.pc = "ok" /\ Steady => runner.bytes = receipt.digest /\ receipt.digest # 0
  /\ attempt.state = "candidate" /\ Steady => attempt.bytes = receipt.digest /\ receipt.digest # 0

UnreadOK == Kept /\ (receipt.digest # 0 \/ runner.pc = "finish") => pane = "open"

\* An agent that is gone while the attempt is open has left nothing that can be sealed in time,
\* unless somebody closed its pane by hand; and then it had sealed its report or never will.
LossOK ==
  /\ runner.pc = "record" /\ ~Happens("pane") => pane = "open"
  /\ Unfinished /\ ~cancel /\ agent.at = "gone" /\ receipt.made
       => Happens("pane") \/ report = 0 \/ Missed
  /\ Unfinished /\ ~cancel /\ receipt.cleanup = "closed"
       => agent.at = "gone" /\ (report = 0 \/ Missed)
  /\ {"silent", "unsealed"} \cap scene = {} =>
       (agent.at = "idle" \/ runner.pc = "finish" => receipt.digest # 0)
  /\ attempt.why = "unknown" /\ ~cancel /\ ~SealMayBeMissed => Hopeless
  /\ attempt.why = "stopped" /\ attempt.state = "failed" => Missed

\* What a step never takes back: what a process that looks after the attempt may rely on.
ScenesLast ==
  /\ settled => settled'
  /\ cancel => cancel'
  /\ late => late'
  /\ \A i \in Incidents \ {"herdr", "back", "helpers"} : Happens(i)' <=> Happens(i)
  /\ SealMayBeMissed => SealMayBeMissed'
SealLasts ==
  /\ receipt.made => receipt'.made
  /\ receipt.digest # 0 => receipt'.digest # 0 /\ (Steady => receipt'.digest = receipt.digest)
  /\ Missed => Missed'
FilesLast ==
  /\ receipt.made /\ hook = "own" => hook' = "own"
  /\ Steady /\ receipt.digest # 0 /\ archive = receipt.digest => archive' = archive
GoneLasts ==
  /\ Hopeless => Hopeless'
  /\ agent.at = "gone" => agent'.at = "gone" \/ ~receipt.made
  /\ report = 0 /\ agent.at = "gone" => report' = 0
Lasting ==
  ScenesLast /\ SealLasts /\ FilesLast /\ GoneLasts /\ (~SupervisorAlive => ~SupervisorAlive')

PaneRunInv ==
  PaneTypeOK /\ TiesOK /\ SupervisorOK /\ HelpersOK /\ ReportOK /\ UnreadOK /\ LossOK

----------------------------------------------------------------------------
(* What the helpers of the steps do to a receipt and to a view.             *)

\* Whatever the code notes in a receipt leaves a receipt.
LEMMA Noting ==
  ASSUME NEW r \in Receipts
  PROVE  /\ \A s \in {"pending", "closing", "closed"} : Cleanup(r, s) \in Receipts
         /\ Finished(r) \in Receipts
         /\ \A b \in Bytes :
              /\ Finished([r EXCEPT !.digest = b]) \in Receipts
              /\ [r EXCEPT !.digest = b, !.fin = IF late THEN "late" ELSE "in"] \in Receipts
         /\ [r EXCEPT !.made = TRUE] \in Receipts
         /\ [r EXCEPT !.archived = TRUE] \in Receipts
         /\ [r EXCEPT !.refused = TRUE] \in Receipts
BY DEF Receipts, Cleanup, Finished

\* A receipt that differs in its cleanup at most.
SameSeal ==
  /\ receipt'.made = receipt.made /\ receipt'.digest = receipt.digest
  /\ receipt'.fin = receipt.fin
  /\ receipt'.archived = receipt.archived /\ receipt'.refused = receipt.refused

\* Noting how the cleanup goes changes nothing else in a receipt.
LEMMA Marking ==
  ASSUME receipt \in Receipts, NEW s, receipt' = Cleanup(receipt, s)
  PROVE  SameSeal /\ receipt'.cleanup = s
BY DEF Receipts, Cleanup, SameSeal

\* Whoever closes what is left closes the pane of the receipt and all that is in it.
Shuts ==
  /\ receipt.made /\ ~Closed
  /\ SameSeal /\ receipt'.cleanup = "closed"
  /\ pane' = "gone" /\ agent' = Gone

\* Closing what is left either finds nothing to close or takes pane and agent away.
LEMMA Shutting ==
  ASSUME receipt \in Receipts, Shut
  PROVE  (UNCHANGED <<pane, agent, receipt>> /\ (~receipt.made \/ Closed)) \/ Shuts
BY Marking DEF Shut, Shuts

\* A helper that goes on changes its place and nothing else.
LEMMA Going ==
  ASSUME PaneTypeOK, NEW h \in Helpers
  PROVE  /\ \A pc \in HelperPlaces : Goes(h, pc) =>
              /\ helper' \in [Helpers -> Views]
              /\ helper'[h].pc = pc /\ helper'[h].seen = helper[h].seen
              /\ helper'[h].bytes = helper[h].bytes
              /\ \A g \in Helpers \ {h} : helper'[g] = helper[g]
         /\ Rest(h) \in {"off", "idle"}
BY DEF PaneTypeOK, Goes, Rest, Views, HelperPlaces, Helpers

\* When Herdr's server is started, only a helper that waited for it changes its place.
LEMMA Starting == ASSUME helper \in [Helpers -> Views]
                  PROVE  /\ StartServer(helper) \in [Helpers -> Views]
                         /\ \A h \in Helpers : /\ StartServer(helper)[h].seen = helper[h].seen
                                               /\ StartServer(helper)[h].bytes = helper[h].bytes
                                               /\ \/ StartServer(helper)[h].pc = helper[h].pc
                                                  \/ StartServer(helper)[h].pc = "idle"
BY PaneConstants DEF StartServer, Views, HelperPlaces, Helpers

\* A helper that notes what it sees leaves the others alone.
LEMMA Viewing ==
  ASSUME helper \in [Helpers -> Views], NEW h \in Helpers, NEW v \in Views,
         helper' = [helper EXCEPT ![h] = v]
  PROVE  /\ helper' \in [Helpers -> Views] /\ helper'[h] = v
         /\ \A g \in Helpers \ {h} : helper'[g] = helper[g]
OBVIOUS

\* What an agent does leaves an agent, and a report it is about to seal stays.
LEMMA Doing ==
  ASSUME agent \in Agents
  PROVE  /\ Gone \in Agents /\ Gone.at = "gone" /\ Gone.sealing = 0
         /\ \A s \in {"booting", "dialog", "ready", "working", "idle"} :
              /\ [agent EXCEPT !.at = s] \in Agents
              /\ [agent EXCEPT !.at = s].at = s /\ [agent EXCEPT !.at = s].sealing = agent.sealing
              /\ Does(s) => agent' \in Agents /\ agent'.at = s /\ agent'.sealing = agent.sealing
         /\ \A b \in Bytes : [agent EXCEPT !.sealing = b] \in Agents
<1>0. 0 \in Bytes
  BY DEF Bytes
<1>1. Gone \in Agents /\ Gone.at = "gone" /\ Gone.sealing = 0
  BY <1>0 DEF Agents, Gone
<1>2. \A s \in {"booting", "dialog", "ready", "working", "idle"} :
        /\ [agent EXCEPT !.at = s] \in Agents
        /\ [agent EXCEPT !.at = s].at = s /\ [agent EXCEPT !.at = s].sealing = agent.sealing
        /\ Does(s) => agent' \in Agents /\ agent'.at = s /\ agent'.sealing = agent.sealing
  BY DEF Agents, Does
<1>3. \A b \in Bytes : [agent EXCEPT !.sealing = b] \in Agents
  BY DEF Agents
<1> QED BY <1>1, <1>2, <1>3

\* However an attempt ends, it leaves an attempt's record.
LEMMA Ending ==
  /\ \A s \in {"cancelled", "failed"} : [state |-> s, bytes |-> 0, why |-> "stopped"] \in Attempts
  /\ [state |-> "lost", bytes |-> 0, why |-> "unknown"] \in Attempts
  /\ runner \in Runners => Outcome \in Attempts
<1>1. \A s \in {"cancelled", "failed"} : [state |-> s, bytes |-> 0, why |-> "stopped"] \in Attempts
  BY DEF Attempts, Bytes
<1>2. [state |-> "lost", bytes |-> 0, why |-> "unknown"] \in Attempts
  BY DEF Attempts, Bytes
<1>3. ASSUME runner \in Runners PROVE Outcome \in Attempts
  <2>1. CASE runner.pc = "ok"
    BY <1>3, <2>1 DEF Outcome, Attempts, Runners
  <2>2. CASE runner.pc = "none"
    BY <2>2 DEF Outcome, Attempts, Bytes
  <2>3. CASE runner.pc \notin {"ok", "none"}
    BY <2>3 DEF Outcome, Attempts, Bytes
  <2> QED BY <2>1, <2>2, <2>3
<1> QED BY <1>1, <1>2, <1>3

\* A receipt that holds the digest of a report, and when it was completed.
Seals(b) ==
  /\ receipt'.made = receipt.made /\ receipt'.cleanup = receipt.cleanup
  /\ receipt'.digest = b
  /\ receipt'.fin \in {"in", "late"} /\ (late /\ receipt.fin # "in" => receipt'.fin = "late")
  /\ receipt'.archived = receipt.archived /\ receipt'.refused = receipt.refused

\* The three ways to seal a report, early, at the end and late, write its digest.
LEMMA Sealing ==
  ASSUME receipt \in Receipts
  PROVE  /\ \A b \in Bytes : receipt' = Finished([receipt EXCEPT !.digest = b]) => Seals(b)
         /\ \A b \in Bytes :
              receipt' = [receipt EXCEPT !.digest = b, !.fin = IF late THEN "late" ELSE "in"]
                => Seals(b)
         /\ receipt' = Finished(receipt) => Seals(receipt.digest)
<1>1. ASSUME NEW b \in Bytes, receipt' = Finished([receipt EXCEPT !.digest = b]) PROVE Seals(b)
  BY <1>1 DEF Receipts, Finished, Seals
<1>2. ASSUME NEW b \in Bytes,
             receipt' = [receipt EXCEPT !.digest = b, !.fin = IF late THEN "late" ELSE "in"]
      PROVE  Seals(b)
  BY <1>2 DEF Receipts, Seals
<1>3. receipt' = Finished(receipt) => Seals(receipt.digest)
  BY DEF Receipts, Finished, Seals
<1> QED BY <1>1, <1>2, <1>3

\* Noting in a receipt that its report was archived or refused changes no digest.
LEMMA Filed ==
  ASSUME receipt \in Receipts,
         receipt' = [receipt EXCEPT !.archived = TRUE] \/ receipt' = [receipt EXCEPT !.refused = TRUE]
  PROVE  /\ receipt'.made = receipt.made /\ receipt'.cleanup = receipt.cleanup
         /\ receipt'.digest = receipt.digest /\ receipt'.fin = receipt.fin
BY DEF Receipts

\* What a look at the agent may lead to.
Looks ==
  \/ UNCHANGED <<agent, receipt, helper>> /\ runner'.pc \in {"fail", "poll"}
  \/ UNCHANGED <<agent, receipt, helper>> /\ runner'.pc = "noreport" /\ agent.at = "idle" /\ report = 0
  \/ UNCHANGED <<agent, receipt, helper>> /\ runner'.pc = "finish" /\ agent.at = "idle" /\ report # 0
  \/ /\ agent.at = "idle" /\ report # 0 /\ receipt.digest \in {0, report} /\ ~Closed
     /\ Seals(report) /\ helper' = StartServer(helper)
     /\ UNCHANGED agent /\ runner'.pc = "poll"
  \/ /\ agent.at = "idle" /\ report = 0 /\ agent' = [agent EXCEPT !.at = "working"]
     /\ UNCHANGED <<receipt, helper>> /\ runner'.pc = "poll"

\* A look at the agent leads nowhere else.
LEMMA Looking ==
  ASSUME PaneTypeOK, Look
  PROVE  Looks
BY Sealing DEF PaneTypeOK, Look, Looks, RunnerTo, TakesReport, Runners

\* A runner that goes on keeps the bytes it has read.
LEMMA Running ==
  ASSUME runner \in Runners
  PROVE  \A pc \in RunnerPlaces : RunnerTo(pc) =>
           runner'.pc = pc /\ runner'.bytes = runner.bytes
BY DEF Runners, RunnerTo

\* A receipt stays one.
LEMMA ReceiptsStay ==
  ASSUME PaneTypeOK, TiesOK, Next
  PROVE  receipt' \in Receipts
<1> USE DEF beside, elsewhere, owner, others, facts, world, files, PaneTypeOK
<1>1. CASE RecordPane
  BY <1>1, Noting DEF RecordPane, RunnerTo, Gone
<1>2. CASE Look
  BY <1>2, Noting DEF Look, RunnerTo, TakesReport, Closed, StartServer
<1>3. CASE Finish
  BY <1>3 DEF Finish, RunnerTo, Receipts
<1>4. CASE Fail
  BY <1>4, Noting DEF Fail, RunnerTo, Shut, ClosesFailedPane, Closed, Gone
<1>5. CASE CloseLeftover
  BY <1>5, Noting DEF CloseLeftover, ClosesLeftover, Shut, Closed, Gone
<1>6. CASE SealWrites
  <2>1. agent.sealing \in Bytes
    BY DEF Agents
  <2>2. receipt' = Finished([receipt EXCEPT !.digest = agent.sealing])
    BY <1>6 DEF SealWrites
  <2> QED BY <2>1, <2>2, Noting
<1>7. ASSUME NEW h \in Helpers, Begin(h) PROVE receipt' \in Receipts
  BY <1>7, Noting DEF Begin, Goes, Shut, Closed, Gone, SupervisorAlive, Rest
<1>8. ASSUME NEW h \in Helpers, Recover(h) PROVE receipt' \in Receipts
  BY <1>8, Noting DEF Recover, Goes, Shut, Closed, Gone, ToStop, Expired, Collectable, Sealed
<1>9. ASSUME NEW h \in Helpers, CleanupSettled(h) PROVE receipt' \in Receipts
  BY <1>9, Noting DEF CleanupSettled, Goes, Rest, Closed, Handled, Present, AgentReady
<1>10. ASSUME NEW h \in Helpers, ClosePane(h) PROVE receipt' \in Receipts
  BY <1>10, Noting DEF ClosePane, Goes, Rest, Closed, Gone
<1>11. ASSUME NEW h \in Helpers, ReadReport(h) PROVE receipt' \in Receipts
  BY <1>11, Noting DEF ReadReport, Goes, Rest, Closed, ArchivedByOther
<1>12. ASSUME NEW h \in Helpers, NoteArchive(h) PROVE receipt' \in Receipts
  BY <1>12, Noting DEF NoteArchive, Goes, Rest, Closed
<1> QED BY <1>1, <1>2, <1>3, <1>4, <1>5, <1>6, <1>7, <1>8, <1>9, <1>10, <1>11, <1>12
       DEF Next, Runner, Agent, Reconcile, ClearReport, OpenPane, Press, StartFails, Prompt,
           Poll, RunnerDies, Conclude, SupervisorDies, Boots, Writes, SealReads, Stops,
           Rewrites, ClosedByHand, HerdrIsBack, Cancel, Deadline, Decide, CommitStopped,
           CommitCollected, Judge, Lose, Archive, WriteArchive, RemoveReport, HelperDies,
           WritesArchive

\* A pane and an agent stay what they are.
LEMMA WorldStays ==
  ASSUME PaneTypeOK, TiesOK, HelpersOK, Next
  PROVE  pane' \in {"none", "open", "gone"} /\ agent' \in Agents
<1> USE DEF beside, elsewhere, owner, others, facts, world, files, PaneTypeOK
<1>1. CASE OpenPane
  BY <1>1, Doing DEF OpenPane, RunnerTo
<1>2. CASE RecordPane
  BY <1>2, Doing DEF RecordPane, RunnerTo
<1>3. CASE Press
  BY <1>3, Doing DEF Press, RunnerTo, Tired
<1>4. CASE Prompt
  BY <1>4, Doing DEF Prompt, RunnerTo
<1>5. CASE Look
  BY <1>5, Doing DEF Look, RunnerTo, TakesReport, Closed
<1>6. CASE Fail
  BY <1>6, Doing DEF Fail, RunnerTo, Shut, ClosesFailedPane, Closed
<1>7. CASE CloseLeftover
  BY <1>7, Doing DEF CloseLeftover, ClosesLeftover, Shut, Closed
<1>8. CASE Boots
  BY <1>8, Doing DEF Boots
<1>9. CASE SealReads
  BY <1>9, Doing DEF SealReads, Sealable, Sealed, Closed
<1>10. CASE SealWrites
  BY <1>10 DEF SealWrites, Agents, Bytes
<1>11. CASE Stops
  BY <1>11, Doing DEF Stops
<1>12. CASE ClosedByHand
  BY <1>12, Doing DEF ClosedByHand
<1>13. ASSUME NEW h \in Helpers, Begin(h)
       PROVE  pane' \in {"none", "open", "gone"} /\ agent' \in Agents
  BY <1>13, Doing DEF Begin, Shut, Closed, SupervisorAlive
<1>14. ASSUME NEW h \in Helpers, Recover(h)
       PROVE  pane' \in {"none", "open", "gone"} /\ agent' \in Agents
  BY <1>14, Doing DEF Recover, Shut, Closed, ToStop, Expired, Collectable, Sealed
<1>15. ASSUME NEW h \in Helpers, ClosePane(h)
       PROVE  pane' \in {"none", "open", "gone"} /\ agent' \in Agents
  BY <1>15, Doing DEF ClosePane, Closed
<1> QED BY <1>1, <1>2, <1>3, <1>4, <1>5, <1>6, <1>7, <1>8, <1>9, <1>10, <1>11, <1>12, <1>13,
       <1>14, <1>15
       DEF Next, Runner, Agent, Reconcile, ClearReport, StartFails, Poll, Finish, RunnerDies,
           Conclude, SupervisorDies, Writes, Rewrites, HerdrIsBack, Cancel, Deadline, Decide,
           CommitStopped, CommitCollected, Judge, Lose, CleanupSettled, Archive, ReadReport,
           WriteArchive, RemoveReport, NoteArchive, HelperDies, WritesArchive

\* The supervisor and the runner are always at one of their places.
LEMMA RunnersStay ==
  ASSUME PaneTypeOK, Next
  PROVE  sup' \in {"wait", "close", "done", "dead"} /\ runner' \in Runners
<1> USE DEF beside, elsewhere, owner, others, facts, world, files, PaneTypeOK, Runners,
      RunnerPlaces
<1>1. CASE ClearReport
  BY <1>1 DEF ClearReport, RunnerTo
<1>2. CASE OpenPane
  BY <1>2 DEF OpenPane, RunnerTo
<1>3. CASE RecordPane
  BY <1>3 DEF RecordPane, RunnerTo, Gone
<1>4. CASE Press
  <2>1. CASE Tired
    BY <1>4, <2>1 DEF Press, RunnerTo
  <2>2. CASE ~Tired
    BY <1>4, <2>2, PaneConstants DEF Press, Tired
  <2> QED BY <2>1, <2>2
<1>5. CASE StartFails
  BY <1>5 DEF StartFails, RunnerTo
<1>6. CASE Prompt
  BY <1>6 DEF Prompt, RunnerTo, StartServer
<1>7. CASE Poll
  BY <1>7 DEF Poll, RunnerTo, Sealed
<1>8. CASE Look
  BY <1>8 DEF Look, RunnerTo, TakesReport, Closed, Finished, StartServer
<1>9. CASE Finish
  BY <1>9 DEF Finish, RunnerTo
<1>10. CASE Fail
  BY <1>10 DEF Fail, RunnerTo, ClosesFailedPane, Cleanup, Closed, Gone
<1>11. CASE RunnerDies
  BY <1>11 DEF RunnerDies, RunnerTo, RunnerOver
<1>12. CASE Conclude
  BY <1>12 DEF Conclude, RunnerOver, Outcome
<1>13. CASE CloseLeftover
  BY <1>13 DEF CloseLeftover, ClosesLeftover, Cleanup, Closed, Gone
<1>14. CASE SupervisorDies
  BY <1>14 DEF SupervisorDies, SupervisorAlive
<1>15. ASSUME Agent \/ Rewrites \/ ClosedByHand \/ HerdrIsBack \/ Cancel \/ Deadline \/ Decide
       PROVE  UNCHANGED <<sup, runner>>
  BY <1>15 DEF Agent, Boots, Writes, SealReads, SealWrites, Stops, Rewrites, ClosedByHand,
               HerdrIsBack, Cancel, Deadline, Decide
<1>16. ASSUME NEW h \in Helpers, Reconcile(h) \/ HelperDies(h)
       PROVE  UNCHANGED <<sup, runner>>
  BY <1>16 DEF Reconcile, Begin, Recover, CommitStopped, CommitCollected, Judge, Lose,
               CleanupSettled, ClosePane, Archive, ReadReport, WriteArchive, RemoveReport,
               NoteArchive, HelperDies
<1>17. sup \in {"wait", "close", "done", "dead"} /\ runner \in Runners
  OBVIOUS
<1> HIDE DEF PaneTypeOK, Runners, RunnerPlaces
<1> QED BY <1>1, <1>2, <1>3, <1>4, <1>5, <1>6, <1>7, <1>8, <1>9, <1>10, <1>11, <1>12, <1>13,
       <1>14, <1>15, <1>16, <1>17
       DEF Next, Runner

\* An attempt's record stays one.
LEMMA AttemptsStay ==
  ASSUME PaneTypeOK, HelpersOK, Next
  PROVE  attempt' \in Attempts
<1> USE DEF beside, elsewhere, owner, others, facts, world, files, PaneTypeOK
<1>1. CASE Conclude
  BY <1>1, Ending DEF Conclude
<1>2. ASSUME NEW h \in Helpers, Recover(h) PROVE attempt' \in Attempts
  BY <1>2 DEF Recover, Attempts, Open
<1>3. ASSUME NEW h \in Helpers, CommitStopped(h) PROVE attempt' \in Attempts
  <2>1. helper[h].seen = "cancelled" \/ helper[h].seen = "failed"
    BY <1>3 DEF CommitStopped, HelpersOK, HelperOK
  <2> QED BY <1>3, <2>1, Ending DEF CommitStopped
<1>4. ASSUME NEW h \in Helpers, CommitCollected(h) PROVE attempt' \in Attempts
  BY <1>4 DEF CommitCollected, Attempts, Views
<1>5. ASSUME NEW h \in Helpers, Lose(h) PROVE attempt' \in Attempts
  BY <1>5, Ending DEF Lose
<1> QED BY <1>1, <1>2, <1>3, <1>4, <1>5
       DEF Next, Runner, Agent, Reconcile, ClearReport, OpenPane, RecordPane, Press, StartFails,
           Prompt, Poll, Look, Finish, Fail, RunnerDies, CloseLeftover, SupervisorDies, Boots,
           Writes, SealReads, SealWrites, Stops, Rewrites, ClosedByHand, HerdrIsBack, Cancel,
           Deadline, Decide, Begin, Judge, CleanupSettled, ClosePane, Archive, ReadReport,
           WriteArchive, RemoveReport, NoteArchive, HelperDies, WritesArchive

\* A helper is always at one of its places, and somebody or nobody holds the lock.
LEMMA ViewsStay ==
  ASSUME PaneTypeOK, HelpersOK, Next
  PROVE  helper' \in [Helpers -> Views] /\ lock' \in Helpers \cup {Free}
<1> USE DEF beside, elsewhere, owner, others, facts, world, files, PaneTypeOK, HelperPlaces
<1>1. CASE Prompt
  BY <1>1, Starting DEF Prompt, RunnerTo
<1>2. CASE Look
  BY <1>2, Starting DEF Look, RunnerTo
<1>3. CASE SealWrites
  BY <1>3, Starting DEF SealWrites, RunnerTo
<1>4. ASSUME NEW h \in Helpers, Begin(h)
      PROVE  helper' \in [Helpers -> Views] /\ lock' \in Helpers \cup {Free}
  BY <1>4, Going, PaneConstants DEF Begin, Closed, SupervisorAlive
<1>5. ASSUME NEW h \in Helpers, Recover(h)
      PROVE  helper' \in [Helpers -> Views] /\ lock' \in Helpers \cup {Free}
  <2>1. [pc |-> "stop", seen |-> IF cancel THEN "cancelled" ELSE "failed", bytes |-> 0] \in Views
    BY DEF Views, Bytes
  <2>2. [pc |-> "collect", seen |-> "none", bytes |-> report] \in Views
    BY DEF Views
  <2>3. CASE Goes(h, "judge")
    BY <1>5, <2>3, Going DEF Recover
  <2>4. CASE ~Goes(h, "judge")
    BY <1>5, <2>1, <2>2, <2>4, Viewing DEF Recover
  <2> QED BY <2>3, <2>4
<1>6. ASSUME NEW h \in Helpers, CommitStopped(h)
      PROVE  helper' \in [Helpers -> Views] /\ lock' \in Helpers \cup {Free}
  BY <1>6, Going, PaneConstants DEF CommitStopped
<1>7. ASSUME NEW h \in Helpers, CommitCollected(h)
      PROVE  helper' \in [Helpers -> Views] /\ lock' \in Helpers \cup {Free}
  BY <1>7, Going, PaneConstants DEF CommitCollected
<1>8. ASSUME NEW h \in Helpers, Judge(h)
      PROVE  helper' \in [Helpers -> Views] /\ lock' \in Helpers \cup {Free}
  <2>1. CASE Goes(h, "cleanup")
    BY <1>8, <2>1, Going DEF Judge
  <2>2. CASE ~Goes(h, "cleanup")
    BY <1>8, <2>2 DEF Judge, Views, Unfinished, Open
  <2> QED BY <2>1, <2>2
<1>9. ASSUME NEW h \in Helpers, Lose(h)
      PROVE  helper' \in [Helpers -> Views] /\ lock' \in Helpers \cup {Free}
  BY <1>9, Going, PaneConstants DEF Lose
<1>10. ASSUME NEW h \in Helpers, CleanupSettled(h)
       PROVE  helper' \in [Helpers -> Views] /\ lock' \in Helpers \cup {Free}
  BY <1>10, Going, PaneConstants DEF CleanupSettled, Closed, Handled, Present, AgentReady
<1>11. ASSUME NEW h \in Helpers, ClosePane(h)
       PROVE  helper' \in [Helpers -> Views] /\ lock' \in Helpers \cup {Free}
  BY <1>11, Going, PaneConstants DEF ClosePane, Closed
<1>12. ASSUME NEW h \in Helpers, Archive(h)
       PROVE  helper' \in [Helpers -> Views] /\ lock' \in Helpers \cup {Free}
  <2>1. CASE Goes(h, Rest(h))
    BY <1>12, <2>1, Going DEF Archive
  <2>2. CASE ~Goes(h, Rest(h))
    BY <1>12, <2>2 DEF Archive, Views, Receipts
  <2> QED BY <2>1, <2>2
<1>13. ASSUME NEW h \in Helpers, ReadReport(h)
       PROVE  helper' \in [Helpers -> Views] /\ lock' \in Helpers \cup {Free}
  BY <1>13, Going, PaneConstants DEF ReadReport, Closed, ArchivedByOther
<1>14. ASSUME NEW h \in Helpers, WriteArchive(h)
       PROVE  helper' \in [Helpers -> Views] /\ lock' \in Helpers \cup {Free}
  BY <1>14, Going, PaneConstants DEF WriteArchive, WritesArchive
<1>15. ASSUME NEW h \in Helpers, RemoveReport(h)
       PROVE  helper' \in [Helpers -> Views] /\ lock' \in Helpers \cup {Free}
  BY <1>15, Going, PaneConstants DEF RemoveReport
<1>16. ASSUME NEW h \in Helpers, NoteArchive(h)
       PROVE  helper' \in [Helpers -> Views] /\ lock' \in Helpers \cup {Free}
  BY <1>16, Going, PaneConstants DEF NoteArchive, Closed
<1>17. ASSUME NEW h \in Helpers, HelperDies(h)
       PROVE  helper' \in [Helpers -> Views] /\ lock' \in Helpers \cup {Free}
  <2>1. [Idle EXCEPT !.pc = IF h = session THEN "off" ELSE "idle"] \in Views
    BY DEF Idle, Views, Bytes
  <2> QED BY <1>17, <2>1, Viewing DEF HelperDies
<1> QED BY <1>1, <1>2, <1>3, <1>4, <1>5, <1>6, <1>7, <1>8, <1>9, <1>10, <1>11, <1>12, <1>13,
       <1>14, <1>15, <1>16, <1>17
       DEF Next, Runner, Agent, Reconcile, ClearReport, OpenPane, RecordPane, Press, StartFails,
           Poll, Finish, Fail, RunnerDies, Conclude, CloseLeftover, SupervisorDies, Boots,
           Writes, SealReads, Stops, Rewrites, ClosedByHand, HerdrIsBack, Cancel, Deadline,
           Decide

\* Report, archive and hook hold what files may hold.
LEMMA FilesStay ==
  ASSUME PaneTypeOK, TiesOK, HelpersOK, Next
  PROVE  report' \in Bytes /\ archive' \in Bytes /\ hook' \in {"own", "generated"}
<1> USE DEF beside, elsewhere, owner, others, facts, world, files, PaneTypeOK, Bytes, Views
<1>1. CASE ClearReport
  BY <1>1 DEF ClearReport, RunnerTo
<1>2. CASE RecordPane
  BY <1>2 DEF RecordPane, RunnerTo, Gone
<1>3. CASE Writes
  BY <1>3 DEF Writes
<1>4. CASE Rewrites
  BY <1>4 DEF Rewrites
<1>5. ASSUME NEW h \in Helpers, Archive(h)
      PROVE  report' \in Bytes /\ archive' \in Bytes /\ hook' \in {"own", "generated"}
  BY <1>5 DEF Archive, Goes, Rest, Closed
<1>6. ASSUME NEW h \in Helpers, WriteArchive(h)
      PROVE  report' \in Bytes /\ archive' \in Bytes /\ hook' \in {"own", "generated"}
  BY <1>6 DEF WriteArchive, Goes, WritesArchive
<1>7. ASSUME NEW h \in Helpers, RemoveReport(h)
      PROVE  report' \in Bytes /\ archive' \in Bytes /\ hook' \in {"own", "generated"}
  BY <1>7 DEF RemoveReport, Goes
<1> QED BY <1>1, <1>2, <1>3, <1>4, <1>5, <1>6, <1>7
       DEF Next, Runner, Agent, Reconcile, OpenPane, Press, StartFails, Prompt, Poll, Look,
           Finish, Fail, RunnerDies, Conclude, CloseLeftover, SupervisorDies, Boots, SealReads,
           SealWrites, Stops, ClosedByHand, HerdrIsBack, Cancel, Deadline, Decide, Begin,
           Recover, CommitStopped, CommitCollected, Judge, Lose, CleanupSettled, ClosePane,
           ReadReport, NoteArchive, HelperDies

\* Incidents, settlement, cancellation and deadline stay what they are.
LEMMA SceneStays ==
  ASSUME PaneTypeOK, Next
  PROVE  /\ scene' \subseteq Incidents
         /\ settled' \in BOOLEAN
         /\ cancel' \in BOOLEAN
         /\ late' \in BOOLEAN
<1> USE DEF beside, elsewhere, owner, others, facts, world, files, PaneTypeOK, Incidents
<1>1. CASE HerdrIsBack
  BY <1>1 DEF HerdrIsBack
<1>2. CASE Cancel
  BY <1>2 DEF Cancel
<1>3. CASE Deadline
  BY <1>3 DEF Deadline
<1>4. CASE Decide
  BY <1>4 DEF Decide
<1>5. ASSUME NEW h \in Helpers, HelperDies(h)
      PROVE  /\ scene' \subseteq Incidents
             /\ settled' \in BOOLEAN
             /\ cancel' \in BOOLEAN
             /\ late' \in BOOLEAN
  BY <1>5 DEF HelperDies, Idle
<1>6. ASSUME Runner \/ RunnerDies \/ CloseLeftover
      PROVE  UNCHANGED <<scene, settled, cancel, late>>
  BY <1>6 DEF Runner, ClearReport, OpenPane, RecordPane, Press, StartFails, Prompt, Poll, Look,
              Finish, Fail, RunnerDies, CloseLeftover
<1>7. ASSUME Conclude \/ SupervisorDies \/ Agent \/ Rewrites \/ ClosedByHand
      PROVE  UNCHANGED <<scene, settled, cancel, late>>
  BY <1>7 DEF Conclude, SupervisorDies, Agent, Boots, Writes, SealReads, SealWrites, Stops,
              Rewrites, ClosedByHand
<1>8. ASSUME NEW h \in Helpers, Reconcile(h)
      PROVE  UNCHANGED <<scene, settled, cancel, late>>
  BY <1>8 DEF Reconcile, Begin, Recover, CommitStopped, CommitCollected, Judge, Lose,
              CleanupSettled, ClosePane, Archive, ReadReport, WriteArchive, RemoveReport,
              NoteArchive
<1>9. /\ scene \subseteq Incidents /\ settled \in BOOLEAN
      /\ cancel \in BOOLEAN /\ late \in BOOLEAN
  OBVIOUS
<1> HIDE DEF PaneTypeOK, Incidents
<1> QED BY <1>1, <1>2, <1>3, <1>4, <1>5, <1>6, <1>7, <1>8, <1>9 DEF Next

\* Every step keeps the types of the run.
LEMMA PaneTypeStep ==
  ASSUME PaneTypeOK, TiesOK, HelpersOK, Next
  PROVE  PaneTypeOK'
BY SceneStays, AttemptsStay, WorldStays, FilesStay, ReceiptsStay, RunnersStay, ViewsStay
    DEF PaneTypeOK

\* Incidents are fixed but for three, and nothing that has passed is taken back.
LEMMA ScenesLasting ==
  ASSUME PaneRunInv, Next
  PROVE  ScenesLast
<1> USE DEF beside, elsewhere, owner, others, facts, world, files, ScenesLast, Happens,
      SealMayBeMissed, Incidents
<1>1. CASE HerdrIsBack
  BY <1>1 DEF HerdrIsBack
<1>2. CASE Cancel
  BY <1>2 DEF Cancel
<1>3. CASE Deadline
  BY <1>3 DEF Deadline
<1>4. CASE Decide
  BY <1>4 DEF Decide
<1>5. ASSUME NEW h \in Helpers, HelperDies(h) PROVE ScenesLast
  BY <1>5 DEF HelperDies, Idle
<1>6. CASE UNCHANGED <<scene, settled, cancel, late>>
  BY <1>6
<1> HIDE DEF ScenesLast, Happens, SealMayBeMissed, Incidents
<1> QED BY <1>1, <1>2, <1>3, <1>4, <1>5, <1>6
       DEF Next, Runner, Agent, Reconcile, ClearReport, OpenPane, RecordPane, Press, StartFails,
           Prompt, Poll, Look, Finish, Fail, RunnerDies, Conclude, CloseLeftover,
           SupervisorDies, Boots, Writes, SealReads, SealWrites, Stops, Rewrites, ClosedByHand,
           Begin, Recover, CommitStopped, CommitCollected, Judge, Lose, CleanupSettled,
           ClosePane, Archive, ReadReport, WriteArchive, RemoveReport, NoteArchive,
           WritesArchive

\* A receipt is kept; its digest changes only when the agent rewrites its report.
LEMMA SealLasting ==
  ASSUME PaneRunInv, Next
  PROVE  SealLasts
<1> USE DEF beside, elsewhere, owner, others, facts, world, files, PaneRunInv, PaneTypeOK,
      TiesOK, ReportOK, SealLasts, Missed, SameSeal, Shuts
<1>1. CASE RecordPane
  BY <1>1, Shutting, Marking, Filed DEF RecordPane, RunnerTo
<1>2. CASE Look
  <2>1. Looks /\ report' = report
    BY <1>2, Looking DEF Look
  <2> QED BY <1>2, <2>1, Doing DEF Look, Looks, Seals, Agents
<1>3. CASE Finish
  <2>1. receipt' = receipt \/ (report # 0 /\ Seals(report))
    BY <1>3, Sealing DEF Finish
  <2> QED BY <1>3, <2>1 DEF Finish, Seals, RunnerTo
<1>4. CASE Fail
  BY <1>4, Shutting, Marking, Filed DEF Fail, RunnerTo, ClosesFailedPane
<1>5. CASE CloseLeftover
  BY <1>5, Shutting, Marking, Filed DEF CloseLeftover, ClosesLeftover
<1>6. CASE SealWrites
  BY <1>6, Shutting, Marking, Filed DEF SealWrites, Finished, StartServer
<1>7. ASSUME NEW h \in Helpers, Begin(h) PROVE SealLasts
  BY <1>7, Shutting, Marking, Filed DEF Begin, SupervisorAlive, Rest
<1>8. ASSUME NEW h \in Helpers, Recover(h) PROVE SealLasts
  <2>1. \/ UNCHANGED <<agent, receipt>>
        \/ Shuts
        \/ Seals(receipt.digest) /\ UNCHANGED agent
        \/ agent' = Gone /\ UNCHANGED receipt
    BY <1>8, Shutting, Sealing DEF Recover
  <2> QED BY <1>8, <2>1, Doing DEF Recover, Seals
<1>9. ASSUME NEW h \in Helpers, CleanupSettled(h) PROVE SealLasts
  BY <1>9, Shutting, Marking, Filed DEF CleanupSettled, Rest, Handled, Present, AgentReady
<1>10. ASSUME NEW h \in Helpers, ClosePane(h) PROVE SealLasts
  BY <1>10, Shutting, Marking, Filed DEF ClosePane, Rest
<1>11. ASSUME NEW h \in Helpers, ReadReport(h) PROVE SealLasts
  BY <1>11, Shutting, Marking, Filed DEF ReadReport, Rest, ArchivedByOther
<1>12. ASSUME NEW h \in Helpers, NoteArchive(h) PROVE SealLasts
  BY <1>12, Shutting, Marking, Filed DEF NoteArchive, Rest
<1>13. CASE Deadline
  BY <1>13, Shutting, Marking, Filed DEF Deadline
<1>14. CASE UNCHANGED <<receipt, late>>
  BY <1>14
<1> HIDE DEF PaneRunInv, PaneTypeOK, TiesOK, ReportOK, SealLasts, Missed, SameSeal, Shuts
<1> QED BY <1>1, <1>2, <1>3, <1>4, <1>5, <1>6, <1>7, <1>8, <1>9, <1>10, <1>11, <1>12, <1>13,
       <1>14
       DEF Next, Runner, Agent, Reconcile, ClearReport, OpenPane, Press, StartFails, Prompt,
           Poll, RunnerDies, Conclude, SupervisorDies, Boots, Writes, SealReads, Stops,
           Rewrites, ClosedByHand, HerdrIsBack, Cancel, Decide, CommitStopped, CommitCollected,
           Judge, Lose, Archive, WriteArchive, RemoveReport, HelperDies, WritesArchive

\* The worker's hook stays with its receipt, and an archived report stays archived.
LEMMA FilesLasting ==
  ASSUME PaneRunInv, Next
  PROVE  FilesLast
<1> USE DEF beside, elsewhere, owner, others, facts, world, files, PaneRunInv, TiesOK, Unopened,
      HelpersOK, HelperOK, Filing, Views, FilesLast
<1>1. CASE RecordPane
  BY <1>1 DEF RecordPane, RunnerTo, Gone
<1>2. CASE Writes
  BY <1>2 DEF Writes
<1>3. CASE SealWrites
  BY <1>3 DEF SealWrites, Finished, StartServer
<1>4. ASSUME NEW h \in Helpers, Archive(h) PROVE FilesLast
  BY <1>4 DEF Archive, Goes, Rest, Closed
<1>5. ASSUME NEW h \in Helpers, WriteArchive(h) PROVE FilesLast
  BY <1>5 DEF WriteArchive, Goes, WritesArchive
<1>6. CASE UNCHANGED <<hook, archive>>
  BY <1>6
<1> HIDE DEF PaneRunInv, TiesOK, Unopened, HelpersOK, HelperOK, Filing, Views, FilesLast
<1> QED BY <1>1, <1>2, <1>3, <1>4, <1>5, <1>6
       DEF Next, Runner, Agent, Reconcile, ClearReport, OpenPane, Press, StartFails, Prompt,
           Poll, Look, Finish, Fail, RunnerDies, Conclude, CloseLeftover, SupervisorDies, Boots,
           SealReads, Stops, Rewrites, ClosedByHand, HerdrIsBack, Cancel, Deadline, Decide,
           Begin, Recover, CommitStopped, CommitCollected, Judge, Lose, CleanupSettled,
           ClosePane, ReadReport, RemoveReport, NoteArchive, HelperDies

\* An agent that is gone does not come back, and so a hopeless attempt stays hopeless.
LEMMA GoneLasting ==
  ASSUME PaneRunInv, Next
  PROVE  GoneLasts
<1> USE DEF beside, elsewhere, owner, others, facts, world, files, PaneRunInv, PaneTypeOK,
      TiesOK, Unopened, GoneLasts, Hopeless, SameSeal, Shuts
<1>0. (Missed => Missed') /\ (receipt.made => receipt'.made)
  BY SealLasting DEF SealLasts
<1>1. CASE ClearReport
  BY <1>1, <1>0, Shutting, Marking, Doing, Filed DEF ClearReport, RunnerTo
<1>2. CASE OpenPane
  BY <1>2, <1>0, Shutting, Marking, Doing, Filed DEF OpenPane, RunnerTo
<1>3. CASE RecordPane
  BY <1>3, <1>0, Shutting, Marking, Doing, Filed DEF RecordPane, RunnerTo
<1>4. CASE Press
  BY <1>4, <1>0, Shutting, Marking, Doing, Filed DEF Press, RunnerTo, Tired
<1>5. CASE StartFails
  BY <1>5, <1>0, Shutting, Marking, Doing, Filed DEF StartFails, RunnerTo
<1>6. CASE Prompt
  BY <1>6, <1>0, Shutting, Marking, Doing, Filed DEF Prompt, RunnerTo, StartServer
<1>7. CASE Poll
  BY <1>7, <1>0, Shutting, Marking, Doing, Filed DEF Poll, RunnerTo, Sealed
<1>8. CASE Look
  <2>1. Looks /\ report' = report
    BY <1>8, Looking DEF Look
  <2> QED BY <1>0, <1>8, <2>1, Doing DEF Look, Looks, Seals, Agents
<1>9. CASE Finish
  <2>1. receipt' = receipt \/ (report # 0 /\ Seals(report))
    BY <1>9, Sealing DEF Finish
  <2> QED BY <1>0, <1>9, <2>1 DEF Finish, Seals, RunnerTo
<1>10. CASE Fail
  BY <1>10, <1>0, Shutting, Marking, Doing, Filed DEF Fail, RunnerTo, ClosesFailedPane
<1>11. CASE RunnerDies
  BY <1>11, <1>0, Shutting, Marking, Doing, Filed DEF RunnerDies, RunnerTo, RunnerOver
<1>12. CASE Conclude
  BY <1>12, <1>0, Shutting, Marking, Doing, Filed DEF Conclude, RunnerOver
<1>13. CASE CloseLeftover
  BY <1>13, <1>0, Shutting, Marking, Doing, Filed DEF CloseLeftover, ClosesLeftover
<1>14. CASE Boots
  BY <1>14, <1>0, Shutting, Marking, Doing, Filed DEF Boots
<1>15. CASE Writes
  BY <1>15, <1>0, Shutting, Marking, Doing, Filed DEF Writes
<1>16. CASE SealReads
  BY <1>16, <1>0, Shutting, Marking, Doing, Filed DEF SealReads, Sealable, Sealed
<1>17. CASE SealWrites
  BY <1>17, <1>0, Shutting, Marking, Doing, Filed DEF SealWrites, Finished, StartServer
<1>18. CASE Stops
  BY <1>18, <1>0, Shutting, Marking, Doing, Filed DEF Stops
<1>19. CASE Rewrites
  BY <1>19, <1>0, Shutting, Marking, Doing, Filed DEF Rewrites
<1>20. CASE ClosedByHand
  BY <1>20, <1>0, Shutting, Marking, Doing, Filed DEF ClosedByHand
<1>21. ASSUME NEW h \in Helpers, Begin(h) PROVE GoneLasts
  BY <1>21, <1>0, Shutting, Marking, Doing, Filed DEF Begin, SupervisorAlive, Rest
<1>22. ASSUME NEW h \in Helpers, Recover(h) PROVE GoneLasts
  <2>1. \/ UNCHANGED <<agent, receipt>>
        \/ Shuts
        \/ Seals(receipt.digest) /\ UNCHANGED agent
        \/ agent' = Gone /\ UNCHANGED receipt
    BY <1>22, Shutting, Sealing DEF Recover
  <2> QED BY <1>0, <1>22, <2>1, Doing DEF Recover, Seals
<1>23. ASSUME NEW h \in Helpers, CleanupSettled(h) PROVE GoneLasts
  BY <1>23, <1>0, Shutting, Marking, Doing, Filed
      DEF CleanupSettled, Rest, Handled, Present, AgentReady
<1>24. ASSUME NEW h \in Helpers, ClosePane(h) PROVE GoneLasts
  BY <1>24, <1>0, Shutting, Marking, Doing, Filed DEF ClosePane, Rest
<1>25. ASSUME NEW h \in Helpers, ReadReport(h) PROVE GoneLasts
  BY <1>25, <1>0, Shutting, Marking, Doing, Filed DEF ReadReport, Rest, ArchivedByOther
<1>26. ASSUME NEW h \in Helpers, RemoveReport(h) PROVE GoneLasts
  BY <1>26, <1>0, Shutting, Marking, Doing, Filed DEF RemoveReport
<1>27. ASSUME NEW h \in Helpers, NoteArchive(h) PROVE GoneLasts
  BY <1>27, <1>0, Shutting, Marking, Doing, Filed DEF NoteArchive, Rest
<1>28. CASE UNCHANGED <<agent, report, receipt, runner>>
  BY <1>0, <1>28
<1> HIDE DEF PaneRunInv, PaneTypeOK, TiesOK, Unopened, GoneLasts, Hopeless, SameSeal, Shuts
<1> QED BY <1>0, <1>1, <1>2, <1>3, <1>4, <1>5, <1>6, <1>7, <1>8, <1>9, <1>10, <1>11, <1>12,
       <1>13, <1>14, <1>15, <1>16, <1>17, <1>18, <1>19, <1>20, <1>21, <1>22, <1>23, <1>24,
       <1>25, <1>26, <1>27, <1>28
       DEF Next, Runner, Agent, Reconcile, SupervisorDies, HerdrIsBack, Cancel, Deadline,
           Decide, CommitStopped, CommitCollected, Judge, Lose, Archive, WriteArchive,
           HelperDies, WritesArchive

\* What a helper may rely on, no step takes back.
LEMMA StepsLast ==
  ASSUME PaneRunInv, Next
  PROVE  Lasting
<1>1. ~SupervisorAlive => ~SupervisorAlive'
  <2>1. CASE UNCHANGED sup
    BY <2>1 DEF SupervisorAlive
  <2>2. CASE Conclude \/ CloseLeftover \/ SupervisorDies
    BY <2>2 DEF SupervisorAlive, Conclude, CloseLeftover, SupervisorDies
  <2> QED BY <2>1, <2>2
         DEF Next, Runner, Agent, Reconcile, beside, elsewhere, owner, others, ClearReport,
             OpenPane, RecordPane, Press, StartFails, Prompt, Poll, Look, Finish, Fail,
             RunnerDies, Boots, Writes, SealReads, SealWrites, Stops, Rewrites, ClosedByHand,
             HerdrIsBack, Cancel, Deadline, Decide, Begin, Recover, CommitStopped,
             CommitCollected, Judge, Lose, CleanupSettled, ClosePane, Archive, ReadReport,
             WriteArchive, RemoveReport, NoteArchive, HelperDies
<1> QED BY <1>1, ScenesLasting, SealLasting, FilesLasting, GoneLasting DEF Lasting

\* Every step keeps pane, agent and receipt together.
LEMMA TiesStep ==
  ASSUME PaneRunInv, Next
  PROVE  TiesOK'
<1> USE DEF beside, elsewhere, owner, others, facts, world, files, PaneRunInv, PaneTypeOK,
      TiesOK, Unopened, SameSeal, Shuts, HelpersOK, HelperOK, Filing, RunnerPlaces
<1>1. CASE ClearReport
  BY <1>1, Shutting, Marking, Doing, Filed, Running DEF ClearReport
<1>2. CASE OpenPane
  BY <1>2, Shutting, Marking, Doing, Filed, Running DEF OpenPane
<1>3. CASE RecordPane
  BY <1>3, Shutting, Marking, Doing, Filed, Running DEF RecordPane
<1>4. CASE Press
  BY <1>4, Doing, Running DEF Press, Runners
<1>5. CASE StartFails
  BY <1>5, Shutting, Marking, Doing, Filed, Running DEF StartFails
<1>6. CASE Prompt
  BY <1>6, Shutting, Marking, Doing, Filed, Running DEF Prompt, StartServer
<1>7. CASE Poll
  BY <1>7, Shutting, Marking, Doing, Filed, Running DEF Poll, Sealed
<1>8. CASE Look
  <2>1. Looks /\ report' = report
    BY <1>8, Looking DEF Look
  <2> QED BY <1>8, <2>1, Doing DEF Look, Looks, Seals, Agents
<1>9. CASE Finish
  <2>1. \/ receipt' = receipt /\ runner'.pc = "fail"
        \/ report # 0 /\ Seals(report) /\ runner'.pc = "ok" /\ runner'.bytes = report
    BY <1>9, Sealing, Running DEF Finish, Runners
  <2> QED BY <1>9, <2>1 DEF Finish, Seals
<1>10. CASE Fail
  BY <1>10, Shutting, Marking, Doing, Filed, Running DEF Fail, ClosesFailedPane
<1>11. CASE RunnerDies
  BY <1>11, Shutting, Marking, Doing, Filed, Running DEF RunnerDies, RunnerOver
<1>12. CASE Conclude
  BY <1>12, Shutting, Marking, Doing, Filed, Running DEF Conclude, RunnerOver
<1>13. CASE CloseLeftover
  BY <1>13, Shutting, Marking, Doing, Filed, Running DEF CloseLeftover, ClosesLeftover
<1>14. CASE Boots
  BY <1>14, Shutting, Marking, Doing, Filed, Running DEF Boots
<1>15. CASE Writes
  BY <1>15, Shutting, Marking, Doing, Filed, Running DEF Writes
<1>16. CASE SealReads
  BY <1>16, Shutting, Marking, Doing, Filed, Running DEF SealReads, Sealable, Sealed
<1>17. CASE SealWrites
  BY <1>17, Shutting, Marking, Doing, Filed, Running DEF SealWrites, Finished, StartServer
<1>18. CASE Stops
  BY <1>18, Shutting, Marking, Doing, Filed, Running DEF Stops
<1>19. CASE Rewrites
  BY <1>19, Shutting, Marking, Doing, Filed, Running DEF Rewrites
<1>20. CASE ClosedByHand
  BY <1>20, Shutting, Marking, Doing, Filed, Running DEF ClosedByHand
<1>21. ASSUME NEW h \in Helpers, Begin(h) PROVE TiesOK'
  BY <1>21, Shutting, Marking, Doing, Filed, Running DEF Begin, SupervisorAlive
<1>22. ASSUME NEW h \in Helpers, Recover(h) PROVE TiesOK'
  <2>1. \/ UNCHANGED <<agent, receipt, pane>>
        \/ Shuts
        \/ Seals(receipt.digest) /\ UNCHANGED <<agent, pane>>
        \/ agent' = Gone /\ pane' = "gone" /\ receipt.made /\ UNCHANGED receipt
    BY <1>22, Shutting, Sealing DEF Recover, ToStop
  <2> QED BY <1>22, <2>1, Doing DEF Recover, Seals
<1>23. ASSUME NEW h \in Helpers, CleanupSettled(h) PROVE TiesOK'
  BY <1>23, Shutting, Marking, Doing, Filed, Running
      DEF CleanupSettled, Handled, Present, AgentReady
<1>24. ASSUME NEW h \in Helpers, ClosePane(h) PROVE TiesOK'
  BY <1>24, Shutting, Marking, Doing, Filed, Running DEF ClosePane
<1>25. ASSUME NEW h \in Helpers, ReadReport(h) PROVE TiesOK'
  BY <1>25, Shutting, Marking, Doing, Filed, Running DEF ReadReport, ArchivedByOther
<1>26. ASSUME NEW h \in Helpers, RemoveReport(h) PROVE TiesOK'
  BY <1>26, Shutting, Marking, Doing, Filed, Running DEF RemoveReport
<1>27. ASSUME NEW h \in Helpers, NoteArchive(h) PROVE TiesOK'
  BY <1>27, Shutting, Marking, Doing, Filed, Running DEF NoteArchive
<1>28. ASSUME NEW h \in Helpers, Archive(h) PROVE TiesOK'
  BY <1>28, Shutting, Marking, Doing, Filed, Running DEF Archive
<1>29. CASE UNCHANGED <<agent, report, receipt, runner, pane>>
  BY <1>29
<1> HIDE DEF PaneRunInv, PaneTypeOK, TiesOK, Unopened, SameSeal, Shuts, HelpersOK, HelperOK,
      Filing, RunnerPlaces
<1> QED BY <1>1, <1>2, <1>3, <1>4, <1>5, <1>6, <1>7, <1>8, <1>9, <1>10, <1>11, <1>12, <1>13,
       <1>14, <1>15, <1>16, <1>17, <1>18, <1>19, <1>20, <1>21, <1>22, <1>23, <1>24, <1>25,
       <1>26, <1>27, <1>28, <1>29
       DEF Next, Runner, Agent, Reconcile, SupervisorDies, HerdrIsBack, Cancel, Deadline,
           Decide, CommitStopped, CommitCollected, Judge, Lose, WriteArchive, HelperDies,
           WritesArchive

\* Every step keeps the supervisor's claim on an open attempt.
LEMMA SupervisorStep ==
  ASSUME PaneRunInv, Next
  PROVE  SupervisorOK'
<1> USE DEF beside, elsewhere, owner, others, facts, world, files, PaneRunInv, SupervisorOK,
      SupervisorAlive, HelpersOK, HelperOK, Unfinished, Open
<1>0. (receipt.made => receipt'.made) /\ (Happens("early")' <=> Happens("early"))
  BY StepsLast DEF Lasting, SealLasts, ScenesLast, Incidents
<1>1. CASE Conclude
  BY <1>1, <1>0 DEF Conclude, Outcome, RunnerOver
<1>2. CASE CloseLeftover
  BY <1>2, <1>0 DEF CloseLeftover, ClosesLeftover
<1>3. CASE SupervisorDies
  BY <1>3, <1>0 DEF SupervisorDies, SupervisorAlive
<1>4. CASE Decide
  BY <1>4, <1>0 DEF Decide
<1>5. ASSUME NEW h \in Helpers, Recover(h) PROVE SupervisorOK'
  BY <1>5, <1>0 DEF Recover, ToStop, Expired, Collectable, Sealed, Finished
<1>6. ASSUME NEW h \in Helpers, CommitStopped(h) PROVE SupervisorOK'
  BY <1>6, <1>0 DEF CommitStopped
<1>7. ASSUME NEW h \in Helpers, CommitCollected(h) PROVE SupervisorOK'
  BY <1>7, <1>0 DEF CommitCollected
<1>8. ASSUME NEW h \in Helpers, Lose(h) PROVE SupervisorOK'
  BY <1>8, <1>0 DEF Lose
<1>9. CASE UNCHANGED <<sup, attempt, settled>>
  BY <1>0, <1>9
<1> HIDE DEF PaneRunInv, SupervisorOK, SupervisorAlive, HelpersOK, HelperOK, Unfinished, Open
<1> QED BY <1>0, <1>1, <1>2, <1>3, <1>4, <1>5, <1>6, <1>7, <1>8, <1>9
       DEF Next, Runner, Agent, Reconcile, ClearReport, OpenPane, RecordPane, Press, StartFails,
           Prompt, Poll, Look, Finish, Fail, RunnerDies, Boots, Writes, SealReads, SealWrites,
           Stops, Rewrites, ClosedByHand, HerdrIsBack, Cancel, Deadline, Begin, Judge,
           CleanupSettled, ClosePane, Archive, ReadReport, WriteArchive, RemoveReport,
           NoteArchive, HelperDies, WritesArchive

\* Every step keeps the report, its digest and its archive in agreement.
LEMMA ReportStep ==
  ASSUME PaneRunInv, Next
  PROVE  ReportOK'
<1> USE DEF beside, elsewhere, owner, others, facts, world, files, PaneRunInv, PaneTypeOK,
      ReportOK, TiesOK, Unopened, SameSeal, Shuts, HelpersOK, HelperOK, Filing, RunnerPlaces
<1>0. Steady' <=> Steady
  BY StepsLast DEF Lasting, ScenesLast, Steady, Incidents
<1>1. CASE ClearReport
  BY <1>1, <1>0, Shutting, Marking, Doing, Filed, Running DEF ClearReport
<1>2. CASE OpenPane
  BY <1>2, <1>0, Shutting, Marking, Doing, Filed, Running DEF OpenPane
<1>3. CASE RecordPane
  BY <1>3, <1>0, Shutting, Marking, Doing, Filed, Running DEF RecordPane
<1>4. CASE Press
  BY <1>4, <1>0, Running DEF Press, Runners
<1>5. CASE StartFails
  BY <1>5, <1>0, Shutting, Marking, Doing, Filed, Running DEF StartFails
<1>6. CASE Prompt
  BY <1>6, <1>0, Shutting, Marking, Doing, Filed, Running DEF Prompt, StartServer
<1>7. CASE Poll
  BY <1>7, <1>0, Shutting, Marking, Doing, Filed, Running DEF Poll, Sealed
<1>8. CASE Look
  <2>1. Looks /\ report' = report
    BY <1>8, Looking DEF Look
  <2> QED BY <1>0, <1>8, <2>1, Doing DEF Look, Looks, Seals, Agents
<1>9. CASE Finish
  <2>1. \/ receipt' = receipt /\ runner'.pc = "fail"
        \/ report # 0 /\ Seals(report) /\ runner'.pc = "ok" /\ runner'.bytes = report
    BY <1>9, Sealing, Running DEF Finish, Runners
  <2> QED BY <1>0, <1>9, <2>1 DEF Finish, Seals
<1>10. CASE Fail
  BY <1>10, <1>0, Shutting, Marking, Doing, Filed, Running DEF Fail, ClosesFailedPane
<1>11. CASE RunnerDies
  BY <1>11, <1>0, Shutting, Marking, Doing, Filed, Running DEF RunnerDies, RunnerOver
<1>12. CASE Conclude
  <2>1. attempt'.state = "candidate" => runner.pc = "ok" /\ attempt'.bytes = runner.bytes
    BY <1>12 DEF Conclude, Outcome
  <2>2. runner'.pc = "ok" => UNCHANGED runner
    BY <1>12 DEF Conclude, Runners
  <2> QED BY <1>0, <1>12, <2>1, <2>2 DEF Conclude
<1>13. CASE CloseLeftover
  BY <1>13, <1>0, Shutting, Marking, Doing, Filed, Running DEF CloseLeftover, ClosesLeftover
<1>14. CASE SupervisorDies
  BY <1>14, <1>0, Shutting, Marking, Doing, Filed, Running DEF SupervisorDies, SupervisorAlive
<1>15. CASE Boots
  BY <1>15, <1>0, Shutting, Marking, Doing, Filed, Running DEF Boots
<1>16. CASE Writes
  BY <1>16, <1>0, Shutting, Marking, Doing, Filed, Running DEF Writes
<1>17. CASE SealReads
  BY <1>17, <1>0, Shutting, Marking, Doing, Filed, Running DEF SealReads, Sealable, Sealed
<1>18. CASE SealWrites
  BY <1>18, <1>0, Shutting, Marking, Doing, Filed, Running DEF SealWrites, Finished, StartServer
<1>19. CASE Stops
  BY <1>19, <1>0, Shutting, Marking, Doing, Filed, Running DEF Stops
<1>20. CASE Rewrites
  BY <1>20, <1>0 DEF Rewrites, Steady, Happens
<1>21. CASE ClosedByHand
  BY <1>21, <1>0, Shutting, Marking, Doing, Filed, Running DEF ClosedByHand
<1>22. CASE HerdrIsBack
  BY <1>22, <1>0, Shutting, Marking, Doing, Filed, Running DEF HerdrIsBack
<1>23. CASE Cancel
  BY <1>23, <1>0, Shutting, Marking, Doing, Filed, Running DEF Cancel
<1>24. CASE Deadline
  BY <1>24, <1>0, Shutting, Marking, Doing, Filed, Running DEF Deadline
<1>25. CASE Decide
  BY <1>25, <1>0, Shutting, Marking, Doing, Filed, Running DEF Decide
<1>26. ASSUME NEW h \in Helpers, Begin(h) PROVE ReportOK'
  BY <1>26, <1>0, Shutting, Marking, Doing, Filed, Running DEF Begin, SupervisorAlive
<1>27. ASSUME NEW h \in Helpers, Recover(h) PROVE ReportOK'
  <2>1. UNCHANGED receipt \/ Shuts \/ Seals(receipt.digest)
    BY <1>27, Shutting, Sealing DEF Recover
  <2>2. attempt' = attempt \/ attempt'.state = "collecting"
    BY <1>27 DEF Recover, Attempts
  <2>3. UNCHANGED <<report, archive, hook, settled, runner>>
    BY <1>27 DEF Recover
  <2>4. /\ receipt'.digest = receipt.digest
        /\ receipt'.archived = receipt.archived /\ receipt'.refused = receipt.refused
    BY <2>1 DEF Seals
  <2> QED BY <1>0, <2>2, <2>3, <2>4
<1>28. ASSUME NEW h \in Helpers, CommitStopped(h) PROVE ReportOK'
  BY <1>28, <1>0, Shutting, Marking, Doing, Filed, Running DEF CommitStopped
<1>29. ASSUME NEW h \in Helpers, CommitCollected(h) PROVE ReportOK'
  BY <1>29, <1>0, Shutting, Marking, Doing, Filed, Running DEF CommitCollected
<1>30. ASSUME NEW h \in Helpers, Judge(h) PROVE ReportOK'
  BY <1>30, <1>0, Shutting, Marking, Doing, Filed, Running
      DEF Judge, ExternalAlive, Sealed, SupervisorAlive
<1>31. ASSUME NEW h \in Helpers, Lose(h) PROVE ReportOK'
  BY <1>31, <1>0, Shutting, Marking, Doing, Filed, Running DEF Lose
<1>32. ASSUME NEW h \in Helpers, CleanupSettled(h) PROVE ReportOK'
  BY <1>32, <1>0, Shutting, Marking, Doing, Filed, Running
      DEF CleanupSettled, Handled, Present, AgentReady
<1>33. ASSUME NEW h \in Helpers, ClosePane(h) PROVE ReportOK'
  BY <1>33, <1>0, Shutting, Marking, Doing, Filed, Running DEF ClosePane
<1>34. ASSUME NEW h \in Helpers, Archive(h) PROVE ReportOK'
  BY <1>34, <1>0, Shutting, Marking, Doing, Filed, Running DEF Archive
<1>35. ASSUME NEW h \in Helpers, ReadReport(h) PROVE ReportOK'
  <2>1. CASE UNCHANGED receipt
    BY <1>0, <1>35, <2>1 DEF ReadReport
  <2>2. CASE receipt' = [receipt EXCEPT !.archived = TRUE]
    BY <1>0, <1>35, <2>2 DEF ReadReport, Receipts, ArchivedByOther
  <2>3. CASE /\ receipt' = [receipt EXCEPT !.refused = TRUE]
             /\ ~(report = 0 /\ ArchivedByOther(helper[h].bytes))
    BY <1>0, <1>35, <2>3 DEF ReadReport, Receipts, ArchivedByOther
  <2> QED BY <1>35, <2>1, <2>2, <2>3 DEF ReadReport
<1>36. ASSUME NEW h \in Helpers, WriteArchive(h) PROVE ReportOK'
  BY <1>36, <1>0, Shutting, Marking, Doing, Filed, Running DEF WriteArchive, WritesArchive
<1>37. ASSUME NEW h \in Helpers, RemoveReport(h) PROVE ReportOK'
  BY <1>37, <1>0, Shutting, Marking, Doing, Filed, Running DEF RemoveReport
<1>38. ASSUME NEW h \in Helpers, NoteArchive(h) PROVE ReportOK'
  BY <1>38, <1>0, Shutting, Marking, Doing, Filed, Running DEF NoteArchive
<1>39. ASSUME NEW h \in Helpers, HelperDies(h) PROVE ReportOK'
  BY <1>39, <1>0, Shutting, Marking, Doing, Filed, Running DEF HelperDies, Idle
<1> QED BY <1>1, <1>2, <1>3, <1>4, <1>5, <1>6, <1>7, <1>8, <1>9, <1>10, <1>11, <1>12, <1>13,
       <1>14, <1>15, <1>16, <1>17, <1>18, <1>19, <1>20, <1>21, <1>22, <1>23, <1>24, <1>25,
       <1>26, <1>27, <1>28, <1>29, <1>30, <1>31, <1>32, <1>33, <1>34, <1>35, <1>36, <1>37,
       <1>38, <1>39
       DEF Next, Runner, Agent, Reconcile

\* Who gives up an attempt finds an agent that can seal nothing in time any more.
LEMMA GivenUp ==
  ASSUME PaneRunInv, Unfinished, ~SupervisorAlive, ~cancel, ~SealMayBeMissed,
         ~ExternalAlive \/ (Happens("herdr") /\ ~Sealed)
  PROVE  Hopeless
<1>1. ~Happens("early") /\ ~Happens("herdr")
  BY DEF SealMayBeMissed, Happens
<1>2. receipt.made /\ ~settled
  BY <1>1 DEF PaneRunInv, PaneTypeOK, SupervisorOK, SupervisorAlive
<1>3. CASE Closed
  BY <1>2, <1>3 DEF PaneRunInv, LossOK, Hopeless, Closed
<1>4. CASE ~Closed
  <2>1. ~Sealed /\ agent.at = "gone"
    BY <1>1, <1>2, <1>4 DEF ExternalAlive, PaneRunInv, TiesOK
  <2>2. CASE report = 0 \/ Missed
    BY <1>2, <2>1, <2>2 DEF Hopeless
  <2>3. CASE Happens("pane")
    <3>1. Steady /\ {"silent", "unsealed"} \cap scene = {}
      BY <2>3 DEF SealMayBeMissed, Steady, Happens
    <3>2. receipt.digest = 0
      BY <1>2, <2>1, <3>1 DEF PaneRunInv, ReportOK, Sealed
    <3>3. runner.pc # "finish"
      BY <3>1, <3>2 DEF PaneRunInv, LossOK
    <3> QED BY <1>2, <2>1, <3>2, <3>3 DEF Hopeless
  <2> QED BY <1>2, <2>1, <2>2, <2>3 DEF PaneRunInv, LossOK
<1> QED BY <1>3, <1>4

\* What a helper has seen stays true as long as it does not move.
LEMMA ViewKept ==
  ASSUME PaneRunInv, Lasting, NEW g \in Helpers,
         helper'[g].pc = helper[g].pc, helper'[g].seen = helper[g].seen,
         helper'[g].bytes = helper[g].bytes
  PROVE  HelperOK(g)'
<1>1. (Steady' <=> Steady) /\ (Happens("early")' <=> Happens("early"))
  BY DEF Lasting, ScenesLast, Steady, Incidents
<1>2. HelperOK(g)
  BY DEF PaneRunInv, HelpersOK
<1> QED BY <1>1, <1>2 DEF HelperOK, Lasting, ScenesLast, SealLasts, FilesLast, GoneLasts, Filing

\* A helper that moves leaves the others alone and has seen what its place says.
LEMMA ViewStep ==
  ASSUME PaneRunInv, Next, Lasting, PaneTypeOK', NEW h \in Helpers,
         Reconcile(h) \/ HelperDies(h)
  PROVE  (\A g \in Helpers \ {h} : helper'[g] = helper[g]) /\ HelperOK(h)'
<1> USE DEF beside, elsewhere, owner, others, facts, world, files, PaneRunInv, PaneTypeOK,
      HelpersOK, HelperOK, Filing, HelperPlaces
<1>0. /\ Steady' <=> Steady
      /\ ~SupervisorAlive => ~SupervisorAlive'
      /\ receipt.made => receipt'.made
      /\ settled => settled'
      /\ cancel => cancel'
  BY DEF Lasting, ScenesLast, SealLasts, Steady, Incidents
<1>1. CASE Begin(h)
  BY <1>1, <1>0, Going DEF Begin
<1>2. CASE Recover(h)
  <2>0. ~SupervisorAlive'
    BY <1>0, <1>2 DEF Recover
  <2>1. CASE Goes(h, "judge")
    BY <1>0, <1>2, <2>1, Going DEF Recover
  <2>2. CASE /\ helper' = [helper EXCEPT ![h] =
                   [pc |-> "stop", seen |-> IF cancel THEN "cancelled" ELSE "failed", bytes |-> 0]]
             /\ ToStop
    <3>1. cancel \/ Missed
      BY <2>2 DEF ToStop, Expired, Missed
    <3>2. Missed => Missed'
      BY DEF Lasting, SealLasts
    <3>3. /\ helper'[h].pc = "stop" /\ \A g \in Helpers \ {h} : helper'[g] = helper[g]
          /\ helper'[h].seen = IF cancel THEN "cancelled" ELSE "failed"
      BY <2>2
    <3> QED BY <2>0, <1>0, <3>1, <3>2, <3>3
  <2>3. CASE /\ helper' = [helper EXCEPT ![h] = [pc |-> "collect", seen |-> "none", bytes |-> report]]
             /\ Collectable
    <3>1. receipt.digest # 0 => receipt'.digest # 0 /\ (Steady => receipt'.digest = receipt.digest)
      BY DEF Lasting, SealLasts
    <3>2. /\ helper'[h].pc = "collect" /\ helper'[h].bytes = report
          /\ \A g \in Helpers \ {h} : helper'[g] = helper[g]
      BY <2>3
    <3>3. Steady' => report = receipt'.digest /\ receipt'.digest # 0
      BY <1>0, <2>3, <3>1 DEF Collectable, Sealed
    <3> QED BY <2>0, <3>2, <3>3
  <2> QED BY <1>2, <2>1, <2>2, <2>3 DEF Recover
<1>3. CASE CommitStopped(h)
  BY <1>3, <1>0, Going DEF CommitStopped
<1>4. CASE CommitCollected(h)
  BY <1>4, <1>0, Going DEF CommitCollected
<1>5. CASE Judge(h)
  <2>1. CASE Goes(h, "cleanup")
    BY <1>0, <1>5, <2>1, Going DEF Judge
  <2>2. CASE /\ helper' = [helper EXCEPT ![h].pc = "lose", ![h].seen = attempt.state]
             /\ Unfinished /\ ~SupervisorAlive /\ (~ExternalAlive \/ (Happens("herdr") /\ ~Sealed))
    <3>1. ~cancel' /\ ~SealMayBeMissed' => Hopeless
      BY <2>2, GivenUp DEF Lasting, ScenesLast
    <3>2. Hopeless => Hopeless'
      BY DEF Lasting, GoneLasts
    <3> QED BY <1>0, <1>5, <2>2, <3>1, <3>2
  <2> QED BY <1>5, <2>1, <2>2 DEF Judge
<1>6. CASE Lose(h)
  BY <1>6, <1>0, Going DEF Lose
<1>7. CASE CleanupSettled(h)
  BY <1>7, <1>0, Going DEF CleanupSettled, Handled, Present, AgentReady
<1>8. CASE ClosePane(h)
  BY <1>8, <1>0, Going DEF ClosePane
<1>9. CASE Archive(h)
  <2>1. CASE Goes(h, Rest(h))
    BY <1>0, <1>9, <2>1, Going DEF Archive
  <2>2. CASE /\ helper' = [helper EXCEPT ![h].pc = "read", ![h].bytes = receipt.digest]
             /\ receipt.digest # 0
    BY <1>0, <1>9, <2>2 DEF Archive, Views
  <2> QED BY <1>9, <2>1, <2>2 DEF Archive
<1>10. CASE ReadReport(h)
  BY <1>10, <1>0, Going DEF ReadReport, ArchivedByOther
<1>11. CASE WriteArchive(h)
  BY <1>11, <1>0, Going DEF WriteArchive, WritesArchive
<1>12. CASE RemoveReport(h)
  BY <1>12, <1>0, Going DEF RemoveReport
<1>13. CASE NoteArchive(h)
  BY <1>13, <1>0, Going DEF NoteArchive
<1>14. CASE HelperDies(h)
  BY <1>14, <1>0, Going DEF HelperDies, Idle
<1> QED BY <1>1, <1>2, <1>3, <1>4, <1>5, <1>6, <1>7, <1>8, <1>9, <1>10, <1>11, <1>12, <1>13,
       <1>14
       DEF Reconcile

\* Every step keeps what the helpers have seen true.
LEMMA HelpersStep ==
  ASSUME PaneRunInv, Next, PaneTypeOK'
  PROVE  HelpersOK'
<1> SUFFICES ASSUME NEW g \in Helpers PROVE HelperOK(g)'
  BY DEF HelpersOK
<1>0. Lasting
  BY StepsLast
<1>1. CASE helper' = helper
  BY <1>0, <1>1, ViewKept
<1>2. CASE helper' = StartServer(helper)
  <2>1. \/ /\ helper'[g].pc = helper[g].pc /\ helper'[g].seen = helper[g].seen
           /\ helper'[g].bytes = helper[g].bytes
        \/ helper'[g].pc = "idle"
    BY <1>2, Starting DEF PaneRunInv, PaneTypeOK
  <2> QED BY <1>0, <2>1, ViewKept DEF HelperOK, Filing
<1>3. ASSUME NEW h \in Helpers, Reconcile(h) \/ HelperDies(h) PROVE HelperOK(g)'
  BY <1>0, <1>3, ViewStep, ViewKept
<1>4. CASE Runner \/ RunnerDies \/ Conclude \/ CloseLeftover \/ SupervisorDies
           \/ Agent \/ Rewrites \/ ClosedByHand \/ HerdrIsBack \/ Cancel \/ Deadline \/ Decide
  <2>1. helper' = helper \/ helper' = StartServer(helper)
    <3>1. CASE Look
      BY <3>1, Looking DEF PaneRunInv, Looks
    <3>2. CASE ~Look
      BY <1>4, <3>2
          DEF Runner, Agent, ClearReport, OpenPane, RecordPane, Press, StartFails, Prompt, Poll,
              Finish, Fail, RunnerDies, Conclude, CloseLeftover, SupervisorDies, Boots, Writes,
              SealReads, SealWrites, Stops, Rewrites, ClosedByHand, HerdrIsBack, Cancel,
              Deadline, Decide, beside, elsewhere, owner
    <3> QED BY <3>1, <3>2
  <2> QED BY <1>1, <1>2, <2>1
<1> QED BY <1>3, <1>4 DEF Next

\* No step closes a pane whose sealed report nobody has read.
LEMMA UnreadStep ==
  ASSUME PaneRunInv, Next
  PROVE  UnreadOK'
<1> USE DEF beside, elsewhere, owner, others, facts, world, files, PaneRunInv, PaneTypeOK,
      UnreadOK, Kept, TiesOK, Unopened, HelpersOK, HelperOK, ReportOK, SupervisorOK, Unfinished,
      Open, SameSeal, Shuts, Filing, RunnerPlaces
<1>0. (Steady' <=> Steady) /\ (Happens("pane")' <=> Happens("pane"))
  BY StepsLast DEF Lasting, ScenesLast, Steady, Incidents
<1>1. CASE OpenPane
  BY <1>1, <1>0, Shutting, Marking, Filed, Running DEF OpenPane
<1>2. CASE RecordPane
  BY <1>2, <1>0, Shutting, Marking, Filed, Running DEF RecordPane
<1>3. CASE Poll
  BY <1>3, <1>0, Shutting, Marking, Filed, Running DEF Poll, Sealed
<1>4. CASE Look
  <2>1. Looks /\ report' = report
    BY <1>4, Looking DEF Look
  <2> QED BY <1>0, <1>4, <2>1, Doing DEF Look, Looks, Seals
<1>5. CASE Finish
  <2>1. \/ receipt' = receipt /\ runner'.pc = "fail"
        \/ report # 0 /\ Seals(report) /\ runner'.pc = "ok" /\ runner'.bytes = report
    BY <1>5, Sealing, Running DEF Finish, Runners
  <2> QED BY <1>0, <1>5, <2>1 DEF Finish, Seals
<1>6. CASE Fail
  BY <1>6, <1>0, Shutting, Marking, Filed, Running DEF Fail, ClosesFailedPane
<1>7. CASE Conclude
  BY <1>7, <1>0, Shutting, Marking, Filed, Running DEF Conclude, RunnerOver, Outcome
<1>8. CASE CloseLeftover
  BY <1>8, <1>0, Shutting, Marking, Filed, Running DEF CloseLeftover, ClosesLeftover
<1>9. CASE SealWrites
  BY <1>9, <1>0, Shutting, Marking, Filed, Running DEF SealWrites
<1>10. CASE ClosedByHand
  BY <1>10, <1>0, Shutting, Marking, Filed, Running DEF ClosedByHand
<1>11. CASE HerdrIsBack
  BY <1>11, <1>0, Shutting, Marking, Filed, Running DEF HerdrIsBack
<1>12. ASSUME NEW h \in Helpers, HelperDies(h) PROVE UnreadOK'
  BY <1>12, <1>0, Shutting, Marking, Filed, Running DEF HelperDies, Idle
<1>13. ASSUME NEW h \in Helpers, Begin(h) PROVE UnreadOK'
  BY <1>13, <1>0, Shutting, Marking, Filed, Running DEF Begin
<1>14. ASSUME NEW h \in Helpers, Recover(h) PROVE UnreadOK'
  <2>1. \/ UNCHANGED <<agent, receipt, pane>>
        \/ Shuts /\ (cancel \/ Missed)
        \/ Seals(receipt.digest) /\ UNCHANGED <<agent, pane>>
        \/ agent' = Gone /\ pane' = "gone" /\ receipt.made /\ UNCHANGED receipt /\ (cancel \/ Missed)
    BY <1>14, Shutting, Sealing DEF Recover, ToStop, Expired, Missed
  <2>2. \/ attempt' = attempt
        \/ attempt'.state = "collecting" /\ Unfinished /\ attempt'.why = attempt.why
    BY <1>14 DEF Recover, Attempts
  <2> QED BY <1>0, <1>14, <2>1, <2>2, Doing DEF Recover, Seals, Missed
<1>15. ASSUME NEW h \in Helpers, CommitStopped(h) PROVE UnreadOK'
  BY <1>15, <1>0, Shutting, Marking, Filed, Running DEF CommitStopped
<1>16. ASSUME NEW h \in Helpers, CommitCollected(h) PROVE UnreadOK'
  BY <1>16, <1>0, Shutting, Marking, Filed, Running DEF CommitCollected
<1>17. ASSUME NEW h \in Helpers, Lose(h) PROVE UnreadOK'
  BY <1>17, <1>0, Shutting, Marking, Filed, Running DEF Lose
<1>18. ASSUME NEW h \in Helpers, CleanupSettled(h) PROVE UnreadOK'
  BY <1>18, <1>0, Shutting, Marking, Filed, Running
      DEF CleanupSettled, Handled, Present, AgentReady
<1>19. ASSUME NEW h \in Helpers, ClosePane(h) PROVE UnreadOK'
  BY <1>19, <1>0, Shutting, Marking, Filed, Running DEF ClosePane
<1>20. ASSUME NEW h \in Helpers, ReadReport(h) PROVE UnreadOK'
  BY <1>20, <1>0, Shutting, Marking, Filed, Running DEF ReadReport, ArchivedByOther
<1>21. ASSUME NEW h \in Helpers, NoteArchive(h) PROVE UnreadOK'
  BY <1>21, <1>0, Shutting, Marking, Filed, Running DEF NoteArchive
<1>22. CASE ClearReport
  BY <1>22, <1>0, Shutting, Marking, Filed, Running DEF ClearReport
<1>23. CASE Press
  BY <1>23, <1>0, Shutting, Marking, Filed, Running DEF Press, Tired
<1>24. CASE StartFails
  BY <1>24, <1>0, Shutting, Marking, Filed, Running DEF StartFails
<1>25. CASE Prompt
  BY <1>25, <1>0, Shutting, Marking, Filed, Running DEF Prompt
<1>26. CASE RunnerDies
  BY <1>26, <1>0, Shutting, Marking, Filed, Running DEF RunnerDies, RunnerOver
<1>27. CASE Cancel
  BY <1>27, <1>0, Shutting, Marking, Filed, Running DEF Cancel
<1>28. CASE Deadline
  BY <1>28, <1>0, Shutting, Marking, Filed, Running DEF Deadline
<1>29. CASE Decide
  BY <1>29, <1>0, Shutting, Marking, Filed, Running DEF Decide
<1>30. CASE UNCHANGED <<pane, receipt, runner, scene, settled, cancel, late, attempt>>
  BY <1>0, <1>30
<1> HIDE DEF PaneRunInv, PaneTypeOK, UnreadOK, Kept, TiesOK, Unopened, HelpersOK, HelperOK,
      ReportOK, SupervisorOK, Unfinished, Open, SameSeal, Shuts, Filing, RunnerPlaces
<1> QED BY <1>0, <1>1, <1>2, <1>3, <1>4, <1>5, <1>6, <1>7, <1>8, <1>9, <1>10, <1>11, <1>12,
       <1>13, <1>14, <1>15, <1>16, <1>17, <1>18, <1>19, <1>20, <1>21, <1>22, <1>23, <1>24,
       <1>25, <1>26, <1>27, <1>28, <1>29, <1>30
       DEF Next, Runner, Agent, Reconcile, SupervisorDies, Boots, Writes, SealReads, Stops,
           Rewrites, Judge, Archive, WriteArchive, RemoveReport, WritesArchive

\* No step gives up an attempt whose report could still be sealed in time.
LEMMA LossStep ==
  ASSUME PaneRunInv, Next
  PROVE  LossOK'
<1> USE DEF beside, elsewhere, owner, others, facts, world, files, PaneRunInv, PaneTypeOK,
      LossOK, TiesOK, Unopened, HelpersOK, HelperOK, SupervisorOK, Unfinished, Open, SameSeal,
      Shuts, RunnerPlaces
<1>0. /\ cancel => cancel'
      /\ SealMayBeMissed => SealMayBeMissed'
      /\ Missed => Missed'
      /\ Hopeless => Hopeless'
      /\ Happens("pane")' <=> Happens("pane")
      /\ ({"silent", "unsealed"} \cap scene = {})' <=> {"silent", "unsealed"} \cap scene = {}
  BY StepsLast DEF Lasting, ScenesLast, SealLasts, GoneLasts, Incidents, Happens
<1>1. CASE ClearReport
  BY <1>1, <1>0, Shutting, Marking, Filed, Running, Doing DEF ClearReport
<1>2. CASE OpenPane
  BY <1>2, <1>0, Shutting, Marking, Filed, Running, Doing DEF OpenPane
<1>3. CASE RecordPane
  BY <1>3, <1>0, Shutting, Marking, Filed, Running, Doing DEF RecordPane
<1>4. CASE Press
  BY <1>4, <1>0, Running, Doing DEF Press, Runners
<1>5. CASE StartFails
  BY <1>5, <1>0, Shutting, Marking, Filed, Running, Doing DEF StartFails
<1>6. CASE Prompt
  BY <1>6, <1>0, Shutting, Marking, Filed, Running, Doing DEF Prompt
<1>7. CASE Poll
  BY <1>7, <1>0, Shutting, Marking, Filed, Running, Doing DEF Poll, Sealed
<1>8. CASE Look
  <2>1. Looks /\ report' = report
    BY <1>8, Looking DEF Look
  <2> QED BY <1>0, <1>8, <2>1, Doing DEF Look, Looks, Seals
<1>9. CASE Finish
  <2>1. \/ receipt' = receipt /\ runner'.pc = "fail"
        \/ report # 0 /\ Seals(report) /\ runner'.pc = "ok" /\ runner'.bytes = report
    BY <1>9, Sealing, Running DEF Finish, Runners
  <2> QED BY <1>0, <1>9, <2>1 DEF Finish, Seals
<1>10. CASE Fail
  BY <1>10, <1>0, Shutting, Marking, Filed, Running, Doing DEF Fail, ClosesFailedPane
<1>11. CASE RunnerDies
  BY <1>11, <1>0, Shutting, Marking, Filed, Running, Doing DEF RunnerDies, RunnerOver
<1>12. CASE Conclude
  <2>1. attempt'.why \notin {"unknown", "stopped"} /\ attempt'.state \notin Open
    BY <1>12 DEF Conclude, Outcome
  <2>2. runner'.pc \in {runner.pc, "dead"}
    BY <1>12 DEF Conclude, Runners
  <2> QED BY <1>0, <1>12, <2>1, <2>2 DEF Conclude
<1>13. CASE CloseLeftover
  BY <1>13, <1>0, Shutting, Marking, Filed, Running, Doing DEF CloseLeftover, ClosesLeftover
<1>14. CASE SupervisorDies
  BY <1>14, <1>0, Shutting, Marking, Filed, Running, Doing DEF SupervisorDies
<1>15. CASE Boots
  BY <1>15, <1>0, Shutting, Marking, Filed, Running, Doing DEF Boots
<1>16. CASE Writes
  BY <1>16, <1>0, Shutting, Marking, Filed, Running, Doing DEF Writes
<1>17. CASE SealReads
  BY <1>17, <1>0, Shutting, Marking, Filed, Running, Doing DEF SealReads, Sealable, Sealed
<1>18. CASE SealWrites
  <2>1. Seals(agent.sealing) /\ agent.sealing # 0
    BY <1>18, Sealing DEF SealWrites, Agents
  <2> QED BY <1>0, <1>18, <2>1 DEF SealWrites, Seals, Agents
<1>19. CASE Stops
  <2>1. {"silent", "unsealed"} \cap scene = {} => receipt.digest # 0
    BY <1>19 DEF Stops, Happens
  <2> QED BY <1>0, <1>19, <2>1, Doing DEF Stops
<1>20. CASE Rewrites
  BY <1>20, <1>0, Shutting, Marking, Filed, Running, Doing DEF Rewrites
<1>21. CASE ClosedByHand
  BY <1>21, <1>0, Shutting, Marking, Filed, Running, Doing DEF ClosedByHand
<1>22. CASE HerdrIsBack
  BY <1>22, <1>0, Shutting, Marking, Filed, Running, Doing DEF HerdrIsBack
<1>23. CASE Cancel
  BY <1>23, <1>0, Shutting, Marking, Filed, Running, Doing DEF Cancel
<1>24. CASE Deadline
  BY <1>24, <1>0, Shutting, Marking, Filed, Running, Doing DEF Deadline
<1>25. CASE Decide
  BY <1>25, <1>0, Shutting, Marking, Filed, Running, Doing DEF Decide
<1>26. ASSUME NEW h \in Helpers, Begin(h) PROVE LossOK'
  BY <1>26, <1>0, Shutting, Marking, Filed, Running, Doing DEF Begin
<1>27. ASSUME NEW h \in Helpers, Recover(h) PROVE LossOK'
  <2>1. \/ UNCHANGED <<agent, receipt, pane>>
        \/ Shuts /\ (cancel \/ Missed)
        \/ Seals(receipt.digest) /\ UNCHANGED <<agent, pane>>
        \/ agent' = Gone /\ pane' = "gone" /\ receipt.made /\ UNCHANGED receipt /\ (cancel \/ Missed)
    BY <1>27, Shutting, Sealing DEF Recover, ToStop, Expired, Missed
  <2>2. \/ attempt' = attempt
        \/ attempt'.state = "collecting" /\ Unfinished /\ attempt'.why = attempt.why
    BY <1>27 DEF Recover, Attempts
  <2> QED BY <1>0, <1>27, <2>1, <2>2, Doing DEF Recover, Seals, Missed
<1>28. ASSUME NEW h \in Helpers, CommitStopped(h) PROVE LossOK'
  BY <1>28, <1>0, Shutting, Marking, Filed, Running, Doing DEF CommitStopped
<1>29. ASSUME NEW h \in Helpers, CommitCollected(h) PROVE LossOK'
  BY <1>29, <1>0, Shutting, Marking, Filed, Running, Doing DEF CommitCollected
<1>30. ASSUME NEW h \in Helpers, Judge(h) PROVE LossOK'
  BY <1>30, <1>0, Shutting, Marking, Filed, Running, Doing DEF Judge, ExternalAlive, Sealed
<1>31. ASSUME NEW h \in Helpers, Lose(h) PROVE LossOK'
  BY <1>31, <1>0, Shutting, Marking, Filed, Running, Doing DEF Lose
<1>32. ASSUME NEW h \in Helpers, CleanupSettled(h) PROVE LossOK'
  BY <1>32, <1>0, Shutting, Marking, Filed, Running, Doing
      DEF CleanupSettled, Handled, Present, AgentReady
<1>33. ASSUME NEW h \in Helpers, ClosePane(h) PROVE LossOK'
  BY <1>33, <1>0, Shutting, Marking, Filed, Running, Doing DEF ClosePane
<1>34. ASSUME NEW h \in Helpers, Archive(h) PROVE LossOK'
  BY <1>34, <1>0, Shutting, Marking, Filed, Running, Doing DEF Archive
<1>35. ASSUME NEW h \in Helpers, ReadReport(h) PROVE LossOK'
  BY <1>35, <1>0, Shutting, Marking, Filed, Running, Doing DEF ReadReport, ArchivedByOther
<1>36. ASSUME NEW h \in Helpers, WriteArchive(h) PROVE LossOK'
  BY <1>36, <1>0, Shutting, Marking, Filed, Running, Doing DEF WriteArchive, WritesArchive
<1>37. ASSUME NEW h \in Helpers, RemoveReport(h) PROVE LossOK'
  BY <1>37, <1>0, Shutting, Marking, Filed, Running, Doing DEF RemoveReport
<1>38. ASSUME NEW h \in Helpers, NoteArchive(h) PROVE LossOK'
  BY <1>38, <1>0, Shutting, Marking, Filed, Running, Doing DEF NoteArchive
<1>39. ASSUME NEW h \in Helpers, HelperDies(h) PROVE LossOK'
  BY <1>39, <1>0, Shutting, Marking, Filed, Running, Doing DEF HelperDies, Idle
<1> QED BY <1>1, <1>2, <1>3, <1>4, <1>5, <1>6, <1>7, <1>8, <1>9, <1>10, <1>11, <1>12, <1>13,
       <1>14, <1>15, <1>16, <1>17, <1>18, <1>19, <1>20, <1>21, <1>22, <1>23, <1>24, <1>25,
       <1>26, <1>27, <1>28, <1>29, <1>30, <1>31, <1>32, <1>33, <1>34, <1>35, <1>36, <1>37,
       <1>38, <1>39
       DEF Next, Runner, Agent, Reconcile

\* The invariant of a run is inductive.
LEMMA PaneRunInvStays ==
  ASSUME PaneRunInv, [Next]_vars
  PROVE  PaneRunInv'
<1>1. CASE Next
  <2>1. PaneTypeOK'
    BY <1>1, PaneTypeStep DEF PaneRunInv
  <2> QED BY <1>1, <2>1, TiesStep, SupervisorStep, HelpersStep, ReportStep, UnreadStep, LossStep
         DEF PaneRunInv
<1>2. CASE UNCHANGED vars
  <2> USE <1>2 DEF vars
  <2>1. PaneTypeOK' /\ TiesOK' /\ SupervisorOK'
    BY DEF PaneRunInv, PaneTypeOK, TiesOK, Unopened, SupervisorOK, Unfinished, Happens
  <2>2. HelpersOK'
    BY DEF PaneRunInv, HelpersOK, HelperOK, Steady, SupervisorAlive, Missed, SealMayBeMissed,
        Hopeless, Happens
  <2>3. ReportOK' /\ UnreadOK' /\ LossOK'
    BY DEF PaneRunInv, ReportOK, UnreadOK, LossOK, Steady, Kept, Missed, SealMayBeMissed,
        Hopeless,
           Unfinished, Happens
  <2> QED BY <2>1, <2>2, <2>3 DEF PaneRunInv
<1> QED BY <1>1, <1>2

\* A run begins in its invariant, and one that ended without a pane is in it.
LEMMA PaneRunStarts == Init \/ RunIsOver => PaneRunInv
<1>1. ASSUME Init PROVE PaneRunInv
  <2> USE <1>1, PaneConstants DEF Init
  <2>1. attempt \in Attempts /\ agent \in Agents /\ receipt \in Receipts
    BY DEF Attempts, Agents, Receipts, Bytes, Open
  <2>4. runner \in Runners
    BY DEF Runners, RunnerPlaces, Bytes
  <2>5. helper \in [Helpers -> Views]
    BY DEF Views, HelperPlaces, Idle, Bytes
  <2>7. scene \subseteq Incidents
    OBVIOUS
  <2>8. report \in Bytes /\ archive \in Bytes
    BY DEF Bytes
  <2>9. settled \in BOOLEAN /\ cancel \in BOOLEAN /\ late \in BOOLEAN
    OBVIOUS
  <2>6. PaneTypeOK
    BY <2>1, <2>4, <2>5, <2>7, <2>8, <2>9 DEF PaneTypeOK
  <2>2. TiesOK /\ SupervisorOK /\ UnreadOK /\ LossOK /\ ReportOK
    BY DEF TiesOK, SupervisorOK, UnreadOK, LossOK, ReportOK, Unopened, Unfinished, Open, Kept
  <2>3. HelpersOK
    BY DEF HelpersOK, HelperOK, Filing, Idle
  <2> QED BY <2>6, <2>2, <2>3 DEF PaneRunInv
<1>2. ASSUME RunIsOver PROVE PaneRunInv
  <2> USE <1>2, PaneConstants DEF RunIsOver
  <2>1. attempt \in Attempts /\ agent \in Agents /\ receipt \in Receipts
    BY DEF Attempts, Agents, Receipts, Bytes, Open
  <2>4. runner \in Runners
    BY DEF Runners, RunnerPlaces, Bytes
  <2>5. helper \in [Helpers -> Views]
    BY DEF Views, HelperPlaces, Idle, Bytes
  <2>7. scene \subseteq Incidents
    OBVIOUS
  <2>8. report \in Bytes /\ archive \in Bytes
    BY DEF Bytes
  <2>9. settled \in BOOLEAN /\ cancel \in BOOLEAN /\ late \in BOOLEAN
    OBVIOUS
  <2>6. PaneTypeOK
    BY <2>1, <2>4, <2>5, <2>7, <2>8, <2>9 DEF PaneTypeOK
  <2>2. TiesOK /\ SupervisorOK /\ UnreadOK /\ LossOK /\ ReportOK
    BY DEF TiesOK, SupervisorOK, UnreadOK, LossOK, ReportOK, Unopened, Unfinished, Open, Kept
  <2>3. HelpersOK
    BY DEF HelpersOK, HelperOK, Filing, Idle
  <2> QED BY <2>6, <2>2, <2>3 DEF PaneRunInv
<1> QED BY <1>1, <1>2

\* The invariant of a run implies everything the runs of TLC check about it.
LEMMA PaneRunPromises ==
  ASSUME PaneRunInv
  PROVE  PaneInv /\ UnreadPaneStays /\ GoodWorkIsKept
<1>1. SealedSurvives /\ CandidateIsSealed /\ ArchivesAgree
  BY DEF PaneRunInv, ReportOK, SealedSurvives, CandidateIsSealed, ArchivesAgree, Steady
<1>2. UnreadPaneStays
  BY DEF PaneRunInv, UnreadOK, ReportOK, UnreadPaneStays, Kept, Steady
<1>3. SealedIsNotLost
  BY DEF PaneRunInv, LossOK, Hopeless, Missed, SealedIsNotLost, Sealed
<1>4. InTimeIsNotFailed
  BY DEF PaneRunInv, LossOK, Missed, InTimeIsNotFailed
<1> QED BY <1>1, <1>2, <1>3, <1>4 DEF PaneRunInv, PaneInv, GoodWorkIsKept

----------------------------------------------------------------------------
(* Panes of the other launcher.                                             *)

WrapperPlaces == {"none", "launched", "recorded", "checked", "prompted", "seen", "seen before",
                  "done", "failed", "ended"}
CommandPlaces == {"idle", "mark", "close", "ask", "closing", "ask again", "pull", "confirm",
                  "cancel", "pull cancel", "confirm cancel"}
Runs0 == [state : {"none", "active", "over"}, outcome : {"none", "candidate", "lost"},
          acked : BOOLEAN, decided : BOOLEAN]
Children == [at : {"none", "open", "gone"}, session : {"own", "other"},
             status : {"idle", "working", "blocked"}, lobby : BOOLEAN]
PaneNotes == [of : 0..2, state : {"none", "retained", "pending", "closing", "closed"}, result : 0..2]
Acts == [step : CommandPlaces, here : BOOLEAN, copy : PaneNotes, sure : BOOLEAN, of : 0..2]
OmpTypeOK ==
  /\ task \in [Revisions -> Runs0] /\ child \in [Revisions -> Children]
  /\ written \in [Revisions -> {"nobody", "own", "other"}]
  /\ wrapper \in [Revisions -> WrapperPlaces]
  /\ note \in PaneNotes /\ act \in [OmpCommands -> Acts]
  /\ shut \in [Revisions -> {"no", "by hand", "settled", "cancelled"}]

\* The owner is done with the result of a run that is over, and its pane was not to be kept.
MayClose(r) == task[r].state = "over" /\ Settled(r) /\ ~keeps
\* A pane whose launcher has been run; it is open or gone.
Launched(r) == r \in Revisions /\ wrapper[r] # "none" /\ child[r].at # "none"

\* Who sits in a pane, what it wrote, and what the wrapper saw.
ChildOK(r) ==
  /\ wrapper[r] \in {"launched", "recorded", "checked", "prompted"} => child[r].at # "none"
  /\ written[r] = "other" => child[r].session = "other"
  /\ wrapper[r] = "seen" => written[r] = "own" /\ child[r].session = "own"
ChildrenOK == \A r \in Revisions : ChildOK(r)

NoteOK ==
  /\ note.of = 0 => note.state = "none"
  /\ note.of # 0 => Launched(note.of)
  /\ note.state = "closed" => child[note.of].at = "gone"

\* Places of a command that holds the receipt it has read.
HoldsOne ==
  {"ask", "closing", "ask again", "pull", "confirm", "pull cancel", "confirm cancel"}
\* What a command holds, and what it has seen unless somebody else moved since.
ActOK(c) ==
  /\ act[c].step \in HoldsOne => Launched(act[c].copy.of)
  /\ act[c].step = "pull" /\ "crossed" \notin harm => MayClose(act[c].copy.of)
  /\ act[c].step = "pull" /\ act[c].sure =>
       /\ task[act[c].copy.of].state = "over"
       /\ IsOpen(act[c].copy.of) =>
            /\ child[act[c].copy.of].session = "own" /\ child[act[c].copy.of].status = "idle"
            /\ ~child[act[c].copy.of].lobby
  /\ act[c].step = "pull cancel" /\ act[c].sure =>
       (IsOpen(act[c].copy.of) => child[act[c].copy.of].session = "own")
ActsOK == \A c \in OmpCommands : ActOK(c)

ShutOK ==
  /\ "crossed" \notin harm => \A r \in Revisions : shut[r] = "settled" => MayClose(r)
  /\ "stranger" \notin harm

OmpPaneInv == OmpTypeOK /\ ChildrenOK /\ NoteOK /\ ActsOK /\ ShutOK
\* What a step never takes back: what a command may rely on.
RunLasts(r) ==
  /\ task[r].state = "over" => task'[r].state = "over"
  /\ MayClose(r) => MayClose(r)'
PaneLasts(r) ==
  Launched(r) =>
    /\ Launched(r)'
    /\ child[r].at = "gone" => child'[r].at = "gone"
    /\ act' # Forget /\ IsOpen(r)' =>
           /\ IsOpen(r) /\ child'[r].session = child[r].session /\ child'[r].lobby = child[r].lobby
           /\ task[r].state = "over" /\ child[r].status = "idle" => child'[r].status = "idle"
OmpLasting ==
  /\ keeps' = keeps /\ harm \subseteq harm'
  /\ \A r \in Revisions : RunLasts(r) /\ PaneLasts(r)


\* No receipt is a receipt, and a command at rest is a command.
LEMMA Resting == NoNote \in PaneNotes /\ NoCommand \in Acts
<1>1. 0 \in 0..2
  OBVIOUS
<1>2. NoNote \in PaneNotes
  BY <1>1 DEF NoNote, PaneNotes
<1>3. "idle" \in CommandPlaces
  BY DEF CommandPlaces
<1> QED BY <1>1, <1>2, <1>3 DEF NoCommand, Acts

\* A command holds a receipt and a revision.
LEMMA Held ==
  ASSUME act \in [OmpCommands -> Acts]
  PROVE  \A c \in OmpCommands :
           /\ act[c] \in Acts /\ act[c].copy \in PaneNotes
           /\ act[c].of \in 0..2 /\ act[c].copy.of \in 0..2
BY DEF Acts, PaneNotes

\* The receipt of a pane that was just opened.
LEMMA Fresh == \A r \in Revisions : LET n == [of |-> r, state |-> "retained", result |-> 0]
                                    IN  n \in PaneNotes /\ n.of = r /\ n.state = "retained"
BY DEF PaneNotes, Revisions

\* A command that ends, goes on or starts leaves the others alone.
LEMMA Steering ==
  ASSUME act \in [OmpCommands -> Acts], NEW c \in OmpCommands
  PROVE  /\ Quit(c) => act' \in [OmpCommands -> Acts] /\ act'[c] = NoCommand
                       /\ \A d \in OmpCommands \ {c} : act'[d] = act[d]
         /\ \A to \in CommandPlaces : Step(c, to) =>
              /\ act' \in [OmpCommands -> Acts]
              /\ act'[c].step = to /\ act'[c].copy = act[c].copy /\ act'[c].sure = act[c].sure
              /\ \A d \in OmpCommands \ {c} : act'[d] = act[d]
         /\ \A to \in CommandPlaces, here \in BOOLEAN, r \in 0..2 : Starts(c, to, here, r) =>
              /\ act' \in [OmpCommands -> Acts] /\ act'[c].step = to
              /\ \A d \in OmpCommands \ {c} : act'[d] = act[d]
<1>1. NoCommand \in Acts
  BY Resting
<1>2. Quit(c) => act' \in [OmpCommands -> Acts] /\ act'[c] = NoCommand
                 /\ \A d \in OmpCommands \ {c} : act'[d] = act[d]
  BY <1>1 DEF Quit
<1>3. ASSUME NEW to \in CommandPlaces, Step(c, to)
      PROVE  /\ act' \in [OmpCommands -> Acts]
             /\ act'[c].step = to /\ act'[c].copy = act[c].copy /\ act'[c].sure = act[c].sure
             /\ \A d \in OmpCommands \ {c} : act'[d] = act[d]
  BY <1>3 DEF Step, Acts
<1>4. ASSUME NEW to \in CommandPlaces, NEW here \in BOOLEAN, NEW r \in 0..2, Starts(c, to, here, r)
      PROVE  /\ act' \in [OmpCommands -> Acts] /\ act'[c].step = to
             /\ \A d \in OmpCommands \ {c} : act'[d] = act[d]
  <2>1. [NoCommand EXCEPT !.step = to, !.here = here, !.of = r] \in Acts
    BY <1>1 DEF Acts
  <2>2. [NoCommand EXCEPT !.step = to, !.here = here, !.of = r].step = to
    BY <1>1 DEF Acts
  <2> QED BY <1>4, <2>1, <2>2 DEF Starts
<1> QED BY <1>2, <1>3, <1>4

\* Writing a state or a result into a receipt keeps whose it is.
LEMMA Writing ==
  ASSUME NEW n \in PaneNotes, NEW s \in {"retained", "pending", "closing", "closed"}
  PROVE  /\ [n EXCEPT !.state = s] \in PaneNotes
         /\ [n EXCEPT !.state = s].of = n.of /\ [n EXCEPT !.state = s].state = s
         /\ \A r \in 0..2 : /\ [n EXCEPT !.state = s, !.result = r] \in PaneNotes
                            /\ [n EXCEPT !.state = s, !.result = r].of = n.of
                            /\ [n EXCEPT !.state = s, !.result = r].state = s
BY DEF PaneNotes

\* The latest result is that of a run that is over.
LEMMA Latest ==
  /\ LatestResult \in 0..2
  /\ LatestResult # 0 => LatestResult \in Revisions /\ task[LatestResult].state = "over"
BY DEF LatestResult, Revisions

\* Every run's record stays one.
LEMMA RunsStay ==
  ASSUME OmpTypeOK, OmpNext
  PROVE  task' \in [Revisions -> Runs0]
<1>0. task \in [Revisions -> Runs0]
  BY DEF OmpTypeOK
<1>1. ASSUME NEW r \in Revisions, RunOver(r) PROVE task' \in [Revisions -> Runs0]
  <2>1. task[r] \in Runs0
    BY <1>0 DEF Revisions
  <2>2. PICK o \in {"candidate", "lost"} : task' = [task EXCEPT ![r].state = "over", ![r].outcome = o]
    BY <1>1 DEF RunOver
  <2>3. [task[r] EXCEPT !.state = "over", !.outcome = o] \in Runs0
    BY <2>1 DEF Runs0
  <2> QED BY <1>0, <2>1, <2>2, <2>3
<1>2. CASE Revise
  <2>1. 2 \in Revisions
    BY DEF Revisions
  <2>3. task[2] \in Runs0
    BY <1>0, <2>1
  <2>2. [task[2] EXCEPT !.state = "active"] \in Runs0
    BY <2>3 DEF Runs0
  <2> QED BY <1>0, <1>2, <2>1, <2>2 DEF Revise
<1>3. ASSUME NEW c \in OmpCommands, Settle(c) PROVE task' \in [Revisions -> Runs0]
  <2>1. LatestResult \in Revisions /\ task[LatestResult] \in Runs0
    BY <1>0, <1>3, Latest DEF Settle
  <2>2. PICK d \in BOOLEAN, here \in BOOLEAN :
          /\ d => task[LatestResult].outcome = "candidate"
          /\ task' = [task EXCEPT ![LatestResult].acked = TRUE,
                ![LatestResult].decided = task[LatestResult].decided \/ d]
          /\ Starts(c, "mark", here, LatestResult)
    BY <1>3, Zenon DEF Settle
  <2>3. (task[LatestResult].decided \/ d) \in BOOLEAN
    OBVIOUS
  <2>4. [task[LatestResult] EXCEPT !.acked = TRUE,
           !.decided = task[LatestResult].decided \/ d] \in Runs0
    BY <2>1, <2>3 DEF Runs0
  <2> QED BY <1>0, <2>1, <2>2, <2>4
<1>4. CASE UNCHANGED <<task>>
  BY <1>0, <1>4
<1> QED BY <1>0, <1>1, <1>2, <1>3, <1>4
       DEF OmpNext, WrapperWorks, CommandWorks, OmpCommands, LaunchOmp, RecordSpawn, CheckSpawn,
           SendPrompt, PollAgent, ReadOmpReport, AgentWorks, Moved, Mark, CloseIfEligible, Ask,
           WriteClosing, AskAgain, Pull, Confirm, CancelOwnedPane, PullCancel, CommandDies,
           CancelTask, Reconciles, Closes, Forget, Moves, WrapperGoes, Wraps, WriteBack

\* Every pane's record stays one.
LEMMA ChildrenStay ==
  ASSUME OmpTypeOK, OmpNext
  PROVE  child' \in [Revisions -> Children]
<1>0. child \in [Revisions -> Children] /\ act \in [OmpCommands -> Acts]
  BY DEF OmpTypeOK
<1>1. ASSUME NEW r \in Revisions, AgentWorks(r) PROVE child' \in [Revisions -> Children]
  BY <1>1, <1>0, Held DEF AgentWorks, IsOpen, Children
<1>2. ASSUME NEW r \in Revisions, Moved(r) PROVE child' \in [Revisions -> Children]
  <2>1. /\ [child[r] EXCEPT !.session = "other", !.status = "working"] \in Children
        /\ [child[r] EXCEPT !.status = "working"] \in Children
        /\ [child[r] EXCEPT !.lobby = TRUE] \in Children
        /\ [child[r] EXCEPT !.at = "gone"] \in Children
    BY <1>0 DEF Children
  <2>2. \E x \in Children : child' = [child EXCEPT ![r] = x]
    BY <1>2, <2>1 DEF Moved
  <2> QED BY <1>0, <2>2
<1>3. ASSUME NEW r \in Revisions, LaunchOmp(r) PROVE child' \in [Revisions -> Children]
  BY <1>3, <1>0, Held DEF LaunchOmp, Wraps, WrapperGoes, Children
<1>4. ASSUME NEW r \in Revisions, SendPrompt(r) PROVE child' \in [Revisions -> Children]
  BY <1>4, <1>0, Held DEF SendPrompt, Wraps, WrapperGoes, IsOpen, Children
<1>5. ASSUME NEW c \in OmpCommands, Pull(c) PROVE child' \in [Revisions -> Children]
  BY <1>5, <1>0, Held DEF Pull, Closes, Children
<1>6. ASSUME NEW c \in OmpCommands, PullCancel(c) PROVE child' \in [Revisions -> Children]
  BY <1>6, <1>0, Held DEF PullCancel, Closes, Children
<1>7. CASE UNCHANGED <<child>>
  BY <1>0, <1>7
<1> QED BY <1>0, <1>1, <1>2, <1>3, <1>4, <1>5, <1>6, <1>7
       DEF OmpNext, WrapperWorks, CommandWorks, OmpCommands, RecordSpawn, CheckSpawn, PollAgent,
           ReadOmpReport, RunOver, Mark, CloseIfEligible, Ask, WriteClosing, AskAgain, Confirm,
           CancelOwnedPane, CommandDies, Settle, CancelTask, Reconciles, Revise, Moves,
           WrapperGoes, Wraps, WriteBack

\* Reports and wrappers stay what they are.
LEMMA WritingStays ==
  ASSUME OmpTypeOK, OmpNext
  PROVE  /\ written' \in [Revisions -> {"nobody", "own", "other"}]
         /\ wrapper' \in [Revisions -> WrapperPlaces]
<1> USE DEF OmpTypeOK, WrapperPlaces
<1>1. ASSUME NEW r \in Revisions, LaunchOmp(r)
      PROVE  /\ written' \in [Revisions -> {"nobody", "own", "other"}]
             /\ wrapper' \in [Revisions -> WrapperPlaces]
  BY <1>1 DEF LaunchOmp, Wraps, WrapperGoes
<1>2. ASSUME NEW r \in Revisions, RecordSpawn(r)
      PROVE  /\ written' \in [Revisions -> {"nobody", "own", "other"}]
             /\ wrapper' \in [Revisions -> WrapperPlaces]
  BY <1>2 DEF RecordSpawn, Wraps, WrapperGoes
<1>3. ASSUME NEW r \in Revisions, CheckSpawn(r)
      PROVE  /\ written' \in [Revisions -> {"nobody", "own", "other"}]
             /\ wrapper' \in [Revisions -> WrapperPlaces]
  BY <1>3 DEF CheckSpawn, Wraps, WrapperGoes, SameAgent, IsOpen
<1>4. ASSUME NEW r \in Revisions, SendPrompt(r)
      PROVE  /\ written' \in [Revisions -> {"nobody", "own", "other"}]
             /\ wrapper' \in [Revisions -> WrapperPlaces]
  BY <1>4 DEF SendPrompt, Wraps, WrapperGoes, IsOpen
<1>5. ASSUME NEW r \in Revisions, PollAgent(r)
      PROVE  /\ written' \in [Revisions -> {"nobody", "own", "other"}]
             /\ wrapper' \in [Revisions -> WrapperPlaces]
  BY <1>5 DEF PollAgent, Wraps, WrapperGoes, StillTheAgent, SameAgent, CompletionReady, IsOpen
<1>6. ASSUME NEW r \in Revisions, ReadOmpReport(r)
      PROVE  /\ written' \in [Revisions -> {"nobody", "own", "other"}]
             /\ wrapper' \in [Revisions -> WrapperPlaces]
  BY <1>6 DEF ReadOmpReport, WrapperGoes
<1>7. ASSUME NEW r \in Revisions, RunOver(r)
      PROVE  /\ written' \in [Revisions -> {"nobody", "own", "other"}]
             /\ wrapper' \in [Revisions -> WrapperPlaces]
  BY <1>7 DEF RunOver, WrapperGoes
<1>8. ASSUME NEW r \in Revisions, AgentWorks(r)
      PROVE  /\ written' \in [Revisions -> {"nobody", "own", "other"}]
             /\ wrapper' \in [Revisions -> WrapperPlaces]
  <2>1. child[r].session \in {"own", "other"}
    BY DEF Children
  <2>2. /\ wrapper' = wrapper
        /\ written' = written \/ written' = [written EXCEPT ![r] = child[r].session]
    BY <1>8 DEF AgentWorks
  <2> QED BY <2>1, <2>2
<1>9. ASSUME NEW r \in Revisions, Moved(r)
      PROVE  /\ written' \in [Revisions -> {"nobody", "own", "other"}]
             /\ wrapper' \in [Revisions -> WrapperPlaces]
  BY <1>9 DEF Moved, Moves, IsOpen
<1>10. CASE UNCHANGED <<written, wrapper>>
  BY <1>10
<1> HIDE DEF OmpTypeOK, WrapperPlaces
<1> QED BY <1>1, <1>2, <1>3, <1>4, <1>5, <1>6, <1>7, <1>8, <1>9, <1>10
       DEF OmpNext, WrapperWorks, CommandWorks, OmpCommands, Mark, CloseIfEligible, Ask,
           WriteClosing, AskAgain, Pull, Confirm, CancelOwnedPane, PullCancel, CommandDies,
           Settle, CancelTask, Reconciles, Revise, Closes, Moves, WriteBack

\* The receipt stays one.
LEMMA NotesStay ==
  ASSUME OmpTypeOK, OmpNext
  PROVE  note' \in PaneNotes
<1>0. note \in PaneNotes /\ act \in [OmpCommands -> Acts]
  BY DEF OmpTypeOK
<1>n. ASSUME NEW n \in PaneNotes
      PROVE  /\ \A s \in {"pending", "closing", "closed"} : [n EXCEPT !.state = s] \in PaneNotes
             /\ \A k \in 0..2 : [n EXCEPT !.state = "pending", !.result = k] \in PaneNotes
  BY DEF PaneNotes
<1>w. ASSUME NEW c \in OmpCommands, NEW s \in {"pending", "closing", "closed"}, WriteBack(c, s)
      PROVE  note' \in PaneNotes
  BY <1>0, <1>n, <1>w, Held DEF WriteBack
<1>1. ASSUME NEW r \in Revisions, RecordSpawn(r) PROVE note' \in PaneNotes
  BY <1>1, <1>0, Fresh DEF RecordSpawn
<1>2. ASSUME NEW c \in OmpCommands, Mark(c) PROVE note' \in PaneNotes
  BY <1>2, <1>0, <1>n, Held DEF Mark
<1>3. ASSUME NEW c \in OmpCommands, CloseIfEligible(c) PROVE note' \in PaneNotes
  BY <1>3, <1>0, <1>n DEF CloseIfEligible
<1>4. ASSUME NEW c \in OmpCommands, WriteClosing(c) PROVE note' \in PaneNotes
  BY <1>4, <1>w DEF WriteClosing
<1>5. ASSUME NEW c \in OmpCommands, AskAgain(c) PROVE note' \in PaneNotes
  BY <1>5, <1>0, <1>w DEF AskAgain
<1>6. ASSUME NEW c \in OmpCommands, Confirm(c) PROVE note' \in PaneNotes
  BY <1>6, <1>0, <1>w DEF Confirm
<1>7. ASSUME NEW c \in OmpCommands, CancelOwnedPane(c) PROVE note' \in PaneNotes
  BY <1>7, <1>0, <1>n DEF CancelOwnedPane
<1>8. CASE UNCHANGED <<note>>
  BY <1>0, <1>8
<1> QED BY <1>0, <1>1, <1>2, <1>3, <1>4, <1>5, <1>6, <1>7, <1>8
       DEF OmpNext, WrapperWorks, CommandWorks, OmpCommands, LaunchOmp, CheckSpawn, SendPrompt,
           PollAgent, ReadOmpReport, RunOver, AgentWorks, Moved, Ask, Pull, PullCancel,
           CommandDies, Settle, CancelTask, Reconciles, Revise, Closes, Forget, Moves,
           WrapperGoes, Wraps

\* Every command's record stays one.
LEMMA CommandsStay ==
  ASSUME OmpTypeOK, OmpNext
  PROVE  act' \in [OmpCommands -> Acts]
<1>0. note \in PaneNotes /\ act \in [OmpCommands -> Acts]
  BY DEF OmpTypeOK
<1>1. ASSUME NEW r \in Revisions, Moved(r) PROVE act' \in [OmpCommands -> Acts]
  <2>1. \A c \in OmpCommands : [act[c] EXCEPT !.sure = FALSE] \in Acts
    BY <1>0 DEF Acts
  <2> QED BY <2>1, <1>1 DEF Moved, Forget
<1>2. ASSUME NEW c \in OmpCommands, Mark(c) PROVE act' \in [OmpCommands -> Acts]
  BY <1>2, <1>0, Steering, Latest DEF Mark, CommandPlaces
<1>3. ASSUME NEW c \in OmpCommands, CloseIfEligible(c) PROVE act' \in [OmpCommands -> Acts]
  <2>1. CASE act' = [act EXCEPT ![c].step = "ask", ![c].copy = note]
    BY <1>0, <2>1 DEF Acts, CommandPlaces
  <2> QED BY <1>0, <1>3, <2>1, Steering DEF CloseIfEligible
<1>4. ASSUME NEW c \in OmpCommands, Ask(c) PROVE act' \in [OmpCommands -> Acts]
  BY <1>4, <1>0, Steering, Latest DEF Ask, CommandPlaces
<1>5. ASSUME NEW c \in OmpCommands, WriteClosing(c) PROVE act' \in [OmpCommands -> Acts]
  BY <1>5, <1>0, Steering, Latest DEF WriteClosing, CommandPlaces
<1>6. ASSUME NEW c \in OmpCommands, AskAgain(c) PROVE act' \in [OmpCommands -> Acts]
  <2>1. CASE Quit(c)
    BY <1>0, <2>1, Steering
  <2>2. CASE ~Quit(c)
    <3>1. PICK s \in BOOLEAN : act' = [act EXCEPT ![c].step = "pull", ![c].sure = s]
      BY <1>6, <2>2 DEF AskAgain
    <3>2. [act[c] EXCEPT !.step = "pull", !.sure = s] \in Acts
      BY <1>0 DEF Acts, CommandPlaces
    <3> QED BY <1>0, <3>1, <3>2
  <2> QED BY <2>1, <2>2
<1>7. ASSUME NEW c \in OmpCommands, Pull(c) PROVE act' \in [OmpCommands -> Acts]
  BY <1>7, <1>0, Steering, Latest DEF Pull, CommandPlaces
<1>8. ASSUME NEW c \in OmpCommands, Confirm(c) PROVE act' \in [OmpCommands -> Acts]
  BY <1>8, <1>0, Steering, Latest DEF Confirm, IsOpen, CommandPlaces
<1>9. ASSUME NEW c \in OmpCommands, CancelOwnedPane(c) PROVE act' \in [OmpCommands -> Acts]
  <2>1. CASE act' = [act EXCEPT ![c].step = "pull cancel", ![c].copy = note, ![c].sure = TRUE]
    <3>1. [act[c] EXCEPT !.step = "pull cancel", !.copy = note, !.sure = TRUE] \in Acts
      BY <1>0 DEF Acts, CommandPlaces
    <3> QED BY <1>0, <2>1, <3>1
  <2> QED BY <1>0, <1>9, <2>1, Steering DEF CancelOwnedPane
<1>10. ASSUME NEW c \in OmpCommands, PullCancel(c) PROVE act' \in [OmpCommands -> Acts]
  BY <1>10, <1>0, Steering, Latest DEF PullCancel, CommandPlaces
<1>11. ASSUME NEW c \in OmpCommands, CommandDies(c) PROVE act' \in [OmpCommands -> Acts]
  BY <1>11, <1>0, Steering, Latest DEF CommandDies, CommandPlaces
<1>12. ASSUME NEW c \in OmpCommands, Settle(c) PROVE act' \in [OmpCommands -> Acts]
  BY <1>12, <1>0, Steering, Latest DEF Settle, CommandPlaces
<1>13. ASSUME NEW c \in OmpCommands, CancelTask(c) PROVE act' \in [OmpCommands -> Acts]
  <2>1. [NoCommand EXCEPT !.step = "cancel", !.here = TRUE, !.of = 0] \in Acts
    BY Resting DEF NoCommand, NoNote, Acts, CommandPlaces, PaneNotes
  <2> QED BY <1>0, <2>1, <1>13 DEF CancelTask, Starts
<1>14. ASSUME NEW c \in OmpCommands, Reconciles(c) PROVE act' \in [OmpCommands -> Acts]
  <2>1. [NoCommand EXCEPT !.step = "close", !.here = TRUE, !.of = 0] \in Acts
    BY Resting DEF NoCommand, NoNote, Acts, CommandPlaces, PaneNotes
  <2> QED BY <1>0, <2>1, <1>14 DEF Reconciles, Starts
<1>15. CASE UNCHANGED <<act>>
  BY <1>0, <1>15
<1> QED BY <1>0, <1>1, <1>2, <1>3, <1>4, <1>5, <1>6, <1>7, <1>8, <1>9, <1>10, <1>11, <1>12,
       <1>13, <1>14, <1>15
       DEF OmpNext, WrapperWorks, CommandWorks, OmpCommands, LaunchOmp, RecordSpawn, CheckSpawn,
           SendPrompt, PollAgent, ReadOmpReport, RunOver, AgentWorks, Revise, WrapperGoes, Wraps

\* How a pane was closed stays one of the ways.
LEMMA ShutsStay ==
  ASSUME OmpTypeOK, OmpNext
  PROVE  shut' \in [Revisions -> {"no", "by hand", "settled", "cancelled"}]
<1> USE DEF OmpTypeOK
<1>1. ASSUME NEW r \in Revisions, Moved(r)
      PROVE  shut' \in [Revisions -> {"no", "by hand", "settled", "cancelled"}]
  BY <1>1 DEF Moved, Moves, IsOpen
<1>2. ASSUME NEW c \in OmpCommands, Pull(c)
      PROVE  shut' \in [Revisions -> {"no", "by hand", "settled", "cancelled"}]
  BY <1>2 DEF Pull, Closes
<1>3. ASSUME NEW c \in OmpCommands, PullCancel(c)
      PROVE  shut' \in [Revisions -> {"no", "by hand", "settled", "cancelled"}]
  BY <1>3 DEF PullCancel, Closes
<1>4. CASE UNCHANGED <<shut>>
  BY <1>4
<1> HIDE DEF OmpTypeOK
<1> QED BY <1>1, <1>2, <1>3, <1>4
       DEF OmpNext, WrapperWorks, CommandWorks, OmpCommands, LaunchOmp, RecordSpawn, CheckSpawn,
           SendPrompt, PollAgent, ReadOmpReport, RunOver, AgentWorks, Mark, CloseIfEligible,
           Ask, WriteClosing, AskAgain, Confirm, CancelOwnedPane, CommandDies, Settle,
           CancelTask, Reconciles, Revise, Moves, WrapperGoes, Wraps, WriteBack

\* Every step keeps the types of the other launcher's panes.
LEMMA OmpTypeStep ==
  ASSUME OmpTypeOK, OmpNext
  PROVE  OmpTypeOK'
BY RunsStay, ChildrenStay, WritingStays, NotesStay, CommandsStay, ShutsStay DEF OmpTypeOK

\* A run that is over stays over, and a settled one settled.
LEMMA RunsLast ==
  ASSUME OmpTypeOK, OmpNext
  PROVE  keeps' = keeps /\ \A s \in Revisions : RunLasts(s)
<1>0. task \in [Revisions -> Runs0]
  BY DEF OmpTypeOK
<1>1. ASSUME NEW r \in Revisions, RunOver(r)
      PROVE  keeps' = keeps /\ \A s \in Revisions : RunLasts(s)
  BY <1>1, <1>0 DEF RunOver, WrapperGoes, RunLasts, MayClose, Settled, Runs0
<1>2. CASE Revise
  BY <1>2, <1>0 DEF Revise, RunLasts, MayClose, Settled, Runs0
<1>3. ASSUME NEW c \in OmpCommands, Settle(c)
      PROVE  keeps' = keeps /\ \A s \in Revisions : RunLasts(s)
  BY <1>3, <1>0 DEF Settle, RunLasts, MayClose, Settled, Runs0
<1>4. CASE UNCHANGED <<task, keeps>>
  BY <1>0, <1>4 DEF RunLasts, MayClose, Settled
<1> QED BY <1>0, <1>1, <1>2, <1>3, <1>4
       DEF OmpNext, WrapperWorks, CommandWorks, OmpCommands, LaunchOmp, RecordSpawn, CheckSpawn,
           SendPrompt, PollAgent, ReadOmpReport, AgentWorks, Moved, Mark, CloseIfEligible, Ask,
           WriteClosing, AskAgain, Pull, Confirm, CancelOwnedPane, PullCancel, CommandDies,
           CancelTask, Reconciles, Closes, Forget, Moves, WrapperGoes, Wraps, WriteBack

\* A pane is launched once; its agent, once calm, stays calm unless somebody else moves.
LEMMA PanesLast ==
  ASSUME OmpTypeOK, OmpNext
  PROVE  \A s \in Revisions : PaneLasts(s)
<1>0. /\ child \in [Revisions -> Children] /\ wrapper \in [Revisions -> WrapperPlaces]
      /\ act \in [OmpCommands -> Acts]
  BY DEF OmpTypeOK
<1>1. ASSUME NEW r \in Revisions, LaunchOmp(r) PROVE \A s \in Revisions : PaneLasts(s)
  BY <1>1, <1>0, Held DEF LaunchOmp, Wraps, WrapperGoes, PaneLasts, Launched, IsOpen, Children
<1>2. ASSUME NEW r \in Revisions, RecordSpawn(r) PROVE \A s \in Revisions : PaneLasts(s)
  BY <1>2, <1>0, Held DEF RecordSpawn, Wraps, WrapperGoes, PaneLasts, Launched, IsOpen, Children
<1>3. ASSUME NEW r \in Revisions, CheckSpawn(r) PROVE \A s \in Revisions : PaneLasts(s)
  BY <1>3, <1>0, Held
      DEF CheckSpawn, Wraps, WrapperGoes, SameAgent, IsOpen, PaneLasts, Launched, Children
<1>4. ASSUME NEW r \in Revisions, SendPrompt(r) PROVE \A s \in Revisions : PaneLasts(s)
  BY <1>4, <1>0, Held DEF SendPrompt, Wraps, WrapperGoes, IsOpen, PaneLasts, Launched, Children
<1>5. ASSUME NEW r \in Revisions, PollAgent(r) PROVE \A s \in Revisions : PaneLasts(s)
  BY <1>5, <1>0, Held
      DEF PollAgent, Wraps, WrapperGoes, StillTheAgent, SameAgent, CompletionReady, IsOpen,
          PaneLasts, Launched, Children
<1>6. ASSUME NEW r \in Revisions, ReadOmpReport(r) PROVE \A s \in Revisions : PaneLasts(s)
  BY <1>6, <1>0, Held DEF ReadOmpReport, WrapperGoes, PaneLasts, Launched, IsOpen, Children
<1>7. ASSUME NEW r \in Revisions, RunOver(r) PROVE \A s \in Revisions : PaneLasts(s)
  BY <1>7, <1>0, Held DEF RunOver, WrapperGoes, PaneLasts, Launched, IsOpen, Children
<1>8. ASSUME NEW r \in Revisions, AgentWorks(r) PROVE \A s \in Revisions : PaneLasts(s)
  BY <1>8, <1>0, Held DEF AgentWorks, IsOpen, PaneLasts, Launched, Children
<1>9. ASSUME NEW r \in Revisions, Moved(r) PROVE \A s \in Revisions : PaneLasts(s)
  BY <1>9, <1>0, Held DEF Moved, Moves, IsOpen, PaneLasts, Launched, Children
<1>10. ASSUME NEW c \in OmpCommands, Pull(c) PROVE \A s \in Revisions : PaneLasts(s)
  BY <1>10, <1>0, Held DEF Pull, Closes, PaneLasts, Launched, IsOpen, Children
<1>11. ASSUME NEW c \in OmpCommands, PullCancel(c) PROVE \A s \in Revisions : PaneLasts(s)
  <2>1. wrapper' = wrapper /\ (child' = child \/ child' = [child EXCEPT ![act[c].copy.of].at = "gone"])
    BY <1>11 DEF PullCancel, Closes
  <2> QED BY <1>0, <2>1, Held DEF PaneLasts, Launched, IsOpen, Children
<1>12. CASE UNCHANGED <<child, wrapper>>
  BY <1>0, <1>12 DEF PaneLasts, Launched, IsOpen
<1> QED BY <1>0, <1>1, <1>2, <1>3, <1>4, <1>5, <1>6, <1>7, <1>8, <1>9, <1>10, <1>11, <1>12
       DEF OmpNext, WrapperWorks, CommandWorks, OmpCommands, Mark, CloseIfEligible, Ask,
           WriteClosing, AskAgain, Confirm, CancelOwnedPane, CommandDies, Settle, CancelTask,
           Reconciles, Revise, Moves, WriteBack

\* Harm is never undone.
LEMMA HarmLasts ==
  ASSUME OmpNext
  PROVE  harm \subseteq harm'
<1>1. ASSUME NEW r \in Revisions, ReadOmpReport(r) PROVE harm \subseteq harm'
  BY <1>1 DEF ReadOmpReport, WrapperGoes
<1>2. ASSUME NEW c \in OmpCommands, WriteClosing(c) PROVE harm \subseteq harm'
  BY <1>2 DEF WriteClosing, WriteBack, Crossing
<1>3. ASSUME NEW c \in OmpCommands, AskAgain(c) PROVE harm \subseteq harm'
  BY <1>3 DEF AskAgain, EligibleStill, WriteBack, Crossing, IsOpen
<1>4. ASSUME NEW c \in OmpCommands, Pull(c) PROVE harm \subseteq harm'
  BY <1>4 DEF Pull, Closes
<1>5. ASSUME NEW c \in OmpCommands, Confirm(c) PROVE harm \subseteq harm'
  BY <1>5 DEF Confirm, WriteBack, Crossing, IsOpen
<1>6. ASSUME NEW c \in OmpCommands, PullCancel(c) PROVE harm \subseteq harm'
  BY <1>6 DEF PullCancel, Closes
<1>7. CASE UNCHANGED <<harm>>
  BY <1>7
<1> QED BY <1>1, <1>2, <1>3, <1>4, <1>5, <1>6, <1>7
       DEF OmpNext, WrapperWorks, CommandWorks, OmpCommands, LaunchOmp, RecordSpawn, CheckSpawn,
           SendPrompt, PollAgent, RunOver, AgentWorks, Moved, Mark, CloseIfEligible, Ask,
           CancelOwnedPane, CommandDies, Settle, CancelTask, Reconciles, Revise, Forget, Moves,
           WrapperGoes, Wraps

\* What a command may rely on, no step takes back.
LEMMA OmpStepsLast ==
  ASSUME OmpTypeOK, OmpNext
  PROVE  OmpLasting
BY RunsLast, PanesLast, HarmLasts DEF OmpLasting

\* What a command has seen stays true while it does not move.
LEMMA ActStays ==
  ASSUME OmpTypeOK, ActsOK, OmpLasting, NEW d \in OmpCommands,
         act'[d].step = act[d].step, act'[d].copy = act[d].copy,
         act'[d].sure => act[d].sure /\ act' # Forget
  PROVE  ActOK(d)'
<1> DEFINE o == act[d].copy.of
<1>1. ActOK(d) /\ act[d] \in Acts /\ o \in 0..2
  BY Held DEF ActsOK, OmpTypeOK
<1>2. o \in Revisions => RunLasts(o) /\ PaneLasts(o)
  BY DEF OmpLasting
<1>3. "crossed" \notin harm' => "crossed" \notin harm
  BY DEF OmpLasting
<1>4. Launched(o) => o \in Revisions
  BY DEF Launched
<1>5. act[d].step \in HoldsOne => Launched(o) /\ Launched(o)'
  BY <1>1, <1>2, <1>4 DEF ActOK, HoldsOne, PaneLasts
<1>6. act[d].step = "pull" /\ "crossed" \notin harm' => MayClose(o)'
  BY <1>1, <1>2, <1>3, <1>4, <1>5 DEF ActOK, HoldsOne, RunLasts
<1>7. act[d].step = "pull" /\ act'[d].sure =>
        /\ task'[o].state = "over"
        /\ IsOpen(o)' =>
            /\ child'[o].session = "own" /\ child'[o].status = "idle"
            /\ ~child'[o].lobby
  <2> SUFFICES ASSUME act[d].step = "pull", act'[d].sure
               PROVE  /\ task'[o].state = "over"
                      /\ IsOpen(o)' =>
                          /\ child'[o].session = "own" /\ child'[o].status = "idle"
                          /\ ~child'[o].lobby
    OBVIOUS
  <2>1. act[d].sure /\ act' # Forget /\ o \in Revisions
    BY <1>4, <1>5 DEF HoldsOne
  <2>2. /\ task[o].state = "over"
        /\ IsOpen(o) => child[o].session = "own" /\ child[o].status = "idle" /\ ~child[o].lobby
    BY <1>1, <2>1 DEF ActOK, HoldsOne
  <2> QED BY <1>2, <1>5, <2>1, <2>2 DEF RunLasts, PaneLasts, HoldsOne
<1>8. act[d].step = "pull cancel" /\ act'[d].sure =>
        (IsOpen(o)' => child'[o].session = "own")
  BY <1>1, <1>2, <1>4, <1>5 DEF ActOK, HoldsOne, PaneLasts
<1>9. act'[d].copy.of = o /\ o' = o
  OBVIOUS
<1> HIDE DEF o
<1> QED BY <1>5, <1>6, <1>7, <1>8, <1>9 DEF ActOK, HoldsOne, IsOpen

\* One command moves, and the others may still rely on what they saw.
LEMMA OthersStay ==
  ASSUME OmpTypeOK, ActsOK, OmpLasting, NEW c \in OmpCommands,
         \A d \in OmpCommands \ {c} : act'[d] = act[d], ActOK(c)'
  PROVE  ActsOK'
<1> SUFFICES ASSUME NEW d \in OmpCommands, d # c PROVE ActOK(d)'
  BY DEF ActsOK
<1>1. act'[d] = act[d]
  OBVIOUS
<1>2. act' = Forget => ~act'[d].sure
  <2>1. act[d] \in Acts
    BY DEF OmpTypeOK
  <2> QED BY <2>1 DEF Forget, Acts
<1> QED BY <1>1, <1>2, ActStays

\* No command moves, and all may still rely on what they saw, or have to forget it.
LEMMA AllStay ==
  ASSUME OmpTypeOK, ActsOK, OmpLasting, act' = act \/ act' = Forget
  PROVE  ActsOK'
<1> SUFFICES ASSUME NEW d \in OmpCommands PROVE ActOK(d)'
  BY DEF ActsOK
<1>1. act[d] \in Acts
  BY DEF OmpTypeOK
<1>2. act' = Forget => ~act'[d].sure /\ act'[d].step = act[d].step /\ act'[d].copy = act[d].copy
  BY <1>1 DEF Forget, Acts
<1> QED BY <1>1, <1>2, ActStays

\* A command that goes on with the receipt it holds finds its pane launched.
LEMMA HoldsItsPane ==
  ASSUME OmpTypeOK, ActsOK, OmpLasting, NEW c \in OmpCommands,
         act[c].step \in HoldsOne
  PROVE  /\ Launched(act[c].copy.of) /\ act[c].copy.of \in Revisions
         /\ wrapper'[act[c].copy.of] # "none" /\ child'[act[c].copy.of].at # "none"
<1>1. Launched(act[c].copy.of) /\ act[c].copy.of \in Revisions
  BY DEF ActsOK, ActOK, HoldsOne, Launched
<1>2. \A r \in Revisions : Launched(r) => wrapper'[r] # "none" /\ child'[r].at # "none"
  BY DEF OmpLasting, PaneLasts, Launched
<1> QED BY <1>1, <1>2 DEF Launched

\* A command that has read no receipt relies on nothing.
LEMMA Idles ==
  ASSUME NEW c \in OmpCommands, act'[c].step \in {"idle", "mark", "close", "cancel"}
  PROVE  ActOK(c)'
BY DEF ActOK, HoldsOne

\* Every step keeps what the commands have seen true.
LEMMA ActsStep ==
  ASSUME OmpPaneInv, OmpNext
  PROVE  ActsOK'
<1>0. OmpTypeOK /\ OmpTypeOK' /\ ActsOK /\ NoteOK /\ OmpLasting /\ act \in [OmpCommands -> Acts]
  BY OmpTypeStep, OmpStepsLast DEF OmpPaneInv, OmpTypeOK
<1> SUFFICES ASSUME NEW c \in OmpCommands,
                    \/ CommandWorks(c) \/ CommandDies(c)
                    \/ Settle(c) \/ CancelTask(c) \/ Reconciles(c)
             PROVE  ActsOK'
  <2>1. ASSUME NEW r \in Revisions, WrapperWorks(r) \/ AgentWorks(r) \/ Moved(r)
        PROVE  act' = act \/ act' = Forget
    BY <2>1
        DEF WrapperWorks, LaunchOmp, RecordSpawn, CheckSpawn, SendPrompt, PollAgent,
            ReadOmpReport, RunOver,
               AgentWorks, Moved
  <2>2. ASSUME Revise PROVE act' = act
    BY <2>2 DEF Revise
  <2> QED BY <1>0, <2>1, <2>2, AllStay DEF OmpNext, OmpCommands
<1>1. CASE Quit(c)
  BY <1>0, <1>1, Steering, Idles, OthersStay DEF NoCommand
<1>2. ASSUME NEW to \in {"close", "closing", "ask again", "confirm", "confirm cancel"}, Step(c, to),
             to # "close" => act[c].step \in {"ask", "closing", "pull", "pull cancel"}
      PROVE  ActsOK'
  <2>1. /\ act'[c].step = to /\ act'[c].copy = act[c].copy
        /\ \A d \in OmpCommands \ {c} : act'[d] = act[d]
    BY <1>0, <1>2, Steering DEF CommandPlaces
  <2>2. to # "close" => Launched(act[c].copy.of)'
    BY <1>0, <1>2, <2>1, HoldsItsPane DEF Launched, HoldsOne
  <2>3. ActOK(c)'
    BY <2>1, <2>2 DEF ActOK, HoldsOne
  <2> QED BY <1>0, <2>1, <2>3, OthersStay
<1>3. CASE Mark(c)
  BY <1>1, <1>2, <1>3 DEF Mark
<1>4. CASE CloseIfEligible(c)
  <2>1. CASE act' = [act EXCEPT ![c].step = "ask", ![c].copy = note]
    <3>1. /\ act'[c].step = "ask" /\ act'[c].copy = note
          /\ \A d \in OmpCommands \ {c} : act'[d] = act[d]
      BY <1>0, <2>1 DEF Acts
    <3>2. Quit(c) \/ (UNCHANGED note /\ note.of # 0)
      BY <1>4 DEF CloseIfEligible
    <3>3. CASE UNCHANGED note /\ note.of # 0
      <4>1. Launched(note.of)'
        BY <1>0, <3>3 DEF NoteOK, OmpLasting, PaneLasts, Launched
      <4>2. ActOK(c)'
        BY <3>1, <3>3, <4>1 DEF ActOK, HoldsOne
      <4> QED BY <1>0, <3>1, <4>2, OthersStay
    <3> QED BY <1>1, <3>2, <3>3
  <2> QED BY <1>1, <1>4, <2>1 DEF CloseIfEligible
<1>5. CASE Ask(c)
  BY <1>1, <1>2, <1>5 DEF Ask
<1>6. CASE WriteClosing(c)
  BY <1>2, <1>6 DEF WriteClosing
<1>7. CASE AskAgain(c)
  <2> DEFINE o == act[c].copy.of
  <2>1. /\ Launched(o) /\ o \in Revisions /\ RunLasts(o)
        /\ wrapper'[o] # "none" /\ child'[o].at # "none"
    BY <1>0, <1>7, HoldsItsPane DEF AskAgain, OmpLasting, HoldsOne
  <2>2. CASE ~Quit(c)
    <3>1. /\ Eligible(note) /\ harm' = Crossing(c)
          /\ child' = child /\ note' = note /\ task' = task /\ keeps' = keeps
          /\ act' = [act EXCEPT ![c].step = "pull", ![c].sure = note.of = act[c].copy.of]
      BY <1>7, <2>2 DEF AskAgain, EligibleStill
    <3>2. /\ act'[c].step = "pull" /\ act'[c].copy = act[c].copy
          /\ act'[c].sure = (note.of = act[c].copy.of)
          /\ \A d \in OmpCommands \ {c} : act'[d] = act[d]
      BY <1>0, <3>1 DEF Acts
    <3>3. /\ MayClose(note.of) /\ task[note.of].state = "over" /\ child[note.of].session = "own"
          /\ child[note.of].status = "idle" /\ ~child[note.of].lobby
      BY <3>1, Latest DEF Eligible, Closeable, DecisionIsComplete, MayClose, SameAgent
    <3>4. "crossed" \notin harm' => note.of = o
      BY <3>1 DEF Crossing
    <3>5. act'[c].copy.of = o
      BY <3>2
    <3>8. Launched(act[c].copy.of)'
      BY <2>1, <3>5 DEF Launched
    <3>6. note.of = o => task'[o].state = "over" /\ Settled(o) /\ ~keeps
      BY <2>1, <3>1, <3>3 DEF RunLasts, MayClose
    <3>9. note.of = o => MayClose(act[c].copy.of)'
      BY <3>1, <3>5, <3>6 DEF MayClose, Settled
    <3>7. ActOK(c)'
      BY <3>1, <3>2, <3>3, <3>4, <3>5, <3>6, <3>8, <3>9 DEF ActOK, HoldsOne, IsOpen
    <3> QED BY <1>0, <3>2, <3>7, OthersStay
  <2> QED BY <1>1, <2>2
<1>8. CASE Pull(c)
  BY <1>2, <1>8 DEF Pull
<1>9. CASE Confirm(c)
  BY <1>1, <1>9 DEF Confirm
<1>10. CASE CancelOwnedPane(c)
  <2>1. CASE ~Quit(c)
    <3>1. /\ note.of # 0 /\ child' = child /\ SameAgent(note.of)
          /\ act' = [act EXCEPT ![c].step = "pull cancel", ![c].copy = note, ![c].sure = TRUE]
      BY <1>10, <2>1 DEF CancelOwnedPane
    <3>2. /\ act'[c].step = "pull cancel" /\ act'[c].copy = note
          /\ \A d \in OmpCommands \ {c} : act'[d] = act[d]
      BY <1>0, <3>1 DEF Acts
    <3>3. note' = note
      BY <1>10, <2>1 DEF CancelOwnedPane
    <3>4. Launched(note.of)'
      BY <1>0, <3>1, <3>3 DEF NoteOK, OmpLasting, PaneLasts, Launched
    <3>5. ActOK(c)'
      BY <3>1, <3>2, <3>3, <3>4 DEF ActOK, HoldsOne, SameAgent
    <3> QED BY <1>0, <3>2, <3>5, OthersStay
  <2> QED BY <1>1, <2>1
<1>11. CASE PullCancel(c)
  BY <1>2, <1>11 DEF PullCancel
<1>12. CASE CommandDies(c)
  BY <1>1, <1>12 DEF CommandDies
<1>17. TRUE \in BOOLEAN /\ 0 \in 0..2
  OBVIOUS
<1>13. ASSUME NEW to \in {"mark", "cancel", "close"}, NEW here \in BOOLEAN, NEW r \in 0..2,
              Starts(c, to, here, r)
       PROVE  ActsOK'
  <2>1. act'[c].step = to /\ \A d \in OmpCommands \ {c} : act'[d] = act[d]
    BY <1>0, <1>13, Steering DEF CommandPlaces
  <2> QED BY <1>0, <2>1, Idles, OthersStay
<1>14. CASE Settle(c)
  BY <1>13, <1>14, Latest DEF Settle
<1>15. CASE CancelTask(c)
  BY <1>13, <1>15, <1>17 DEF CancelTask
<1>16. CASE Reconciles(c)
  BY <1>13, <1>16, <1>17 DEF Reconciles
<1> QED BY <1>3, <1>4, <1>5, <1>6, <1>7, <1>8, <1>9, <1>10, <1>11, <1>12, <1>14, <1>15, <1>16
       DEF CommandWorks

\* Every step keeps pane, wrapper and report together.
LEMMA ChildrenStep ==
  ASSUME OmpPaneInv, OmpNext
  PROVE  ChildrenOK'
<1>0. /\ child \in [Revisions -> Children] /\ wrapper \in [Revisions -> WrapperPlaces]
      /\ written \in [Revisions -> {"nobody", "own", "other"}] /\ act \in [OmpCommands -> Acts]
      /\ \A s \in Revisions : ChildOK(s)
  BY DEF OmpPaneInv, OmpTypeOK, ChildrenOK
<1>1. ASSUME NEW r \in Revisions, LaunchOmp(r) PROVE ChildrenOK'
  BY <1>1, <1>0, Held DEF LaunchOmp, Wraps, WrapperGoes, ChildrenOK, ChildOK, Children
<1>2. ASSUME NEW r \in Revisions, RecordSpawn(r) PROVE ChildrenOK'
  BY <1>2, <1>0, Held DEF RecordSpawn, Wraps, WrapperGoes, ChildrenOK, ChildOK, Children
<1>3. ASSUME NEW r \in Revisions, CheckSpawn(r) PROVE ChildrenOK'
  BY <1>3, <1>0, Held
      DEF CheckSpawn, Wraps, WrapperGoes, SameAgent, IsOpen, ChildrenOK, ChildOK, Children
<1>4. ASSUME NEW r \in Revisions, SendPrompt(r) PROVE ChildrenOK'
  BY <1>4, <1>0, Held DEF SendPrompt, Wraps, WrapperGoes, IsOpen, ChildrenOK, ChildOK, Children
<1>5. ASSUME NEW r \in Revisions, PollAgent(r) PROVE ChildrenOK'
  BY <1>5, <1>0, Held
      DEF PollAgent, Wraps, WrapperGoes, StillTheAgent, SameAgent, CompletionReady, IsOpen,
          ChildrenOK, ChildOK, Children
<1>6. ASSUME NEW r \in Revisions, ReadOmpReport(r) PROVE ChildrenOK'
  BY <1>6, <1>0, Held DEF ReadOmpReport, WrapperGoes, ChildrenOK, ChildOK, Children
<1>7. ASSUME NEW r \in Revisions, RunOver(r) PROVE ChildrenOK'
  BY <1>7, <1>0, Held DEF RunOver, WrapperGoes, ChildrenOK, ChildOK, Children
<1>8. ASSUME NEW r \in Revisions, AgentWorks(r) PROVE ChildrenOK'
  <2>1. wrapper' = wrapper /\ child[r].at = "open"
    BY <1>8 DEF AgentWorks, IsOpen
  <2>2. \A s \in Revisions : child'[s].at = child[s].at /\ child'[s].session = child[s].session
    <3>1. child' = child \/ \E s \in {"idle", "blocked"} : child' = [child EXCEPT ![r].status = s]
      BY <1>8 DEF AgentWorks
    <3> QED BY <1>0, <3>1 DEF Children
  <2>3. written' = written \/ written' = [written EXCEPT ![r] = child[r].session]
    BY <1>8 DEF AgentWorks
  <2>4. child[r].session \in {"own", "other"}
    BY <1>0 DEF Children
  <2>5. \A s \in Revisions : ChildOK(s)'
    BY <1>0, <2>1, <2>2, <2>3, <2>4 DEF ChildOK
  <2> QED BY <2>5 DEF ChildrenOK
<1>9. ASSUME NEW r \in Revisions, Moved(r) PROVE ChildrenOK'
  <2>1. \A s \in Revisions \ {r} : child'[s] = child[s] /\ wrapper'[s] = wrapper[s]
    BY <1>0, <1>9 DEF Moved
  <2>2. child'[r].at # "none" /\ child'[r].session \in {child[r].session, "other"}
    <3>1. child[r].at = "open" /\ child[r] \in Children
      BY <1>0, <1>9 DEF Moved, IsOpen
    <3>2. \/ child'[r] = [child[r] EXCEPT !.session = "other", !.status = "working"]
          \/ child'[r] = [child[r] EXCEPT !.status = "working"]
          \/ child'[r] = [child[r] EXCEPT !.lobby = TRUE]
          \/ child'[r] = [child[r] EXCEPT !.at = "gone"]
      BY <1>0, <1>9 DEF Moved
    <3> QED BY <3>1, <3>2 DEF Children
  <2>3. wrapper'[r] # "seen" /\ wrapper'[r] \in {wrapper[r], "seen before"} /\ written' = written
    BY <1>0, <1>9 DEF Moved
  <2>4. child[r].at # "none"
    BY <1>9 DEF Moved, IsOpen
  <2>5. \A s \in Revisions : ChildOK(s)'
    BY <1>0, <2>1, <2>2, <2>3, <2>4 DEF ChildOK
  <2> QED BY <2>5 DEF ChildrenOK
<1>10. ASSUME NEW c \in OmpCommands, Pull(c) PROVE ChildrenOK'
  BY <1>10, <1>0, Held DEF Pull, Closes, ChildrenOK, ChildOK, Children
<1>11. ASSUME NEW c \in OmpCommands, PullCancel(c) PROVE ChildrenOK'
  <2>1. /\ UNCHANGED <<wrapper, written>>
        /\ child' = child \/ child' = [child EXCEPT ![act[c].copy.of].at = "gone"]
    BY <1>11 DEF PullCancel, Closes
  <2> QED BY <1>0, <2>1, Held DEF ChildrenOK, ChildOK, Children
<1>12. CASE UNCHANGED <<child, wrapper, written>>
  BY <1>0, <1>12 DEF ChildrenOK, ChildOK
<1> QED BY <1>1, <1>2, <1>3, <1>4, <1>5, <1>6, <1>7, <1>8, <1>9, <1>10, <1>11, <1>12
       DEF OmpNext, WrapperWorks, CommandWorks, OmpCommands, Mark, CloseIfEligible, Ask,
           WriteClosing, AskAgain, Confirm, CancelOwnedPane, CommandDies, Settle, CancelTask,
           Reconciles, Revise, Moves, WriteBack

\* Every step keeps the receipt with a pane that was launched, or is gone when it says so.
LEMMA NoteStep ==
  ASSUME OmpPaneInv, OmpNext
  PROVE  NoteOK'
<1>0. /\ note \in PaneNotes /\ note' \in PaneNotes /\ act \in [OmpCommands -> Acts] /\ NoteOK
      /\ OmpTypeOK /\ ActsOK /\ OmpLasting /\ \A s \in Revisions : ChildOK(s)
  BY OmpStepsLast, OmpTypeStep DEF OmpPaneInv, OmpTypeOK, ChildrenOK
<1> USE DEF NoteOK
<1>a. note.of # 0 => Launched(note.of)
  BY <1>0
<1>1. ASSUME NEW n \in 0..2, note'.of = n, n # 0, Launched(n),
             note'.state = "closed" => child[n].at = "gone"
      PROVE  NoteOK'
  <2>1. n \in Revisions /\ PaneLasts(n)
    BY <1>0, <1>1 DEF OmpLasting, Launched
  <2> QED BY <1>1, <2>1 DEF PaneLasts
<1>2. CASE UNCHANGED note
  <2>1. note.of \in 0..2
    BY <1>0 DEF PaneNotes
  <2> QED BY <1>0, <1>1, <1>2, <1>a, <2>1
<1>3. ASSUME NEW c \in OmpCommands, NEW s \in {"closing", "pending", "closed"}, WriteBack(c, s),
             act[c].step \in {"closing", "ask again", "confirm", "confirm cancel"},
             s = "closed" => child[act[c].copy.of].at = "gone"
      PROVE  NoteOK'
  <2>1. Launched(act[c].copy.of) /\ act[c].copy.of \in Revisions
    BY <1>0, <1>3, HoldsItsPane DEF HoldsOne
  <2>2. act[c].copy \in PaneNotes /\ act[c].copy.of \in 0..2
    BY <1>0, Held
  <2>3. note'.of = act[c].copy.of /\ note'.state = s
    BY <1>3, <2>2 DEF WriteBack, PaneNotes
  <2>4. act[c].copy.of # 0
    BY <2>1 DEF Revisions
  <2> QED BY <1>1, <1>3, <2>1, <2>2, <2>3, <2>4
<1>4. ASSUME NEW r \in Revisions, RecordSpawn(r) PROVE NoteOK'
  <2>1. Launched(r) /\ r # 0
    BY <1>0, <1>4 DEF RecordSpawn, Wraps, ChildOK, Launched, Revisions
  <2>2. CASE note' = [of |-> r, state |-> "retained", result |-> 0]
    <3>1. note'.of = r /\ note'.state = "retained" /\ r \in 0..2
      BY <2>2 DEF Revisions
    <3> QED BY <1>1, <2>1, <3>1
  <2> QED BY <1>2, <1>4, <2>2 DEF RecordSpawn
<1>5. ASSUME NEW c \in OmpCommands, Mark(c) PROVE NoteOK'
  <2>1. CASE ~UNCHANGED note
    <3>1. note.of # 0 /\ note' = [note EXCEPT !.state = "pending", !.result = act[c].of]
      BY <1>5, <2>1 DEF Mark
    <3>2. note'.of = note.of /\ note'.state = "pending" /\ note.of \in 0..2
      BY <1>0, <3>1 DEF PaneNotes
    <3> QED BY <1>1, <1>a, <3>1, <3>2
  <2> QED BY <1>2, <2>1
<1>6. ASSUME note' = [note EXCEPT !.state = "closed"], note.of # 0, ~IsOpen(note.of)
      PROVE  NoteOK'
  <2>1. child[note.of].at = "gone"
    <3>1. note.of \in Revisions /\ child[note.of].at # "none"
      BY <1>a, <1>6 DEF Launched
    <3>2. child[note.of] \in Children
      BY <1>0, <3>1 DEF OmpTypeOK
    <3> QED BY <1>6, <3>1, <3>2 DEF IsOpen, Children
  <2>2. note'.of = note.of /\ note'.state = "closed" /\ note.of \in 0..2
    BY <1>0, <1>6 DEF PaneNotes
  <2> QED BY <1>1, <1>a, <1>6, <2>1, <2>2
<1>7. ASSUME NEW c \in OmpCommands, CloseIfEligible(c) PROVE NoteOK'
  BY <1>0, <1>2, <1>6, <1>7 DEF CloseIfEligible
<1>8. ASSUME NEW c \in OmpCommands, WriteClosing(c) PROVE NoteOK'
  BY <1>3, <1>8 DEF WriteClosing
<1>9. ASSUME NEW c \in OmpCommands, AskAgain(c) PROVE NoteOK'
  BY <1>2, <1>3, <1>9 DEF AskAgain
<1>10. ASSUME NEW c \in OmpCommands, Confirm(c) PROVE NoteOK'
  <2>1. CASE ~IsOpen(act[c].copy.of)
    <3>1. child[act[c].copy.of].at = "gone"
      BY <1>0, <1>10, <2>1, HoldsItsPane DEF Confirm, IsOpen, Launched, OmpTypeOK, Children, HoldsOne
    <3> QED BY <1>3, <1>10, <2>1, <3>1 DEF Confirm
  <2>2. CASE IsOpen(act[c].copy.of)
    BY <1>2, <1>3, <1>10, <2>2 DEF Confirm
  <2> QED BY <2>1, <2>2
<1>11. ASSUME NEW c \in OmpCommands, CancelOwnedPane(c) PROVE NoteOK'
  BY <1>2, <1>6, <1>11 DEF CancelOwnedPane
<1> HIDE DEF NoteOK
<1> QED BY <1>2, <1>4, <1>5, <1>7, <1>8, <1>9, <1>10, <1>11
       DEF OmpNext, WrapperWorks, CommandWorks, OmpCommands,
     LaunchOmp, CheckSpawn, SendPrompt, PollAgent, ReadOmpReport, RunOver, AgentWorks, Moved,
     Revise, Ask, Pull, PullCancel, CommandDies, Settle, CancelTask, Reconciles

\* No step closes a pane for a result that is not settled, or a stranger's.
LEMMA ShutStep ==
  ASSUME OmpPaneInv, OmpNext
  PROVE  ShutOK'
<1>0. /\ OmpTypeOK /\ ActsOK /\ OmpLasting /\ ShutOK /\ \A s \in Revisions : ChildOK(s)
      /\ shut \in [Revisions -> {"no", "by hand", "settled", "cancelled"}]
  BY OmpStepsLast DEF OmpPaneInv, OmpTypeOK, ChildrenOK
<1>1. ASSUME "stranger" \notin harm',
             \A s \in Revisions :
               shut'[s] = "settled" /\ shut[s] # "settled" /\ "crossed" \notin harm => MayClose(s)
      PROVE  ShutOK'
  <2>1. \A s \in Revisions : MayClose(s) => MayClose(s)'
    BY <1>0 DEF OmpLasting, RunLasts
  <2>2. "crossed" \notin harm' => "crossed" \notin harm
    BY <1>0 DEF OmpLasting
  <2>3. "crossed" \notin harm' => \A s \in Revisions : shut'[s] = "settled" => MayClose(s)'
    BY <1>0, <1>1, <2>1, <2>2 DEF ShutOK
  <2> QED BY <1>1, <2>3 DEF ShutOK
<1>2. CASE UNCHANGED <<shut, harm>>
  BY <1>0, <1>1, <1>2 DEF ShutOK
<1>3. ASSUME NEW r \in Revisions, Moved(r) PROVE ShutOK'
  BY <1>0, <1>1, <1>3 DEF Moved, ShutOK
<1>4. ASSUME NEW r \in Revisions, ReadOmpReport(r) PROVE ShutOK'
  BY <1>0, <1>1, <1>4 DEF ReadOmpReport, ShutOK, ChildOK
<1>5. ASSUME NEW c \in OmpCommands, Pull(c) PROVE ShutOK'
  <2> DEFINE o == act[c].copy.of
  <2>1. ActOK(c) /\ act[c].step = "pull" /\ o \in Revisions
    BY <1>0, <1>5, HoldsItsPane DEF Pull, ActsOK, HoldsOne
  <2>2. "stranger" \notin harm'
    BY <1>0, <1>5, <2>1 DEF Pull, Closes, ActOK, HoldsOne, ShutOK
  <2>3. shut' = shut \/ shut' = [shut EXCEPT ![o] = "settled"]
    BY <1>5 DEF Pull, Closes
  <2>4. "crossed" \notin harm => MayClose(o)
    BY <2>1 DEF ActOK, HoldsOne
  <2> HIDE DEF o
  <2> QED BY <1>0, <1>1, <2>1, <2>2, <2>3, <2>4
<1>6. ASSUME NEW c \in OmpCommands, PullCancel(c) PROVE ShutOK'
  <2> DEFINE o == act[c].copy.of
  <2>1. ActOK(c) /\ act[c].step = "pull cancel"
    BY <1>0, <1>6 DEF PullCancel, ActsOK
  <2>2. "stranger" \notin harm'
    BY <1>0, <1>6, <2>1 DEF PullCancel, Closes, ActOK, HoldsOne, ShutOK
  <2>3. shut' = shut \/ shut' = [shut EXCEPT ![o] = "cancelled"]
    BY <1>6 DEF PullCancel, Closes
  <2> HIDE DEF o
  <2> QED BY <1>0, <1>1, <2>2, <2>3
<1>7. ASSUME NEW c \in OmpCommands, WriteClosing(c) \/ AskAgain(c) \/ Confirm(c) PROVE ShutOK'
  <2>1. UNCHANGED shut /\ (harm' = harm \/ harm' = harm \cup {"crossed"})
    BY <1>7 DEF WriteClosing, AskAgain, Confirm, WriteBack, Crossing
  <2> QED BY <1>0, <1>1, <2>1 DEF ShutOK
<1> QED BY <1>2, <1>3, <1>4, <1>5, <1>6, <1>7
       DEF OmpNext, WrapperWorks, CommandWorks, OmpCommands,
     LaunchOmp, RecordSpawn, CheckSpawn, SendPrompt, PollAgent, RunOver, AgentWorks, Revise,
     Mark, CloseIfEligible, Ask,
     CancelOwnedPane, CommandDies, Settle, CancelTask, Reconciles

\* The invariant of the other launcher's panes is inductive.
LEMMA OmpPaneInvStays ==
  ASSUME OmpPaneInv, [OmpNext]_ompVars
  PROVE  OmpPaneInv'
<1>1. CASE OmpNext
  <2>1. OmpTypeOK'
    BY <1>1, OmpTypeStep DEF OmpPaneInv
  <2> QED BY <1>1, <2>1, ChildrenStep, NoteStep, ActsStep, ShutStep DEF OmpPaneInv
<1>2. CASE UNCHANGED ompVars
  <2> USE <1>2 DEF ompVars
  <2>1. OmpTypeOK' /\ ChildrenOK' /\ NoteOK' /\ ShutOK'
    BY DEF OmpPaneInv, OmpTypeOK, ChildrenOK, ChildOK, NoteOK, ShutOK, Launched, MayClose,
        Settled
  <2>2. ActsOK'
    BY DEF OmpPaneInv, ActsOK, ActOK, HoldsOne, Launched, MayClose, Settled, IsOpen
  <2> QED BY <2>1, <2>2 DEF OmpPaneInv
<1> QED BY <1>1, <1>2

\* Such panes begin in their invariant, and a task whose pane is closed is in it.
LEMMA OmpStarts == OmpInit \/ PaneIsClosed => OmpPaneInv
<1>0. /\ Revisions = {1, 2} /\ 0 \in 0..2 /\ 1 \in 0..2
      /\ \A x, y : DOMAIN <<x, y>> = {1, 2} /\ <<x, y>>[1] = x /\ <<x, y>>[2] = y
  BY DEF Revisions
<1>p. \A S : \A x, y \in S : <<x, y>> \in [Revisions -> S]
  BY <1>0
<1>n. /\ NoChild \in Children /\ NoChild.at = "none" /\ NoChild.session = "own"
      /\ \A a \in {"open", "gone"} : /\ [NoChild EXCEPT !.at = a] \in Children
                                     /\ [NoChild EXCEPT !.at = a].at = a
                                     /\ [NoChild EXCEPT !.at = a].session = "own"
  BY DEF NoChild, Children
<1>t. NotAdmitted \in Runs0 /\ Admitted \in Runs0 /\ DealtWith \in Runs0
  BY DEF NotAdmitted, Admitted, DealtWith, Runs0
<1>s. \A s \in {"retained", "pending", "closed"}, i \in {0, 1} :
        /\ [of |-> 1, state |-> s, result |-> i] \in PaneNotes
        /\ [of |-> 1, state |-> s, result |-> i].of = 1
        /\ [of |-> 1, state |-> s, result |-> i].state = s
  BY <1>0 DEF PaneNotes
<1>a. ASSUME act = [c \in OmpCommands |-> NoCommand]
      PROVE  act \in [OmpCommands -> Acts] /\ ActsOK
  BY <1>a, Resting DEF ActsOK, ActOK, HoldsOne, NoCommand
<1>1. ASSUME OmpInit PROVE OmpPaneInv
  <2>1. task \in [Revisions -> Runs0]
    BY <1>0, <1>t, <1>1 DEF OmpInit
  <2>2. child \in [Revisions -> Children] /\ written = <<"nobody", "nobody">>
    BY <1>0, <1>n, <1>1 DEF OmpInit
  <2>3. /\ wrapper \in [Revisions -> WrapperPlaces]
        /\ written \in [Revisions -> {"nobody", "own", "other"}]
    <3>1. wrapper \in {<<"none", "none">>, <<"ended", "none">>}
      BY <1>1 DEF OmpInit
    <3>2. "none" \in WrapperPlaces /\ "ended" \in WrapperPlaces
      BY DEF WrapperPlaces
    <3>3. /\ <<"none", "none">> \in [Revisions -> WrapperPlaces]
          /\ <<"ended", "none">> \in [Revisions -> WrapperPlaces]
      BY <1>p, <3>2
    <3>4. <<"nobody", "nobody">> \in [Revisions -> {"nobody", "own", "other"}]
      BY <1>p
    <3> QED BY <2>2, <3>1, <3>3, <3>4
  <2>4. note \in PaneNotes
    BY <1>s, <1>1, Resting DEF OmpInit
  <2>5. shut \in [Revisions -> {"no", "by hand", "settled", "cancelled"}] /\ ShutOK
    <3>1. shut = <<"no", "no">> /\ harm = {}
      BY <1>1 DEF OmpInit
    <3>2. <<"no", "no">> \in [Revisions -> {"no", "by hand", "settled", "cancelled"}]
      BY <1>p
    <3>3. \A r \in Revisions : shut[r] = "no"
      BY <1>0, <3>1
    <3> QED BY <3>1, <3>2, <3>3 DEF ShutOK
  <2>6. ChildrenOK
    BY <1>0, <1>n, <1>1 DEF OmpInit, ChildrenOK, ChildOK
  <2>7. NoteOK
    <3>1. CASE note = NoNote
      BY <3>1 DEF NoteOK, NoNote
    <3>2. CASE note # NoNote
      <4>1. note.of = 1 /\ note.state \in {"retained", "pending"}
        BY <1>s, <1>1, <3>2 DEF OmpInit
      <4>2. wrapper[1] = "ended" /\ child[1].at = "open"
        <5>1. child = <<[NoChild EXCEPT !.at = "open"], NoChild>> /\ wrapper = <<"ended", "none">>
          BY <1>1, <3>2 DEF OmpInit
        <5> QED BY <1>n, <5>1
      <4> QED BY <1>0, <4>1, <4>2 DEF NoteOK, Launched
    <3> QED BY <3>1, <3>2
  <2>8. act \in [OmpCommands -> Acts] /\ ActsOK
    BY <1>1, <1>a DEF OmpInit
  <2> QED BY <2>1, <2>2, <2>3, <2>4, <2>5, <2>6, <2>7, <2>8 DEF OmpPaneInv, OmpTypeOK
<1>2. ASSUME PaneIsClosed PROVE OmpPaneInv
  <2>1. task \in [Revisions -> Runs0] /\ task[1] = DealtWith
    BY <1>0, <1>t, <1>2 DEF PaneIsClosed
  <2>2. child \in [Revisions -> Children] /\ child[1].at = "gone"
    BY <1>0, <1>p, <1>n, <1>2 DEF PaneIsClosed
  <2>3. /\ wrapper \in [Revisions -> WrapperPlaces]
        /\ written \in [Revisions -> {"nobody", "own", "other"}]
    BY <1>p, <1>2 DEF PaneIsClosed, WrapperPlaces
  <2>4. note \in PaneNotes
    BY <1>s, <1>2 DEF PaneIsClosed
  <2>5. shut \in [Revisions -> {"no", "by hand", "settled", "cancelled"}]
    BY <1>p, <1>2 DEF PaneIsClosed
  <2>9. ShutOK
    BY <1>0, <1>2, <2>1 DEF PaneIsClosed, ShutOK, MayClose, Settled, DealtWith
  <2>6. ChildrenOK
    BY <1>0, <1>n, <1>2 DEF PaneIsClosed, ChildrenOK, ChildOK
  <2>7. NoteOK
    BY <1>0, <1>n, <1>s, <1>2, <2>2 DEF PaneIsClosed, NoteOK, Launched
  <2>8. act \in [OmpCommands -> Acts] /\ ActsOK
    BY <1>2, <1>a DEF PaneIsClosed
  <2> QED BY <2>1, <2>2, <2>3, <2>4, <2>5, <2>6, <2>7, <2>8, <2>9 DEF OmpPaneInv, OmpTypeOK
<1> QED BY <1>1, <1>2

\* The invariant of such panes implies what the runs of TLC check about them.
LEMMA OmpPromises ==
  ASSUME OmpPaneInv
  PROVE  OmpInv
<1>1. note.state \in {"none", "retained", "pending", "closing", "closed"}
  BY DEF OmpPaneInv, OmpTypeOK, PaneNotes
<1>2. OnlySettledIsClosed
  BY DEF OmpPaneInv, ShutOK, MayClose, OnlySettledIsClosed
<1>3. NobodyElseIsHarmed
  BY DEF OmpPaneInv, ShutOK, NoteOK, NobodyElseIsHarmed
<1> QED BY <1>1, <1>2, <1>3 DEF OmpInv

----------------------------------------------------------------------------
(* What is pressed on the screens that stop an agent.                       *)

\* What Cursor's box leaves above the screens that follow it.
Remains == {"cursor trust", "own box", "trusting"}
\* A screen with what its kind and phrases promise, wherever its cursor is and whatever stands above.
Honest(s) ==
  /\ {"claude trust", "own folder"} \subseteq s.says => \E i \in DOMAIN s.options : s.options[i] = "yes"
  /\ {"claude trust", "own folder", "unnumbered"} \subseteq s.says => s.options = <<"no", "yes">>
  /\ s.kind = "menu trust" /\ Says(s, "gate") => Says(s, "own folder")
  /\ s.kind = "box" => s.says \subseteq Remains
  /\ s.kind = "ready" => 
       s.options = <<>> /\ s.says \subseteq Remains /\ (Says(s, "cursor trust") => Says(s, "trusting"))

\* The presses of a rule pass their limit once, and then the run has failed.
IsWatch(w) ==
  /\ w \in [stage : {"shell", "start", "prompt", "work"},
            pc : {"read", "launch", "status", "screen", "clear", "resolve", "unknown", "count",
                  "stuck", "prompt", "failed", "done"},
            status : {"none", "unknown", "working", "idle", "blocked"}, seen : {w.seen},
            since : BOOLEAN, presses : [Rules -> 0..(PressLimit + 1)], blocked : BOOLEAN]
  /\ IsScreen(w.seen)
  /\ w.pc # "failed" => \A r \in Rules : w.presses[r] <= PressLimit
ScreensTypeOK ==
  /\ host \in {"herdr", "native"} /\ asked \in BOOLEAN /\ told \in BOOLEAN /\ missed \in BOOLEAN
  /\ IsScreen(dialog) /\ IsScreen(drawn) /\ todo \in Seq(Dialogs) /\ IsWatch(watch)
  /\ hands \in 0..MaxHands /\ slow \in 0..MaxSlow

\* What stands at which stage of a start.
StagesOK ==
  /\ watch.pc \in {"read", "launch"} => watch.stage = "shell"
  /\ watch.stage = "shell" =>
       watch.pc \in {"read", "launch", "failed"} /\ dialog \in {Blank, ShellOffer}
  /\ watch.pc = "prompt" => watch.stage = "prompt"
  /\ watch.stage # "work" => ~AtWork
  /\ watch.pc = "launch" /\ slow = 0 => dialog # ShellOffer

\* What is about to be answered is what the agent is at, unless the owner or a late drawing came
\* between; and an agent at work is not looked at.
AnswersOK ==
  /\ ~AtWork => Honest(dialog)
  /\ watch.pc \in {"resolve", "count"} => Classify(watch.seen).act = "resolve"
  /\ watch.pc = "resolve" /\ hands = 0 /\ slow = 0 => dialog = watch.seen
  /\ watch.pc \in {"screen", "resolve"} /\ hands = 0 => ~AtWork

\* Whoever is waited for was told.
TellingOK ==
  /\ watch.blocked => told /\ watch.stage # "prompt"
  /\ watch.pc = "stuck" /\ watch.stage = "work" => told

ScreensInv ==
  /\ ScreensTypeOK /\ StagesOK /\ AnswersOK /\ TellingOK
  /\ KeysReachTheirScreen /\ OnlySafeAnswers /\ NoticesAreWithdrawn

\* The smallest member of a set of natural numbers.
LEMMA LeastIsMember ==
  ASSUME NEW S \in SUBSET Nat, S # {}
  PROVE  Min(S) \in S
<1>1. PICK R : IsWellFoundedOn(R, Nat) /\ \A x, y \in Nat : <<x, y>> \in R <=> x < y
  BY NatLessThanWellFounded DEF OpToRel
<1>2. PICK x \in S : \A y \in S : ~(<<y, x>> \in R)
  <2>1. S \subseteq Nat /\ S # {}
    OBVIOUS
  <2>2. IsWellFoundedOn(R, Nat)
    BY <1>1
  <2> QED BY ONLY <2>1, <2>2, WFMin, Zenon
<1>3. \A y \in S : x <= y
  <2> TAKE y \in S
  <2>1. x \in Nat /\ y \in Nat /\ ~(<<y, x>> \in R)
    BY <1>2
  <2>2. ~(y < x)
    BY <1>1, <2>1
  <2> QED BY <2>1, <2>2
<1> QED BY <1>3 DEF Min

\* Position finds an option that is there, and nothing else.
LEMMA Finding ==
  ASSUME NEW s, IsScreen(s), NEW o
  PROVE  /\ Position(s, o) \in 0..Len(s.options)
         /\ Position(s, o) # 0 => s.options[Position(s, o)] = o
         /\ (\E i \in DOMAIN s.options : s.options[i] = o) => Position(s, o) # 0
<1> DEFINE I == {i \in 1..Len(s.options) : s.options[i] = o}
<1>1. Position(s, o) = IF I # {} THEN Min(I) ELSE 0
  BY DEF Position, SelectInSeq
<1>2. s.options \in Seq(Range(s.options)) /\ Len(s.options) \in Nat /\ DOMAIN s.options = 1..Len(s.options)
  BY DEF IsScreen
<1>3. I \in SUBSET Nat /\ (I # {} => Min(I) \in I)
  <2>1. I \in SUBSET Nat
    BY <1>2
  <2> QED BY <2>1, LeastIsMember
<1>4. \A i \in I : i \in 1..Len(s.options) /\ s.options[i] = o
  OBVIOUS
<1>5. (\E i \in DOMAIN s.options : s.options[i] = o) => I # {}
  BY <1>2
<1> HIDE DEF I
<1>6. CASE I = {}
  BY <1>1, <1>2, <1>5, <1>6
<1>7. CASE I # {}
  <2>1. Position(s, o) \in I
    BY <1>1, <1>3, <1>7
  <2>2. Position(s, o) \in 1..Len(s.options) /\ s.options[Position(s, o)] = o
    BY <1>4, <2>1
  <2> QED BY <1>2, <2>2
<1> QED BY <1>6, <1>7

\* The keys that move and choose.
Keys == {"up", "down", "enter"}

\* The keys that move from one option to another, and then choose it, reach it.
LEMMA Moving ==
  ASSUME NEW from \in Nat, NEW to \in Nat
  PROVE  LET keys == Between(from, to) \o <<"enter">>
         IN  /\ keys \in Seq(Keys) /\ keys # <<>> /\ Last(keys) = "enter"
             /\ Count(keys, "down") = (IF to > from THEN to - from ELSE 0)
             /\ Count(keys, "up") = (IF to > from THEN 0 ELSE from - to)
<1> DEFINE n == IF to > from THEN to - from ELSE from - to
           key == IF to > from THEN "down" ELSE "up"
           presses == Between(from, to)
           keys == presses \o <<"enter">>
<1>1. n \in Nat /\ presses = [i \in 1..n |-> key]
  BY DEF Between
<1>2. presses \in Seq(Keys) /\ Len(presses) = n /\ \A i \in 1..n : presses[i] = key
  <2>1. key \in Keys
    BY DEF Keys
  <2> HIDE DEF presses, n, key
  <2>2. presses \in [1..n -> Keys]
    BY <1>1, <2>1
  <2>3. presses \in Seq(Keys)
    BY <1>1, <2>2, SeqDef
  <2>4. Len(presses) = n
    BY <1>1, <2>2, <2>3, LenProperties
  <2> QED BY <1>1, <2>3, <2>4
<1>3. /\ keys \in Seq(Keys) /\ Len(keys) = n + 1 /\ keys[n + 1] = "enter"
      /\ \A i \in 1..n : keys[i] = key
  <2>1. <<"enter">> \in Seq(Keys)
    BY DEF Keys
  <2>2. Len(<<"enter">>) = 1 /\ <<"enter">>[1] = "enter"
    OBVIOUS
  <2> HIDE DEF presses, n, key
  <2>3. \A i \in 1..(n + 1) : keys[i] = IF i <= n THEN presses[i] ELSE <<"enter">>[i - n]
    BY <1>1, <1>2, <2>1, <2>2, ConcatProperties
  <2>4. keys \in Seq(Keys) /\ Len(keys) = n + 1
    BY <1>1, <1>2, <2>1, <2>2, ConcatProperties
  <2> HIDE DEF keys
  <2>5. keys[n + 1] = "enter"
    BY <1>1, <2>2, <2>3
  <2>6. \A i \in 1..n : keys[i] = key
    BY <1>1, <1>2, <2>3
  <2> QED BY <2>4, <2>5, <2>6
<1>4. DOMAIN keys = 1..(n + 1)
  <2> HIDE DEF keys, n, presses, key
  <2> QED BY <1>3, <1>1
<1>5. keys # <<>> /\ Last(keys) = "enter"
  <2> HIDE DEF keys, n
  <2> QED BY <1>1, <1>3 DEF Last
<1>6. {i \in DOMAIN keys : keys[i] = key} = 1..n
  <2> HIDE DEF keys, n
  <2>1. key # "enter"
    OBVIOUS
  <2> HIDE DEF key
  <2> QED BY <1>1, <1>3, <1>4, <2>1
<1>7. ASSUME NEW other \in {"down", "up"}, other # key
      PROVE  {i \in DOMAIN keys : keys[i] = other} = {}
  <2> HIDE DEF keys, n
  <2>1. other # "enter"
    BY <1>7
  <2> HIDE DEF key
  <2> QED BY <1>1, <1>3, <1>4, <1>7, <2>1
<1>8. Count(keys, key) = n
  <2>1. Cardinality(1..n) = n
    BY <1>1, FS_Interval
  <2> QED BY <1>6, <2>1 DEF Count
<1>9. \A other \in {"down", "up"} : other # key => Count(keys, other) = 0
  BY <1>7, FS_EmptySet DEF Count
<1>10. CASE to > from
  <2>1. key = "down" /\ n = to - from
    BY <1>10
  <2> HIDE DEF keys, n, key
  <2>2. Count(keys, "down") = to - from /\ Count(keys, "up") = 0
    BY <1>8, <1>9, <2>1
  <2> QED BY <1>3, <1>5, <1>10, <2>2 DEF keys
<1>11. CASE ~(to > from)
  <2>1. key = "up" /\ n = from - to
    BY <1>11
  <2> HIDE DEF keys, n, key
  <2>2. Count(keys, "up") = from - to /\ Count(keys, "down") = 0
    BY <1>8, <1>9, <2>1
  <2> QED BY <1>3, <1>5, <1>11, <2>2 DEF keys
<1> QED BY <1>10, <1>11

\* What Selects selects is chosen.
LEMMA Selecting ==
  ASSUME NEW s, IsScreen(s), s.kind \notin {"ready", "work"}, NEW to \in 1..Len(s.options)
  PROVE  Chosen(s, Selects(s, to)) = s.options[to]
<1> DEFINE from == IF s.at = 0 THEN to ELSE s.at
           keys == Between(from, to) \o <<"enter">>
<1>1. /\ s.options \in Seq(Range(s.options)) /\ Len(s.options) \in Nat /\ s.options # <<>>
      /\ s.at \in 1..Len(s.options) /\ from = s.at
  BY DEF IsScreen
<1>2. /\ Last(keys) = "enter"
      /\ Count(keys, "down") = (IF to > from THEN to - from ELSE 0)
      /\ Count(keys, "up") = (IF to > from THEN 0 ELSE from - to)
  <2>1. from \in Nat /\ to \in Nat
    BY <1>1
  <2> HIDE DEF from
  <2> QED BY <2>1, Moving
<1>3. Selects(s, to) = keys
  BY DEF Selects
<1> HIDE DEF keys, from
<1>4. Cursor(s, keys) = to
  BY <1>1, <1>2 DEF Cursor
<1>5. Chosen(s, keys) = s.options[Cursor(s, keys)]
  BY <1>1, <1>2 DEF Chosen
<1> QED BY <1>3, <1>4, <1>5

\* What classify makes of a screen, and by which rule it is answered.
LEMMA Classifying ==
  ASSUME NEW s
  PROVE  /\ Classify(s).act \in {"clear", "resolve", "unknown"}
         /\ Classify(s).act = "resolve" => Classify(s).rule \in Rules
BY DEF Classify, ClaudeTrust, TrustChoice, CursorTrust, Nothing, NoRule, Resolves, Rules

\* What brgr may choose of its own accord, and what it chooses on a screen.
Safe(c) ==
  /\ c.choice = "yes" /\ c.kind \in {"menu trust", "box"} => c.own
  /\ c.choice \notin {"remember", "update", "no", "typed"}
Answer(s) ==
  [kind |-> s.kind, choice |-> Chosen(s, Classify(s).keys),
   own |-> Says(s, IF s.kind = "box" THEN "own box" ELSE "own folder")]

\* An answer that is one key, other than "a".
LEMMA OneKey ==
  ASSUME NEW s, s.kind \notin {"ready", "work"}, NEW key \in {"esc", "a", "enter"},
         key = "enter" => s.options = <<>>
  PROVE  Chosen(s, <<key>>) = IF key = "a" /\ s.kind = "box" THEN "yes" ELSE key
<1>1. Last(<<key>>) = key
  BY DEF Last
<1> QED BY <1>1 DEF Chosen

\* An unnumbered prompt has its second option chosen from either.
LEMMA TwoKeys ==
  ASSUME NEW s, s.kind \notin {"ready", "work"}, s.options # <<>>, Len(s.options) = 2
  PROVE  /\ s.at = 1 => Chosen(s, <<"down", "enter">>) = s.options[2]
         /\ s.at = 2 => Chosen(s, <<"enter">>) = s.options[2]
<1>1. Last(<<"down", "enter">>) = "enter" /\ Last(<<"enter">>) = "enter"
  BY DEF Last
<1>2. {i \in DOMAIN <<"down", "enter">> : <<"down", "enter">>[i] = "down"} = {1}
  OBVIOUS
<1>3. {i \in DOMAIN <<"down", "enter">> : <<"down", "enter">>[i] = "up"} = {}
  OBVIOUS
<1>4. \A key \in {"up", "down"} : {i \in DOMAIN <<"enter">> : <<"enter">>[i] = key} = {}
  OBVIOUS
<1>5. Count(<<"down", "enter">>, "down") = 1 /\ Count(<<"down", "enter">>, "up") = 0
  BY <1>2, <1>3, FS_EmptySet, FS_Singleton DEF Count
<1>6. Count(<<"enter">>, "down") = 0 /\ Count(<<"enter">>, "up") = 0
  BY <1>4, FS_EmptySet DEF Count
<1>7. s.at = 1 => Cursor(s, <<"down", "enter">>) = 2
  BY <1>5 DEF Cursor
<1>8. s.at = 2 => Cursor(s, <<"enter">>) = 2
  BY <1>6 DEF Cursor
<1> QED BY <1>1, <1>7, <1>8 DEF Chosen

\* A rule that answers a screen chooses nothing but what is safe.
LEMMA Answering ==
  ASSUME NEW s, IsScreen(s), Honest(s), s.kind # "work", Classify(s).act = "resolve"
  PROVE  Safe(Answer(s)) /\ Answer(s).choice # "typed"
<1> DEFINE yes == Position(s, "yes")
           skip == Position(s, "skip")
<1>1. /\ Answer(s).kind = s.kind /\ Answer(s).choice = Chosen(s, Classify(s).keys)
      /\ s.kind # "box" => Answer(s).own = Says(s, "own folder")
      /\ s.kind = "box" => Answer(s).own = Says(s, "own box")
  BY DEF Answer
<1>2. s.kind # "ready"
  BY DEF Honest, IsScreen, Remains, Classify, ClaudeTrust, TrustChoice, CursorTrust, Nothing,
         NoRule, Resolves, CursorAsks, ContinueNotice, Says
<1>3. /\ yes \in 0..Len(s.options) /\ (yes # 0 => s.options[yes] = "yes")
      /\ skip \in 0..Len(s.options) /\ (skip # 0 => s.options[skip] = "skip")
      /\ (\E i \in DOMAIN s.options : s.options[i] = "yes") => yes # 0
  BY Finding
<1>4. s.kind = "box" => ~Says(s, "claude trust") /\ ~Says(s, "menu trust") /\ ~Says(s, "gate")
  BY DEF Honest, Remains, Says
<1> HIDE DEF yes, skip
<1>5. ASSUME NEW to \in {yes, skip}, to # 0, Classify(s).keys = Selects(s, to)
      PROVE  Answer(s).choice = s.options[to]
  <2>1. to \in 1..Len(s.options)
    BY <1>3, <1>5
  <2> QED BY <1>1, <1>2, <1>5, <2>1, Selecting
<1>6. ASSUME yes # 0, Classify(s).keys = Selects(s, yes) \/ Answer(s).choice = "yes",
             s.kind = "menu trust" => Says(s, "own folder"), s.kind # "box"
      PROVE  Safe(Answer(s)) /\ Answer(s).choice # "typed"
  <2>1. Answer(s).choice = "yes"
    BY <1>3, <1>5, <1>6
  <2> QED BY <1>1, <1>6, <2>1 DEF Safe
<1>7. CASE Says(s, "claude trust") /\ Says(s, "own folder")
  <2>1. yes # 0 /\ s.kind # "box"
    BY <1>3, <1>4, <1>7 DEF Honest, Says
  <2>2. CASE ~Says(s, "unnumbered")
    <3>1. Classify(s).keys = Selects(s, yes)
      BY <1>7, <2>2 DEF Classify, ClaudeTrust, Resolves, yes
    <3> QED BY <1>6, <1>7, <2>1, <3>1
  <2>3. CASE Says(s, "unnumbered")
    <3>1. s.options = <<"no", "yes">> /\ Len(s.options) = 2 /\ s.options # <<>>
      <4>1. s.options = <<"no", "yes">>
        BY <1>7, <2>3 DEF Honest, Says
      <4> QED BY <4>1
    <3>2. yes = 2 /\ s.options[2] = "yes"
      <4>1. yes \in {1, 2} /\ s.options[1] # "yes" /\ s.options[2] = "yes"
        BY <1>3, <2>1, <3>1
      <4> QED BY <1>3, <4>1
    <3>3. s.at \in {1, 2}
      BY <3>1 DEF IsScreen
    <3>4. CASE s.at = 2
      <4>1. Classify(s).keys = <<"enter">>
        BY <1>7, <2>3, <3>2, <3>4 DEF Classify, ClaudeTrust, Resolves, yes
      <4>2. Answer(s).choice = "yes"
        <5>1. Chosen(s, <<"enter">>) = s.options[2]
          BY <1>2, <3>1, <3>4, TwoKeys
        <5> QED BY <1>1, <3>2, <4>1, <5>1
      <4> QED BY <1>6, <1>7, <2>1, <4>2
    <3>5. CASE s.at = 1
      <4>1. Classify(s).keys = <<"down", "enter">>
        <5>1. s.at # Position(s, "yes")
          BY <3>2, <3>5 DEF yes
        <5> QED BY <1>7, <2>3, <5>1 DEF Classify, ClaudeTrust, Resolves
      <4>2. Answer(s).choice = "yes"
        <5>1. Chosen(s, <<"down", "enter">>) = s.options[2]
          BY <1>2, <3>1, <3>5, TwoKeys
        <5> QED BY <1>1, <3>2, <4>1, <5>1
      <4> QED BY <1>6, <1>7, <2>1, <4>2
    <3> QED BY <3>3, <3>4, <3>5
  <2> QED BY <2>2, <2>3
<1>8. CASE ~(Says(s, "claude trust") /\ Says(s, "own folder")) /\ Says(s, "menu trust")
  <2>1. Says(s, "own folder") /\ yes # 0 /\ Classify(s).keys = Selects(s, yes)
    BY <1>8 DEF Classify, TrustChoice, NoRule, Nothing, Resolves, yes
  <2> QED BY <1>4, <1>6, <1>8, <2>1
<1>9. CASE ~Says(s, "menu trust") /\ CursorAsks(s) /\ ~(Says(s, "claude trust") /\ Says(s, "own folder"))
  <2>1. Says(s, "own box") /\ Classify(s).keys = <<"a">>
    BY <1>9 DEF Classify, CursorTrust, NoRule, Nothing, Resolves
  <2>2. Answer(s).choice = IF s.kind = "box" THEN "yes" ELSE "a"
    BY <1>1, <1>2, <2>1, OneKey
  <2> QED BY <1>1, <2>1, <2>2 DEF Safe
<1>10. ASSUME ~(Says(s, "claude trust") /\ Says(s, "own folder")), ~Says(s, "menu trust"), ~CursorAsks(s)
       PROVE  Safe(Answer(s)) /\ Answer(s).choice # "typed"
  <2>1. ~Says(s, "claude trust")
    BY <1>10 DEF Classify, NoRule, Nothing
  <2>2. CASE Says(s, "updated")
    <3>1. Classify(s).keys = <<"esc">>
      BY <1>10, <2>1, <2>2 DEF Classify, Resolves
    <3>2. Answer(s).choice = "esc"
      BY <1>1, <1>2, <3>1, OneKey
    <3> QED BY <3>2 DEF Safe
  <2>3. CASE ~Says(s, "updated") /\ ContinueNotice(s)
    <3>1. Classify(s).keys = <<"enter">>
      BY <1>10, <2>1, <2>3 DEF Classify, Resolves
    <3>2. s.options = <<>>
      BY <2>3 DEF ContinueNotice, IsScreen
    <3>3. Answer(s).choice = "enter"
      BY <1>1, <1>2, <3>1, <3>2, OneKey
    <3> QED BY <3>3 DEF Safe
  <2>4. CASE ~Says(s, "updated") /\ ~ContinueNotice(s)
    <3>1. s.at # 0
      BY <1>10, <2>1, <2>4 DEF Classify, Nothing
    <3>2. CASE AcceptingOption(s) # 0
      <4>1. Says(s, "gate") /\ yes # 0 /\ Classify(s).keys = Selects(s, yes)
        BY <1>10, <2>1, <2>4, <3>1, <3>2 DEF Classify, Resolves, AcceptingOption, yes
      <4> QED BY <1>4, <1>6, <4>1 DEF Honest
    <3>3. CASE AcceptingOption(s) = 0
      <4>1. skip # 0 /\ Classify(s).keys = Selects(s, skip)
        BY <1>10, <2>1, <2>4, <3>1, <3>3 DEF Classify, Resolves, SkipOption, NoRule, Nothing, skip
      <4>2. Answer(s).choice = "skip"
        BY <1>3, <1>5, <4>1
      <4> QED BY <4>2 DEF Safe
    <3> QED BY <3>2, <3>3
  <2> QED BY <2>2, <2>3, <2>4
<1> QED BY <1>7, <1>8, <1>9, <1>10

\* The screens that need no harness.
LEMMA OwnScreens ==
  /\ \A s \in {Blank, ShellOffer, Editor} : IsScreen(s) /\ Honest(s)
  /\ Blank.kind = "shell" /\ ShellOffer.kind = "shell offer" /\ Editor.kind = "ready"
<1>1. <<>> \in Seq(Range(<<>>)) /\ Len(<<>>) = 0
  BY EmptySeq
<1>2. \A k, says : /\ Screen(k, says, <<>>, 0).kind = k /\ Screen(k, says, <<>>, 0).says = says
                     /\ Screen(k, says, <<>>, 0).options = <<>> /\ Screen(k, says, <<>>, 0).at = 0
  BY DEF Screen
<1>3. ASSUME NEW k, NEW says, NEW s, s = Screen(k, says, <<>>, 0)
      PROVE  IsScreen(s)
  <2>1. s.kind = k /\ s.says = says /\ s.options = <<>> /\ s.at = 0
    BY <1>2, <1>3
  <2>2. s.options \in Seq(Range(s.options)) /\ Len(s.options) = 0
    BY <1>1, <2>1
  <2> QED BY <1>3, <2>1, <2>2 DEF IsScreen
<1>4. ASSUME NEW k \in {"shell", "shell offer", "ready"}, NEW says \in {{}, {"shell offer"}},
             NEW s, s = Screen(k, says, <<>>, 0), k = "ready" => says = {}
      PROVE  Honest(s)
  <2>1. s.kind = k /\ s.says = says /\ s.options = <<>>
    BY <1>2, <1>4
  <2>2. "claude trust" \notin says /\ "cursor trust" \notin says
    BY <1>4
  <2> QED BY <1>4, <2>1, <2>2 DEF Honest, Remains, Says
<1> QED BY <1>2, <1>3, <1>4 DEF Blank, ShellOffer, Editor

\* What Cursor's box leaves above a screen changes nothing that a rule looks for there.
LEMMA Standing ==
  ASSUME NEW s, IsScreen(s), s.kind = "box" => Honest(s), NEW next, IsScreen(next)
  PROVE  /\ IsScreen(Under(s, next)) /\ Under(s, next).kind = next.kind
         /\ IsDialog(next) \/ next = Editor => Honest(Under(s, next))
<1>1. CASE s.kind # "box"
  <2>1. Under(s, next) = next
    BY <1>1 DEF Under
  <2>2. IsDialog(next) => Honest(next)
    BY DEF IsDialog, Honest, Remains
  <2> QED BY <2>1, <2>2, OwnScreens
<1>2. CASE s.kind = "box"
  <2> DEFINE u == Under(s, next)
  <2>1. s.says \subseteq Remains
    BY <1>2 DEF Honest
  <2>2. next = Screen(next.kind, next.says, next.options, next.at)
    BY DEF IsScreen
  <2>3. /\ u = Screen(u.kind, u.says, u.options, u.at)
        /\ u.kind = next.kind /\ u.options = next.options /\ u.at = next.at
        /\ u.says = next.says \cup s.says \cup {"trusting"}
    BY <1>2, <2>2 DEF Under, Screen
  <2> HIDE DEF u
  <2>4. IsScreen(u)
    BY <2>3 DEF IsScreen
  <2>5. ASSUME IsDialog(next) PROVE Honest(u)
    BY <2>1, <2>3, <2>5 DEF IsDialog, Honest, Remains, Says
  <2>6. ASSUME next = Editor PROVE Honest(u)
    BY <2>1, <2>3, <2>6 DEF Editor, Screen, Honest, Remains, Says
  <2> QED BY <2>3, <2>4, <2>5, <2>6 DEF u
<1> QED BY <1>1, <1>2

\* What is still to come is a dialog.
LEMMA Coming ==
  ASSUME todo \in Seq(Dialogs), todo # <<>>
  PROVE  Head(todo) \in Dialogs /\ IsDialog(Head(todo)) /\ Tail(todo) \in Seq(Dialogs)
BY HeadTailProperties, ScreenConstants

\* What comes after a screen is a screen, and at work only where the agent works.
LEMMA Leaving ==
  ASSUME NEW s, IsScreen(s), s.kind = "box" => Honest(s), todo \in Seq(Dialogs), Leaves(s)
  PROVE  /\ IsScreen(dialog') /\ todo' \in Seq(Dialogs)
         /\ ~AtWork' => Honest(dialog')
         /\ watch.stage # "work" => ~AtWork'
<1>1. ASSUME NEW o, dialog' = Under(s, o), IsScreen(o), IsDialog(o) \/ o = Editor
      PROVE  IsScreen(dialog') /\ Honest(dialog') /\ ~AtWork'
  BY <1>1, Standing, OwnScreens DEF AtWork, IsDialog
<1>2. CASE watch.stage # "work" /\ todo # <<>> /\ dialog' = Under(s, Head(todo)) /\ todo' = Tail(todo)
  <2>1. IsDialog(Head(todo)) /\ IsScreen(Head(todo)) /\ todo' \in Seq(Dialogs)
    BY <1>2, Coming DEF IsDialog
  <2> QED BY <1>1, <1>2, <2>1
<1>3. CASE watch.stage # "work" /\ dialog' = Under(s, Editor) /\ todo' = todo
  BY <1>1, <1>3, OwnScreens
<1>4. ASSUME NEW o \in Outputs, watch.stage = "work", dialog' = Under(s, o), todo' = todo
      PROVE  IsScreen(dialog') /\ AtWork' /\ todo' \in Seq(Dialogs)
  BY <1>4, Standing, ScreenConstants DEF AtWork
<1> QED BY <1>2, <1>3, <1>4 DEF Leaves

\* A screen whose cursor the owner moves is still a screen.
LEMMA CursorMoves ==
  ASSUME NEW s, IsScreen(s), NEW at \in DOMAIN s.options
  PROVE  LET t == [s EXCEPT !.at = at]
         IN  IsScreen(t) /\ t.kind = s.kind /\ (Honest(s) => Honest(t))
<1> DEFINE t == [s EXCEPT !.at = at]
<1>1. /\ s = Screen(s.kind, s.says, s.options, s.at) /\ at \in 1..Len(s.options)
      /\ Len(s.options) \in Nat /\ s.options # <<>>
  BY DEF IsScreen
<1>2. /\ t = Screen(t.kind, t.says, t.options, t.at) /\ t.kind = s.kind /\ t.says = s.says
      /\ t.options = s.options /\ t.at = at
  BY <1>1 DEF Screen
<1> HIDE DEF t
<1>3. IsScreen(t)
  BY <1>1, <1>2 DEF IsScreen
<1>4. Honest(s) => Honest(t)
  BY <1>2 DEF Honest, Says
<1> QED BY <1>2, <1>3, <1>4 DEF t

\* A runner that starts upon a stage has pressed nothing.
LEMMA Watching ==
  ASSUME NEW stage \in {"shell", "start", "prompt", "work"},
         NEW pc \in {"read", "status", "prompt", "done"}
  PROVE  IsWatch(Watch(stage, pc)) /\ Watch(stage, pc).stage = stage /\ Watch(stage, pc).pc = pc
         /\ ~Watch(stage, pc).blocked
<1> DEFINE w == Watch(stage, pc)
<1>1. NoPresses \in [Rules -> 0..(PressLimit + 1)] /\ \A r \in Rules : NoPresses[r] <= PressLimit
  BY ScreenConstants DEF NoPresses
<1>2. w = [stage |-> stage, pc |-> pc, status |-> "none", seen |-> Blank, since |-> FALSE,
           presses |-> NoPresses, blocked |-> FALSE]
  BY DEF Watch
<1> HIDE DEF w
<1>3. w.seen = Blank /\ w.stage = stage /\ w.pc = pc /\ w.presses = NoPresses /\ ~w.blocked
  BY <1>2
<1>4. IsWatch(w)
  BY <1>1, <1>2, <1>3, OwnScreens DEF IsWatch
<1> QED BY <1>3, <1>4 DEF w

\* A step that changes where the runner is, what it was told or whether it waits.
LEMMA Polling ==
  ASSUME IsWatch(watch), watch.pc # "failed",
         NEW pc \in {"read", "launch", "status", "screen", "stuck", "prompt", "failed", "done"},
         NEW status \in {"none", "unknown", "working", "idle", "blocked"},
         NEW b \in BOOLEAN, NEW since \in BOOLEAN
  PROVE  /\ IsWatch([watch EXCEPT !.pc = pc])
         /\ IsWatch([watch EXCEPT !.status = status, !.pc = pc])
         /\ IsWatch([watch EXCEPT !.blocked = b, !.since = since, !.pc = pc])
         /\ IsWatch([watch EXCEPT !.pc = "count", !.blocked = b])
         /\ IsWatch(Resets(watch))
         /\ IsWatch([Resets(watch) EXCEPT !.blocked = b])
         /\ IsWatch([Resets(watch) EXCEPT !.pc = pc])
         /\ IsWatch([Resets(watch) EXCEPT !.blocked = b, !.pc = pc])
<1> USE ScreenConstants DEF IsWatch
<1>1. IsWatch([watch EXCEPT !.pc = pc])
  OBVIOUS
<1>2. IsWatch([watch EXCEPT !.status = status, !.pc = pc])
  OBVIOUS
<1>3. IsWatch([watch EXCEPT !.blocked = b, !.since = since, !.pc = pc])
  OBVIOUS
<1>4. IsWatch([watch EXCEPT !.pc = "count", !.blocked = b])
  OBVIOUS
<1>9. PICK p : /\ Resets(watch) = [watch EXCEPT !.since = FALSE, !.presses = p]
               /\ p \in [Rules -> 0..(PressLimit + 1)] /\ \A r \in Rules : p[r] <= PressLimit
  <2>1. NoPresses \in [Rules -> 0..(PressLimit + 1)] /\ \A r \in Rules : NoPresses[r] <= PressLimit
    BY DEF NoPresses
  <2>2. watch.presses \in [Rules -> 0..(PressLimit + 1)] /\ \A r \in Rules : watch.presses[r] <= PressLimit
    OBVIOUS
  <2> DEFINE kept == host = "native" /\ watch.stage = "work"
             p == IF kept THEN watch.presses ELSE NoPresses
  <2>3. Resets(watch) = [watch EXCEPT !.since = FALSE, !.presses = p]
    BY DEF Resets
  <2> QED BY <2>1, <2>2, <2>3
<1>5. IsWatch(Resets(watch))
  BY <1>9
<1>6. IsWatch([Resets(watch) EXCEPT !.blocked = b])
  BY <1>9
<1>7. IsWatch([Resets(watch) EXCEPT !.pc = pc])
  BY <1>9
<1>8. IsWatch([Resets(watch) EXCEPT !.blocked = b, !.pc = pc])
  BY <1>9
<1> HIDE DEF IsWatch
<1> QED BY <1>1, <1>2, <1>3, <1>4, <1>5, <1>6, <1>7, <1>8

\* Every step leaves a runner.
LEMMA WatchStays ==
  ASSUME ScreensInv, ScreenNext
  PROVE  IsWatch(watch')
<1>0. IsWatch(watch) /\ IsScreen(drawn)
  BY DEF ScreensInv, ScreensTypeOK
<1> DEFINE Places == {"read", "launch", "status", "screen", "stuck", "prompt", "failed", "done"}
<1>1. ASSUME watch.pc # "failed", NEW pc \in Places, Goto(pc) PROVE IsWatch(watch')
  BY <1>0, <1>1, Polling DEF Goto
<1>2. ASSUME watch.pc # "failed", NEW b \in BOOLEAN, Waits(b) PROVE IsWatch(watch')
  <2>1. PICK pc \in Places : watch' = [watch EXCEPT !.blocked = b, !.since = TRUE, !.pc = pc]
    BY <1>2 DEF Waits
  <2> QED BY <1>0, <1>2, <2>1, Polling
<1>3. CASE SettleShell
  BY <1>0, <1>1, <1>3 DEF SettleShell
<1>4. CASE Launch
  BY <1>0, <1>1, <1>4, Watching DEF Launch
<1>5. CASE LaunchFails
  BY <1>1, <1>5 DEF LaunchFails, Fails
<1>6. CASE ReadStatus
  <2>1. watch.pc # "failed"
    BY <1>6 DEF ReadStatus
  <2>2. PICK s \in Statuses : IF Attends(s)
                               THEN watch' = [watch EXCEPT !.status = s, !.pc = "screen"]
                               ELSE watch' = [Resets(watch) EXCEPT !.blocked = FALSE]
    BY <1>6 DEF ReadStatus
  <2>3. s \in {"none", "unknown", "working", "idle", "blocked"}
    BY DEF Statuses
  <2> QED BY <1>0, <2>1, <2>2, <2>3, Polling
<1>7. CASE ReadScreen
  BY <1>0, <1>7, Classifying DEF ReadScreen, IsWatch
<1>8. CASE PressKeys
  BY <1>0, <1>8, Polling DEF PressKeys
<1>9. CASE CountPress
  <2> DEFINE rule == Classify(watch.seen).rule
             n == watch.presses[rule] + 1
  <2>1. rule \in Rules
    BY <1>9, Classifying DEF CountPress, ScreensInv, AnswersOK
  <2>2. /\ n \in 1..(PressLimit + 1) /\ (MayPress(n) <=> n <= PressLimit)
        /\ watch.presses \in [Rules -> 0..(PressLimit + 1)]
        /\ \A r \in Rules : watch.presses[r] <= PressLimit
    BY <1>0, <1>9, <2>1, ScreenConstants DEF CountPress, IsWatch, MayPress
  <2>3. PICK pc \in {"status", "failed"} :
          /\ watch' = [watch EXCEPT !.pc = pc, !.presses[rule] = n]
          /\ pc = "status" => n <= PressLimit
    BY <1>9, <2>2 DEF CountPress
  <2> HIDE DEF rule, n
  <2>4. watch' = [watch EXCEPT !.pc = pc, !.presses = [watch.presses EXCEPT ![rule] = n]]
    BY <2>3
  <2>5. /\ [watch.presses EXCEPT ![rule] = n] \in [Rules -> 0..(PressLimit + 1)]
        /\ pc # "failed" => \A r \in Rules : [watch.presses EXCEPT ![rule] = n][r] <= PressLimit
    BY <2>1, <2>2, <2>3
  <2> QED BY <1>0, <2>4, <2>5 DEF IsWatch
<1>10. CASE MeetsUnknown
  BY <1>2, <1>10 DEF MeetsUnknown
<1>11. CASE MeetsBlocked
  <2>1. (watch.blocked \/ watch.stage = "work") \in BOOLEAN
    BY <1>0 DEF IsWatch
  <2> QED BY <1>2, <1>11, <2>1 DEF MeetsBlocked
<1>12. CASE MeetsReady
  BY <1>12, Watching DEF MeetsReady
<1>13. CASE MeetsNothing
  BY <1>0, <1>13, Polling DEF MeetsNothing
<1>14. CASE GoesOn
  BY <1>0, <1>14, Polling DEF GoesOn
<1>15. CASE StillWaits
  BY <1>1, <1>15 DEF StillWaits
<1>16. CASE ScreenDeadline \/ PromptRefused
  BY <1>1, <1>16 DEF ScreenDeadline, PromptRefused, Fails
<1>17. CASE FirstPrompt
  BY <1>0, <1>1, <1>17, Watching DEF FirstPrompt
<1>18. CASE ReportIsThere
  BY <1>1, <1>18 DEF ReportIsThere
<1>19. CASE UNCHANGED watch
  BY <1>0, <1>19
<1> QED BY <1>3, <1>4, <1>5, <1>6, <1>7, <1>8, <1>9, <1>10, <1>11, <1>12, <1>13, <1>14, <1>15,
       <1>16, <1>17, <1>18, <1>19
       DEF ScreenNext, Runs, Redraw, StopsToAsk, OwnerInput

\* The runner of an agent at work stays at that stage.
LEMMA WorkLasts ==
  ASSUME IsWatch(watch), StagesOK, ScreenNext
  PROVE  watch.stage = "work" => watch'.stage = "work"
<1> USE DEF IsWatch
<1>1. CASE Launch
  BY <1>1 DEF Launch, StagesOK
<1>2. CASE CountPress
  BY <1>2 DEF CountPress
<1>3. CASE ReadStatus
  BY <1>3 DEF ReadStatus, Resets
<1>4. CASE PressKeys
  BY <1>4 DEF PressKeys
<1>5. CASE MeetsUnknown \/ MeetsBlocked
  BY <1>5 DEF MeetsUnknown, MeetsBlocked, Waits
<1>6. CASE MeetsReady
  BY <1>6, Watching DEF MeetsReady
<1>7. CASE MeetsNothing \/ GoesOn
  BY <1>7 DEF MeetsNothing, GoesOn, Resets
<1>8. CASE FirstPrompt
  BY <1>8, Watching DEF FirstPrompt, Goto
<1>9. CASE SettleShell \/ ReadScreen \/ StillWaits
  BY <1>9 DEF SettleShell, ReadScreen, StillWaits, Goto
<1>10. CASE LaunchFails \/ ScreenDeadline \/ PromptRefused \/ ReportIsThere
  BY <1>10 DEF LaunchFails, ScreenDeadline, PromptRefused, ReportIsThere, Fails, Goto
<1>11. CASE UNCHANGED watch
  BY <1>11
<1> QED BY <1>1, <1>2, <1>3, <1>4, <1>5, <1>6, <1>7, <1>8, <1>9, <1>10, <1>11
       DEF ScreenNext, Runs, Redraw, StopsToAsk, OwnerInput

\* The agent shows what it may show at that stage.
DialogIsFine ==
  /\ IsScreen(dialog) /\ todo \in Seq(Dialogs)
  /\ ~AtWork => Honest(dialog)
  /\ watch.stage # "work" => ~AtWork

\* Whatever the agent comes to next is a screen it may show at that stage.
LEMMA DialogsStay ==
  ASSUME ScreensInv, ScreenNext
  PROVE  DialogIsFine'
<1>0. DialogIsFine /\ IsWatch(watch) /\ (watch.stage = "work" => watch'.stage = "work")
  BY WorkLasts DEF ScreensInv, ScreensTypeOK, StagesOK, AnswersOK, DialogIsFine
<1>1. CASE UNCHANGED <<todo, dialog>>
  BY <1>0, <1>1 DEF DialogIsFine, AtWork
<1>2. ASSUME NEW s, IsScreen(s), s.kind = "box" => Honest(s), Leaves(s)
      PROVE  DialogIsFine'
  BY <1>0, <1>2, Leaving DEF DialogIsFine
<1>3. CASE SettleShell
  <2>1. CASE dialog' = Blank
    BY <1>0, <1>3, <2>1, OwnScreens DEF SettleShell, DialogIsFine, AtWork
  <2> QED BY <1>1, <1>3, <2>1 DEF SettleShell
<1>4. CASE Launch
  BY <1>1, <1>2, <1>4, OwnScreens DEF Launch
<1>5. CASE PressKeys
  <2>1. dialog.kind = "box" => Honest(dialog)
    BY <1>0 DEF DialogIsFine, AtWork
  <2> QED BY <1>0, <1>1, <1>2, <1>5, <2>1 DEF PressKeys, DialogIsFine
<1>6. CASE FirstPrompt
  <2>1. CASE Ready
    <3>1. watch'.stage = "work" /\ IsScreen(dialog') /\ AtWork' /\ todo' = todo
      BY <1>6, <2>1, ScreenConstants, Watching DEF FirstPrompt, AtWork
    <3> QED BY <1>0, <3>1 DEF DialogIsFine
  <2> QED BY <1>1, <1>6, <2>1 DEF FirstPrompt
<1>7. CASE StopsToAsk
  <2>1. IsDialog(dialog') /\ todo' \in Seq(Dialogs)
    BY <1>0, <1>7, Coming DEF StopsToAsk, DialogIsFine
  <2>2. IsScreen(dialog') /\ Honest(dialog') /\ ~AtWork'
    BY <2>1 DEF IsDialog, Honest, Remains, AtWork
  <2> QED BY <2>1, <2>2 DEF DialogIsFine
<1>8. CASE OwnerInput
  <2>1. ~AtWork /\ (dialog.kind = "box" => Honest(dialog))
    BY <1>0, <1>8 DEF OwnerInput, DialogIsFine
  <2>2. CASE Leaves(dialog)
    BY <1>0, <1>2, <2>1, <2>2 DEF DialogIsFine
  <2>3. ASSUME NEW at \in DOMAIN dialog.options, dialog' = [dialog EXCEPT !.at = at], todo' = todo
        PROVE  DialogIsFine'
    <3>1. IsScreen(dialog') /\ dialog'.kind = dialog.kind /\ Honest(dialog')
      BY <1>0, <2>1, <2>3, CursorMoves DEF DialogIsFine
    <3> QED BY <1>0, <2>1, <2>3, <3>1 DEF DialogIsFine, AtWork
  <2> QED BY <1>8, <2>2, <2>3 DEF OwnerInput
<1> QED BY <1>1, <1>3, <1>4, <1>5, <1>6, <1>7, <1>8
       DEF ScreenNext, Runs, ReadStatus, ReadScreen, CountPress, MeetsUnknown, MeetsBlocked,
           MeetsReady, MeetsNothing, GoesOn, StillWaits, LaunchFails, ScreenDeadline,
           PromptRefused, ReportIsThere, Redraw, Fails

\* Every step keeps the types of the runner and its screens.
LEMMA ScreensTypeStep ==
  ASSUME ScreensInv, ScreenNext
  PROVE  ScreensTypeOK'
<1>0. ScreensTypeOK /\ IsWatch(watch') /\ IsScreen(dialog') /\ todo' \in Seq(Dialogs)
  BY WatchStays, DialogsStay DEF ScreensInv, DialogIsFine
<1>1. UNCHANGED host
  BY DEF ScreenNext, Runs, SettleShell, Launch, ReadStatus, ReadScreen, PressKeys, CountPress,
         MeetsUnknown, MeetsBlocked, MeetsReady, MeetsNothing, GoesOn, StillWaits, FirstPrompt,
         LaunchFails, ScreenDeadline, PromptRefused, ReportIsThere, Redraw, StopsToAsk,
         OwnerInput, Fails
<1>2. drawn' \in {drawn, dialog}
  BY DEF ScreenNext, Runs, SettleShell, Launch, ReadStatus, ReadScreen, PressKeys, CountPress,
         MeetsUnknown, MeetsBlocked, MeetsReady, MeetsNothing, GoesOn, StillWaits, FirstPrompt,
         LaunchFails, ScreenDeadline, PromptRefused, ReportIsThere, Redraw, StopsToAsk,
         OwnerInput, Fails
<1>3. asked' \in BOOLEAN /\ told' \in BOOLEAN
  <2>1. asked \in BOOLEAN /\ told \in BOOLEAN
    BY <1>0 DEF ScreensTypeOK
  <2>2. CASE ReadStatus
    BY <2>1, <2>2 DEF ReadStatus
  <2>3. CASE PressKeys
    BY <2>1, <2>3 DEF PressKeys
  <2>4. CASE MeetsUnknown \/ MeetsBlocked
    BY <2>1, <2>4 DEF MeetsUnknown, MeetsBlocked, Tells
  <2>5. CASE MeetsReady \/ MeetsNothing
    BY <2>1, <2>5 DEF MeetsReady, MeetsNothing, Tells
  <2>6. CASE UNCHANGED <<asked, told>>
    BY <2>1, <2>6
  <2> QED BY <2>2, <2>3, <2>4, <2>5, <2>6
         DEF ScreenNext, Runs, SettleShell, Launch, ReadScreen, CountPress, GoesOn, StillWaits,
             FirstPrompt, LaunchFails, ScreenDeadline, PromptRefused, ReportIsThere, Redraw,
             StopsToAsk, OwnerInput, Fails
<1>4. missed' \in BOOLEAN /\ hands' \in 0..MaxHands /\ slow' \in 0..MaxSlow
  <2>1. missed \in BOOLEAN /\ hands \in 0..MaxHands /\ slow \in 0..MaxSlow
    BY <1>0 DEF ScreensTypeOK
  <2>2. CASE SettleShell \/ ReadScreen
    BY <2>1, <2>2, ScreenConstants DEF SettleShell, ReadScreen, Drawn
  <2>3. CASE Launch
    BY <2>1, <2>3 DEF Launch
  <2>4. CASE PressKeys
    BY <2>1, <2>4 DEF PressKeys
  <2>5. CASE OwnerInput
    BY <2>1, <2>5, ScreenConstants DEF OwnerInput
  <2>6. CASE UNCHANGED <<missed, hands, slow>>
    BY <2>1, <2>6
  <2> QED BY <2>2, <2>3, <2>4, <2>5, <2>6
         DEF ScreenNext, Runs, ReadStatus, CountPress, MeetsUnknown, MeetsBlocked, MeetsReady,
             MeetsNothing, GoesOn, StillWaits, FirstPrompt, LaunchFails, ScreenDeadline,
             PromptRefused, ReportIsThere, Redraw, StopsToAsk, Fails, pressGhost
<1> QED BY <1>0, <1>1, <1>2, <1>3, <1>4 DEF ScreensTypeOK

\* Nothing is typed into a shell that still asks something, unless it drew that too late.
LEMMA StagesStep ==
  ASSUME ScreensInv, ScreenNext
  PROVE  StagesOK'
<1>0. /\ StagesOK /\ IsWatch(watch) /\ DialogIsFine' /\ slow \in Nat
      /\ Blank # ShellOffer
  <2>1. ScreensTypeOK /\ StagesOK /\ DialogIsFine'
    BY DialogsStay DEF ScreensInv
  <2>2. Blank # ShellOffer
    BY OwnScreens
  <2>3. slow \in Nat /\ IsWatch(watch)
    BY <2>1, ScreenConstants DEF ScreensTypeOK
  <2> QED BY <2>1, <2>2, <2>3
<1>1. CASE watch.stage = "shell" /\ SettleShell
  <2>1. CASE drawn = ShellOffer
    BY <1>0, <1>1, <2>1 DEF SettleShell, StagesOK, DialogIsFine
  <2>2. CASE drawn # ShellOffer
    <3>1. watch'.pc = "launch" /\ watch'.stage = "shell" /\ dialog' = dialog
      BY <1>0, <1>1, <2>2 DEF SettleShell, Goto, IsWatch
    <3>2. slow' = 0 => drawn = dialog
      BY <1>0, <1>1 DEF SettleShell, Drawn
    <3> QED BY <1>0, <1>1, <2>2, <3>1, <3>2 DEF StagesOK, DialogIsFine
  <2> QED BY <2>1, <2>2
<1>2. CASE Launch
  BY <1>0, <1>2, Watching DEF Launch, StagesOK, DialogIsFine, Goto, IsWatch
<1>3. ASSUME watch'.stage = watch.stage, watch'.pc \notin {"read", "launch"},
             watch'.pc = "prompt" => watch.stage = "prompt",
             watch.stage = "shell" => watch'.pc = "failed" /\ dialog' = dialog
      PROVE  StagesOK'
  BY <1>0, <1>3 DEF StagesOK, DialogIsFine
<1>4. CASE ReadStatus \/ ReadScreen
  <2>1. watch.pc \in {"status", "screen"} /\ watch'.stage = watch.stage
    BY <1>0, <1>4 DEF ReadStatus, ReadScreen, Resets, IsWatch
  <2>2. watch'.pc \in {"status", "screen", "clear", "resolve", "unknown"}
    BY <1>0, <1>4, Classifying DEF ReadStatus, ReadScreen, Resets, IsWatch
  <2> QED BY <1>0, <1>3, <2>1, <2>2 DEF StagesOK
<1>5. CASE PressKeys \/ CountPress
  <2>1. /\ watch.pc \in {"resolve", "count"} /\ watch'.stage = watch.stage
        /\ watch'.pc \in {"count", "status", "failed"}
    BY <1>0, <1>5 DEF PressKeys, CountPress, IsWatch
  <2> QED BY <1>0, <1>3, <2>1 DEF StagesOK
<1>6. CASE MeetsUnknown \/ MeetsBlocked
  <2>1. /\ watch.pc \in {"unknown", "clear"} /\ watch'.stage = watch.stage
        /\ watch'.pc \in {"stuck", "status"} \/ (watch'.pc = "prompt" /\ watch.stage = "prompt")
    BY <1>0, <1>6 DEF MeetsUnknown, MeetsBlocked, Waits, IsWatch
  <2> QED BY <1>0, <1>3, <2>1 DEF StagesOK
<1>7. CASE MeetsReady
  BY <1>0, <1>7, Watching DEF MeetsReady, StagesOK, DialogIsFine
<1>8. CASE MeetsNothing \/ GoesOn
  <2>1. /\ watch.pc = "clear" /\ watch'.stage = watch.stage
        /\ watch'.pc = "status" \/ (watch'.pc = "prompt" /\ watch.stage = "prompt")
    BY <1>0, <1>8 DEF MeetsNothing, GoesOn, Resets, IsWatch
  <2> QED BY <1>0, <1>3, <2>1 DEF StagesOK
<1>9. CASE FirstPrompt
  <2>1. CASE Ready
    BY <1>0, <1>9, <2>1, Watching DEF FirstPrompt, StagesOK, DialogIsFine
  <2>2. CASE ~Ready
    BY <1>0, <1>3, <1>9, <2>2 DEF FirstPrompt, Goto, IsWatch, StagesOK
  <2> QED BY <2>1, <2>2
<1>10. CASE StillWaits \/ ReportIsThere
  BY <1>0, <1>3, <1>10 DEF StillWaits, ReportIsThere, Goto, IsWatch, StagesOK
<1>11. CASE LaunchFails \/ ScreenDeadline \/ PromptRefused
  BY <1>0, <1>3, <1>11 DEF LaunchFails, ScreenDeadline, PromptRefused, Fails, Goto, IsWatch
<1>12. CASE Redraw
  BY <1>0, <1>12 DEF Redraw, StagesOK, AtWork, pressGhost
<1>13. CASE StopsToAsk \/ OwnerInput
  <2>1. watch.stage \in {"start", "prompt", "work"} /\ watch' = watch
    BY <1>13 DEF StopsToAsk, OwnerInput
  <2> QED BY <1>0, <2>1 DEF StagesOK, DialogIsFine
<1>14. SettleShell => watch.stage = "shell"
  BY DEF SettleShell
<1> QED BY <1>1, <1>2, <1>4, <1>5, <1>6, <1>7, <1>8, <1>9, <1>10, <1>11, <1>12, <1>13, <1>14
       DEF ScreenNext, Runs

\* A screen that is to be answered stays until it is, but for the owner and a late drawing.
LEMMA AnswersStep ==
  ASSUME ScreensInv, ScreenNext
  PROVE  AnswersOK'
<1>0. /\ AnswersOK /\ StagesOK /\ IsWatch(watch) /\ DialogIsFine' /\ slow \in Nat /\ hands \in Nat
  <2>1. ScreensTypeOK /\ StagesOK /\ AnswersOK /\ DialogIsFine'
    BY DialogsStay DEF ScreensInv
  <2> QED BY <2>1, ScreenConstants DEF ScreensTypeOK
<1>1. ASSUME watch'.pc \notin {"screen", "resolve", "count"}
      PROVE  AnswersOK'
  BY <1>0, <1>1 DEF AnswersOK, DialogIsFine
<1>2. CASE ReadStatus
  <2>1. CASE watch'.pc = "screen"
    <3>1. PICK s \in Statuses : Attends(s)
      BY <1>0, <1>2, <2>1 DEF ReadStatus, Resets, IsWatch
    <3>2. ~AtWork
      <4>1. CASE watch.stage # "work"
        BY <1>0, <4>1 DEF StagesOK
      <4>2. CASE watch.stage = "work" /\ host = "native"
        BY <3>1, <4>2 DEF Attends, Stands
      <4>3. CASE watch.stage = "work" /\ host # "native"
        BY <3>1, <4>3 DEF Attends, Statuses
      <4> QED BY <4>1, <4>2, <4>3
    <3>3. ~AtWork'
      BY <1>2, <3>2 DEF ReadStatus, AtWork
    <3> QED BY <1>0, <2>1, <3>3 DEF AnswersOK, DialogIsFine
  <2> QED BY <1>0, <1>1, <1>2, <2>1 DEF ReadStatus, Resets, IsWatch
<1>3. CASE ReadScreen
  <2>1. /\ watch'.pc = Classify(drawn).act /\ watch'.seen = drawn /\ dialog' = dialog /\ hands' = hands
        /\ watch.pc = "screen"
    BY <1>0, <1>3 DEF ReadScreen, IsWatch
  <2>2. slow' = 0 => drawn = dialog
    BY <1>0, <1>3 DEF ReadScreen, Drawn
  <2>3. watch'.pc \in {"clear", "resolve", "unknown"}
    BY <2>1, Classifying
  <2> QED BY <1>0, <2>1, <2>2, <2>3 DEF AnswersOK, DialogIsFine, AtWork
<1>4. CASE PressKeys
  <2>1. watch'.pc = "count" /\ watch'.seen = watch.seen /\ watch.pc = "resolve"
    BY <1>0, <1>4 DEF PressKeys, IsWatch
  <2> QED BY <1>0, <2>1 DEF AnswersOK, DialogIsFine
<1>5. CASE CountPress
  BY <1>0, <1>1, <1>5 DEF CountPress, IsWatch
<1>6. CASE SettleShell
  <2>1. watch.pc = "read" /\ watch'.pc \in {"read", "launch"}
    BY <1>0, <1>6 DEF SettleShell, Goto, IsWatch
  <2> QED BY <1>1, <2>1
<1>7. CASE Launch \/ MeetsReady
  BY <1>0, <1>1, <1>7, Watching DEF Launch, MeetsReady, Goto, IsWatch
<1>8. CASE MeetsUnknown \/ MeetsBlocked
  <2>1. watch'.pc \in {"stuck", "status", "prompt"}
    BY <1>0, <1>8 DEF MeetsUnknown, MeetsBlocked, Waits, IsWatch
  <2> QED BY <1>1, <2>1
<1>9. CASE MeetsNothing \/ GoesOn
  <2>1. watch'.pc \in {"status", "prompt"}
    BY <1>0, <1>9 DEF MeetsNothing, GoesOn, Resets, IsWatch
  <2> QED BY <1>1, <2>1
<1>10. CASE FirstPrompt
  BY <1>0, <1>1, <1>10, Watching DEF FirstPrompt, Goto, IsWatch
<1>11. CASE StillWaits \/ ReportIsThere \/ LaunchFails \/ ScreenDeadline \/ PromptRefused
  BY <1>0, <1>1, <1>11
     DEF StillWaits, ReportIsThere, LaunchFails, ScreenDeadline, PromptRefused, Fails, Goto, IsWatch
<1>12. CASE Redraw
  BY <1>0, <1>12 DEF Redraw, AnswersOK, AtWork, pressGhost
<1>13. CASE StopsToAsk
  <2>1. watch' = watch /\ hands' = hands /\ AtWork
    BY <1>13 DEF StopsToAsk, pressGhost
  <2> QED BY <1>0, <2>1 DEF AnswersOK, DialogIsFine
<1>14. CASE OwnerInput
  <2>1. watch' = watch /\ hands' = hands + 1
    BY <1>14 DEF OwnerInput
  <2> QED BY <1>0, <2>1 DEF AnswersOK, DialogIsFine
<1> QED BY <1>2, <1>3, <1>4, <1>5, <1>6, <1>7, <1>8, <1>9, <1>10, <1>11, <1>12, <1>13, <1>14
       DEF ScreenNext, Runs

\* Nobody is waited for, and no work is given up, without a word.
LEMMA TellingStep ==
  ASSUME ScreensInv, ScreenNext
  PROVE  TellingOK'
<1>0. TellingOK /\ IsWatch(watch) /\ StagesOK /\ told \in BOOLEAN
  BY DEF ScreensInv, ScreensTypeOK
<1>1. ASSUME ~watch'.blocked, watch'.pc # "stuck" PROVE TellingOK'
  BY <1>1 DEF TellingOK
<1>2. ASSUME watch'.stage = watch.stage, watch'.blocked => watch.blocked, told' = told, watch'.pc # "stuck"
      PROVE  TellingOK'
  BY <1>0, <1>2 DEF TellingOK
<1>3. CASE ReadStatus
  BY <1>0, <1>2, <1>3 DEF ReadStatus, Resets, IsWatch
<1>4. CASE ReadScreen
  <2>1. watch'.pc \in {"clear", "resolve", "unknown"}
    BY <1>0, <1>4, Classifying DEF ReadScreen, IsWatch
  <2> QED BY <1>0, <1>2, <1>4, <2>1 DEF ReadScreen, IsWatch
<1>5. CASE PressKeys
  BY <1>0, <1>1, <1>5 DEF PressKeys, IsWatch
<1>6. CASE CountPress
  BY <1>0, <1>2, <1>6 DEF CountPress, IsWatch
<1>7. CASE MeetsUnknown
  <2>1. CASE watch.stage = "prompt"
    <3>1. ~watch'.blocked /\ watch'.stage = "prompt"
      BY <1>0, <1>7, <2>1 DEF MeetsUnknown, Waits, IsWatch
    <3> QED BY <3>1 DEF TellingOK
  <2>2. CASE watch.stage # "prompt"
    <3>1. told' /\ watch'.stage = watch.stage
      BY <1>0, <1>7, <2>2 DEF MeetsUnknown, Tells, TellingOK, Waits, IsWatch
    <3> QED BY <2>2, <3>1 DEF TellingOK
  <2> QED BY <2>1, <2>2
<1>8. CASE MeetsBlocked
  <2>1. CASE watch.stage = "start"
    <3>1. watch'.blocked = watch.blocked /\ watch'.stage = "start" /\ told' = told
      BY <1>0, <1>8, <2>1 DEF MeetsBlocked, Waits, IsWatch
    <3> QED BY <1>0, <3>1 DEF TellingOK
  <2>2. CASE watch.stage # "start"
    <3>1. told' /\ watch'.stage = watch.stage /\ watch.stage # "prompt"
      BY <1>0, <1>8, <2>2 DEF MeetsBlocked, Tells, TellingOK, Waits, IsWatch
    <3> QED BY <3>1 DEF TellingOK
  <2> QED BY <2>1, <2>2
<1>9. CASE MeetsNothing
  <2>1. told' /\ watch'.stage = "start" /\ watch'.pc = "status"
    BY <1>0, <1>9 DEF MeetsNothing, Tells, TellingOK, Resets, IsWatch
  <2> QED BY <2>1 DEF TellingOK
<1>10. CASE MeetsReady
  BY <1>1, <1>10, Watching DEF MeetsReady
<1>11. CASE GoesOn
  <2>1. watch'.pc \in {"status", "prompt"} /\ watch'.stage = watch.stage /\ watch'.blocked = watch.blocked
    BY <1>0, <1>11 DEF GoesOn, Resets, IsWatch
  <2> QED BY <1>2, <1>11, <2>1 DEF GoesOn
<1>g. ASSUME NEW pc, pc # "stuck", Goto(pc), told' = told PROVE TellingOK'
  <2>1. watch'.stage = watch.stage /\ watch'.blocked = watch.blocked /\ watch'.pc = pc
    BY <1>0, <1>g DEF Goto, IsWatch
  <2> QED BY <1>2, <1>g, <2>1
<1>12. CASE Launch
  <2>1. told' = told
    BY <1>12 DEF Launch
  <2>2. Goto("failed") \/ watch' = Watch("start", "status")
    BY <1>12 DEF Launch
  <2> QED BY <1>1, <1>g, <2>1, <2>2, Watching
<1>13. CASE FirstPrompt
  <2>1. told' = told
    BY <1>13 DEF FirstPrompt
  <2>2. Goto("status") \/ watch' = Watch("work", "status")
    BY <1>13 DEF FirstPrompt
  <2> QED BY <1>1, <1>g, <2>1, <2>2, Watching
<1>14. CASE SettleShell
  <2>1. CASE UNCHANGED watch
    <3>1. watch.pc = "read" /\ told' = told
      BY <1>14 DEF SettleShell
    <3> QED BY <1>0, <1>2, <2>1, <3>1
  <2>2. CASE Goto("launch")
    <3>1. told' = told
      BY <1>14 DEF SettleShell
    <3> QED BY <1>g, <2>2, <3>1
  <2> QED BY <1>14, <2>1, <2>2 DEF SettleShell
<1>15. CASE StillWaits \/ ReportIsThere \/ LaunchFails \/ ScreenDeadline \/ PromptRefused
  <2>1. told' = told
    BY <1>15 DEF StillWaits, ReportIsThere, LaunchFails, ScreenDeadline, PromptRefused, Fails
  <2>2. Goto("status") \/ Goto("done") \/ Goto("failed")
    BY <1>15 DEF StillWaits, ReportIsThere, LaunchFails, ScreenDeadline, PromptRefused, Fails
  <2> QED BY <1>g, <2>1, <2>2
<1>16. CASE UNCHANGED <<watch, told>>
  BY <1>0, <1>16 DEF TellingOK
<1> QED BY <1>3, <1>4, <1>5, <1>6, <1>7, <1>8, <1>9, <1>10, <1>11, <1>12, <1>13, <1>14, <1>15, <1>16
       DEF ScreenNext, Runs, Redraw, StopsToAsk, OwnerInput

\* Only the owner or a late drawing leads keys to another screen.
LEMMA KeysStep ==
  ASSUME ScreensInv, ScreenNext
  PROVE  KeysReachTheirScreen'
<1>0. /\ KeysReachTheirScreen /\ StagesOK /\ AnswersOK /\ hands \in Nat /\ slow \in Nat
  <2>1. ScreensTypeOK /\ StagesOK /\ AnswersOK /\ KeysReachTheirScreen
    BY DEF ScreensInv
  <2> QED BY <2>1, ScreenConstants DEF ScreensTypeOK
<1>1. CASE Launch
  <2>1. CASE dialog = ShellOffer
    <3>1. slow' = slow /\ slow > 0
      BY <1>0, <1>1, <2>1 DEF Launch, StagesOK
    <3> QED BY <3>1 DEF KeysReachTheirScreen
  <2>2. CASE dialog # ShellOffer
    BY <1>0, <1>1, <2>2 DEF Launch, KeysReachTheirScreen
  <2> QED BY <2>1, <2>2
<1>2. CASE PressKeys
  <2>1. hands' = hands /\ slow' = slow
    BY <1>2 DEF PressKeys
  <2>2. CASE hands = 0 /\ slow = 0
    <3>3. dialog = watch.seen
      BY <1>0, <1>2, <2>2 DEF PressKeys, AnswersOK
    <3>4. ~(hands > 0 \/ slow > 0)
      BY <2>2
    <3>1. dialog = watch.seen /\ ~missed
      BY <1>0, <3>3, <3>4, Zenon DEF KeysReachTheirScreen
    <3>2. ~missed'
      BY <1>2, <3>1 DEF PressKeys
    <3> QED BY <3>2 DEF KeysReachTheirScreen
  <2> QED BY <1>0, <2>1, <2>2 DEF KeysReachTheirScreen
<1>3. CASE SettleShell \/ ReadScreen
  <2>1. missed' = missed /\ hands' = hands /\ (slow' = slow \/ slow' = slow + 1)
    BY <1>3 DEF SettleShell, ReadScreen, Drawn
  <2> QED BY <1>0, <2>1 DEF KeysReachTheirScreen
<1>4. CASE OwnerInput
  BY <1>0, <1>4 DEF OwnerInput, KeysReachTheirScreen
<1>5. CASE UNCHANGED <<missed, hands, slow>>
  BY <1>0, <1>5 DEF KeysReachTheirScreen
<1> QED BY <1>1, <1>2, <1>3, <1>4, <1>5
       DEF ScreenNext, Runs, ReadStatus, CountPress, MeetsUnknown, MeetsBlocked, MeetsReady,
           MeetsNothing, GoesOn, StillWaits, FirstPrompt, LaunchFails, ScreenDeadline,
           PromptRefused, ReportIsThere, Redraw, StopsToAsk, Fails, pressGhost

\* An answer that reaches its screen is a safe one.
LEMMA SafeStep ==
  ASSUME ScreensInv, ScreenNext
  PROVE  OnlySafeAnswers'
<1>0. /\ OnlySafeAnswers /\ AnswersOK /\ hands \in Nat /\ missed \in BOOLEAN
      /\ IsScreen(dialog)
  <2>1. ScreensTypeOK /\ AnswersOK /\ OnlySafeAnswers
    BY DEF ScreensInv
  <2> QED BY <2>1, ScreenConstants DEF ScreensTypeOK
<1>1. OnlySafeAnswers <=> missed \/ hands > 0 \/ \A c \in choices : Safe(c)
  BY DEF OnlySafeAnswers, Safe
<1>2. OnlySafeAnswers' <=> missed' \/ hands' > 0 \/ \A c \in choices' : Safe(c)
  BY DEF OnlySafeAnswers, Safe
<1>3. CASE PressKeys
  <2>5. hands' = hands
    BY <1>3 DEF PressKeys
  <2>1. SUFFICES ASSUME ~missed', hands = 0 PROVE \A c \in choices' : Safe(c)
    BY <1>0, <1>2, <2>5
  <2>2. ~missed /\ dialog = watch.seen /\ watch.pc = "resolve"
    BY <1>0, <1>3, <2>1 DEF PressKeys
  <2>3. choices' = choices \cup {Answer(dialog)}
    BY <1>3, <2>2 DEF PressKeys, Answer
  <2>4. Safe(Answer(dialog))
    <3>1. ~AtWork /\ Honest(dialog) /\ Classify(dialog).act = "resolve"
      BY <1>0, <2>1, <2>2 DEF AnswersOK
    <3> QED BY <1>0, <3>1, Answering DEF AtWork
  <2> QED BY <1>0, <1>1, <2>1, <2>2, <2>3, <2>4
<1>4. CASE Launch
  BY <1>0, <1>1, <1>2, <1>4 DEF Launch
<1>5. CASE OwnerInput
  BY <1>0, <1>2, <1>5 DEF OwnerInput
<1>6. CASE UNCHANGED <<choices, missed, hands>>
  BY <1>0, <1>1, <1>2, <1>6
<1> QED BY <1>3, <1>4, <1>5, <1>6
       DEF ScreenNext, Runs, SettleShell, ReadStatus, ReadScreen, CountPress, MeetsUnknown,
           MeetsBlocked, MeetsReady, MeetsNothing, GoesOn, StillWaits, FirstPrompt, LaunchFails,
           ScreenDeadline, PromptRefused, ReportIsThere, Redraw, StopsToAsk, Fails, pressGhost

\* Herdr's notices are withdrawn when the runner waits no more.
LEMMA NoticesStep ==
  ASSUME ScreensInv, ScreenNext
  PROVE  NoticesAreWithdrawn'
<1>0. /\ NoticesAreWithdrawn /\ StagesOK /\ TellingOK /\ IsWatch(watch) /\ asked \in BOOLEAN
      /\ host \in {"herdr", "native"}
  BY DEF ScreensInv, ScreensTypeOK
<1>h. host' = host
  BY DEF ScreenNext, Runs, SettleShell, Launch, ReadStatus, ReadScreen, PressKeys, CountPress,
         MeetsUnknown, MeetsBlocked, MeetsReady, MeetsNothing, GoesOn, StillWaits, FirstPrompt,
         LaunchFails, ScreenDeadline, PromptRefused, ReportIsThere, Redraw, StopsToAsk,
         OwnerInput, Fails
<1>1. ASSUME ~asked' PROVE NoticesAreWithdrawn'
  BY <1>1 DEF NoticesAreWithdrawn
<1>2. ASSUME watch'.stage = watch.stage, watch'.blocked = watch.blocked, asked' = asked
      PROVE  NoticesAreWithdrawn'
  BY <1>0, <1>h, <1>2 DEF NoticesAreWithdrawn
<1>3. CASE host = "native"
  BY <1>h, <1>3 DEF NoticesAreWithdrawn
<1>4. ASSUME watch'.stage \in {"shell", "start"} \/ watch'.blocked PROVE NoticesAreWithdrawn'
  BY <1>4 DEF NoticesAreWithdrawn
<1>5. CASE host = "herdr" /\ ReadStatus
  <2>1. CASE watch.stage \in {"shell", "start"}
    <3>1. watch'.stage = watch.stage
      BY <1>0, <1>5 DEF ReadStatus, Resets, IsWatch
    <3> QED BY <1>4, <2>1, <3>1
  <2>2. CASE watch.stage = "prompt"
    <3>1. ~asked
      BY <1>0, <1>5, <2>2 DEF NoticesAreWithdrawn, TellingOK
    <3> QED BY <1>1, <1>5, <3>1 DEF ReadStatus
  <2>3. CASE watch.stage = "work"
    <3>1. asked => watch.blocked
      BY <1>0, <1>5, <2>3 DEF NoticesAreWithdrawn
    <3>2. CASE asked' = (asked /\ ~(watch.stage = "work" /\ watch.blocked))
      BY <1>1, <2>3, <3>1, <3>2
    <3>3. CASE asked' = asked /\ watch'.stage = watch.stage /\ watch'.blocked = watch.blocked
      BY <1>2, <3>3
    <3> QED BY <1>0, <1>5, <3>2, <3>3 DEF ReadStatus, IsWatch
  <2> QED BY <1>0, <2>1, <2>2, <2>3 DEF IsWatch
<1>6. CASE ReadScreen \/ CountPress
  BY <1>0, <1>2, <1>6 DEF ReadScreen, CountPress, IsWatch
<1>7. CASE host = "herdr" /\ PressKeys
  <2>1. watch'.stage = watch.stage /\ asked' = (asked /\ watch.stage # "work")
    BY <1>0, <1>7 DEF PressKeys, IsWatch
  <2>2. asked' => watch.stage \in {"shell", "start"}
    BY <1>0, <1>7, <2>1 DEF NoticesAreWithdrawn, TellingOK, IsWatch
  <2> QED BY <1>1, <1>4, <2>1, <2>2
<1>8. CASE host = "herdr" /\ MeetsUnknown
  <2>1. CASE watch.stage = "prompt"
    <3>1. ~asked /\ asked' = asked
      BY <1>0, <1>8, <2>1 DEF MeetsUnknown, NoticesAreWithdrawn, TellingOK
    <3> QED BY <1>1, <3>1
  <2>2. CASE watch.stage # "prompt"
    <3>1. watch'.blocked
      BY <1>0, <1>8, <2>2 DEF MeetsUnknown, Waits, IsWatch
    <3> QED BY <1>4, <3>1
  <2> QED BY <2>1, <2>2
<1>9. CASE MeetsBlocked
  <2>1. watch.stage \in {"shell", "start", "work"}
    BY <1>0, <1>9 DEF MeetsBlocked, IsWatch
  <2>2. watch'.stage = watch.stage /\ (watch.stage = "work" => watch'.blocked)
    BY <1>0, <1>9 DEF MeetsBlocked, Waits, IsWatch
  <2> QED BY <1>4, <2>1, <2>2
<1>10. CASE host = "herdr" /\ MeetsReady
  BY <1>1, <1>10 DEF MeetsReady
<1>11. CASE MeetsNothing
  <2>1. watch'.stage = "start"
    BY <1>0, <1>11 DEF MeetsNothing, Resets, IsWatch
  <2> QED BY <1>4, <2>1
<1>12. CASE GoesOn
  BY <1>0, <1>2, <1>12 DEF GoesOn, Resets, IsWatch
<1>13. ASSUME NEW pc, Goto(pc), asked' = asked PROVE NoticesAreWithdrawn'
  BY <1>0, <1>2, <1>13 DEF Goto, IsWatch
<1>14. CASE Launch
  <2>1. asked' = asked /\ (Goto("failed") \/ watch' = Watch("start", "status"))
    BY <1>14 DEF Launch
  <2> QED BY <1>4, <1>13, <2>1, Watching
<1>15. CASE host = "herdr" /\ FirstPrompt
  <2>1. watch.stage = "prompt" /\ asked' = asked
    BY <1>0, <1>15 DEF FirstPrompt, StagesOK
  <2>2. ~asked
    BY <1>0, <1>15, <2>1 DEF NoticesAreWithdrawn, TellingOK
  <2> QED BY <1>1, <2>1, <2>2
<1>16. CASE SettleShell
  <2>1. asked' = asked /\ (Goto("launch") \/ watch' = watch)
    BY <1>16 DEF SettleShell
  <2> QED BY <1>2, <1>13, <2>1
<1>17. CASE StillWaits \/ ReportIsThere \/ LaunchFails \/ ScreenDeadline \/ PromptRefused
  <2>1. asked' = asked
    BY <1>17 DEF StillWaits, ReportIsThere, LaunchFails, ScreenDeadline, PromptRefused, Fails
  <2>2. Goto("status") \/ Goto("done") \/ Goto("failed")
    BY <1>17 DEF StillWaits, ReportIsThere, LaunchFails, ScreenDeadline, PromptRefused, Fails
  <2> QED BY <1>13, <2>1, <2>2
<1>18. CASE UNCHANGED <<watch, asked>>
  BY <1>2, <1>18
<1> QED BY <1>0, <1>3, <1>5, <1>6, <1>7, <1>8, <1>9, <1>10, <1>11, <1>12, <1>14, <1>15, <1>16, <1>17,
       <1>18
       DEF ScreenNext, Runs, Redraw, StopsToAsk, OwnerInput

\* The invariant of runners and screens is inductive.
LEMMA ScreensInvStays ==
  ASSUME ScreensInv, [ScreenNext]_screenVars
  PROVE  ScreensInv'
<1>1. CASE ScreenNext
  BY <1>1, ScreensTypeStep, StagesStep, AnswersStep, TellingStep, KeysStep, SafeStep, NoticesStep
     DEF ScreensInv
<1>2. CASE UNCHANGED screenVars
  BY <1>2 DEF screenVars, ScreensInv, ScreensTypeOK, StagesOK, AnswersOK, TellingOK,
              KeysReachTheirScreen, OnlySafeAnswers, NoticesAreWithdrawn, AtWork
<1> QED BY <1>1, <1>2

\* A runner begins in its invariant, and one that is done is in it.
LEMMA ScreensStart == ScreenInit \/ RunnerIsDone => ScreensInv
<1>0. /\ IsWatch(Watch("shell", "read")) /\ IsWatch(Watch("work", "done"))
      /\ <<>> \in Seq(Dialogs) /\ 0 \in 0..MaxHands /\ 0 \in 0..MaxSlow
  <2>1. 0 \in 0..MaxHands /\ 0 \in 0..MaxSlow
    BY ScreenConstants
  <2> QED BY <2>1, Watching
<1>1. ASSUME ScreenInit PROVE ScreensInv
  <2>1. ScreensTypeOK
    <3>1. todo \in Seq(Dialogs)
      BY <1>1, ScreenConstants DEF ScreenInit
    <3>2. IsScreen(dialog) /\ IsScreen(drawn)
      BY <1>1, OwnScreens DEF ScreenInit
    <3>3. IsWatch(watch)
      BY <1>0, <1>1 DEF ScreenInit
    <3>4. /\ host \in {"herdr", "native"} /\ asked = FALSE /\ told = FALSE /\ missed = FALSE
          /\ hands = 0 /\ slow = 0
      BY <1>1 DEF ScreenInit
    <3> QED BY <1>0, <3>1, <3>2, <3>3, <3>4 DEF ScreensTypeOK
  <2>2. watch.stage = "shell" /\ watch.pc = "read" /\ ~watch.blocked
    BY <1>1, Watching DEF ScreenInit
  <2>3. ~AtWork /\ Honest(dialog)
    BY <1>1, OwnScreens DEF ScreenInit, AtWork
  <2>4. StagesOK /\ AnswersOK /\ TellingOK
    BY <1>1, <2>2, <2>3 DEF ScreenInit, StagesOK, AnswersOK, TellingOK
  <2>5. KeysReachTheirScreen /\ OnlySafeAnswers /\ NoticesAreWithdrawn
    BY <1>1 DEF ScreenInit, KeysReachTheirScreen, OnlySafeAnswers, NoticesAreWithdrawn
  <2> QED BY <2>1, <2>4, <2>5 DEF ScreensInv
<1>2. ASSUME RunnerIsDone PROVE ScreensInv
  <2>1. ScreensTypeOK
    <3>1. IsScreen(dialog) /\ IsScreen(drawn)
      BY <1>2, OwnScreens DEF RunnerIsDone
    <3>2. IsWatch(watch) /\ todo \in Seq(Dialogs)
      BY <1>0, <1>2 DEF RunnerIsDone
    <3>3. /\ host = "herdr" /\ asked = FALSE /\ told = FALSE /\ missed = FALSE
          /\ hands = 0 /\ slow = 0
      BY <1>2 DEF RunnerIsDone
    <3> QED BY <1>0, <3>1, <3>2, <3>3 DEF ScreensTypeOK
  <2>2. watch.stage = "work" /\ watch.pc = "done" /\ ~watch.blocked
    BY <1>2, Watching DEF RunnerIsDone
  <2>3. ~AtWork /\ Honest(dialog)
    BY <1>2, OwnScreens DEF RunnerIsDone, AtWork
  <2>4. StagesOK /\ AnswersOK /\ TellingOK
    BY <2>2, <2>3 DEF StagesOK, AnswersOK, TellingOK
  <2>5. KeysReachTheirScreen /\ OnlySafeAnswers /\ NoticesAreWithdrawn
    BY <1>2 DEF RunnerIsDone, KeysReachTheirScreen, OnlySafeAnswers, NoticesAreWithdrawn
  <2> QED BY <2>1, <2>4, <2>5 DEF ScreensInv
<1> QED BY <1>1, <1>2

\* The invariant implies what the runs of TLC check about screens.
LEMMA ScreensPromises ==
  ASSUME ScreensInv
  PROVE  ScreenInv
<1>1. ScreenTypeOK
  BY ScreenConstants DEF ScreensInv, ScreensTypeOK, IsWatch, IsScreen, ScreenTypeOK
<1>2. OwnerIsTold
  BY DEF ScreensInv, TellingOK, OwnerIsTold
<1> QED BY <1>1, <1>2 DEF ScreensInv, ScreenInv

----------------------------------------------------------------------------
(* The three parts side by side.                                            *)

PanesProofInv == PaneRunInv /\ ScreensInv /\ OmpPaneInv

\* Whatever a behaviour is about, it begins in the invariant.
LEMMA PanesStart == PanesInit => PanesProofInv
BY PaneRunStarts, ScreensStart, OmpStarts DEF PanesInit, PanesProofInv

\* A step of one part leaves the others alone.
LEMMA PanesInvStays ==
  ASSUME PanesProofInv, [PanesNext]_panesVars
  PROVE  PanesProofInv'
<1>1. [Next]_vars /\ [ScreenNext]_screenVars /\ [OmpNext]_ompVars
  BY DEF PanesNext, panesVars, InRun, InScreens, InOmp
<1> QED BY <1>1, PaneRunInvStays, ScreensInvStays, OmpPaneInvStays DEF PanesProofInv

(* The invariants of runs, of screens and of the other launcher's panes     *)
(* hold of every behaviour, whichever of the three it is about.             *)
THEOREM PanesInvariant == PanesSpec => []PanesProofInv
BY PanesStart, PanesInvStays, PTL DEF PanesSpec

(* Seal, archive and store agree whatever was killed between their steps:   *)
(* what an agent has sealed is in the workspace or in the archive, what was *)
(* archived and what became the candidate is what was sealed.               *)
THEOREM PaneInvHolds == PanesSpec => []PaneInv
<1>1. PanesProofInv => PaneInv
  BY PaneRunPromises DEF PanesProofInv
<1> QED BY <1>1, PanesInvariant, PTL

(* The pane of a candidate nobody has settled stays open, unless            *)
(* cancellation or deadline took it; and none of the other launcher's is    *)
(* closed for a result that is not settled, or when what was last seen in   *)
(* it was not the idle worker itself.                                       *)
THEOREM PanesStayHolds == PanesSpec => []PanesStay
<1>1. PanesProofInv => PanesStay
  BY PaneRunPromises, OmpPromises DEF PanesProofInv, PanesStay
<1> QED BY <1>1, PanesInvariant, PTL

(* A report sealed in time is not recorded as lost, unless the owner        *)
(* cancelled or what SealMayBeMissed names hid the agent from recovery, and *)
(* not failed for the deadline.                                             *)
THEOREM GoodWorkIsKeptHolds == PanesSpec => []GoodWorkIsKept
<1>1. PanesProofInv => GoodWorkIsKept
  BY PaneRunPromises DEF PanesProofInv
<1> QED BY <1>1, PanesInvariant, PTL

(* Keys reach the screen they were chosen for, unless the owner's own keys  *)
(* or a late drawing came between, and left alone brgr chooses nothing but  *)
(* what is safe, on whatever screens the harnesses draw; the owner of a run *)
(* that fails on a screen was told before, and is not told of what has      *)
(* passed.                                                                  *)
THEOREM ScreenInvHolds == PanesSpec => []ScreenInv
<1>1. PanesProofInv => ScreenInv
  BY ScreensPromises DEF PanesProofInv
<1> QED BY <1>1, PanesInvariant, PTL
=============================================================================
