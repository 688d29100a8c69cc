--------------------------- MODULE Notifications ---------------------------
(***************************************************************************)
(* Pushing notices into the pane of the owner's head.                      *)
(*                                                                         *)
(* A terminal result and the notice about it are committed together; a     *)
(* workflow run queues a notice when it blocks or ends.  Detached          *)
(* dispatchers, at most one per queue because of a file lock, claim a      *)
(* notice for 20 s, type it into the pane that the owner registered, and   *)
(* mark it delivered.  Meanwhile the head moves, the owner acknowledges,   *)
(* panes are busy, and dispatchers die.                                    *)
(*                                                                         *)
(* One behaviour is about one queue: that of a task or that of a workflow  *)
(* run.  The queues share only the binding and the registered surface.     *)
(***************************************************************************)
EXTENDS Integers, FiniteSets, FiniteSetsExt

CONSTANTS
  Sessions,        \* sessions that may be the owner's head
  FirstHead,       \* the one that is the head at first
  Dispatchers,     \* processes that may run as `brgr __notify`
  MaxNotices,      \* bound: notices of the queue
  MaxEpoch,        \* bound: binding epochs
  MaxDeaths,       \* bound: dispatchers that die
  NoOne            \* no session, no claimant

ASSUME NotificationConstants ==
  /\ MaxNotices \in Nat \ {0} /\ MaxEpoch \in Nat \ {0} /\ MaxDeaths \in Nat
  /\ FirstHead \in Sessions /\ NoOne \notin Sessions /\ NoOne \notin Dispatchers

VARIABLES
  queue,           \* which queue this is: of a task or of a workflow run
  binding,         \* owner_bindings: the head and its epoch
  surface,         \* owner_surfaces: the session and epoch whose pane is recorded
  notices,         \* completion_notifications or workflow_notifications, by rowid
  run,             \* the task's run: "running", "retrying" or "over"
  question,        \* a worker's question: "none", "open" or "closed"
  noticed,         \* question_notices: the sessions told about it
  lock,            \* who holds the notify lock file
  disp,            \* the dispatchers
  typed,           \* how often the present head was shown each notice (at most 2)
  noReceipt,       \* notices shown to it by a dispatcher that could not say so
  deaths

qvars == <<binding, surface>>
vars == <<queue, binding, surface, notices, run, question, noticed, lock, disp,
          typed, noReceipt, deaths>>

Epochs == 1..MaxEpoch
Heads  == [session : Sessions, epoch : Epochs]
NoHead == [session |-> NoOne, epoch |-> 0]
Dead   == "dead"   \* the token of a claim whose claimant has forgotten it

\* One row. `to` is the session, epoch and pane of the delivery; `held` says
\* that claim_until is still ahead.
Row == [resolved : BOOLEAN, to : Heads \cup {NoHead},
        token : Dispatchers \cup {NoOne, Dead}, held : BOOLEAN]
NewRow == [resolved |-> FALSE, to |-> NoHead, token |-> NoOne, held |-> FALSE]
Rows == DOMAIN notices

Steps == {"off", "lock", "begin", "latest", "again", "register", "questions", "ask",
          "asked", "read", "claim", "prompt", "mark"}
Idle == [pc |-> "off", registered |-> FALSE, todo |-> {}, target |-> NoHead]

Init ==
  /\ queue \in {"task", "workflow"}
  /\ binding = [session |-> FirstHead, epoch |-> 1]
  /\ surface \in {NoHead, binding}
  /\ notices = [n \in {} |-> NewRow]
  /\ run = "over"
  /\ question = "none" /\ noticed = {}
  /\ lock = NoOne
  /\ disp = [d \in Dispatchers |-> Idle]
  /\ typed = [n \in 1..MaxNotices |-> 0]
  /\ noReceipt = {} /\ deaths = 0

----------------------------------------------------------------------------
(* The rows. *)

\* pending_notifications_for_task: an acknowledged result is a resolved notice,
\* for every way of acknowledging writes both in one transaction.
PendingResults == {n \in Rows : ~notices[n].resolved /\ notices[n].to = NoHead}

\* pending_workflow_notifications: no inbox item is asked for, and nothing
\* resolves these rows.
PendingRunNotices == {n \in Rows : ~notices[n].resolved /\ notices[n].to = NoHead}

Pending == IF queue = "task" THEN PendingResults ELSE PendingRunNotices

\* The surface counts only for the session and epoch that are bound now.
SurfaceIsHead == surface = binding

\* Mistake: the lease is not looked at.
ClaimIsHeldForGood(n) == notices[n].token # NoOne
ClaimIsHeld(n) == notices[n].held /\ notices[n].token # NoOne

\* Mistake: claims are forgotten, deliveries are not.
RequeueClaims(rows) ==
  [n \in DOMAIN rows |-> [rows[n] EXCEPT !.token = NoOne, !.held = FALSE]]
\* claim_notification, claim_workflow_notification: an open notice, a registered
\* head, and no claim whose lease still runs.
ClaimableResult(n) == n \in PendingResults /\ SurfaceIsHead /\ ~ClaimIsHeld(n)
ClaimableRunNotice(n) == n \in PendingRunNotices /\ SurfaceIsHead /\ ~ClaimIsHeld(n)
Claimable(n) == IF queue = "task" THEN ClaimableResult(n) ELSE ClaimableRunNotice(n)

\* register_owner_surface refuses a session or epoch that is not bound.
RecordSurface(head) == surface' = IF head = binding THEN head ELSE surface

\* What moving the binding does to the queue: deliveries and claims of open
\* notices are forgotten.
Requeue(rows) ==
  [n \in DOMAIN rows |-> IF rows[n].resolved THEN rows[n] ELSE NewRow]

Claim(n, d) ==
  notices' = [notices EXCEPT ![n].token = d, ![n].held = TRUE]

\* mark_notification_delivered and mark_workflow_notification_delivered.
MarkResult(n, d, target) ==
  /\ notices[n].token = d /\ ~notices[n].resolved /\ notices[n].to = NoHead
  /\ binding = target /\ surface = target
MarkRunNotice(n, d, target) ==
  /\ notices[n].token = d /\ ~notices[n].resolved /\ notices[n].to = NoHead
  /\ binding = target /\ surface = target
CanMark(n, d, target) ==
  IF queue = "task" THEN MarkResult(n, d, target) ELSE MarkRunNotice(n, d, target)

MayReleaseResult(n, d) == notices[n].token = d /\ ~notices[n].resolved
MayReleaseRunNotice(n, d) == notices[n].token = d /\ ~notices[n].resolved
Release(n, d) ==
  IF IF queue = "task" THEN MayReleaseResult(n, d) ELSE MayReleaseRunNotice(n, d)
  THEN notices' = [notices EXCEPT ![n].token = NoOne, ![n].held = FALSE]
  ELSE UNCHANGED notices

\* The clock passes claim_until.
LeaseExpires(n) ==
  /\ n \in Rows /\ notices[n].held
  /\ notices' = [notices EXCEPT ![n].held = FALSE]
  /\ UNCHANGED <<queue, qvars, run, question, noticed, lock, disp, typed,
                 noReceipt, deaths>>

----------------------------------------------------------------------------
(* The owner's side and the worker's side. *)

\* A dispatcher is started; the queue stays as it is if that fails.
Spawn ==
  \/ UNCHANGED disp
  \/ \E d \in Dispatchers :
       /\ disp[d].pc = "off"
       /\ disp' = [disp EXCEPT ![d].pc = "lock"]

\* start or revise: the earlier results are decided or acknowledged.
Admit ==
  /\ queue = "task" /\ run = "over"
  /\ Cardinality(Rows) < MaxNotices
  /\ \A n \in Rows : notices[n].resolved
  /\ run' = "running"
  /\ Spawn
  /\ UNCHANGED <<queue, qvars, notices, question, noticed, lock, typed,
                 noReceipt, deaths>>

\* Mistake: a sequence number is skipped.
AddNoticeBehindGap ==
  /\ Cardinality(Rows) < MaxNotices
  /\ notices' = [n \in Rows \cup {Cardinality(Rows) + 2} |->
                   IF n \in Rows THEN notices[n] ELSE NewRow]
AddNotice ==
  /\ Cardinality(Rows) < MaxNotices
  /\ notices' = [n \in Rows \cup {Cardinality(Rows) + 1} |->
                   IF n \in Rows THEN notices[n] ELSE NewRow]

\* The result and its notice are one transaction.  A failed first attempt
\* leaves the run unfinished; a withdrawn or answered question is closed.
Seal ==
  /\ run \in {"running", "retrying"}
  /\ AddNotice
  /\ run' \in IF run = "running" /\ Cardinality(Rows) + 1 < MaxNotices
              THEN {"over", "retrying"} ELSE {"over"}
  /\ question' = IF question = "open" /\ run' = "over" THEN "closed" ELSE question
  /\ UNCHANGED <<queue, qvars, noticed, lock, disp, typed, noReceipt, deaths>>

\* A run becomes blocked, completed, failed or cancelled.
RunTransition ==
  /\ queue = "workflow"
  /\ AddNotice
  /\ Spawn
  /\ UNCHANGED <<queue, qvars, run, question, noticed, lock, typed,
                 noReceipt, deaths>>

\* Acknowledging or deciding a result resolves its notice with it.
Resolve(n) ==
  /\ queue = "task" /\ n \in Rows /\ ~notices[n].resolved
  /\ notices' = [notices EXCEPT ![n] = [@ EXCEPT !.resolved = TRUE, !.token = NoOne,
                                                 !.held = FALSE]]
  /\ UNCHANGED <<queue, qvars, run, question, noticed, lock, disp, typed,
                 noReceipt, deaths>>

Ask ==
  /\ queue = "task" /\ run = "running" /\ question = "none"
  /\ question' = "open"
  /\ UNCHANGED <<queue, qvars, notices, run, noticed, lock, disp, typed,
                 noReceipt, deaths>>

\* A reply, an acknowledgement or a withdrawal.
CloseQuestion ==
  /\ question = "open"
  /\ question' = "closed"
  /\ UNCHANGED <<queue, qvars, notices, run, noticed, lock, disp, typed,
                 noReceipt, deaths>>

\* bind, commit of a takeover, claim of a head.
Rebind(s) ==
  /\ s # binding.session /\ binding.epoch < MaxEpoch
  /\ binding' = [session |-> s, epoch |-> binding.epoch + 1]
  /\ notices' = Requeue(notices)
  /\ typed' = [n \in 1..MaxNotices |-> 0] /\ noReceipt' = {}
  /\ UNCHANGED <<queue, surface, run, question, noticed, lock, disp, deaths>>

\* pending_notification_tasks_for_session and its counterpart for runs.
Queued == Pending

\* register_current_surface: the head's pane is recorded if it can be proved.
RegisterPane(proved) == IF proved THEN RecordSurface(binding) ELSE UNCHANGED surface

StartForQueued == IF Queued # {} THEN Spawn ELSE UNCHANGED disp

\* Once the pane is recorded, a dispatcher is started for what is queued.
Announce ==
  /\ RegisterPane(TRUE)
  /\ StartForQueued
  /\ UNCHANGED <<queue, binding, notices, run, question, noticed, lock, typed,
                 noReceipt, deaths>>
HookAnnounces == Announce   \* the Codex hook, at every prompt of the session
BindAnnounces == Announce   \* `bind`, after it moved the head
HeadAnnounces == Announce   \* a head that took over, with the pane it was offered or its own

----------------------------------------------------------------------------
(* The dispatcher.  Every action of a dispatcher is one read, one write or  *)
(* one call to Herdr; it may die before each.                               *)

Goto(d, step) == disp' = [disp EXCEPT ![d].pc = step]
Leave(d) ==
  /\ disp' = [disp EXCEPT ![d] = Idle]
  /\ lock' = IF lock = d THEN NoOne ELSE lock

\* Tokens are fresh for each claim: what a dispatcher leaves behind is nobody's.
Forget(d) ==
  notices' = [n \in Rows |-> IF notices[n].token = d
                             THEN [notices[n] EXCEPT !.token = Dead] ELSE notices[n]]

\* Mistake: the lock file is opened and not locked.
TryNoLock(d) ==
  /\ disp[d].pc = "lock"
  /\ lock' = d
  /\ Goto(d, IF queue = "task" THEN "begin" ELSE "register")
  /\ UNCHANGED <<queue, qvars, notices, run, question, noticed, typed, noReceipt, deaths>>
TryLock(d) ==
  /\ disp[d].pc = "lock"
  /\ IF lock = NoOne
     THEN /\ lock' = d
          /\ Goto(d, IF queue = "task" THEN "begin" ELSE "register")
     ELSE Leave(d)
  /\ UNCHANGED <<queue, qvars, notices, run, question, noticed, typed,
                 noReceipt, deaths>>

\* settled(), first read, before the loop and in it.  A queue with something
\* to send goes on; otherwise the task's latest result decides.
ReadPending(d) ==
  /\ disp[d].pc \in {"begin", "read"}
  /\ IF Pending = {}
     THEN IF queue = "task" THEN Goto(d, "latest") /\ UNCHANGED lock ELSE Leave(d)
     ELSE /\ disp' = [disp EXCEPT ![d].pc = IF @ = "begin" THEN "register" ELSE "claim",
                                  ![d].todo = Pending]
          /\ UNCHANGED lock
  /\ UNCHANGED <<queue, qvars, notices, run, question, noticed, typed,
                 noReceipt, deaths>>

\* settled(), second read: the latest revision has a result that ended its run.
ReadLatest(d) ==
  /\ disp[d].pc = "latest"
  /\ Goto(d, IF run = "over" /\ Rows # {} THEN "again" ELSE "register")
  /\ UNCHANGED <<queue, qvars, notices, run, question, noticed, lock, typed,
                 noReceipt, deaths>>

\* settled(), third read.
ReadAgain(d) ==
  /\ disp[d].pc = "again"
  /\ IF Pending = {} THEN Leave(d) ELSE Goto(d, "register") /\ UNCHANGED lock
  /\ UNCHANGED <<queue, qvars, notices, run, question, noticed, typed,
                 noReceipt, deaths>>

\* owner_surface_pane: a pane of the bound session, recorded at any epoch.
HeadHasPane == surface.session = binding.session

\* register_for_task and register_for_workflow, until they succeed once.
Register(d) ==
  /\ disp[d].pc = "register"
  /\ \E proved \in BOOLEAN :
       /\ IF disp[d].registered \/ HeadHasPane
          THEN proved /\ UNCHANGED surface
          ELSE RegisterPane(proved)
       /\ disp' = [disp EXCEPT ![d].registered = proved,
                                ![d].pc = IF queue = "task" THEN "questions" ELSE "read"]
  /\ UNCHANGED <<queue, binding, notices, run, question, noticed, lock, typed, noReceipt,
                 deaths>>

\* Mistake: a question that any session was told about is not told again.
ReadUntoldQuestions(d) ==
  /\ disp[d].pc = "questions"
  /\ IF question = "open" /\ SurfaceIsHead /\ noticed = {}
     THEN disp' = [disp EXCEPT ![d].pc = "ask", ![d].target = binding]
     ELSE Goto(d, "read")
  /\ UNCHANGED <<queue, qvars, notices, run, question, noticed, lock, typed, noReceipt,
                 deaths>>
\* pending_question_notices: open, and not yet told to the head.
ReadQuestions(d) ==
  /\ disp[d].pc = "questions"
  /\ IF question = "open" /\ SurfaceIsHead /\ binding.session \notin noticed
     THEN disp' = [disp EXCEPT ![d].pc = "ask", ![d].target = binding]
     ELSE Goto(d, "read")
  /\ UNCHANGED <<queue, qvars, notices, run, question, noticed, lock, typed,
                 noReceipt, deaths>>

TypeQuestion(d) ==
  /\ disp[d].pc = "ask"
  /\ Goto(d, "asked")
  /\ UNCHANGED <<queue, qvars, notices, run, question, noticed, lock, typed, noReceipt,
                 deaths>>

QuestionRefused(d) ==
  /\ disp[d].pc = "ask"
  /\ Goto(d, "read")
  /\ UNCHANGED <<queue, qvars, notices, run, question, noticed, lock, typed,
                 noReceipt, deaths>>

RecordQuestion(d) ==
  /\ disp[d].pc = "asked"
  /\ noticed' = noticed \cup {disp[d].target.session}
  /\ Goto(d, "read")
  /\ UNCHANGED <<queue, qvars, notices, run, question, lock, typed, noReceipt,
                 deaths>>

\* claim_notification for the oldest notice of the list; one that is settled,
\* held or has no registered head is passed over.
Current(d) == Min(disp[d].todo)
PassOn(d) ==
  [disp[d] EXCEPT !.todo = @ \ {Current(d)},
                  !.pc = IF Cardinality(disp[d].todo) = 1 THEN "register" ELSE "claim",
                  !.target = NoHead]
ClaimNext(d) ==
  LET n == Current(d) IN
  /\ disp[d].pc = "claim"
  /\ IF Claimable(n)
     THEN /\ Claim(n, d)
          /\ disp' = [disp EXCEPT ![d].pc = "prompt", ![d].target = binding]
     ELSE /\ disp' = [disp EXCEPT ![d] = PassOn(d)]
          /\ UNCHANGED notices
  /\ UNCHANGED <<queue, qvars, run, question, noticed, lock, typed, noReceipt,
                 deaths>>

Shows(d) == disp[d].target = binding   \* to the head, not to its predecessor
Show(d) ==
  typed' = [typed EXCEPT ![Current(d)] = IF Shows(d) /\ @ < 2 THEN @ + 1 ELSE @]

\* The pane is idle and is still the recorded agent; it takes the prompt.
PromptAccepted(d) ==
  /\ disp[d].pc = "prompt"
  /\ Show(d)
  /\ Goto(d, "mark")
  /\ UNCHANGED <<queue, qvars, notices, run, question, noticed, lock, noReceipt,
                 deaths>>

\* The pane is busy, gone or another agent's, or the prompt timed out, in which
\* case it may have been typed; the claim is released.
PromptFailed(d) ==
  /\ disp[d].pc = "prompt"
  /\ \/ UNCHANGED <<typed, noReceipt>>
     \/ /\ Show(d)
        /\ noReceipt' = IF Shows(d) THEN noReceipt \cup {Current(d)} ELSE noReceipt
  /\ Release(Current(d), d)
  /\ disp' = [disp EXCEPT ![d] = PassOn(d)]
  /\ UNCHANGED <<queue, qvars, run, question, noticed, lock, deaths>>

\* commit_delivery: retried while the database is busy; a stale claim is dropped.
MarkDelivered(d) ==
  LET n == Current(d) IN
  /\ disp[d].pc = "mark"
  /\ IF CanMark(n, d, disp[d].target)
     THEN notices' = [notices EXCEPT ![n].to = disp[d].target, ![n].token = NoOne,
                                     ![n].held = FALSE]
     ELSE UNCHANGED notices
  /\ disp' = [disp EXCEPT ![d] = PassOn(d)]
  /\ UNCHANGED <<queue, qvars, run, question, noticed, lock, typed, noReceipt,
                 deaths>>

\* A crash, a store error, 15 s of contention in commit_delivery, or 24 h.
Die(d) ==
  /\ disp[d].pc # "off" /\ deaths < MaxDeaths
  /\ deaths' = deaths + 1
  /\ noReceipt' = IF disp[d].pc = "mark" /\ Shows(d) THEN noReceipt \cup {Current(d)} ELSE noReceipt
  /\ Forget(d)
  /\ Leave(d)
  /\ UNCHANGED <<queue, qvars, run, question, noticed, typed>>

\* deliver_pending
TaskDispatcher(d) ==
  /\ queue = "task"
  /\ \/ TryLock(d) \/ ReadPending(d) \/ ReadLatest(d) \/ ReadAgain(d) \/ Register(d)
     \/ ReadQuestions(d) \/ TypeQuestion(d) \/ QuestionRefused(d) \/ RecordQuestion(d)
     \/ ClaimNext(d) \/ PromptAccepted(d) \/ PromptFailed(d) \/ MarkDelivered(d)

\* deliver_pending_workflow: no questions, and it leaves once nothing is queued.
RunDispatcher(d) ==
  /\ queue = "workflow"
  /\ \/ TryLock(d) \/ Register(d) \/ ReadPending(d) \/ ClaimNext(d)
     \/ PromptAccepted(d) \/ PromptFailed(d) \/ MarkDelivered(d)

Work(d) == TaskDispatcher(d) \/ RunDispatcher(d)

Next ==
  \/ \E d \in Dispatchers : Work(d) \/ Die(d)
  \/ \E n \in Rows : LeaseExpires(n) \/ Resolve(n)
  \/ \E s \in Sessions : Rebind(s)
  \/ Admit \/ Seal \/ RunTransition \/ Ask \/ CloseQuestion
  \/ HookAnnounces \/ BindAnnounces \/ HeadAnnounces

Spec == Init /\ [][Next]_vars

\* Dispatchers keep running; the lease runs out; an owner pane that is tried
\* again and again is idle at last; and the head's session keeps calling brgr
\* (the Codex hook runs at every prompt), so its pane is registered and a
\* dispatcher is started for what is queued.
Served ==
  /\ HookAnnounces
  /\ (Pending # {} /\ \E d \in Dispatchers : disp[d].pc = "off") => disp' # disp
FairSpec ==
  /\ Spec
  /\ \A d \in Dispatchers :
       /\ WF_vars(Work(d))
       /\ SF_vars(PromptAccepted(d)) /\ SF_vars(TypeQuestion(d))
  /\ \A n \in 1..MaxNotices : WF_vars(LeaseExpires(n))
  /\ WF_vars(Served)

----------------------------------------------------------------------------
(* Properties. *)

\* Every variable has its type.
NotificationsTypeOK ==
  /\ queue \in {"task", "workflow"}
  /\ binding \in Heads /\ surface \in Heads \cup {NoHead}
  /\ \E k \in 0..MaxNotices : Rows = 1..k
  /\ notices \in [Rows -> Row]
  /\ run \in {"running", "retrying", "over"}
  /\ question \in {"none", "open", "closed"}
  /\ noticed \subseteq Sessions
  /\ lock \in Dispatchers \cup {NoOne}
  /\ disp \in [Dispatchers -> [pc : Steps, registered : BOOLEAN, todo : SUBSET Rows,
                               target : Heads \cup {NoHead}]]
  /\ typed \in [1..MaxNotices -> 0..2]
  /\ noReceipt \subseteq Rows /\ deaths \in 0..MaxDeaths

\* An open notice that counts as delivered was typed into the pane of the
\* session that is the head now, at the head's present epoch: a head that took
\* over while the notice was being typed to its predecessor is still told.
DeliveredToHead ==
  \A n \in Rows :
    notices[n].to # NoHead /\ ~notices[n].resolved =>
      notices[n].to = binding /\ typed[n] > 0

\* A head sees a notice twice only if the receipt of the first time was lost:
\* the dispatcher died, or Herdr reported failure, after the text was typed.
TypedOnce ==
  \A n \in Rows : typed[n] > 1 => n \in noReceipt

\* Every queued notice is at last delivered to the head or settled by it, and
\* stays so unless the head moves.
NoticesArrive ==
  \A n \in 1..MaxNotices : (n \in Rows /\ n \in Pending) ~> (n \notin Pending)

\* An open question of a task whose dispatcher lives is at last told to the head,
\* or closed.  (Nothing starts a dispatcher for a question alone.)
QuestionsArrive ==
  (question = "open" /\ lock # NoOne) ~>
    (question # "open" \/ binding.session \in noticed \/ lock = NoOne)

\* A notice is typed once, whatever the leases, deaths and moves of the head.
NoticesInv == NotificationsTypeOK /\ TypedOnce

\* Notices and questions reach the head.
EverythingArrives == NoticesArrive /\ QuestionsArrive
=============================================================================
