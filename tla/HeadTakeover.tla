----------------------------- MODULE HeadTakeover -----------------------------
(***************************************************************************)
(* The head of one owner: which session commands the owner's tasks         *)
(* (brgr-store owner.rs), and the takeovers that move it to another        *)
(* session (takeover.rs, brgr-cli head.rs).                                *)
(*                                                                         *)
(* A takeover is named by its idempotency key.  A cooperating head runs    *)
(* request and prepare, the incoming session commit; an abandoned head is  *)
(* claimed; a head can also leave an offer that the incoming session       *)
(* takes; `brgr bind` and the first admission bind directly.  Commands     *)
(* that read in one transaction and write in another keep what they read   *)
(* in cmd.  Every refusal and every death of a command is GiveUp.          *)
(***************************************************************************)
EXTENDS Naturals

CONSTANTS Sessions,    \* harness sessions that may be the head
          Keys,        \* idempotency keys of takeovers
          Tasks,       \* task revisions of the owner
          MaxEpoch,    \* bound on the binding epoch
          NoSession, NoKey

ASSUME NoneAssumption == NoSession \notin Sessions /\ NoKey \notin Keys
ASSUME EpochAssumption == MaxEpoch \in Nat

VARIABLES
    head,      \* owner_bindings: the bound session, or NoSession
    epoch,     \* owner_bindings: the binding epoch, 0 while unbound
    takeover,  \* takeover[k]: the row of head_takeovers with key k
    offer,     \* offer[k]: the offer file of key k
    work,      \* work[t]: how far a task revision has come
    asking,    \* tasks with an unanswered worker message
    cmd        \* cmd[s]: a command of session s and what it has read

binding == <<head, epoch>>
tasks == <<work, asking>>
vars == <<head, epoch, takeover, offer, work, asking, cmd>>

Pending == {"requested", "prepared"}
Moved   == {"committed", "resumed", "retired", "retire_failed", "superseded"}
OpenStates == Pending \cup {"committed", "resumed"}
TakeoverStates == {"absent", "aborted"} \cup Pending \cup Moved

Someone == Sessions \cup {NoSession}
Takeover == [state : TakeoverStates, from : Someone, fromEpoch : 0..MaxEpoch,
             to : Someone]
NoTakeover == [state |-> "absent", from |-> NoSession, fromEpoch |-> 0,
               to |-> NoSession]

Offer == [from : Someone, epoch : 0..MaxEpoch]
NoOffer == [from |-> NoSession, epoch |-> 0]

WorkStates == {"absent", "admitted", "running", "reported", "settled"}

\* What a manifest may name: an unsettled revision with an attempt, an
\* undecided result, an unanswered worker message.
Items == {"task", "result", "message"} \X Tasks
OpenItems ==
    ({"task"} \X {t \in Tasks : work[t] \in {"running", "reported"}})
    \cup ({"result"} \X {t \in Tasks : work[t] = "reported"})
    \cup ({"message"} \X asking)

Ops == {"idle", "first_bind", "binding", "preparing", "acting", "resuming",
        "taking"}
Command == [op : Ops, key : Keys \cup {NoKey}, epoch : 0..MaxEpoch,
            items : SUBSET Items]
Idle == [op |-> "idle", key |-> NoKey, epoch |-> 0, items |-> {}]

TypeOK ==
    /\ head \in Someone
    /\ epoch \in 0..MaxEpoch
    /\ takeover \in [Keys -> Takeover]
    /\ offer \in [Keys -> Offer]
    /\ work \in [Tasks -> WorkStates]
    /\ asking \subseteq Tasks
    /\ cmd \in [Sessions -> Command]
    /\ \A k \in Keys : takeover[k].state # "absent" =>
          /\ takeover[k].from \in Sessions /\ takeover[k].to \in Sessions
          /\ takeover[k].from # takeover[k].to

Init ==
    /\ head = NoSession
    /\ epoch = 0
    /\ takeover = [k \in Keys |-> NoTakeover]
    /\ offer = [k \in Keys |-> NoOffer]
    /\ work = [t \in Tasks |-> "absent"]
    /\ asking = {}
    /\ cmd = [s \in Sessions |-> Idle]

-----------------------------------------------------------------------------
(* Transactions and checks that several commands share. *)

Open(k) == takeover[k].state \in OpenStates
NoneOpen == \A k \in Keys : ~Open(k)
CommittedEpoch(k) == takeover[k].fromEpoch + 1

\* A key that names neither a takeover nor an offer: commands make up a UUID.
Fresh(k) == takeover[k].state = "absent" /\ offer[k] = NoOffer

\* Mistake: a new session is bound under the old epoch.
RebindKeepingEpoch(s) ==
    \/ head = s /\ UNCHANGED binding
    \/ head # s /\ head' = s /\ epoch' = IF epoch = 0 THEN 1 ELSE epoch

\* The same session keeps its epoch; another takes the next one.
Rebind(s) ==
    \/ head = s /\ UNCHANGED binding
    \/ head # s /\ epoch < MaxEpoch /\ head' = s /\ epoch' = epoch + 1

\* Mistake: whoever writes resumes the committed takeover.
ResumedByAnyWrite(s, e) ==
    [k \in Keys |->
        IF takeover[k].state = "committed"
        THEN [takeover[k] EXCEPT !.state = "resumed"]
        ELSE takeover[k]]

\* The owner-side write of session s at epoch e resumes the takeover that made
\* s the head at e, if it is still committed.
Resumed(s, e) ==
    [k \in Keys |->
        IF /\ takeover[k].state = "committed" /\ takeover[k].to = s
           /\ CommittedEpoch(k) = e
        THEN [takeover[k] EXCEPT !.state = "resumed"]
        ELSE takeover[k]]

Start(s, op, k, e, items) ==
    /\ cmd[s] = Idle
    /\ cmd' = [cmd EXCEPT ![s] = [op |-> op, key |-> k, epoch |-> e, items |-> items]]

Finish(s) == cmd' = [cmd EXCEPT ![s] = Idle]

SetState(k, state) == takeover' = [takeover EXCEPT ![k].state = state]

-----------------------------------------------------------------------------
(* Binding without a takeover. *)

\* The SessionStart hook binds its own owner if nobody has.
HookBind(s) ==
    /\ head = NoSession
    /\ Rebind(s)
    /\ UNCHANGED <<takeover, offer, tasks, cmd>>

\* A start in an unbound owner reads the binding, then rebinds unconditionally.
CheckUnbound(s) ==
    /\ head = NoSession
    /\ Start(s, "first_bind", NoKey, 0, {})
    /\ UNCHANGED <<binding, takeover, offer, tasks>>

BindUnbound(s) ==
    /\ cmd[s].op = "first_bind"
    /\ Rebind(s)
    /\ Finish(s)
    /\ UNCHANGED <<takeover, offer, tasks>>

\* `brgr bind` is refused while a takeover is open; the write comes later.
CheckBind(s) ==
    /\ NoneOpen
    /\ Start(s, "binding", NoKey, 0, {})
    /\ UNCHANGED <<binding, takeover, offer, tasks>>

Bind(s) ==
    /\ cmd[s].op = "binding"
    /\ Rebind(s)
    /\ Finish(s)
    /\ UNCHANGED <<takeover, offer, tasks>>

-----------------------------------------------------------------------------
(* A takeover between two cooperating sessions. *)

\* Mistakes: a request beside an open takeover, and one to oneself.
RequestBesideOpen(s, to, k) ==
    /\ head = s /\ s # to
    /\ Fresh(k)
    /\ takeover' = [takeover EXCEPT ![k] = [state |-> "requested", from |-> s,
                                            fromEpoch |-> epoch, to |-> to]]
    /\ UNCHANGED <<binding, offer, tasks, cmd>>
RequestToSelf(s, to, k) ==
    /\ head = s
    /\ Fresh(k)
    /\ NoneOpen
    /\ takeover' = [takeover EXCEPT ![k] = [state |-> "requested", from |-> s,
                                            fromEpoch |-> epoch, to |-> to]]
    /\ UNCHANGED <<binding, offer, tasks, cmd>>

Request(s, to, k) ==
    /\ head = s /\ s # to
    /\ Fresh(k)
    /\ NoneOpen
    /\ takeover' = [takeover EXCEPT ![k] = [state |-> "requested", from |-> s,
                                            fromEpoch |-> epoch, to |-> to]]
    /\ UNCHANGED <<binding, offer, tasks, cmd>>

\* prepare checks the head and collects the references before its transaction,
\* which validates the references again but not the head.
CollectReferences(s, k) ==
    /\ takeover[k].state = "requested" /\ takeover[k].from = s
    /\ head = s
    /\ Start(s, "preparing", k, 0, OpenItems)
    /\ UNCHANGED <<binding, takeover, offer, tasks>>

Prepare(s) ==
    /\ cmd[s].op = "preparing"
    /\ takeover[cmd[s].key].state = "requested"
    /\ cmd[s].items \subseteq OpenItems
    /\ SetState(cmd[s].key, "prepared")
    /\ Finish(s)
    /\ UNCHANGED <<binding, offer, tasks>>

\* Mistake: the epoch of the request is not compared.
CommitForSession(s, k) ==
    /\ takeover[k].to = s
    /\ takeover[k].state = "prepared"
    /\ head = takeover[k].from
    /\ Rebind(s)
    /\ SetState(k, "committed")
    /\ UNCHANGED <<offer, tasks, cmd>>

\* Moves the binding; repeated later it only reports the record.
Commit(s, k) ==
    /\ takeover[k].to = s
    /\ takeover[k].state = "prepared"
    /\ head = takeover[k].from /\ epoch = takeover[k].fromEpoch
    /\ Rebind(s)
    /\ SetState(k, "committed")
    /\ UNCHANGED <<offer, tasks, cmd>>

\* Mistake: anything that is still open may be aborted.
AbortWhileOpen(s, k) ==
    /\ s \in {takeover[k].from, takeover[k].to}
    /\ Open(k)
    /\ SetState(k, "aborted")
    /\ UNCHANGED <<binding, offer, tasks, cmd>>

Abort(s, k) ==
    /\ s \in {takeover[k].from, takeover[k].to}
    /\ takeover[k].state \in Pending
    /\ SetState(k, "aborted")
    /\ UNCHANGED <<binding, offer, tasks, cmd>>

-----------------------------------------------------------------------------
(* Taking the head without the outgoing session. *)

\* One transaction: it supersedes an open takeover that holds the head, and
\* records a new one that is committed at once.
ClaimHead(s, k) ==
    /\ head \notin {s, NoSession}
    /\ takeover[k].state = "absent"
    /\ \A j \in Keys : Open(j) =>
          /\ takeover[j].state \in {"committed", "resumed"}
          /\ takeover[j].to = head /\ CommittedEpoch(j) = epoch
    /\ takeover' =
          [j \in Keys |->
              IF j = k THEN [state |-> "committed", from |-> head,
                             fromEpoch |-> epoch, to |-> s]
              ELSE IF Open(j) THEN [takeover[j] EXCEPT !.state = "superseded"]
              ELSE takeover[j]]
    /\ Rebind(s)

\* `head claim --abandoned`, under a key of its own.
Claim(s, k) ==
    /\ Fresh(k)
    /\ ClaimHead(s, k)
    /\ UNCHANGED <<offer, tasks, cmd>>

\* `head handoff` leaves an offer and opens a pane for the incoming session.
MakeOffer(s, k) ==
    /\ head = s
    /\ NoneOpen
    /\ Fresh(k)
    /\ offer' = [offer EXCEPT ![k] = [from |-> s, epoch |-> epoch]]
    /\ UNCHANGED <<binding, takeover, tasks, cmd>>

\* `head take` compares the binding with the offer, then claims whatever head
\* it finds.
CheckOffer(s, k) ==
    /\ offer[k] # NoOffer
    /\ head # s
    /\ head = offer[k].from /\ epoch = offer[k].epoch
    /\ Start(s, "taking", k, 0, {})
    /\ UNCHANGED <<binding, takeover, offer, tasks>>

Take(s) ==
    /\ cmd[s].op = "taking"
    /\ ClaimHead(s, cmd[s].key)
    /\ Finish(s)
    /\ UNCHANGED <<offer, tasks>>

-----------------------------------------------------------------------------
(* The head at work, and the end of a takeover. *)

\* Every owner command reads its proof first ...
ReadProof(s) ==
    /\ head = s
    /\ Start(s, "acting", NoKey, epoch, {})
    /\ UNCHANGED <<binding, takeover, offer, tasks>>

\* ... and writes in a transaction that compares it with the binding.
OwnerWrite(s) ==
    /\ cmd[s].op = "acting"
    /\ head = s /\ epoch = cmd[s].epoch
    /\ takeover' = Resumed(s, epoch)
    /\ \/ \E t \in Tasks : /\ work[t] = "absent"
                           /\ work' = [work EXCEPT ![t] = "admitted"]
                           /\ UNCHANGED asking
       \/ \E t \in Tasks : /\ work[t] = "reported"
                           /\ work' = [work EXCEPT ![t] = "settled"]
                           /\ UNCHANGED asking
       \/ \E t \in asking : asking' = asking \ {t} /\ UNCHANGED work
       \/ UNCHANGED tasks
    /\ Finish(s)
    /\ UNCHANGED <<binding, offer>>

\* retire of a committed takeover looks for open work outside a transaction.
CheckIdle(s, k) ==
    /\ takeover[k].state = "committed" /\ takeover[k].to = s
    /\ OpenItems = {}
    /\ Start(s, "resuming", k, 0, {})
    /\ UNCHANGED <<binding, takeover, offer, tasks>>

ResumeIdle(s) ==
    /\ cmd[s].op = "resuming"
    /\ head = s /\ epoch = CommittedEpoch(cmd[s].key)
    /\ takeover' = Resumed(s, epoch)
    /\ Finish(s)
    /\ UNCHANGED <<binding, offer, tasks>>

Retire(s, k) ==
    /\ takeover[k].state = "resumed" /\ takeover[k].to = s
    /\ \E end \in {"retired", "retire_failed"} : SetState(k, end)
    /\ UNCHANGED <<binding, offer, tasks, cmd>>

\* A command is refused, or dies between its two transactions.
GiveUp(s) ==
    /\ cmd[s] # Idle
    /\ Finish(s)
    /\ UNCHANGED <<binding, takeover, offer, tasks>>

-----------------------------------------------------------------------------
(* The workers. *)

WorkerStarts(t) ==
    /\ work[t] = "admitted"
    /\ work' = [work EXCEPT ![t] = "running"]
    /\ UNCHANGED <<binding, takeover, offer, asking, cmd>>

WorkerAsks(t) ==
    /\ work[t] = "running"
    /\ asking' = asking \cup {t}
    /\ UNCHANGED <<binding, takeover, offer, work, cmd>>

WorkerReports(t) ==
    /\ work[t] = "running"
    /\ work' = [work EXCEPT ![t] = "reported"]
    /\ UNCHANGED <<binding, takeover, offer, asking, cmd>>

Binding(s) == \/ HookBind(s) \/ CheckUnbound(s) \/ BindUnbound(s)
              \/ CheckBind(s) \/ Bind(s)
HeadCommand(s, k) ==
    \/ \E to \in Sessions : Request(s, to, k)
    \/ CollectReferences(s, k) \/ Commit(s, k) \/ Abort(s, k)
    \/ Claim(s, k) \/ MakeOffer(s, k) \/ CheckOffer(s, k)
    \/ CheckIdle(s, k) \/ Retire(s, k)
SecondStep(s) == Prepare(s) \/ Take(s) \/ OwnerWrite(s) \/ ResumeIdle(s)

Next ==
    \/ \E s \in Sessions : Binding(s) \/ ReadProof(s) \/ SecondStep(s) \/ GiveUp(s)
    \/ \E s \in Sessions, k \in Keys : HeadCommand(s, k)
    \/ \E t \in Tasks : WorkerStarts(t) \/ WorkerAsks(t) \/ WorkerReports(t)

Spec == Init /\ [][Next]_vars

-----------------------------------------------------------------------------
(* Properties. *)

\* At most one takeover of an owner is open.  request and claim look before
\* they insert; the partial unique index one_open_takeover_per_owner would
\* otherwise turn their success into an SQL error.
OneOpenTakeover == \A j, k \in Keys : Open(j) /\ Open(k) => j = k

\* The binding epoch tells takeovers apart: the epoch a takeover committed at
\* has been reached, belongs to no other takeover, and while it lasts the head
\* is the incoming session; until then, while the epoch of the request lasts,
\* the head is still the outgoing one.
EpochFencing ==
    \A k \in Keys :
        /\ takeover[k].state \in Moved =>
              /\ CommittedEpoch(k) <= epoch
              /\ CommittedEpoch(k) = epoch => head = takeover[k].to
              /\ \A j \in Keys \ {k} : takeover[j].state \in Moved =>
                     CommittedEpoch(j) # CommittedEpoch(k)
        /\ takeover[k].state \in Pending =>
              /\ takeover[k].fromEpoch <= epoch
              /\ takeover[k].fromEpoch = epoch => head = takeover[k].from

\* The handoff graph (TakeoverState::allows), which superseding and resuming
\* write around, plus the claim that starts at committed: no takeover ever
\* leaves a terminal state, is aborted after the move or retired before it was
\* resumed.
Allowed == {<<"absent", "requested">>, <<"absent", "committed">>,
            <<"requested", "prepared">>, <<"requested", "aborted">>,
            <<"prepared", "committed">>, <<"prepared", "aborted">>,
            <<"committed", "resumed">>, <<"committed", "superseded">>,
            <<"resumed", "retired">>, <<"resumed", "retire_failed">>,
            <<"resumed", "superseded">>}
TakeoverGraph ==
    [][\A k \in Keys : takeover'[k].state # takeover[k].state =>
           <<takeover[k].state, takeover'[k].state>> \in Allowed]_vars

\* `resumed` proves that the incoming session was seen as the head: it is
\* recorded only while the incoming session holds the head at the committed
\* epoch, and by a command that session began after the commit.
ResumedByIncomingHead ==
    [][\A k \in Keys :
           takeover[k].state = "committed" /\ takeover'[k].state = "resumed" =>
               \E s \in Sessions :
                   /\ s = takeover[k].to /\ head = s
                   /\ epoch = CommittedEpoch(k)
                   /\ \/ cmd[s].op = "acting" /\ cmd[s].epoch = CommittedEpoch(k)
                      \/ cmd[s].op = "resuming" /\ cmd[s].key = k]_vars

\* One handoff at a time, and each knows by its epoch whether it still counts.
HeadSafety == OneOpenTakeover /\ EpochFencing

\* What a command may do to a takeover, however many sessions replay it.
TakeoverSteps == TakeoverGraph /\ ResumedByIncomingHead

\* The commands together implement the contract of a handoff.
OpenKey == IF NoneOpen THEN NoKey ELSE CHOOSE k \in Keys : Open(k)
BeganAt == IF NoneOpen THEN 0 ELSE takeover[OpenKey].fromEpoch
UsedKeys == {k \in Keys : takeover[k].state # "absent"}
MovedKeys == {k \in Keys : takeover[k].state \in Moved}
Contract == INSTANCE HandoffContract WITH
    open <- OpenKey, began <- BeganAt, used <- UsedKeys, moved <- MovedKeys
ImplementsContract == Contract!Spec
=============================================================================
