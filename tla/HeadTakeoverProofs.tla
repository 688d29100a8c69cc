-------------------------- MODULE HeadTakeoverProofs --------------------------
(***************************************************************************)
(* The head of an owner and its takeovers for any number of sessions, keys *)
(* and tasks, with every command of every session interleaved.             *)
(***************************************************************************)
EXTENDS HeadTakeover, TLAPS

\* What a command in progress knows of the takeover it is about.
CommandsOK ==
    \A s \in Sessions :
        /\ cmd[s].op \in {"preparing", "taking", "resuming"} => cmd[s].key \in Keys
        /\ cmd[s].op = "resuming" => /\ takeover[cmd[s].key].state \in Moved
                                     /\ takeover[cmd[s].key].to = s

HeadInv ==
    /\ TypeOK
    /\ OneOpenTakeover
    /\ EpochFencing
    /\ CommandsOK

-----------------------------------------------------------------------------
(* The ways in which a step writes the binding and the takeovers. *)

NoWrite == UNCHANGED <<binding, takeover>>
BindOnly == \E s \in Sessions : Rebind(s) /\ UNCHANGED takeover
NewRequest == \E s, to \in Sessions, k \in Keys :
    /\ head = s /\ s # to /\ Fresh(k) /\ NoneOpen
    /\ takeover' = [takeover EXCEPT ![k] = [state |-> "requested", from |-> s,
                                            fromEpoch |-> epoch, to |-> to]]
    /\ UNCHANGED binding
BeforeMove == \E k \in Keys, st \in {"prepared", "aborted"} :
    /\ takeover[k].state \in Pending
    /\ st = "prepared" => takeover[k].state = "requested"
    /\ SetState(k, st) /\ UNCHANGED binding
Committing == \E s \in Sessions, k \in Keys :
    /\ takeover[k].to = s /\ takeover[k].state = "prepared"
    /\ head = takeover[k].from /\ epoch = takeover[k].fromEpoch
    /\ Rebind(s) /\ SetState(k, "committed")
Claiming == \E s \in Sessions, k \in Keys : ClaimHead(s, k)
Acting == \E s \in Sessions :
    /\ head = s /\ takeover' = Resumed(s, epoch) /\ UNCHANGED binding
    /\ \/ cmd[s].op = "acting" /\ cmd[s].epoch = epoch
       \/ cmd[s].op = "resuming" /\ epoch = CommittedEpoch(cmd[s].key)
Retiring == \E k \in Keys, st \in {"retired", "retire_failed"} :
    /\ takeover[k].state = "resumed"
    /\ SetState(k, st) /\ UNCHANGED binding

Writing == \/ NoWrite \/ BindOnly \/ NewRequest \/ BeforeMove \/ Committing
           \/ Claiming \/ Acting \/ Retiring

\* Every step of the specification is one of these.
LEMMA EveryStepIsWriting ==
  ASSUME TypeOK, CommandsOK, [Next]_vars
  PROVE  Writing
<1>1. CASE UNCHANGED vars
  BY <1>1 DEF vars, binding, Writing, NoWrite
<1>2. ASSUME NEW s \in Sessions, Binding(s) \/ ReadProof(s) \/ GiveUp(s)
      PROVE  Writing
  BY <1>2 DEF Binding, HookBind, CheckUnbound, BindUnbound, CheckBind, Bind,
              ReadProof, GiveUp, Writing, NoWrite, BindOnly
<1>3. ASSUME NEW s \in Sessions, SecondStep(s)
      PROVE  Writing
  <2>1. CASE Prepare(s)
    <3>1. cmd[s].key \in Keys
      BY <2>1 DEF Prepare, CommandsOK
    <3>2. BeforeMove
      BY <2>1, <3>1 DEF Prepare, BeforeMove, Pending
    <3> QED BY <3>2 DEF Writing
  <2>2. CASE Take(s)
    <3>1. cmd[s].key \in Keys
      BY <2>2 DEF Take, CommandsOK
    <3>2. Claiming
      BY <2>2, <3>1 DEF Take, Claiming
    <3> QED BY <3>2 DEF Writing
  <2>3. CASE OwnerWrite(s) \/ ResumeIdle(s)
    BY <2>3 DEF OwnerWrite, ResumeIdle, Acting, Writing
  <2> QED BY <1>3, <2>1, <2>2, <2>3 DEF SecondStep
<1>4. ASSUME NEW s \in Sessions, NEW k \in Keys, HeadCommand(s, k)
      PROVE  Writing
  <2>1. CASE \E to \in Sessions : Request(s, to, k)
    BY <2>1 DEF Request, NewRequest, Writing
  <2>2. CASE Commit(s, k)
    BY <2>2 DEF Commit, Committing, Writing
  <2>3. CASE Abort(s, k)
    BY <2>3 DEF Abort, BeforeMove, Writing
  <2>4. CASE Claim(s, k)
    BY <2>4 DEF Claim, Claiming, Writing
  <2>5. CASE Retire(s, k)
    BY <2>5 DEF Retire, Retiring, Writing
  <2>6. CASE CollectReferences(s, k) \/ MakeOffer(s, k) \/ CheckOffer(s, k)
             \/ CheckIdle(s, k)
    BY <2>6 DEF CollectReferences, MakeOffer, CheckOffer, CheckIdle, Writing, NoWrite
  <2> QED BY <1>4, <2>1, <2>2, <2>3, <2>4, <2>5, <2>6 DEF HeadCommand
<1>5. ASSUME NEW t \in Tasks, WorkerStarts(t) \/ WorkerAsks(t) \/ WorkerReports(t)
      PROVE  Writing
  BY <1>5 DEF WorkerStarts, WorkerAsks, WorkerReports, Writing, NoWrite
<1> QED BY <1>1, <1>2, <1>3, <1>4, <1>5 DEF Next

\* A row of the table keeps its type under each of the writes.
RowsOK ==
    /\ head \in Someone /\ epoch \in 0..MaxEpoch
    /\ takeover \in [Keys -> Takeover]
    /\ \A k \in Keys : takeover[k].state # "absent" =>
          /\ takeover[k].from \in Sessions /\ takeover[k].to \in Sessions
          /\ takeover[k].from # takeover[k].to

LEMMA WritingKeepsRows ==
  ASSUME RowsOK, Writing
  PROVE  RowsOK'
<1> USE NoneAssumption, EpochAssumption
<1>0. \A s \in Sessions : Rebind(s) => head' \in Someone /\ epoch' \in 0..MaxEpoch
  BY DEF RowsOK, Rebind, binding, Someone
<1>1. CASE NoWrite
  BY <1>1 DEF NoWrite, RowsOK, binding
<1>2. CASE BindOnly
  BY <1>0, <1>2 DEF BindOnly, RowsOK
<1>3. CASE NewRequest
  BY <1>3 DEF NewRequest, RowsOK, Takeover, TakeoverStates, Pending, Someone, binding
<1>4. CASE BeforeMove
  BY <1>4 DEF BeforeMove, RowsOK, Takeover, TakeoverStates, Pending, SetState, binding
<1>5. CASE Committing
  BY <1>0, <1>5 DEF Committing, RowsOK, Takeover, TakeoverStates, Moved, SetState
<1>6. CASE Claiming
  <2>1. PICK s \in Sessions, k \in Keys : ClaimHead(s, k)
    BY <1>6 DEF Claiming
  <2>2. head' \in Someone /\ epoch' \in 0..MaxEpoch
    BY <1>0, <2>1 DEF ClaimHead
  <2>3. head \in Sessions /\ head # s
    BY <2>1 DEF ClaimHead, RowsOK, Someone
  <2>4. ASSUME NEW j \in Keys
        PROVE  /\ takeover'[j] \in Takeover
               /\ takeover'[j].state # "absent" =>
                    /\ takeover'[j].from \in Sessions /\ takeover'[j].to \in Sessions
                    /\ takeover'[j].from # takeover'[j].to
    BY <2>1, <2>3 DEF ClaimHead, RowsOK, Takeover, TakeoverStates, Moved, Someone,
                      Open, OpenStates, Pending
  <2>5. takeover' \in [Keys -> Takeover]
    BY <2>1, <2>4 DEF ClaimHead
  <2> QED BY <2>2, <2>4, <2>5 DEF RowsOK
<1>7. CASE Acting
  BY <1>7 DEF Acting, Resumed, RowsOK, Takeover, TakeoverStates, Moved, binding
<1>8. CASE Retiring
  BY <1>8 DEF Retiring, RowsOK, Takeover, TakeoverStates, Moved, SetState, binding
<1> QED BY <1>1, <1>2, <1>3, <1>4, <1>5, <1>6, <1>7, <1>8 DEF Writing

\* Commands, offers, tasks and messages keep their types.
RestOK ==
    /\ offer \in [Keys -> Offer]
    /\ work \in [Tasks -> WorkStates]
    /\ asking \subseteq Tasks
    /\ cmd \in [Sessions -> Command]

LEMMA StartFinishTypes ==
  ASSUME cmd \in [Sessions -> Command], NEW s \in Sessions
  PROVE  /\ Finish(s) => cmd' \in [Sessions -> Command]
         /\ \A op \in Ops, k \in Keys \cup {NoKey}, e \in 0..MaxEpoch,
               items \in SUBSET Items :
               Start(s, op, k, e, items) => cmd' \in [Sessions -> Command]
<1>1. Idle \in Command
  BY EpochAssumption DEF Idle, Command, Ops
<1>2. Finish(s) => cmd' \in [Sessions -> Command]
  BY <1>1 DEF Finish
<1>3. \A op \in Ops, k \in Keys \cup {NoKey}, e \in 0..MaxEpoch, items \in SUBSET Items :
         Start(s, op, k, e, items) => cmd' \in [Sessions -> Command]
  BY DEF Start, Command
<1> QED BY <1>2, <1>3

LEMMA RestStep ==
  ASSUME RestOK, RowsOK, [Next]_vars
  PROVE  RestOK'
<1>0. Ops = {"idle", "first_bind", "binding", "preparing", "acting", "resuming", "taking"}
      /\ NoKey \in Keys \cup {NoKey} /\ 0 \in 0..MaxEpoch /\ epoch \in 0..MaxEpoch
      /\ {} \in SUBSET Items /\ (OpenItems \in SUBSET Items)
  BY EpochAssumption DEF Ops, OpenItems, Items, RestOK, RowsOK
<1>1. CASE UNCHANGED vars
  BY <1>1 DEF vars, RestOK, tasks
<1>2. ASSUME NEW s \in Sessions, Binding(s) \/ ReadProof(s) \/ GiveUp(s)
      PROVE  RestOK'
  <2>1. UNCHANGED <<offer, work, asking>>
    BY <1>2 DEF Binding, HookBind, CheckUnbound, BindUnbound, CheckBind, Bind,
                ReadProof, GiveUp, tasks
  <2>2. cmd' \in [Sessions -> Command]
    BY <1>0, <1>2, StartFinishTypes
    DEF Binding, HookBind, CheckUnbound, BindUnbound, CheckBind, Bind,
        ReadProof, GiveUp, RestOK
  <2> QED BY <2>1, <2>2 DEF RestOK
<1>3. ASSUME NEW s \in Sessions, SecondStep(s)
      PROVE  RestOK'
  <2>1. cmd' \in [Sessions -> Command] /\ offer' = offer
    BY <1>3, StartFinishTypes
    DEF SecondStep, Prepare, Take, OwnerWrite, ResumeIdle, RestOK
  <2>2. work' \in [Tasks -> WorkStates] /\ asking' \subseteq Tasks
    BY <1>3 DEF SecondStep, Prepare, Take, OwnerWrite, ResumeIdle, RestOK, WorkStates,
                tasks
  <2> QED BY <2>1, <2>2 DEF RestOK
<1>4. ASSUME NEW s \in Sessions, NEW k \in Keys, HeadCommand(s, k)
      PROVE  RestOK'
  <2>1. UNCHANGED <<work, asking>>
    BY <1>4 DEF HeadCommand, Request, CollectReferences, Commit, Abort, Claim,
                MakeOffer, CheckOffer, CheckIdle, Retire, tasks
  <2>2. cmd' \in [Sessions -> Command]
    BY <1>0, <1>4, StartFinishTypes
    DEF HeadCommand, Request, CollectReferences, Commit, Abort, Claim,
        MakeOffer, CheckOffer, CheckIdle, Retire, RestOK
  <2>3. offer' \in [Keys -> Offer]
    <3>1. CASE MakeOffer(s, k)
      BY <1>0, <3>1 DEF MakeOffer, RestOK, Offer, Someone
    <3>2. CASE offer' = offer
      BY <3>2 DEF RestOK
    <3> QED BY <1>4, <3>1, <3>2
            DEF HeadCommand, Request, CollectReferences, Commit, Abort, Claim,
                CheckOffer, CheckIdle, Retire
  <2> QED BY <2>1, <2>2, <2>3 DEF RestOK
<1>5. ASSUME NEW t \in Tasks, WorkerStarts(t) \/ WorkerAsks(t) \/ WorkerReports(t)
      PROVE  RestOK'
  BY <1>5 DEF WorkerStarts, WorkerAsks, WorkerReports, RestOK, WorkStates
<1> QED BY <1>1, <1>2, <1>3, <1>4, <1>5 DEF Next

LEMMA TypeIsRowsAndRest == TypeOK <=> RowsOK /\ RestOK
BY DEF TypeOK, RowsOK, RestOK

-----------------------------------------------------------------------------
(* The takeovers. *)

\* A request needs that none is open, a claim supersedes what is.
LEMMA OneOpenStep ==
  ASSUME RowsOK, OneOpenTakeover, Writing
  PROVE  OneOpenTakeover'
<1> USE DEF RowsOK, OneOpenTakeover, Open, OpenStates, Pending
<1>1. CASE NoWrite
  BY <1>1 DEF NoWrite
<1>2. CASE BindOnly
  BY <1>2 DEF BindOnly
<1>3. CASE NewRequest
  BY <1>3 DEF NewRequest, NoneOpen, Takeover
<1>4. CASE BeforeMove
  BY <1>4 DEF BeforeMove, SetState, Takeover
<1>5. CASE Committing
  BY <1>5 DEF Committing, SetState, Takeover
<1>6. CASE Claiming
  <2>1. PICK s \in Sessions, k \in Keys : ClaimHead(s, k)
    BY <1>6 DEF Claiming
  <2>2. \A j \in Keys : takeover'[j].state \in OpenStates => j = k
    BY <2>1 DEF ClaimHead, Takeover
  <2> QED BY <2>2
<1>7. CASE Acting
  BY <1>7 DEF Acting, Resumed, Takeover
<1>8. CASE Retiring
  BY <1>8 DEF Retiring, SetState, Takeover
<1> QED BY <1>1, <1>2, <1>3, <1>4, <1>5, <1>6, <1>7, <1>8 DEF Writing

\* The epoch a takeover names, and what it says of the head, for one row.
Fenced(k) ==
    /\ takeover[k].state \in Moved =>
          /\ CommittedEpoch(k) <= epoch
          /\ CommittedEpoch(k) = epoch => head = takeover[k].to
    /\ takeover[k].state \in Pending =>
          /\ takeover[k].fromEpoch <= epoch
          /\ takeover[k].fromEpoch = epoch => head = takeover[k].from
Distinct(j, k) ==
    j # k /\ takeover[j].state \in Moved /\ takeover[k].state \in Moved =>
        CommittedEpoch(j) # CommittedEpoch(k)

LEMMA FencingByRows ==
  EpochFencing <=> /\ \A k \in Keys : Fenced(k)
                   /\ \A j, k \in Keys : Distinct(j, k)
BY DEF EpochFencing, Fenced, Distinct

\* A step that leaves a row, except for its state, as it was, does not move it
\* and does not lower the epoch keeps the row fenced; so does the move itself.
LEMMA FencedStep ==
  ASSUME RowsOK, RowsOK', NEW k \in Keys, Fenced(k),
         takeover'[k].from = takeover[k].from, takeover'[k].to = takeover[k].to,
         takeover'[k].fromEpoch = takeover[k].fromEpoch,
         takeover'[k].state \in Moved => takeover[k].state \in Moved,
         takeover'[k].state \in Pending => takeover[k].state \in Pending,
         UNCHANGED binding \/ epoch' = epoch + 1
  PROVE  Fenced(k)'
<1>1. takeover[k].fromEpoch \in Nat /\ epoch \in Nat
  BY EpochAssumption DEF RowsOK, Takeover
<1> QED BY <1>1 DEF Fenced, CommittedEpoch, binding

LEMMA FencingStep ==
  ASSUME RowsOK, RowsOK', EpochFencing, Writing
  PROVE  EpochFencing'
<1>0. /\ \A k \in Keys : takeover[k].fromEpoch \in Nat
      /\ epoch \in Nat /\ \A k \in Keys : Fenced(k)
      /\ \A j, k \in Keys : Distinct(j, k)
  BY EpochAssumption, FencingByRows DEF RowsOK, Takeover
<1>1. \A s : Rebind(s) => UNCHANGED binding \/ (epoch' = epoch + 1 /\ head' = s)
  BY DEF Rebind
\* Steps after which no row has moved that had not moved before.
<1>2. ASSUME UNCHANGED binding \/ epoch' = epoch + 1,
             \A k \in Keys : /\ takeover'[k].from = takeover[k].from
                             /\ takeover'[k].to = takeover[k].to
                             /\ takeover'[k].fromEpoch = takeover[k].fromEpoch
                             /\ takeover'[k].state \in Moved => takeover[k].state \in Moved
                             /\ takeover'[k].state \in Pending => takeover[k].state \in Pending
      PROVE  EpochFencing'
  <2>1. \A k \in Keys : Fenced(k)'
    BY <1>0, <1>2, FencedStep
  <2>2. \A j, k \in Keys : Distinct(j, k)'
    BY <1>0, <1>2 DEF Distinct, CommittedEpoch
  <2> QED BY <2>1, <2>2 DEF EpochFencing, Fenced, Distinct
\* Steps that move the head with takeover k.
<1>3. ASSUME NEW k \in Keys, NEW s \in Sessions,
             epoch' = epoch + 1, head' = s,
             takeover'[k].state \in Moved, takeover'[k].state \notin Pending,
             takeover'[k].fromEpoch = epoch, takeover'[k].to = s,
             \A j \in Keys \ {k} :
                /\ takeover'[j].from = takeover[j].from
                /\ takeover'[j].to = takeover[j].to
                /\ takeover'[j].fromEpoch = takeover[j].fromEpoch
                /\ takeover'[j].state \in Moved => takeover[j].state \in Moved
                /\ takeover'[j].state \in Pending => takeover[j].state \in Pending
      PROVE  EpochFencing'
  <2>1. \A j \in Keys \ {k} : Fenced(j)'
    BY <1>0, <1>3, FencedStep
  <2>2. Fenced(k)'
    BY <1>0, <1>3 DEF Fenced, CommittedEpoch
  <2>3. \A j \in Keys \ {k} : takeover'[j].state \in Moved => takeover'[j].fromEpoch < epoch
    BY <1>0, <1>3 DEF Fenced, CommittedEpoch
  <2>4. \A i, j \in Keys \ {k} : Distinct(i, j)'
    BY <1>0, <1>3 DEF Distinct, CommittedEpoch
  <2>5. \A i, j \in Keys : Distinct(i, j)'
    BY <1>0, <1>3, <2>3, <2>4 DEF Distinct, CommittedEpoch
  <2> QED BY <2>1, <2>2, <2>5 DEF EpochFencing, Fenced, Distinct
<1>4. CASE NoWrite
  BY <1>2, <1>4 DEF NoWrite
<1>5. CASE BindOnly
  BY <1>1, <1>2, <1>5 DEF BindOnly
<1>6. CASE NewRequest
  <2>1. PICK s, to \in Sessions, k \in Keys :
           /\ head = s
           /\ takeover' = [takeover EXCEPT ![k] = [state |-> "requested", from |-> s,
                                                   fromEpoch |-> epoch, to |-> to]]
           /\ UNCHANGED binding
    BY <1>6 DEF NewRequest
  <2>2. Fenced(k)' /\ takeover'[k].state \notin Moved
    BY <1>0, <2>1 DEF Fenced, RowsOK, Pending, Moved, binding
  <2>3. \A j \in Keys \ {k} : takeover'[j] = takeover[j]
    BY <2>1 DEF RowsOK
  <2>4. \A j \in Keys : Fenced(j)'
    BY <1>0, <2>1, <2>2, <2>3, FencedStep
  <2>5. \A i, j \in Keys : Distinct(i, j)'
    BY <1>0, <2>2, <2>3 DEF Distinct, CommittedEpoch
  <2> QED BY <2>4, <2>5 DEF EpochFencing, Fenced, Distinct
<1>7. CASE BeforeMove
  BY <1>2, <1>7 DEF BeforeMove, SetState, RowsOK, Takeover, Pending, Moved
<1>8. CASE Committing
  <2>1. PICK s \in Sessions, k \in Keys :
           /\ takeover[k].to = s /\ takeover[k].state = "prepared"
           /\ head = takeover[k].from /\ epoch = takeover[k].fromEpoch
           /\ Rebind(s) /\ SetState(k, "committed")
    BY <1>8 DEF Committing
  <2>2. head # s
    BY <2>1 DEF RowsOK
  <2>3. epoch' = epoch + 1 /\ head' = s
    BY <2>1, <2>2 DEF Rebind
  <2>4. /\ takeover'[k] = [takeover[k] EXCEPT !.state = "committed"]
        /\ \A j \in Keys \ {k} : takeover'[j] = takeover[j]
    BY <2>1 DEF SetState, RowsOK
  <2>5. /\ takeover'[k].state = "committed" /\ takeover'[k].to = s
        /\ takeover'[k].fromEpoch = epoch
    BY <2>1, <2>4 DEF RowsOK, Takeover
  <2> QED BY <1>3, <2>3, <2>4, <2>5 DEF Moved, Pending
<1>9. CASE Claiming
  <2>1. PICK s \in Sessions, k \in Keys : ClaimHead(s, k)
    BY <1>9 DEF Claiming
  <2>2. epoch' = epoch + 1 /\ head' = s
    BY <2>1 DEF ClaimHead, Rebind
  <2>3. takeover'[k] = [state |-> "committed", from |-> head, fromEpoch |-> epoch, to |-> s]
    BY <2>1 DEF ClaimHead
  <2>4. ASSUME NEW j \in Keys \ {k}
        PROVE  /\ takeover'[j].from = takeover[j].from
               /\ takeover'[j].to = takeover[j].to
               /\ takeover'[j].fromEpoch = takeover[j].fromEpoch
               /\ takeover'[j].state \in Moved => takeover[j].state \in Moved
               /\ takeover'[j].state \in Pending => takeover[j].state \in Pending
    BY <2>1 DEF ClaimHead, RowsOK, Takeover, Open, OpenStates, Pending, Moved
  <2> QED BY <1>3, <2>2, <2>3, <2>4 DEF Moved, Pending
<1>10. CASE Acting
  BY <1>2, <1>10 DEF Acting, Resumed, RowsOK, Takeover, Pending, Moved
<1>11. CASE Retiring
  BY <1>2, <1>11 DEF Retiring, SetState, RowsOK, Takeover, Pending, Moved
<1> QED BY <1>4, <1>5, <1>6, <1>7, <1>8, <1>9, <1>10, <1>11 DEF Writing

\* No step takes a takeover back to before its move, or changes its sessions.
LEMMA MovedStaysMoved ==
  ASSUME RowsOK, Writing, NEW k \in Keys, takeover[k].state \in Moved
  PROVE  takeover'[k].state \in Moved /\ takeover'[k].to = takeover[k].to
<1> USE DEF Moved, RowsOK, Takeover
<1>1. CASE NoWrite
  BY <1>1 DEF NoWrite
<1>2. CASE BindOnly
  BY <1>2 DEF BindOnly
<1>3. CASE NewRequest
  BY <1>3 DEF NewRequest, Fresh
<1>4. CASE BeforeMove
  BY <1>4 DEF BeforeMove, SetState, Pending
<1>5. CASE Committing
  BY <1>5 DEF Committing, SetState
<1>6. CASE Claiming
  BY <1>6 DEF Claiming, ClaimHead
<1>7. CASE Acting
  BY <1>7 DEF Acting, Resumed
<1>8. CASE Retiring
  BY <1>8 DEF Retiring, SetState
<1> QED BY <1>1, <1>2, <1>3, <1>4, <1>5, <1>6, <1>7, <1>8 DEF Writing

\* A command that is under way when a step ends was under way before, or the
\* step began it.
LEMMA CommandsStep ==
  ASSUME TypeOK, CommandsOK, [Next]_vars
  PROVE  CommandsOK'
<1>0. RowsOK /\ Writing
  BY TypeIsRowsAndRest, EveryStepIsWriting
<1>1. ASSUME NEW s \in Sessions, cmd'[s] = cmd[s] \/ cmd'[s].op \notin
             {"preparing", "taking", "resuming"}
      PROVE  /\ cmd'[s].op \in {"preparing", "taking", "resuming"} => cmd'[s].key \in Keys
             /\ cmd'[s].op = "resuming" => /\ takeover'[cmd'[s].key].state \in Moved
                                           /\ takeover'[cmd'[s].key].to = s
  BY <1>0, <1>1, MovedStaysMoved DEF CommandsOK
<1>2. ASSUME NEW s \in Sessions, Finish(s) \/ \E e : Start(s, "acting", NoKey, e, {})
             \/ Start(s, "binding", NoKey, 0, {}) \/ Start(s, "first_bind", NoKey, 0, {})
      PROVE  \A q \in Sessions : cmd'[q] = cmd[q] \/ cmd'[q].op \notin
             {"preparing", "taking", "resuming"}
  BY <1>2 DEF Finish, Start, Idle, TypeOK
<1>3. CASE UNCHANGED cmd
  BY <1>1, <1>3 DEF CommandsOK
<1>4. ASSUME NEW s \in Sessions, Binding(s) \/ ReadProof(s) \/ GiveUp(s) \/ SecondStep(s)
      PROVE  CommandsOK'
  <2>1. \/ UNCHANGED cmd \/ Finish(s) \/ \E e : Start(s, "acting", NoKey, e, {})
        \/ Start(s, "binding", NoKey, 0, {}) \/ Start(s, "first_bind", NoKey, 0, {})
    BY <1>4 DEF Binding, HookBind, CheckUnbound, BindUnbound, CheckBind, Bind, ReadProof,
                GiveUp, SecondStep, Prepare, Take, OwnerWrite, ResumeIdle
  <2> QED BY <1>1, <1>2, <1>3, <2>1 DEF CommandsOK
<1>5. ASSUME NEW s \in Sessions, NEW k \in Keys, HeadCommand(s, k)
      PROVE  CommandsOK'
  <2>1. ASSUME NEW op \in {"preparing", "taking", "resuming"}, NEW items,
               Start(s, op, k, 0, items),
               op = "resuming" => takeover[k].state \in Moved /\ takeover[k].to = s
        PROVE  CommandsOK'
    <3>1. \A q \in Sessions \ {s} : cmd'[q] = cmd[q]
      BY <2>1 DEF Start, TypeOK
    <3>2. cmd'[s].op = op /\ cmd'[s].key = k
      BY <2>1 DEF Start, TypeOK
    <3>3. op = "resuming" => takeover'[k].state \in Moved /\ takeover'[k].to = s
      BY <1>0, <2>1, MovedStaysMoved
    <3>4. \A q \in Sessions \ {s} :
             /\ cmd'[q].op \in {"preparing", "taking", "resuming"} => cmd'[q].key \in Keys
             /\ cmd'[q].op = "resuming" => /\ takeover'[cmd'[q].key].state \in Moved
                                           /\ takeover'[cmd'[q].key].to = q
      BY <1>1, <3>1
    <3> QED BY <3>2, <3>3, <3>4 DEF CommandsOK
  <2>2. CASE CollectReferences(s, k)
    BY <2>1, <2>2 DEF CollectReferences
  <2>3. CASE CheckOffer(s, k)
    BY <2>1, <2>3 DEF CheckOffer
  <2>4. CASE CheckIdle(s, k)
    BY <2>1, <2>4 DEF CheckIdle, Moved
  <2>5. CASE UNCHANGED cmd
    BY <1>3, <2>5
  <2> QED BY <1>5, <2>2, <2>3, <2>4, <2>5
          DEF HeadCommand, Request, Commit, Abort, Claim, MakeOffer, Retire
<1>6. CASE \E t \in Tasks : WorkerStarts(t) \/ WorkerAsks(t) \/ WorkerReports(t)
  BY <1>3, <1>6 DEF WorkerStarts, WorkerAsks, WorkerReports
<1> QED BY <1>3, <1>4, <1>5, <1>6 DEF Next, vars

LEMMA InitHeadInv == Init => HeadInv
<1> SUFFICES ASSUME Init PROVE HeadInv
  OBVIOUS
<1>1. TypeOK
  BY EpochAssumption DEF Init, TypeOK, Someone, Takeover, NoTakeover, TakeoverStates, Offer,
     NoOffer, WorkStates, Command, Idle, Ops
<1>2. OneOpenTakeover /\ EpochFencing
  BY DEF Init, OneOpenTakeover, EpochFencing, Open, OpenStates, Pending, Moved, NoTakeover
<1>3. CommandsOK
  BY DEF Init, CommandsOK, Idle
<1> QED BY <1>1, <1>2, <1>3 DEF HeadInv

LEMMA HeadInvStep == HeadInv /\ [Next]_vars => HeadInv'
<1> SUFFICES ASSUME HeadInv, [Next]_vars PROVE HeadInv'
  OBVIOUS
<1>1. RowsOK /\ RestOK /\ Writing
  BY TypeIsRowsAndRest, EveryStepIsWriting DEF HeadInv
<1>2. RowsOK' /\ RestOK'
  BY <1>1, WritingKeepsRows, RestStep
<1>3. TypeOK'
  BY <1>2 DEF TypeOK, RowsOK, RestOK
<1>4. OneOpenTakeover' /\ EpochFencing' /\ CommandsOK'
  BY <1>1, <1>2, OneOpenStep, FencingStep, CommandsStep DEF HeadInv
<1> QED BY <1>3, <1>4 DEF HeadInv

\* The inductive invariant of bindings, takeovers and commands in progress.
THEOREM HeadInvariant == Spec => []HeadInv
BY InitHeadInv, HeadInvStep, PTL DEF Spec

\* Types: a takeover always moves the head from one session to another.
THEOREM HeadTypeCorrect == Spec => []TypeOK
<1>1. HeadInv => TypeOK
  BY DEF HeadInv
<1> QED BY <1>1, HeadInvariant, PTL

\* request and claim alone keep one takeover open at a time.
THEOREM OneOpenTakeoverHolds == Spec => []OneOpenTakeover
<1>1. HeadInv => OneOpenTakeover
  BY DEF HeadInv
<1> QED BY <1>1, HeadInvariant, PTL

\* The binding epoch tells takeovers and heads apart.
THEOREM EpochFencingHolds == Spec => []EpochFencing
<1>1. HeadInv => EpochFencing
  BY DEF HeadInv
<1> QED BY <1>1, HeadInvariant, PTL

\* Both, for any number of sessions, keys and moves of the head.
THEOREM HeadSafetyHolds == Spec => []HeadSafety
<1>1. HeadInv => HeadSafety
  BY DEF HeadInv, HeadSafety
<1> QED BY <1>1, HeadInvariant, PTL

-----------------------------------------------------------------------------
(* What no step may do. *)

\* A row that changes its state takes an edge of the graph.
LEMMA GraphStep ==
  ASSUME RowsOK, Writing, NEW k \in Keys, takeover'[k].state # takeover[k].state
  PROVE  <<takeover[k].state, takeover'[k].state>> \in Allowed
<1> USE DEF RowsOK, Takeover, Allowed
<1>1. CASE NoWrite
  BY <1>1 DEF NoWrite
<1>2. CASE BindOnly
  BY <1>2 DEF BindOnly
<1>3. CASE NewRequest
  BY <1>3 DEF NewRequest, Fresh
<1>4. CASE BeforeMove
  BY <1>4 DEF BeforeMove, SetState, Pending
<1>5. CASE Committing
  BY <1>5 DEF Committing, SetState
<1>6. CASE Claiming
  BY <1>6 DEF Claiming, ClaimHead
<1>7. CASE Acting
  BY <1>7 DEF Acting, Resumed
<1>8. CASE Retiring
  BY <1>8 DEF Retiring, SetState
<1> QED BY <1>1, <1>2, <1>3, <1>4, <1>5, <1>6, <1>7, <1>8 DEF Writing

\* Only Acting resumes.  The row it resumes is the one the command is about,
\* since no two takeovers that moved the head share an epoch.
LEMMA ResumedStep ==
  ASSUME HeadInv, Writing, NEW k \in Keys,
         takeover[k].state = "committed", takeover'[k].state = "resumed"
  PROVE  \E s \in Sessions :
            /\ s = takeover[k].to /\ head = s
            /\ epoch = CommittedEpoch(k)
            /\ \/ cmd[s].op = "acting" /\ cmd[s].epoch = CommittedEpoch(k)
               \/ cmd[s].op = "resuming" /\ cmd[s].key = k
<1>0. RowsOK
  BY TypeIsRowsAndRest DEF HeadInv
<1>1. Acting
  <2> USE <1>0 DEF RowsOK, Takeover
  <2>1. ~NoWrite /\ ~BindOnly
    BY DEF NoWrite, BindOnly
  <2>2. ~NewRequest
    BY DEF NewRequest, Fresh
  <2>3. ~BeforeMove /\ ~Committing /\ ~Retiring
    BY DEF BeforeMove, Committing, Retiring, SetState
  <2>4. ~Claiming
    BY DEF Claiming, ClaimHead
  <2> QED BY <2>1, <2>2, <2>3, <2>4 DEF Writing
<1>2. PICK s \in Sessions :
         /\ head = s /\ takeover' = Resumed(s, epoch)
         /\ \/ cmd[s].op = "acting" /\ cmd[s].epoch = epoch
            \/ cmd[s].op = "resuming" /\ epoch = CommittedEpoch(cmd[s].key)
  BY <1>1 DEF Acting
<1>3. takeover[k].to = s /\ CommittedEpoch(k) = epoch
  BY <1>2 DEF Resumed
<1>4. ASSUME cmd[s].op = "resuming", epoch = CommittedEpoch(cmd[s].key)
      PROVE  cmd[s].key = k
  <2>1. cmd[s].key \in Keys /\ takeover[cmd[s].key].state \in Moved
    BY <1>4 DEF HeadInv, CommandsOK
  <2> QED BY <1>3, <1>4, <2>1 DEF HeadInv, EpochFencing, Moved
<1> QED BY <1>2, <1>3, <1>4

\* Takeovers move only along the handoff graph.
THEOREM TakeoverGraphHolds == Spec => TakeoverGraph
<1>1. HeadInv /\ [Next]_vars => [\A k \in Keys : takeover'[k].state # takeover[k].state =>
         <<takeover[k].state, takeover'[k].state>> \in Allowed]_vars
  BY TypeIsRowsAndRest, EveryStepIsWriting, GraphStep DEF HeadInv
<1> QED BY <1>1, HeadInvariant, PTL DEF Spec, TakeoverGraph

\* A takeover is resumed only by the incoming session, as the head at the
\* committed epoch.
THEOREM ResumedByIncomingHeadHolds == Spec => ResumedByIncomingHead
<1>1. HeadInv /\ [Next]_vars =>
        [\A k \in Keys :
           takeover[k].state = "committed" /\ takeover'[k].state = "resumed" =>
               \E s \in Sessions :
                   /\ s = takeover[k].to /\ head = s
                   /\ epoch = CommittedEpoch(k)
                   /\ \/ cmd[s].op = "acting" /\ cmd[s].epoch = CommittedEpoch(k)
                      \/ cmd[s].op = "resuming" /\ cmd[s].key = k]_vars
  BY EveryStepIsWriting, ResumedStep DEF HeadInv
<1> QED BY <1>1, HeadInvariant, PTL DEF Spec, ResumedByIncomingHead

\* What no command may do to a takeover, for any number of sessions and keys.
THEOREM TakeoverStepsHold == Spec => TakeoverSteps
BY TakeoverGraphHolds, ResumedByIncomingHeadHolds DEF TakeoverSteps

-----------------------------------------------------------------------------
(* The commands implement the contract. *)

\* The open key is the open takeover's.
LEMMA OpenKeyIs ==
  ASSUME OneOpenTakeover
  PROVE  /\ \A k \in Keys : Open(k) => /\ OpenKey = k
                                     /\ BeganAt = takeover[k].fromEpoch
         /\ NoneOpen => OpenKey = NoKey /\ BeganAt = 0
<1>1. ASSUME NEW k \in Keys, Open(k)
      PROVE  OpenKey = k /\ BeganAt = takeover[k].fromEpoch
  <2>1. ~NoneOpen
    BY <1>1 DEF NoneOpen
  <2>2. (CHOOSE j \in Keys : Open(j)) = k
    BY <1>1 DEF OneOpenTakeover
  <2> QED BY <2>1, <2>2 DEF OpenKey, BeganAt
<1>2. NoneOpen => OpenKey = NoKey /\ BeganAt = 0
  BY DEF OpenKey, BeganAt
<1> QED BY <1>1, <1>2

\* A step that opens and closes nothing, and moves nothing but the head.
LEMMA QuietStep ==
  ASSUME OneOpenTakeover, OneOpenTakeover',
         \A k \in Keys : /\ Open(k)' <=> Open(k)
                         /\ takeover'[k].fromEpoch = takeover[k].fromEpoch
                         /\ takeover'[k].state = "absent" <=> takeover[k].state = "absent"
                         /\ takeover'[k].state \in Moved <=> takeover[k].state \in Moved
  PROVE  UNCHANGED <<OpenKey, BeganAt, UsedKeys, MovedKeys>>
<1>1. UNCHANGED <<OpenKey, BeganAt>>
  <2>1. CASE NoneOpen
    <3>1. NoneOpen'
      BY <2>1 DEF NoneOpen
    <3> QED BY <2>1, <3>1 DEF OpenKey, BeganAt
  <2>2. CASE ~NoneOpen
    <3>1. PICK k \in Keys : Open(k)
      BY <2>2 DEF NoneOpen
    <3>2. OpenKey = k /\ BeganAt = takeover[k].fromEpoch
      BY <3>1, OpenKeyIs
    <3>3. Open(k)' /\ ~NoneOpen'
      BY <3>1 DEF NoneOpen
    <3>4. (CHOOSE j \in Keys : Open(j))' = k
      BY <3>3 DEF OneOpenTakeover
    <3> QED BY <3>2, <3>3, <3>4 DEF OpenKey, BeganAt
  <2> QED BY <2>1, <2>2
<1>2. UNCHANGED <<UsedKeys, MovedKeys>>
  BY DEF UsedKeys, MovedKeys
<1> QED BY <1>1, <1>2

\* The open takeover after a step, found like the one before it.
LEMMA OpenAfter ==
  ASSUME OneOpenTakeover', NEW k \in Keys, Open(k)'
  PROVE  OpenKey' = k /\ BeganAt' = takeover'[k].fromEpoch
<1>1. ~NoneOpen'
  BY DEF NoneOpen
<1>2. (CHOOSE j \in Keys : Open(j))' = k
  BY DEF OneOpenTakeover
<1> QED BY <1>1, <1>2 DEF OpenKey, BeganAt

\* Every write is a step of the contract, or invisible to it.
LEMMA ContractStep ==
  ASSUME HeadInv, HeadInv', Writing
  PROVE  [Contract!Next]_(Contract!vars)
<1>0. RowsOK /\ RowsOK' /\ OneOpenTakeover /\ OneOpenTakeover' /\ EpochFencing
  BY TypeIsRowsAndRest DEF HeadInv, TypeOK, RowsOK
<1>1. CASE NoWrite
  <2>1. UNCHANGED <<OpenKey, BeganAt, UsedKeys, MovedKeys>>
    BY <1>0, <1>1, QuietStep DEF NoWrite, Open
  <2> QED BY <1>1, <2>1 DEF NoWrite, binding, Contract!vars
<1>2. CASE BindOnly
  <2>1. UNCHANGED <<OpenKey, BeganAt, UsedKeys, MovedKeys>>
    BY <1>0, <1>2, QuietStep DEF BindOnly, Open
  <2>2. PICK s \in Sessions : Rebind(s)
    BY <1>2 DEF BindOnly
  <2>3. CASE UNCHANGED binding
    BY <2>1, <2>3 DEF binding, Contract!vars
  <2>4. CASE head # s /\ head' = s /\ epoch' = epoch + 1
    BY <2>1, <2>4 DEF Contract!Next, Contract!Bind, Contract!MoveHead
  <2> QED BY <2>2, <2>3, <2>4 DEF Rebind
<1>3. CASE NewRequest
  <2>1. PICK s, to \in Sessions, k \in Keys :
           /\ head = s /\ Fresh(k) /\ NoneOpen /\ UNCHANGED binding
           /\ takeover' = [takeover EXCEPT ![k] = [state |-> "requested", from |-> s,
                                                   fromEpoch |-> epoch, to |-> to]]
    BY <1>3 DEF NewRequest
  <2>2. takeover'[k].state = "requested" /\ takeover'[k].fromEpoch = epoch
    BY <1>0, <2>1 DEF RowsOK
  <2>3. OpenKey' = k /\ BeganAt' = epoch
    BY <1>0, <2>2, OpenAfter DEF Open, OpenStates, Pending
  <2>4. UsedKeys' = UsedKeys \cup {k} /\ k \notin UsedKeys
    BY <1>0, <2>1, <2>2 DEF UsedKeys, Fresh, RowsOK
  <2>5. MovedKeys' = MovedKeys
    BY <1>0, <2>1, <2>2 DEF MovedKeys, Fresh, RowsOK, Moved
  <2>6. head # NoSession
    BY <2>1, NoneAssumption
  <2>7. OpenKey = NoKey
    BY <2>1 DEF OpenKey
  <2> QED BY <2>1, <2>3, <2>4, <2>5, <2>6, <2>7
          DEF Contract!Next, Contract!Begin, binding
<1>4. CASE BeforeMove
  <2>1. PICK k \in Keys, st \in {"prepared", "aborted"} :
           takeover[k].state \in Pending /\ SetState(k, st) /\ UNCHANGED binding
    BY <1>4 DEF BeforeMove
  <2>2. /\ takeover'[k].state = st /\ takeover'[k].fromEpoch = takeover[k].fromEpoch
        /\ \A j \in Keys \ {k} : takeover'[j] = takeover[j]
    BY <1>0, <2>1 DEF SetState, RowsOK, Takeover
  <2>3. CASE st = "prepared"
    <3>1. UNCHANGED <<OpenKey, BeganAt, UsedKeys, MovedKeys>>
      BY <1>0, <2>1, <2>2, <2>3, QuietStep DEF Open, OpenStates, Pending, Moved
    <3> QED BY <2>1, <3>1 DEF binding, Contract!vars
  <2>4. CASE st = "aborted"
    <3>1. OpenKey = k
      BY <1>0, <2>1, OpenKeyIs DEF Open, OpenStates
    <3>2. NoneOpen'
      BY <1>0, <2>1, <2>2, <2>4 DEF NoneOpen, Open, OpenStates, Pending, OneOpenTakeover
    <3>3. OpenKey' = NoKey /\ BeganAt' = 0
      BY <3>2 DEF OpenKey, BeganAt
    <3>4. UNCHANGED <<UsedKeys, MovedKeys>>
      BY <2>1, <2>2, <2>4 DEF UsedKeys, MovedKeys, Pending, Moved
    <3> QED BY <2>1, <3>1, <3>3, <3>4, NoneAssumption
            DEF Contract!Next, Contract!Close, binding
  <2> QED BY <2>1, <2>3, <2>4
<1>5. CASE Committing
  <2>1. PICK s \in Sessions, k \in Keys :
           /\ takeover[k].to = s /\ takeover[k].state = "prepared"
           /\ head = takeover[k].from /\ epoch = takeover[k].fromEpoch
           /\ Rebind(s) /\ SetState(k, "committed")
    BY <1>5 DEF Committing
  <2>2. head # s /\ head' = s /\ epoch' = epoch + 1
    BY <1>0, <2>1 DEF RowsOK, Rebind
  <2>3. /\ takeover'[k].state = "committed" /\ takeover'[k].fromEpoch = epoch
        /\ \A j \in Keys \ {k} : takeover'[j] = takeover[j]
    BY <1>0, <2>1 DEF SetState, RowsOK, Takeover
  <2>4. OpenKey = k /\ BeganAt = epoch
    BY <1>0, <2>1, OpenKeyIs DEF Open, OpenStates, Pending
  <2>5. OpenKey' = k /\ BeganAt' = epoch
    BY <1>0, <2>3, OpenAfter DEF Open, OpenStates
  <2>6. k \notin MovedKeys /\ MovedKeys' = MovedKeys \cup {k} /\ UsedKeys' = UsedKeys
    BY <2>1, <2>3 DEF MovedKeys, UsedKeys, Moved
  <2> QED BY <2>2, <2>4, <2>5, <2>6
          DEF Contract!Next, Contract!Move, Contract!MoveHead
<1>6. CASE Claiming
  <2>1. PICK s \in Sessions, k \in Keys : ClaimHead(s, k)
    BY <1>6 DEF Claiming
  <2>2. head # NoSession /\ head # s /\ head' = s /\ epoch' = epoch + 1
    BY <2>1 DEF ClaimHead, Rebind
  <2>3. takeover'[k].state = "committed" /\ takeover'[k].fromEpoch = epoch
    BY <2>1 DEF ClaimHead
  <2>4. ASSUME NEW j \in Keys \ {k}
        PROVE  /\ takeover'[j].state \in Moved <=> takeover[j].state \in Moved
               /\ takeover'[j].state = "absent" <=> takeover[j].state = "absent"
    BY <1>0, <2>1 DEF ClaimHead, RowsOK, Takeover, Open, OpenStates, Pending, Moved
  <2>5. OpenKey' = k /\ BeganAt' = epoch
    BY <1>0, <2>3, OpenAfter DEF Open, OpenStates
  <2>6. OpenKey = NoKey \/ (OpenKey \in MovedKeys /\ epoch = BeganAt + 1)
    <3>1. ASSUME NEW j \in Keys, Open(j)
          PROVE  OpenKey \in MovedKeys /\ epoch = BeganAt + 1
      <4>1. OpenKey = j /\ BeganAt = takeover[j].fromEpoch
        BY <1>0, <3>1, OpenKeyIs
      <4> QED BY <2>1, <3>1, <4>1 DEF ClaimHead, CommittedEpoch, MovedKeys, Moved
    <3> QED BY <3>1 DEF OpenKey, NoneOpen
  <2>7. k \notin UsedKeys /\ UsedKeys' = UsedKeys \cup {k}
    BY <2>1, <2>3, <2>4 DEF UsedKeys, ClaimHead
  <2>8. MovedKeys' = MovedKeys \cup {k}
    BY <2>3, <2>4 DEF MovedKeys, Moved
  <2> QED BY <2>2, <2>5, <2>6, <2>7, <2>8
          DEF Contract!Next, Contract!Seize, Contract!MoveHead
<1>7. CASE Acting
  <2>1. UNCHANGED binding /\ \E s : takeover' = Resumed(s, epoch)
    BY <1>7 DEF Acting
  <2>2. UNCHANGED <<OpenKey, BeganAt, UsedKeys, MovedKeys>>
    BY <1>0, <2>1, QuietStep DEF Resumed, Open, OpenStates, Moved, RowsOK, Takeover
  <2> QED BY <2>1, <2>2 DEF binding, Contract!vars
<1>8. CASE Retiring
  <2>1. PICK k \in Keys, st \in {"retired", "retire_failed"} :
           takeover[k].state = "resumed" /\ SetState(k, st) /\ UNCHANGED binding
    BY <1>8 DEF Retiring
  <2>2. /\ takeover'[k].state = st
        /\ \A j \in Keys \ {k} : takeover'[j] = takeover[j]
    BY <1>0, <2>1 DEF SetState, RowsOK, Takeover
  <2>3. OpenKey = k
    BY <1>0, <2>1, OpenKeyIs DEF Open, OpenStates
  <2>4. NoneOpen'
    BY <1>0, <2>1, <2>2 DEF NoneOpen, Open, OpenStates, Pending, OneOpenTakeover
  <2>5. OpenKey' = NoKey /\ BeganAt' = 0
    BY <2>4 DEF OpenKey, BeganAt
  <2>6. UNCHANGED <<UsedKeys, MovedKeys>>
    BY <2>1, <2>2 DEF UsedKeys, MovedKeys, Moved
  <2> QED BY <2>1, <2>3, <2>5, <2>6, NoneAssumption
          DEF Contract!Next, Contract!Close, binding
<1> QED BY <1>1, <1>2, <1>3, <1>4, <1>5, <1>6, <1>7, <1>8 DEF Writing

\* The commands of the sessions, interleaved in any way, implement the
\* contract of a handoff.
THEOREM HeadImplementsContract == Spec => ImplementsContract
<1>1. Init => Contract!Init
  BY DEF Init, Contract!Init, OpenKey, BeganAt, UsedKeys, MovedKeys, NoneOpen, Open,
         OpenStates, Pending, Moved, NoTakeover
<1>2. HeadInv /\ HeadInv' /\ [Next]_vars => [Contract!Next]_(Contract!vars)
  BY EveryStepIsWriting, ContractStep DEF HeadInv
<1> QED BY <1>1, <1>2, HeadInvariant, PTL DEF Spec, ImplementsContract, Contract!Spec
=============================================================================
