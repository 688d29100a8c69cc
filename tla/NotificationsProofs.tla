------------------------ MODULE NotificationsProofs ------------------------
(***************************************************************************)
(* A notice is typed once to a head, and counts as delivered only when the *)
(* present head saw it: for any number of sessions, dispatchers, notices,  *)
(* moves of the head and deaths.                                           *)
(***************************************************************************)
EXTENDS Notifications, FiniteSetTheorems, WellFoundedInduction, TLAPS

\* A dispatcher that holds the claim it made for the present head.
Working(d) == disp[d].pc \notin {"off", "lock"}
Holding(d) == disp[d].pc \in {"prompt", "mark"} /\ Shows(d)
Marking(d, n) == disp[d].pc = "mark" /\ Shows(d) /\ Current(d) = n
Open(n) == ~notices[n].resolved /\ notices[n].to = NoHead

\* The notify lock admits one worker, which has a notice at hand when it claims,
\* and whose target was the binding once.
WorkerInv ==
  \A d \in Dispatchers :
    /\ Working(d) => lock = d
    /\ disp[d].pc \in {"claim", "prompt", "mark"} => disp[d].todo # {}
    /\ disp[d].pc \in {"ask", "asked", "prompt", "mark"} => disp[d].target \in Heads
    /\ disp[d].pc \in {"prompt", "mark"} => disp[d].target.epoch <= binding.epoch

\* Between the claim and the mark nothing but a decision of the owner comes
\* between the worker and its notice, unless the head moves.
ClaimInv ==
  \A d \in Dispatchers : Holding(d) =>
    /\ surface = binding
    /\ ~notices[Current(d)].resolved =>
         notices[Current(d)].token = d /\ notices[Current(d)].to = NoHead
    /\ disp[d].pc = "prompt" => typed[Current(d)] = 0 \/ Current(d) \in noReceipt
    /\ disp[d].pc = "mark" => typed[Current(d)] > 0

\* A notice that the head saw and that is open again is about to be marked, or
\* its receipt was lost.
ReceiptInv ==
  /\ \A n \in 1..MaxNotices : n \notin Rows => typed[n] = 0
  /\ \A n \in Rows : Open(n) /\ typed[n] > 0 =>
       n \in noReceipt \/ \E d \in Dispatchers : Marking(d, n)

\* The inductive invariant.
NoticeInv ==
  NotificationsTypeOK /\ WorkerInv /\ ClaimInv /\ ReceiptInv /\ DeliveredToHead /\ TypedOnce

-----------------------------------------------------------------------------
\* The smallest member of a set of natural numbers.
LEMMA MinIsMember ==
  ASSUME NEW S \in SUBSET Nat, S # {}
  PROVE  Min(S) \in S
<1>1. PICK R : IsWellFoundedOn(R, Nat) /\ \A x, y \in Nat : <<x, y>> \in R <=> x < y
  BY NatLessThanWellFounded DEF OpToRel
<1>2. PICK x \in S : \A y \in S : ~(<<y, x>> \in R)
  <2>1. S \subseteq Nat /\ S # {}
    OBVIOUS
  <2>2. IsWellFoundedOn(R, Nat)
    BY <1>1
  <2> QED BY ONLY <2>1, <2>2, WFMin, Zenon
<1>3. \A y \in S : x <= y
  <2> TAKE y \in S
  <2>1. x \in Nat /\ y \in Nat /\ ~(<<y, x>> \in R)
    BY <1>2
  <2>2. ~(y < x)
    BY <1>1, <2>1
  <2> QED BY <2>1, <2>2
<1> QED BY <1>3 DEF Min

DispRecord == [pc : Steps, registered : BOOLEAN, todo : SUBSET Rows, target : Heads \cup {NoHead}]

\* A dispatcher with a list is at a row of the queue.
LEMMA CurrentIsRow ==
  ASSUME NotificationsTypeOK, NEW d \in Dispatchers, disp[d].todo # {}
  PROVE  Current(d) \in disp[d].todo /\ Current(d) \in Rows /\ Current(d) \in 1..MaxNotices
<1>1. disp[d].todo \in SUBSET Rows /\ Rows \subseteq 1..MaxNotices
  BY NotificationConstants DEF NotificationsTypeOK
<1>2. disp[d].todo \in SUBSET Nat
  <2>1. \A n \in disp[d].todo : n \in 1..MaxNotices
    BY <1>1
  <2> QED BY <2>1, NotificationConstants
<1>3. Min(disp[d].todo) \in disp[d].todo
  BY <1>2, MinIsMember
<1> QED BY <1>1, <1>3 DEF Current

\* Passing on leaves the worker with a shorter list, or at the top of its loop.
LEMMA PassedOn ==
  ASSUME NotificationsTypeOK, NEW d \in Dispatchers, disp[d].todo # {}
  PROVE  /\ PassOn(d) \in DispRecord
         /\ PassOn(d).pc \in {"register", "claim"} /\ PassOn(d).target = NoHead
         /\ PassOn(d).pc = "claim" => PassOn(d).todo # {}
<1>1. disp[d] \in DispRecord
  BY DEF NotificationsTypeOK, DispRecord
<1>2. /\ PassOn(d).todo = disp[d].todo \ {Current(d)} /\ PassOn(d).target = NoHead
      /\ PassOn(d).pc = IF Cardinality(disp[d].todo) = 1 THEN "register" ELSE "claim"
  BY <1>1 DEF PassOn, DispRecord
<1>3. PassOn(d) \in DispRecord
  BY <1>1 DEF PassOn, DispRecord, Steps
<1>4. ASSUME PassOn(d).todo = {} PROVE Cardinality(disp[d].todo) = 1
  <2>1. disp[d].todo = {Current(d)}
    BY <1>2, <1>4, CurrentIsRow
  <2> QED BY <2>1, FS_Singleton
<1> QED BY <1>2, <1>3, <1>4

\* One dispatcher works at a time.
LEMMA OnlyWorker ==
  ASSUME NoticeInv, NEW d \in Dispatchers, Working(d), NEW e \in Dispatchers, e # d
  PROVE  disp[e].pc \in {"off", "lock"}
BY DEF NoticeInv, WorkerInv, Working

\* What the lemmas below keep, beside the types.
Safe == WorkerInv /\ ClaimInv /\ ReceiptInv /\ DeliveredToHead /\ TypedOnce

-----------------------------------------------------------------------------
(* The owner, the workers of the tasks, and the clock. *)

\* Steps that add, decide or time out rows, record the head's pane or start a
\* dispatcher: no claim of the present worker is disturbed.
LEMMA OwnerSafe ==
  ASSUME NoticeInv, UNCHANGED <<binding, typed, noReceipt, lock>>, surface' \in {surface, binding},
         Rows \subseteq Rows',
         \A n \in Rows : /\ notices'[n].to = notices[n].to
                         /\ notices[n].resolved => notices'[n].resolved
                         /\ notices'[n].resolved \/ notices'[n].token = notices[n].token,
         \A n \in Rows' \ Rows : n \in 1..MaxNotices /\ notices'[n].to = NoHead,
         \A d \in Dispatchers : disp'[d] = disp[d] \/ (disp[d].pc = "off" /\ disp'[d].pc = "lock")
  PROVE  Safe'
<1>1. WorkerInv'
  BY DEF NoticeInv, WorkerInv, Working
<1>2. ASSUME NEW d \in Dispatchers, disp'[d].pc \in {"prompt", "mark"}
      PROVE  disp'[d] = disp[d] /\ Current(d) \in Rows
  <2>1. disp'[d] = disp[d]
    BY <1>2
  <2> QED BY <1>2, <2>1, CurrentIsRow DEF NoticeInv, WorkerInv
<1>3. ClaimInv'
  <2> SUFFICES ASSUME NEW d \in Dispatchers, Holding(d)'
               PROVE  /\ surface' = binding'
                      /\ ~notices'[Current(d)'].resolved =>
                           notices'[Current(d)'].token = d /\ notices'[Current(d)'].to = NoHead
                      /\ disp'[d].pc = "prompt" => typed'[Current(d)'] = 0 \/ Current(d)' \in noReceipt'
                      /\ disp'[d].pc = "mark" => typed'[Current(d)'] > 0
    BY DEF ClaimInv
  <2>1. disp'[d] = disp[d] /\ Current(d) \in Rows
    BY <1>2 DEF Holding
  <2>2. Current(d)' = Current(d)
    BY <2>1 DEF Current
  <2>3. Holding(d)
    BY <2>1 DEF Holding, Shows
  <2> QED BY <2>1, <2>2, <2>3 DEF NoticeInv, ClaimInv
<1>4. ReceiptInv'
  <2>1. \A d \in Dispatchers : disp[d].pc = "mark" => disp'[d] = disp[d]
    OBVIOUS
  <2>2. \A d \in Dispatchers : \A n : Marking(d, n) => Marking(d, n)'
    BY <2>1 DEF Marking, Shows, Current
  <2> QED BY <2>2 DEF NoticeInv, ReceiptInv, Open
<1>5. DeliveredToHead'
  BY DEF NoticeInv, DeliveredToHead
<1>6. TypedOnce'
  <2>1. \A n \in Rows' \ Rows : typed[n] = 0
    BY DEF NoticeInv, ReceiptInv
  <2> QED BY <2>1 DEF NoticeInv, TypedOnce
<1> QED BY <1>1, <1>3, <1>4, <1>5, <1>6 DEF Safe

\* A new row follows the others.
LEMMA AddedRow ==
  ASSUME NotificationsTypeOK, AddNotice
  PROVE  /\ Rows \subseteq Rows' /\ \E k \in 0..MaxNotices : Rows' = 1..k
         /\ notices' \in [Rows' -> Row]
         /\ \A n \in Rows : notices'[n] = notices[n]
         /\ \A n \in Rows' \ Rows : n \in 1..MaxNotices /\ notices'[n].to = NoHead
<1>1. PICK k \in 0..MaxNotices : Rows = 1..k
  BY DEF NotificationsTypeOK
<1>2. Cardinality(Rows) = k
  BY <1>1, FS_Interval, NotificationConstants
<1>3. Rows' = 1..(k + 1) /\ k + 1 \in 0..MaxNotices
  BY <1>1, <1>2, NotificationConstants DEF AddNotice, Rows
<1>4. NewRow \in Row /\ NewRow.to = NoHead
  BY DEF NewRow, Row
<1>5. \A n \in Rows' : notices'[n] = IF n \in Rows THEN notices[n] ELSE NewRow
  BY <1>2, <1>3 DEF AddNotice, Rows
<1>6. notices' = [n \in Rows' |-> notices'[n]]
  BY <1>1, <1>2, <1>3 DEF AddNotice, Rows
<1>7. notices' \in [Rows' -> Row]
  BY <1>4, <1>5, <1>6 DEF NotificationsTypeOK
<1> QED BY <1>1, <1>3, <1>4, <1>5, <1>7, NotificationConstants

\* Types of the dispatchers when one is started, and when the rows grow.
LEMMA SpawnTypes ==
  ASSUME NotificationsTypeOK, Rows \subseteq Rows', Spawn
  PROVE  /\ disp' \in [Dispatchers -> DispRecord']
         /\ \A d \in Dispatchers : disp'[d] = disp[d] \/ (disp[d].pc = "off" /\ disp'[d].pc = "lock")
<1>1. \A d \in Dispatchers : disp[d] \in DispRecord /\ disp[d] \in DispRecord'
  BY DEF NotificationsTypeOK, DispRecord
<1>2. CASE UNCHANGED disp
  BY <1>1, <1>2 DEF NotificationsTypeOK
<1>3. ASSUME NEW d \in Dispatchers, disp[d].pc = "off", disp' = [disp EXCEPT ![d].pc = "lock"]
      PROVE  /\ disp' \in [Dispatchers -> DispRecord']
             /\ \A e \in Dispatchers : disp'[e] = disp[e] \/ (disp[e].pc = "off" /\ disp'[e].pc = "lock")
  <2> DEFINE r == [disp[d] EXCEPT !.pc = "lock"]
  <2>1. r \in DispRecord' /\ r.pc = "lock"
    BY <1>1 DEF DispRecord, Steps
  <2>2. disp' = [disp EXCEPT ![d] = r]
    BY <1>3
  <2> QED BY <1>1, <1>3, <2>1, <2>2 DEF NotificationsTypeOK
<1> QED BY <1>2, <1>3 DEF Spawn

\* The owner, the tasks and the clock keep the invariant.
LEMMA OwnerStep ==
  ASSUME NoticeInv,
         \/ \E n \in Rows : LeaseExpires(n) \/ Resolve(n)
         \/ Admit \/ Seal \/ RunTransition \/ Ask \/ CloseQuestion \/ Announce
  PROVE  NoticeInv'
<1>0. NotificationsTypeOK /\ \A n \in Rows : notices[n] \in Row
  BY DEF NoticeInv, NotificationsTypeOK
<1>1. ASSUME NEW n \in Rows, LeaseExpires(n) PROVE NoticeInv'
  <2> DEFINE r == [notices[n] EXCEPT !.held = FALSE]
  <2>1. r \in Row /\ r.to = notices[n].to /\ r.resolved = notices[n].resolved /\ r.token = notices[n].token
    BY <1>0 DEF Row
  <2>2. notices' = [notices EXCEPT ![n] = r]
    BY <1>1 DEF LeaseExpires
  <2>3. NotificationsTypeOK'
    BY <1>0, <1>1, <2>1, <2>2 DEF LeaseExpires, NotificationsTypeOK, qvars, Rows
  <2>4. Safe'
    BY <1>0, <1>1, <2>1, <2>2, OwnerSafe DEF LeaseExpires, NotificationsTypeOK, qvars, Rows
  <2> QED BY <2>3, <2>4 DEF NoticeInv, Safe
<1>2. ASSUME NEW n \in Rows, Resolve(n) PROVE NoticeInv'
  <2> DEFINE r == [notices[n] EXCEPT !.resolved = TRUE, !.token = NoOne, !.held = FALSE]
  <2>1. r \in Row /\ r.to = notices[n].to /\ r.resolved
    BY <1>0 DEF Row
  <2>2. notices' = [notices EXCEPT ![n] = r]
    BY <1>2 DEF Resolve
  <2>3. NotificationsTypeOK'
    BY <1>0, <1>2, <2>1, <2>2 DEF Resolve, NotificationsTypeOK, qvars, Rows
  <2>4. Safe'
    BY <1>0, <1>2, <2>1, <2>2, OwnerSafe DEF Resolve, NotificationsTypeOK, qvars, Rows
  <2> QED BY <2>3, <2>4 DEF NoticeInv, Safe
<1>3. ASSUME Admit PROVE NoticeInv'
  <2>1. Rows' = Rows /\ Spawn
    BY <1>3 DEF Admit, Rows
  <2>2. NotificationsTypeOK'
    BY <1>0, <1>3, <2>1, SpawnTypes DEF Admit, NotificationsTypeOK, DispRecord, qvars, Rows
  <2>3. Safe'
    BY <1>0, <1>3, <2>1, SpawnTypes, OwnerSafe DEF Admit, qvars, Rows
  <2> QED BY <2>2, <2>3 DEF NoticeInv, Safe
<1>4. ASSUME Seal PROVE NoticeInv'
  <2>1. AddNotice /\ UNCHANGED disp
    BY <1>4 DEF Seal
  <2>2. run' \in {"running", "retrying", "over"} /\ question' \in {"none", "open", "closed"}
    BY <1>0, <1>4 DEF Seal, NotificationsTypeOK
  <2>3. disp' \in [Dispatchers -> DispRecord']
    BY <1>0, <2>1, AddedRow DEF DispRecord, NotificationsTypeOK
  <2>4. NotificationsTypeOK'
    BY <1>0, <1>4, <2>1, <2>2, <2>3, AddedRow DEF Seal, NotificationsTypeOK, DispRecord, qvars
  <2>5. Safe'
    BY <1>0, <1>4, <2>1, AddedRow, OwnerSafe DEF Seal, qvars
  <2> QED BY <2>4, <2>5 DEF NoticeInv, Safe
<1>5. ASSUME RunTransition PROVE NoticeInv'
  <2>1. AddNotice /\ Spawn
    BY <1>5 DEF RunTransition
  <2>2. NotificationsTypeOK'
    BY <1>0, <1>5, <2>1, AddedRow, SpawnTypes DEF RunTransition, NotificationsTypeOK, DispRecord, qvars
  <2>3. Safe'
    BY <1>0, <1>5, <2>1, AddedRow, SpawnTypes, OwnerSafe DEF RunTransition, qvars
  <2> QED BY <2>2, <2>3 DEF NoticeInv, Safe
<1>6. ASSUME Ask \/ CloseQuestion PROVE NoticeInv'
  <2>1. NotificationsTypeOK'
    BY <1>0, <1>6 DEF Ask, CloseQuestion, NotificationsTypeOK, qvars, Rows
  <2>2. Safe'
    BY <1>0, <1>6, OwnerSafe DEF Ask, CloseQuestion, qvars, Rows
  <2> QED BY <2>1, <2>2 DEF NoticeInv, Safe
<1>7. ASSUME Announce PROVE NoticeInv'
  <2>1. surface' = binding /\ Rows' = Rows /\ Spawn
    BY <1>7 DEF Announce, RegisterPane, RecordSurface, StartForQueued, Spawn, Rows
  <2>2. NotificationsTypeOK'
    BY <1>0, <1>7, <2>1, SpawnTypes DEF Announce, NotificationsTypeOK, DispRecord, Rows
  <2>3. Safe'
    BY <1>0, <1>7, <2>1, SpawnTypes, OwnerSafe DEF Announce, Rows
  <2> QED BY <2>2, <2>3 DEF NoticeInv, Safe
<1> QED BY <1>1, <1>2, <1>3, <1>4, <1>5, <1>6, <1>7

\* The head moves: what was typed was typed to the predecessor, and what was
\* delivered to it is queued again.
LEMMA RebindStep ==
  ASSUME NoticeInv, NEW s \in Sessions, Rebind(s) PROVE NoticeInv'
<1>1. /\ binding' = [session |-> s, epoch |-> binding.epoch + 1] /\ binding.epoch < MaxEpoch
      /\ UNCHANGED <<queue, surface, run, question, noticed, lock, disp, deaths>>
      /\ typed' = [n \in 1..MaxNotices |-> 0] /\ noReceipt' = {}
      /\ notices' = Requeue(notices)
  BY DEF Rebind
<1>2. binding \in Heads /\ binding.epoch \in 1..MaxEpoch
  BY DEF NoticeInv, NotificationsTypeOK, Heads, Epochs
<1>3. binding' \in Heads /\ binding'.epoch = binding.epoch + 1
  BY <1>1, <1>2, NotificationConstants DEF Heads, Epochs
<1>4. Rows' = Rows /\ \A n \in Rows : notices'[n] = IF notices[n].resolved THEN notices[n] ELSE NewRow
  BY <1>1 DEF Requeue, Rows
<1>5. NewRow \in Row /\ NewRow.to = NoHead
  BY DEF NewRow, Row
<1>6. notices' \in [Rows' -> Row]
  <2>1. notices' = [n \in Rows |-> notices'[n]]
    BY <1>1 DEF Requeue, Rows
  <2> QED BY <1>4, <1>5, <2>1 DEF NoticeInv, NotificationsTypeOK
<1>7. NotificationsTypeOK'
  BY <1>1, <1>3, <1>4, <1>6 DEF NoticeInv, NotificationsTypeOK
<1>8. \A d \in Dispatchers : ~Holding(d)'
  <2> SUFFICES ASSUME NEW d \in Dispatchers, Holding(d)' PROVE FALSE
    OBVIOUS
  <2>1. disp[d].pc \in {"prompt", "mark"} /\ disp[d].target = binding'
    BY <1>1 DEF Holding, Shows
  <2>2. disp[d].target.epoch <= binding.epoch
    BY <2>1 DEF NoticeInv, WorkerInv
  <2> QED BY <1>2, <1>3, <2>1, <2>2
<1>9. WorkerInv'
  <2>1. \A d \in Dispatchers : disp[d].pc \in {"prompt", "mark"} => disp[d].target.epoch <= binding.epoch + 1
    <3> SUFFICES ASSUME NEW d \in Dispatchers, disp[d].pc \in {"prompt", "mark"}
                 PROVE  disp[d].target.epoch <= binding.epoch + 1
      OBVIOUS
    <3>1. disp[d].target.epoch <= binding.epoch /\ disp[d].target.epoch \in Epochs
      BY DEF NoticeInv, WorkerInv, Heads
    <3> QED BY <1>2, <3>1, NotificationConstants DEF Epochs
  <2> QED BY <1>1, <1>3, <2>1 DEF NoticeInv, WorkerInv, Working
<1>10. Rows \subseteq 1..MaxNotices /\ \A n \in 1..MaxNotices : typed'[n] = 0
  BY <1>1, NotificationConstants DEF NoticeInv, NotificationsTypeOK
<1>11. ClaimInv' /\ ReceiptInv'
  <2>1. ClaimInv'
    BY <1>8 DEF ClaimInv
  <2>2. \A n \in Rows' : ~(typed'[n] > 0)
    BY <1>4, <1>10
  <2> QED BY <1>10, <2>1, <2>2 DEF ReceiptInv
<1>12. DeliveredToHead' /\ TypedOnce'
  <2>1. \A n \in Rows' : ~(typed'[n] > 1)
    BY <1>4, <1>10
  <2>2. \A n \in Rows' : ~notices'[n].resolved => notices'[n].to = NoHead
    BY <1>4, <1>5
  <2> QED BY <2>1, <2>2 DEF DeliveredToHead, TypedOnce
<1> QED BY <1>7, <1>9, <1>11, <1>12 DEF NoticeInv

-----------------------------------------------------------------------------
(* The dispatcher. *)

\* A dispatcher moves, and neither leaves nor enters the stretch between the
\* claim and the mark; it works only while it holds the lock.
LEMMA QuietSafe ==
  ASSUME NoticeInv, NEW d \in Dispatchers, NEW r \in DispRecord, disp' = [disp EXCEPT ![d] = r],
         disp[d].pc \notin {"off", "prompt", "mark"}, r.pc \notin {"prompt", "mark"},
         r.pc = "claim" => r.todo # {},
         r.pc \in {"ask", "asked"} => r.target \in Heads,
         r.pc \in {"off", "lock"} \/ lock' = d,
         lock' = lock \/ (lock = NoOne /\ lock' = d) \/ (lock = d /\ lock' = NoOne),
         surface' \in {surface, binding}, UNCHANGED <<binding, notices, typed, noReceipt>>
  PROVE  Safe'
<1>1. disp'[d] = r /\ \A e \in Dispatchers : e # d => disp'[e] = disp[e]
  BY DEF NoticeInv, NotificationsTypeOK
<1>2. WorkerInv'
  <2> SUFFICES ASSUME NEW e \in Dispatchers
               PROVE  /\ disp'[e].pc \notin {"off", "lock"} => lock' = e
                      /\ disp'[e].pc \in {"claim", "prompt", "mark"} => disp'[e].todo # {}
                      /\ disp'[e].pc \in {"ask", "asked", "prompt", "mark"} => disp'[e].target \in Heads
                      /\ disp'[e].pc \in {"prompt", "mark"} => disp'[e].target.epoch <= binding.epoch
    BY DEF WorkerInv, Working
  <2>1. CASE e = d
    BY <1>1, <2>1
  <2>2. CASE e # d
    <3>1. disp[e].pc \notin {"off", "lock"} => lock' = e
      BY <2>2, NotificationConstants DEF NoticeInv, WorkerInv, Working
    <3> QED BY <1>1, <2>2, <3>1 DEF NoticeInv, WorkerInv
  <2> QED BY <2>1, <2>2
<1>3. \A e \in Dispatchers : Holding(e)' => e # d /\ Holding(e) /\ disp'[e] = disp[e]
  BY <1>1 DEF Holding, Shows
<1>4. ClaimInv'
  <2> SUFFICES ASSUME NEW e \in Dispatchers, Holding(e)'
               PROVE  /\ surface' = binding
                      /\ ~notices[Current(e)'].resolved =>
                           notices[Current(e)'].token = e /\ notices[Current(e)'].to = NoHead
                      /\ disp'[e].pc = "prompt" => typed[Current(e)'] = 0 \/ Current(e)' \in noReceipt
                      /\ disp'[e].pc = "mark" => typed[Current(e)'] > 0
    BY DEF ClaimInv
  <2>1. Holding(e) /\ disp'[e] = disp[e]
    BY <1>3
  <2>2. Current(e)' = Current(e)
    BY <2>1 DEF Current
  <2> QED BY <2>1, <2>2 DEF NoticeInv, ClaimInv
<1>5. ReceiptInv'
  <2>1. \A e \in Dispatchers : \A n : Marking(e, n) => Marking(e, n)'
    BY <1>1 DEF Marking, Shows, Current
  <2> QED BY <2>1 DEF NoticeInv, ReceiptInv, Open, Rows
<1>6. DeliveredToHead' /\ TypedOnce'
  BY DEF NoticeInv, DeliveredToHead, TypedOnce, Rows
<1> QED BY <1>2, <1>4, <1>5, <1>6 DEF Safe

\* The steps of the dispatcher outside that stretch.
LEMMA QuietStep ==
  ASSUME NoticeInv, NEW d \in Dispatchers,
         \/ TryLock(d) \/ ReadPending(d) \/ ReadLatest(d) \/ ReadAgain(d) \/ Register(d)
         \/ ReadQuestions(d) \/ TypeQuestion(d) \/ QuestionRefused(d) \/ RecordQuestion(d)
         \/ (ClaimNext(d) /\ ~Claimable(Current(d)))
  PROVE  NoticeInv'
<1>0. /\ NotificationsTypeOK /\ disp[d] \in DispRecord /\ disp \in [Dispatchers -> DispRecord]
      /\ d # NoOne
  BY NotificationConstants DEF NoticeInv, NotificationsTypeOK, DispRecord
<1>1. Working(d) => lock = d
  BY DEF NoticeInv, WorkerInv
<1>2. ASSUME NEW r \in DispRecord, disp' = [disp EXCEPT ![d] = r],
             lock' \in {lock, d, NoOne}, surface' \in {surface, binding}, noticed' \subseteq Sessions,
             UNCHANGED <<queue, binding, notices, run, question, typed, noReceipt, deaths>>
      PROVE  NotificationsTypeOK'
  BY <1>0, <1>2 DEF NotificationsTypeOK, DispRecord, Rows
<1>3. ASSUME NEW r \in DispRecord, disp' = [disp EXCEPT ![d] = r],
             disp[d].pc \notin {"off", "prompt", "mark"}, r.pc \notin {"prompt", "mark"},
             r.pc = "claim" => r.todo # {},
             r.pc \in {"ask", "asked"} => r.target \in Heads,
             r.pc \in {"off", "lock"} \/ lock' = d,
             lock' = lock \/ (lock = NoOne /\ lock' = d) \/ (lock = d /\ lock' = NoOne),
             surface' \in {surface, binding}, noticed' \subseteq Sessions,
             UNCHANGED <<queue, binding, notices, run, question, typed, noReceipt, deaths>>
      PROVE  NoticeInv'
  <2>1. NotificationsTypeOK'
    BY <1>2, <1>3
  <2>2. Safe'
    BY <1>3, QuietSafe
  <2> QED BY <2>1, <2>2 DEF NoticeInv, Safe
<1>4. \A p \in Steps : /\ [disp[d] EXCEPT !.pc = p] \in DispRecord
                       /\ [disp[d] EXCEPT !.pc = p].pc = p
                       /\ [disp[d] EXCEPT !.pc = p].todo = disp[d].todo
                       /\ [disp[d] EXCEPT !.pc = p].target = disp[d].target
  BY <1>0 DEF DispRecord
<1>5. Idle \in DispRecord /\ Idle.pc = "off"
  BY DEF Idle, DispRecord, Steps
<1>6. noticed \subseteq Sessions
  BY <1>0 DEF NotificationsTypeOK
<1>7. ASSUME NEW p \in {"begin", "latest", "again", "register", "questions", "read"}, Goto(d, p), lock' = d,
             disp[d].pc \notin {"off", "prompt", "mark"}, lock = d \/ lock = NoOne,
             noticed' \subseteq Sessions,
             UNCHANGED <<queue, qvars, notices, run, question, typed, noReceipt, deaths>>
      PROVE  NoticeInv'
  <2> DEFINE r == [disp[d] EXCEPT !.pc = p]
  <2>1. r \in DispRecord /\ r.pc = p
    BY <1>4 DEF Steps
  <2>2. disp' = [disp EXCEPT ![d] = r]
    BY <1>7 DEF Goto
  <2> HIDE DEF r
  <2> QED BY <1>3, <1>7, <2>1, <2>2 DEF qvars
<1>8. ASSUME Leave(d), disp[d].pc \notin {"off", "prompt", "mark"},
             UNCHANGED <<queue, qvars, notices, run, question, noticed, typed, noReceipt, deaths>>
      PROVE  NoticeInv'
  BY <1>3, <1>5, <1>6, <1>8 DEF Leave, qvars
<1>9. CASE TryLock(d)
  BY <1>6, <1>7, <1>8, <1>9 DEF TryLock
<1>10. CASE ReadPending(d)
  <2>1. lock = d /\ disp[d].pc \in {"begin", "read"}
    BY <1>1, <1>10 DEF ReadPending, Working
  <2>2. CASE Pending = {}
    BY <1>6, <1>7, <1>8, <1>10, <2>1, <2>2 DEF ReadPending
  <2>3. CASE Pending # {}
    <3> DEFINE r == [disp[d] EXCEPT !.pc = IF @ = "begin" THEN "register" ELSE "claim", !.todo = Pending]
    <3>1. Pending \in SUBSET Rows
      BY DEF Pending, PendingResults, PendingRunNotices
    <3>2. r \in DispRecord /\ r.pc \in {"register", "claim"} /\ r.todo = Pending
      BY <1>0, <3>1 DEF DispRecord, Steps
    <3>3. disp' = [disp EXCEPT ![d] = r]
      BY <1>10, <2>3 DEF ReadPending
    <3> HIDE DEF r
    <3> QED BY <1>3, <1>6, <1>10, <2>1, <2>3, <3>2, <3>3 DEF ReadPending, qvars
  <2> QED BY <2>2, <2>3
<1>11. CASE ReadLatest(d)
  BY <1>1, <1>6, <1>7, <1>11 DEF ReadLatest, Working
<1>12. CASE ReadAgain(d)
  BY <1>1, <1>6, <1>7, <1>8, <1>12 DEF ReadAgain, Working
<1>13. CASE Register(d)
  <2>1. PICK proved \in BOOLEAN :
          /\ surface' \in {surface, binding}
          /\ disp' = [disp EXCEPT ![d].registered = proved,
                                  ![d].pc = IF queue = "task" THEN "questions" ELSE "read"]
    BY <1>13 DEF Register, RegisterPane, RecordSurface
  <2> DEFINE r == [disp[d] EXCEPT !.registered = proved, !.pc = IF queue = "task" THEN "questions" ELSE "read"]
  <2>2. r \in DispRecord /\ r.pc \in {"questions", "read"}
    BY <1>0 DEF DispRecord, Steps
  <2>3. disp' = [disp EXCEPT ![d] = r]
    BY <2>1
  <2>4. lock = d /\ disp[d].pc = "register"
    BY <1>1, <1>13 DEF Register, Working
  <2> HIDE DEF r
  <2> QED BY <1>3, <1>6, <1>13, <2>1, <2>2, <2>3, <2>4 DEF Register
<1>14. CASE ReadQuestions(d)
  <2>1. lock = d /\ disp[d].pc = "questions" /\ binding \in Heads
    BY <1>0, <1>1, <1>14 DEF ReadQuestions, Working, NotificationsTypeOK
  <2>2. CASE Goto(d, "read")
    BY <1>6, <1>7, <1>14, <2>1, <2>2 DEF ReadQuestions
  <2>3. CASE disp' = [disp EXCEPT ![d].pc = "ask", ![d].target = binding]
    <3> DEFINE r == [disp[d] EXCEPT !.pc = "ask", !.target = binding]
    <3>1. r \in DispRecord /\ r.pc = "ask" /\ r.target = binding
      BY <1>0, <2>1 DEF DispRecord, Steps
    <3>2. disp' = [disp EXCEPT ![d] = r]
      BY <2>3
    <3> HIDE DEF r
    <3> QED BY <1>3, <1>6, <1>14, <2>1, <3>1, <3>2 DEF ReadQuestions, qvars
  <2> QED BY <1>14, <2>2, <2>3 DEF ReadQuestions
<1>15. CASE TypeQuestion(d)
  <2> DEFINE r == [disp[d] EXCEPT !.pc = "asked"]
  <2>1. r \in DispRecord /\ r.pc = "asked" /\ r.target = disp[d].target
    BY <1>4 DEF Steps
  <2>2. disp' = [disp EXCEPT ![d] = r]
    BY <1>15 DEF TypeQuestion, Goto
  <2>3. lock = d /\ disp[d].pc = "ask" /\ disp[d].target \in Heads
    BY <1>1, <1>15 DEF TypeQuestion, Working, NoticeInv, WorkerInv
  <2> HIDE DEF r
  <2> QED BY <1>3, <1>6, <1>15, <2>1, <2>2, <2>3 DEF TypeQuestion, qvars
<1>16. CASE QuestionRefused(d)
  BY <1>1, <1>6, <1>7, <1>16 DEF QuestionRefused, Working
<1>17. CASE RecordQuestion(d)
  <2>1. disp[d].target.session \in Sessions
    BY <1>17 DEF RecordQuestion, NoticeInv, WorkerInv, Heads
  <2> QED BY <1>1, <1>6, <1>7, <1>17, <2>1 DEF RecordQuestion, Working
<1>18. CASE ClaimNext(d) /\ ~Claimable(Current(d))
  <2>1. lock = d /\ disp[d].pc = "claim" /\ disp[d].todo # {}
    BY <1>1, <1>18 DEF ClaimNext, Working, NoticeInv, WorkerInv
  <2>2. disp' = [disp EXCEPT ![d] = PassOn(d)] /\ UNCHANGED notices
    BY <1>18 DEF ClaimNext
  <2>3. /\ PassOn(d) \in DispRecord /\ PassOn(d).pc \in {"register", "claim"}
        /\ PassOn(d).pc = "claim" => PassOn(d).todo # {}
    BY <1>0, <2>1, PassedOn
  <2> QED BY <1>3, <1>6, <1>18, <2>1, <2>2, <2>3 DEF ClaimNext, qvars
<1> QED BY <1>9, <1>10, <1>11, <1>12, <1>13, <1>14, <1>15, <1>16, <1>17, <1>18

\* A claim: the notice is open and not held, the pane is the head's; if the head
\* saw it before, that receipt was lost.
LEMMA ClaimStep ==
  ASSUME NoticeInv, NEW d \in Dispatchers, ClaimNext(d), Claimable(Current(d))
  PROVE  NoticeInv'
<1> DEFINE n == Current(d)
           r == [disp[d] EXCEPT !.pc = "prompt", !.target = binding]
           row == [notices[n] EXCEPT !.token = d, !.held = TRUE]
<1>1. /\ NotificationsTypeOK /\ disp[d] \in DispRecord /\ disp \in [Dispatchers -> DispRecord]
      /\ binding \in Heads /\ disp[d].pc = "claim" /\ disp[d].todo # {} /\ lock = d
      /\ binding.epoch <= binding.epoch
  BY NotificationConstants
     DEF NoticeInv, NotificationsTypeOK, DispRecord, ClaimNext, WorkerInv, Working, Heads, Epochs
<1>2. n \in Rows /\ notices[n] \in Row
  BY <1>1, CurrentIsRow DEF NotificationsTypeOK
<1>3. Open(n) /\ surface = binding
  BY DEF Claimable, ClaimableResult, ClaimableRunNotice, PendingResults, PendingRunNotices, SurfaceIsHead, Open
<1>4. /\ r \in DispRecord /\ r.pc = "prompt" /\ r.target = binding /\ r.todo = disp[d].todo
      /\ row \in Row /\ row.token = d /\ row.to = notices[n].to /\ row.resolved = notices[n].resolved
  BY <1>1, <1>2 DEF DispRecord, Steps, Row
<1>5. /\ disp' = [disp EXCEPT ![d] = r] /\ notices' = [notices EXCEPT ![n] = row]
      /\ UNCHANGED <<queue, qvars, run, question, noticed, lock, typed, noReceipt, deaths>>
  BY DEF ClaimNext, Claim
<1> HIDE DEF r, row
<1>6. /\ disp'[d] = r /\ \A e \in Dispatchers : e # d => disp'[e] = disp[e] /\ disp[e].pc \in {"off", "lock"}
      /\ Rows' = Rows /\ notices'[n] = row /\ \A m \in Rows : m # n => notices'[m] = notices[m]
      /\ Current(d)' = n
  BY <1>1, <1>2, <1>4, <1>5, OnlyWorker DEF Working, NotificationsTypeOK, Rows, Current
<1>7. NotificationsTypeOK'
  BY <1>1, <1>2, <1>4, <1>5, <1>6 DEF NotificationsTypeOK, DispRecord, qvars, Rows
<1>8. WorkerInv'
  BY <1>1, <1>4, <1>5, <1>6 DEF NoticeInv, WorkerInv, Working, qvars
<1>9. typed[n] = 0 \/ n \in noReceipt
  <2>1. \A e \in Dispatchers : disp[e].pc # "mark"
    BY <1>1, <1>6
  <2>2. typed[n] \in 0..2
    BY <1>1, <1>2, NotificationConstants DEF NotificationsTypeOK
  <2> QED BY <1>2, <1>3, <2>1, <2>2 DEF NoticeInv, ReceiptInv, Marking
<1>10. ClaimInv'
  BY <1>3, <1>4, <1>5, <1>6, <1>9 DEF ClaimInv, Holding, Shows, Open, qvars
<1>11. ReceiptInv'
  <2>1. \A e \in Dispatchers : disp[e].pc # "mark"
    BY <1>1, <1>6
  <2>2. \A m \in Rows : Open(m)' => Open(m)
    BY <1>4, <1>6 DEF Open
  <2> QED BY <1>5, <1>6, <2>1, <2>2 DEF NoticeInv, ReceiptInv, Marking
<1>12. DeliveredToHead' /\ TypedOnce'
  BY <1>4, <1>5, <1>6 DEF NoticeInv, DeliveredToHead, TypedOnce, qvars
<1> QED BY <1>7, <1>8, <1>10, <1>11, <1>12 DEF NoticeInv

\* The prompt is taken: from now on the notice counts as seen, and is about to
\* be marked.
LEMMA AcceptStep ==
  ASSUME NoticeInv, NEW d \in Dispatchers, PromptAccepted(d)
  PROVE  NoticeInv'
<1> DEFINE n == Current(d)
           r == [disp[d] EXCEPT !.pc = "mark"]
<1>1. /\ NotificationsTypeOK /\ disp[d] \in DispRecord /\ disp \in [Dispatchers -> DispRecord]
      /\ disp[d].pc = "prompt" /\ disp[d].todo # {} /\ lock = d
      /\ disp[d].target \in Heads /\ disp[d].target.epoch <= binding.epoch
  BY DEF NoticeInv, NotificationsTypeOK, DispRecord, PromptAccepted, WorkerInv, Working
<1>2. n \in Rows /\ n \in 1..MaxNotices /\ typed[n] \in 0..2
  BY <1>1, CurrentIsRow DEF NotificationsTypeOK
<1>3. r \in DispRecord /\ r.pc = "mark" /\ r.target = disp[d].target /\ r.todo = disp[d].todo
  BY <1>1 DEF DispRecord, Steps
<1>4. /\ disp' = [disp EXCEPT ![d] = r]
      /\ typed' = [typed EXCEPT ![n] = IF Shows(d) /\ @ < 2 THEN @ + 1 ELSE @]
      /\ UNCHANGED <<queue, qvars, notices, run, question, noticed, lock, noReceipt, deaths>>
  BY DEF PromptAccepted, Show, Goto
<1> HIDE DEF r
<1>5. /\ disp'[d] = r /\ \A e \in Dispatchers : e # d => disp'[e] = disp[e] /\ disp[e].pc \in {"off", "lock"}
      /\ Rows' = Rows /\ Current(d)' = n /\ (Shows(d)' <=> Shows(d))
  BY <1>1, <1>3, <1>4, OnlyWorker DEF Working, Rows, Current, Shows, qvars
<1>6. /\ \A m \in 1..MaxNotices : m # n => typed'[m] = typed[m]
      /\ typed'[n] = IF Shows(d) /\ typed[n] < 2 THEN typed[n] + 1 ELSE typed[n]
      /\ typed' \in [1..MaxNotices -> 0..2]
  <2>1. (IF Shows(d) /\ typed[n] < 2 THEN typed[n] + 1 ELSE typed[n]) \in 0..2
    BY <1>2
  <2> QED BY <1>1, <1>2, <1>4, <2>1 DEF NotificationsTypeOK
<1>7. NotificationsTypeOK'
  BY <1>1, <1>3, <1>4, <1>5, <1>6 DEF NotificationsTypeOK, DispRecord, qvars
<1>8. WorkerInv'
  BY <1>1, <1>3, <1>4, <1>5 DEF NoticeInv, WorkerInv, Working, qvars
<1>9. Shows(d) => surface = binding /\ (typed[n] = 0 \/ n \in noReceipt) /\ typed'[n] > 0
                  /\ (~notices[n].resolved => notices[n].token = d /\ notices[n].to = NoHead)
  <2>1. Shows(d) => surface = binding /\ (typed[n] = 0 \/ n \in noReceipt)
                    /\ (~notices[n].resolved => notices[n].token = d /\ notices[n].to = NoHead)
    BY <1>1 DEF NoticeInv, ClaimInv, Holding
  <2> QED BY <1>2, <1>6, <2>1
<1>10. ClaimInv'
  BY <1>3, <1>4, <1>5, <1>9 DEF ClaimInv, Holding, qvars
<1>11. ReceiptInv'
  <2>1. \A e \in Dispatchers : disp[e].pc # "mark"
    BY <1>1, <1>5
  <2>2. \A m \in Rows : Open(m)' = Open(m)
    BY <1>4 DEF Open
  <2>3. \A m \in Rows : Shows(d) /\ m = n => Marking(d, m)'
    BY <1>3, <1>5 DEF Marking
  <2>4. \A m \in 1..MaxNotices : m \notin Rows' => typed'[m] = 0
    BY <1>2, <1>5, <1>6 DEF NoticeInv, ReceiptInv
  <2>5. ASSUME NEW m \in Rows, Open(m), typed'[m] > 0
        PROVE  m \in noReceipt \/ \E e \in Dispatchers : Marking(e, m)'
    <3>1. CASE typed[m] > 0
      BY <2>1, <2>5, <3>1 DEF NoticeInv, ReceiptInv, Marking
    <3>2. CASE ~(typed[m] > 0)
      <4>1. m = n /\ Shows(d)
        BY <1>1, <1>6, <2>5, <3>2, NotificationConstants DEF NotificationsTypeOK
      <4> QED BY <2>3, <4>1
    <3> QED BY <3>1, <3>2
  <2> QED BY <1>4, <1>5, <2>2, <2>4, <2>5 DEF ReceiptInv
<1>12. DeliveredToHead'
  <2>1. \A m \in Rows : typed[m] > 0 => typed'[m] > 0
    BY <1>1, <1>2, <1>6, NotificationConstants DEF NotificationsTypeOK
  <2> QED BY <1>4, <1>5, <2>1 DEF NoticeInv, DeliveredToHead, qvars
<1>13. TypedOnce'
  <2>1. ASSUME NEW m \in Rows, typed'[m] > 1 PROVE m \in noReceipt
    <3>1. CASE typed[m] > 1
      BY <2>1, <3>1 DEF NoticeInv, TypedOnce
    <3>2. CASE ~(typed[m] > 1)
      <4>1. m = n /\ Shows(d) /\ typed[n] # 0
        BY <1>1, <1>2, <1>6, <2>1, <3>2, NotificationConstants DEF NotificationsTypeOK
      <4> QED BY <1>9, <4>1
    <3> QED BY <3>1, <3>2
  <2> QED BY <1>4, <1>5, <2>1 DEF TypedOnce
<1> QED BY <1>7, <1>8, <1>10, <1>11, <1>12, <1>13 DEF NoticeInv

\* The prompt fails, perhaps after it was typed: then the receipt is lost.
LEMMA RefusedStep ==
  ASSUME NoticeInv, NEW d \in Dispatchers, PromptFailed(d)
  PROVE  NoticeInv'
<1> DEFINE n == Current(d)
<1>1. /\ NotificationsTypeOK /\ disp \in [Dispatchers -> DispRecord]
      /\ disp[d].pc = "prompt" /\ disp[d].todo # {} /\ lock = d
  BY DEF NoticeInv, NotificationsTypeOK, DispRecord, PromptFailed, WorkerInv, Working
<1>2. n \in Rows /\ n \in 1..MaxNotices /\ typed[n] \in 0..2 /\ notices[n] \in Row
  BY <1>1, CurrentIsRow DEF NotificationsTypeOK
<1>3. /\ PassOn(d) \in DispRecord /\ PassOn(d).pc \in {"register", "claim"}
      /\ PassOn(d).pc = "claim" => PassOn(d).todo # {}
  BY <1>1, PassedOn
<1>4. /\ disp' = [disp EXCEPT ![d] = PassOn(d)]
      /\ UNCHANGED <<queue, qvars, run, question, noticed, lock, deaths>>
      /\ Release(n, d)
  BY DEF PromptFailed
<1>5. /\ disp'[d] = PassOn(d)
      /\ \A e \in Dispatchers : e # d => disp'[e] = disp[e] /\ disp[e].pc \in {"off", "lock"}
  BY <1>1, <1>4, OnlyWorker DEF Working
<1>6. /\ Rows' = Rows /\ notices' \in [Rows -> Row]
      /\ \A m \in Rows : notices'[m].to = notices[m].to /\ notices'[m].resolved = notices[m].resolved
  <2>1. CASE UNCHANGED notices
    BY <1>1, <2>1 DEF NotificationsTypeOK, Rows
  <2>2. CASE notices' = [notices EXCEPT ![n].token = NoOne, ![n].held = FALSE]
    <3> DEFINE row == [notices[n] EXCEPT !.token = NoOne, !.held = FALSE]
    <3>1. row \in Row /\ row.to = notices[n].to /\ row.resolved = notices[n].resolved
      BY <1>2 DEF Row
    <3>2. notices' = [notices EXCEPT ![n] = row]
      BY <2>2
    <3> QED BY <1>1, <1>2, <3>1, <3>2 DEF NotificationsTypeOK, Rows
  <2> QED BY <1>4, <2>1, <2>2 DEF Release
<1>7. /\ typed' \in [1..MaxNotices -> 0..2] /\ noReceipt \subseteq noReceipt' /\ noReceipt' \subseteq Rows
      /\ \A m \in 1..MaxNotices : typed'[m] = typed[m] \/ (m = n /\ n \in noReceipt' /\ typed'[m] >= typed[m])
  <2>1. CASE UNCHANGED <<typed, noReceipt>>
    BY <1>1, <2>1 DEF NotificationsTypeOK
  <2>2. CASE Show(d) /\ noReceipt' = IF Shows(d) THEN noReceipt \cup {n} ELSE noReceipt
    <3>1. typed' = [typed EXCEPT ![n] = IF Shows(d) /\ @ < 2 THEN @ + 1 ELSE @]
      BY <2>2 DEF Show
    <3>2. (IF Shows(d) /\ typed[n] < 2 THEN typed[n] + 1 ELSE typed[n]) \in 0..2
      BY <1>2
    <3>3. typed' \in [1..MaxNotices -> 0..2]
      BY <1>1, <3>1, <3>2 DEF NotificationsTypeOK
    <3>4. \A m \in 1..MaxNotices : m # n => typed'[m] = typed[m]
      BY <1>1, <3>1 DEF NotificationsTypeOK
    <3>5. typed'[n] = IF Shows(d) /\ typed[n] < 2 THEN typed[n] + 1 ELSE typed[n]
      BY <1>1, <1>2, <3>1 DEF NotificationsTypeOK
    <3>6. typed'[n] = typed[n] \/ (n \in noReceipt' /\ typed'[n] >= typed[n])
      BY <1>2, <2>2, <3>5
    <3>7. noReceipt \subseteq noReceipt' /\ noReceipt' \subseteq Rows
      BY <1>1, <1>2, <2>2 DEF NotificationsTypeOK
    <3> QED BY <3>3, <3>4, <3>6, <3>7
  <2> QED BY <2>1, <2>2 DEF PromptFailed
<1>8. NotificationsTypeOK'
  <2>1. disp' \in [Dispatchers -> DispRecord]
    BY <1>1, <1>3, <1>4
  <2> QED BY <1>1, <1>4, <1>6, <1>7, <2>1 DEF NotificationsTypeOK, DispRecord, qvars
<1>9. WorkerInv'
  BY <1>1, <1>3, <1>4, <1>5 DEF NoticeInv, WorkerInv, Working
<1>10. \A e \in Dispatchers : disp[e].pc # "mark" /\ disp'[e].pc \notin {"prompt", "mark"}
  BY <1>1, <1>3, <1>5
<1>11. ClaimInv'
  BY <1>10 DEF ClaimInv, Holding
<1>12. \A m \in Rows : m \in 1..MaxNotices /\ typed[m] \in 0..2 /\ typed'[m] \in 0..2
  BY <1>1, <1>7, NotificationConstants DEF NotificationsTypeOK
<1>13. ReceiptInv'
  <2>1. \A m \in Rows : Open(m) /\ typed[m] > 0 => m \in noReceipt
    BY <1>10 DEF NoticeInv, ReceiptInv, Marking
  <2>2. \A m \in Rows : Open(m)' /\ typed'[m] > 0 => m \in noReceipt'
    BY <1>6, <1>7, <1>12, <2>1 DEF Open
  <2>3. \A m \in 1..MaxNotices : m \notin Rows' => typed'[m] = 0
    BY <1>2, <1>6, <1>7 DEF NoticeInv, ReceiptInv
  <2> QED BY <1>6, <2>2, <2>3 DEF ReceiptInv
<1>14. DeliveredToHead' /\ TypedOnce'
  <2>1. \A m \in Rows : typed[m] > 0 => typed'[m] > 0
    BY <1>7, <1>12
  <2>2. \A m \in Rows : typed'[m] > 1 => m \in noReceipt'
    BY <1>7, <1>12 DEF NoticeInv, TypedOnce
  <2> QED BY <1>4, <1>6, <2>1, <2>2 DEF NoticeInv, DeliveredToHead, TypedOnce, qvars
<1> QED BY <1>8, <1>9, <1>11, <1>13, <1>14 DEF NoticeInv

\* The mark: if the target still is the head, the claim still stands, so that the
\* notice is delivered unless the owner decided it meanwhile.
LEMMA MarkStep ==
  ASSUME NoticeInv, NEW d \in Dispatchers, MarkDelivered(d)
  PROVE  NoticeInv'
<1> DEFINE n == Current(d)
           row == [notices[n] EXCEPT !.to = disp[d].target, !.token = NoOne, !.held = FALSE]
<1>1. /\ NotificationsTypeOK /\ disp \in [Dispatchers -> DispRecord]
      /\ disp[d].pc = "mark" /\ disp[d].todo # {} /\ lock = d /\ disp[d].target \in Heads
  BY DEF NoticeInv, NotificationsTypeOK, DispRecord, MarkDelivered, WorkerInv, Working
<1>2. n \in Rows /\ n \in 1..MaxNotices /\ notices[n] \in Row
  BY <1>1, CurrentIsRow DEF NotificationsTypeOK
<1>3. /\ PassOn(d) \in DispRecord /\ PassOn(d).pc \in {"register", "claim"}
      /\ PassOn(d).pc = "claim" => PassOn(d).todo # {}
  BY <1>1, PassedOn
<1>4. /\ disp' = [disp EXCEPT ![d] = PassOn(d)]
      /\ UNCHANGED <<queue, qvars, run, question, noticed, lock, typed, noReceipt, deaths>>
      /\ IF CanMark(n, d, disp[d].target) THEN notices' = [notices EXCEPT ![n] = row] ELSE UNCHANGED notices
  BY DEF MarkDelivered
<1>5. row \in Row /\ row.to = disp[d].target /\ row.resolved = notices[n].resolved
  BY <1>1, <1>2 DEF Row
<1> HIDE DEF row
<1>6. /\ disp'[d] = PassOn(d)
      /\ \A e \in Dispatchers : e # d => disp'[e] = disp[e] /\ disp[e].pc \in {"off", "lock"}
  BY <1>1, <1>4, OnlyWorker DEF Working
<1>7. /\ Rows' = Rows /\ notices' \in [Rows -> Row]
      /\ \A m \in Rows : m # n => notices'[m] = notices[m]
      /\ notices'[n] = notices[n] \/ (notices'[n] = row /\ Shows(d))
  BY <1>1, <1>2, <1>4, <1>5 DEF NotificationsTypeOK, Rows, CanMark, MarkResult, MarkRunNotice, Shows
<1>8. NotificationsTypeOK'
  <2>1. disp' \in [Dispatchers -> DispRecord]
    BY <1>1, <1>3, <1>4
  <2> QED BY <1>1, <1>4, <1>7, <2>1 DEF NotificationsTypeOK, DispRecord, qvars
<1>9. WorkerInv'
  BY <1>1, <1>3, <1>4, <1>6 DEF NoticeInv, WorkerInv, Working
<1>10. \A e \in Dispatchers : disp'[e].pc \notin {"prompt", "mark"} /\ (e # d => disp[e].pc # "mark")
  BY <1>1, <1>3, <1>6
<1>11. ClaimInv'
  BY <1>10 DEF ClaimInv, Holding
<1>12. Shows(d) => typed[n] > 0 /\ (~notices[n].resolved => CanMark(n, d, disp[d].target))
  BY <1>1 DEF NoticeInv, ClaimInv, Holding, Shows, CanMark, MarkResult, MarkRunNotice
<1>13. disp[d].target # NoHead
  BY <1>1, NotificationConstants DEF Heads, NoHead
<1>14. ReceiptInv'
  <2>1. ASSUME NEW m \in Rows, Open(m)', typed[m] > 0 PROVE m \in noReceipt
    <3>1. Open(m)
      BY <1>5, <1>7, <1>13, <2>1 DEF Open
    <3>2. ~(m = n /\ Shows(d))
      BY <1>2, <1>4, <1>5, <1>12, <1>13, <2>1, <3>1 DEF Open, NotificationsTypeOK, NoticeInv
    <3> QED BY <1>10, <2>1, <3>1, <3>2 DEF NoticeInv, ReceiptInv, Marking
  <2> QED BY <1>4, <1>7, <2>1 DEF NoticeInv, ReceiptInv
<1>15. DeliveredToHead' /\ TypedOnce'
  BY <1>4, <1>5, <1>7, <1>12 DEF NoticeInv, DeliveredToHead, TypedOnce, Shows, qvars
<1> QED BY <1>8, <1>9, <1>11, <1>14, <1>15 DEF NoticeInv

\* A dispatcher dies: its claim is nobody's, and if it was about to mark what the
\* head saw, that receipt is lost.
LEMMA DieStep ==
  ASSUME NoticeInv, NEW d \in Dispatchers, Die(d)
  PROVE  NoticeInv'
<1>1. /\ NotificationsTypeOK /\ disp \in [Dispatchers -> DispRecord] /\ Idle \in DispRecord /\ Idle.pc = "off"
      /\ d # NoOne
  BY NotificationConstants DEF NoticeInv, NotificationsTypeOK, DispRecord, Idle, Steps
<1>2. /\ disp' = [disp EXCEPT ![d] = Idle] /\ lock' = (IF lock = d THEN NoOne ELSE lock)
      /\ notices' = [n \in Rows |-> IF notices[n].token = d
                                    THEN [notices[n] EXCEPT !.token = Dead] ELSE notices[n]]
      /\ UNCHANGED <<queue, qvars, run, question, noticed, typed>>
      /\ deaths < MaxDeaths /\ deaths' = deaths + 1
  BY DEF Die, Leave, Forget
<1>3. /\ Rows' = Rows /\ notices' \in [Rows -> Row]
      /\ \A n \in Rows : /\ notices'[n].to = notices[n].to /\ notices'[n].resolved = notices[n].resolved
                         /\ notices[n].token # d => notices'[n].token = notices[n].token
  <2>1. \A n \in Rows : /\ [notices[n] EXCEPT !.token = Dead] \in Row
                        /\ [notices[n] EXCEPT !.token = Dead].to = notices[n].to
                        /\ [notices[n] EXCEPT !.token = Dead].resolved = notices[n].resolved
    BY <1>1 DEF NotificationsTypeOK, Row
  <2> QED BY <1>1, <1>2, <2>1 DEF NotificationsTypeOK, Rows
<1>4. disp'[d] = Idle /\ \A e \in Dispatchers : e # d => disp'[e] = disp[e]
  BY <1>1, <1>2
<1>5. /\ noReceipt \subseteq noReceipt' /\ noReceipt' \subseteq Rows
      /\ \A n \in Rows : Marking(d, n) => n \in noReceipt'
  <2>1. disp[d].pc = "mark" => Current(d) \in Rows
    BY <1>1, CurrentIsRow DEF NoticeInv, WorkerInv
  <2> QED BY <1>1, <2>1 DEF Die, Marking, NotificationsTypeOK
<1>6. NotificationsTypeOK'
  <2>1. disp' \in [Dispatchers -> DispRecord] /\ deaths' \in 0..MaxDeaths
    BY <1>1, <1>2, NotificationConstants DEF NotificationsTypeOK
  <2> QED BY <1>1, <1>2, <1>3, <1>5, <2>1 DEF NotificationsTypeOK, DispRecord, qvars
<1>7. WorkerInv'
  BY <1>1, <1>2, <1>4 DEF NoticeInv, WorkerInv, Working, qvars
<1>8. ClaimInv'
  <2> SUFFICES ASSUME NEW e \in Dispatchers, Holding(e)'
               PROVE  /\ surface' = binding'
                      /\ ~notices'[Current(e)'].resolved =>
                           notices'[Current(e)'].token = e /\ notices'[Current(e)'].to = NoHead
                      /\ disp'[e].pc = "prompt" => typed'[Current(e)'] = 0 \/ Current(e)' \in noReceipt'
                      /\ disp'[e].pc = "mark" => typed'[Current(e)'] > 0
    BY DEF ClaimInv
  <2>1. e # d /\ disp'[e] = disp[e]
    BY <1>1, <1>4 DEF Holding
  <2>2. Holding(e) /\ Current(e)' = Current(e)
    BY <1>2, <2>1 DEF Holding, Shows, Current, qvars
  <2>3. Current(e) \in Rows
    BY <1>1, <2>2, CurrentIsRow DEF NoticeInv, WorkerInv, Holding
  <2> QED BY <1>2, <1>3, <1>5, <2>1, <2>2, <2>3 DEF NoticeInv, ClaimInv, qvars
<1>9. ReceiptInv'
  <2>1. \A e \in Dispatchers : \A n : e # d /\ Marking(e, n) => Marking(e, n)'
    BY <1>2, <1>4 DEF Marking, Shows, Current, qvars
  <2>2. \A n \in Rows : Open(n)' => Open(n)
    BY <1>3 DEF Open
  <2>3. ASSUME NEW n \in Rows, Open(n)', typed[n] > 0
        PROVE  n \in noReceipt' \/ \E e \in Dispatchers : Marking(e, n)'
    <3>1. CASE n \in noReceipt
      BY <1>5, <3>1
    <3>2. CASE n \notin noReceipt
      <4>1. PICK e \in Dispatchers : Marking(e, n)
        BY <2>2, <2>3, <3>2 DEF NoticeInv, ReceiptInv
      <4> QED BY <1>5, <2>1, <4>1
    <3> QED BY <3>1, <3>2
  <2> QED BY <1>2, <1>3, <2>3 DEF NoticeInv, ReceiptInv
<1>10. DeliveredToHead' /\ TypedOnce'
  BY <1>2, <1>3, <1>5 DEF NoticeInv, DeliveredToHead, TypedOnce, qvars
<1> QED BY <1>6, <1>7, <1>8, <1>9, <1>10 DEF NoticeInv

-----------------------------------------------------------------------------
(* The invariant and what follows from it. *)

\* An empty queue without dispatchers satisfies it.
LEMMA InitNoticeInv == Init => NoticeInv
<1> SUFFICES ASSUME Init PROVE NoticeInv
  OBVIOUS
<1>1. Rows = {} /\ Rows = 1..0 /\ 0 \in 0..MaxNotices
  BY NotificationConstants DEF Init, Rows
<1>2. binding \in Heads /\ Idle \in DispRecord /\ Idle.pc = "off"
  BY NotificationConstants DEF Init, Heads, Epochs, Idle, DispRecord, Steps
<1>3. NotificationsTypeOK
  <2>1. notices \in [Rows -> Row]
    BY <1>1 DEF Init
  <2>2. disp \in [Dispatchers -> DispRecord]
    BY <1>2 DEF Init
  <2>3. \E k \in 0..MaxNotices : Rows = 1..k
    BY <1>1
  <2>4. typed \in [1..MaxNotices -> 0..2] /\ noReceipt \subseteq Rows /\ deaths \in 0..MaxDeaths
    BY NotificationConstants DEF Init
  <2>5. /\ queue \in {"task", "workflow"} /\ surface \in Heads \cup {NoHead} /\ lock \in Dispatchers \cup {NoOne}
        /\ run \in {"running", "retrying", "over"} /\ question \in {"none", "open", "closed"}
        /\ noticed \subseteq Sessions
    BY <1>2 DEF Init
  <2> QED BY <1>2, <2>1, <2>2, <2>3, <2>4, <2>5 DEF NotificationsTypeOK, DispRecord
<1>4. WorkerInv /\ ClaimInv
  BY <1>2 DEF Init, WorkerInv, ClaimInv, Working, Holding
<1>5. ReceiptInv /\ DeliveredToHead /\ TypedOnce
  BY <1>1 DEF Init, ReceiptInv, DeliveredToHead, TypedOnce
<1> QED BY <1>3, <1>4, <1>5 DEF NoticeInv

\* Every step keeps it.
LEMMA NoticeInvStep == NoticeInv /\ [Next]_vars => NoticeInv'
<1> SUFFICES ASSUME NoticeInv, [Next]_vars PROVE NoticeInv'
  OBVIOUS
<1>1. ASSUME NEW d \in Dispatchers, Work(d) PROVE NoticeInv'
  BY <1>1, QuietStep, ClaimStep, AcceptStep, RefusedStep, MarkStep DEF Work, TaskDispatcher, RunDispatcher
<1>2. ASSUME NEW d \in Dispatchers, Die(d) PROVE NoticeInv'
  BY <1>2, DieStep
<1>3. ASSUME NEW s \in Sessions, Rebind(s) PROVE NoticeInv'
  BY <1>3, RebindStep
<1>4. CASE \/ \E n \in Rows : LeaseExpires(n) \/ Resolve(n)
           \/ Admit \/ Seal \/ RunTransition \/ Ask \/ CloseQuestion \/ Announce
  BY <1>4, OwnerStep
<1>5. CASE UNCHANGED vars
  <2> USE <1>5 DEF vars, qvars
  <2>1. NotificationsTypeOK'
    BY DEF NoticeInv, NotificationsTypeOK, Rows
  <2>2. Safe'
    BY OwnerSafe DEF NoticeInv, NotificationsTypeOK, Rows
  <2> QED BY <2>1, <2>2 DEF NoticeInv, Safe
<1> QED BY <1>1, <1>2, <1>3, <1>4, <1>5 DEF Next, HookAnnounces, BindAnnounces, HeadAnnounces

\* The inductive invariant of queue, dispatchers and head.
THEOREM NoticeInvariant == Spec => []NoticeInv
<1> QED BY InitNoticeInv, NoticeInvStep, PTL DEF Spec

\* Types, and no head is shown a notice twice unless the first receipt was lost,
\* whatever the leases, deaths and moves of the head (deliver_pending).
THEOREM NoticesInvHolds == Spec => []NoticesInv
<1>1. NoticeInv => NoticesInv
  BY DEF NoticeInv, NoticesInv
<1> QED BY <1>1, NoticeInvariant, PTL

\* What counts as delivered was typed to the session that is the head now, at its
\* present epoch (mark_notification_delivered, bind_owner_in_transaction).
THEOREM DeliveredToHeadHolds == Spec => []DeliveredToHead
<1>1. NoticeInv => DeliveredToHead
  BY DEF NoticeInv
<1> QED BY <1>1, NoticeInvariant, PTL
=============================================================================
