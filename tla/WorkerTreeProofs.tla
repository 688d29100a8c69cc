-------------------------- MODULE WorkerTreeProofs --------------------------
(***************************************************************************)
(* The limits, the cancellation and the sealing of a delegation tree hold  *)
(* for any number of tasks, any depth, budget and number of revisions,     *)
(* however admissions race.                                                *)
(***************************************************************************)
EXTENDS WorkerTree, FiniteSetTheorems, WellFoundedInduction, TLAPS

\* p is an attempt that its task has or had.
Happened(p) ==
  /\ p \in Attempt
  /\ p.rev < task[p.task].rev \/ (p.rev = task[p.task].rev /\ p.att <= task[p.task].att)

\* An edge leads from an attempt that happened to a task that exists, one level
\* down; finitely many tasks were delegated.
EdgeInv ==
  /\ IsFiniteSet({c \in Tasks : edge[c] # NoEdge})
  /\ \A c \in Tasks : edge[c] # NoEdge =>
       /\ c # Root /\ Exists(c)
       /\ Happened(edge[c].parent)
       /\ edge[c].depth = edge[edge[c].parent.task].depth + 1

\* An admission under way is the only one of its task, and a child is revised
\* only by the attempt that started it.
AskingInv ==
  \A c \in Tasks : asking[c] # NoAttempt =>
    /\ c # Root /\ task[c].rev < MaxRevisions
    /\ Exists(c) => edge[c].parent = asking[c]

\* What holds of a single run.
SoundRun(s) ==
  /\ s.st \in {"running", "collecting"} => s.att >= 1 /\ s.rev >= 1
  /\ s.completed => s.st = "terminal"
  /\ ~s.completed => s.outcome \in {"none", "failed"}
  /\ s.acked /\ ~s.completed => s.early
  /\ s.verdict # "none" => s.st = "collecting"
SoundRuns == \A t \in Tasks : SoundRun(task[t])

\* A child's run that does not keep its parent from sealing.
SettledRun(s) ==
  \/ s.outcome # "none" /\ s.acked /\ (s.outcome = "candidate" => s.decided # "none")
  \/ s.early
ChildrenSettled(t) ==
  \A c \in Children(Current(t)) : Cancelled(c) \/ SettledRun(task[c])

\* From the moment an attempt has found its children settled they stay so: it
\* has stopped adding children and deciding about them.
VerdictInv ==
  \A t \in Tasks :
    /\ task[t].verdict \in {"children", "settled"} \/ task[t].outcome = "candidate" => ChildrenSettled(t)
    /\ task[t].verdict = "settled" \/ task[t].outcome = "candidate" => task[t].open = {}

\* The inductive invariant.
TreeSafe ==
  /\ TreeTypeOK /\ EdgeInv /\ AskingInv /\ SoundRuns /\ VerdictInv
  /\ ChildLimit /\ TreeCancelIsClosed

-----------------------------------------------------------------------------
(* The subtree of a task. *)

\* Induction over the natural numbers, stated with a set.
LEMMA SetInduction ==
  ASSUME NEW S, 0 \in S, \A n \in Nat : n \in S => n + 1 \in S
  PROVE  \A n \in Nat : n \in S
<1> SUFFICES ASSUME \E n \in Nat : n \notin S PROVE FALSE
  OBVIOUS
<1> DEFINE T == Nat \ S
<1>1. T \subseteq Nat /\ T # {}
  OBVIOUS
<1>2. PICK R : IsWellFoundedOn(R, Nat) /\ \A x, y \in Nat : <<x, y>> \in R <=> x < y
  BY NatLessThanWellFounded DEF OpToRel
<1>3. IsWellFoundedOn(R, Nat)
  BY <1>2
<1> HIDE DEF T
<1>4. PICK x \in T : \A y \in T : ~(<<y, x>> \in R)
  BY <1>1, <1>3, WFMin, Zenon
<1>5. x \in Nat /\ x \notin S /\ x # 0
  BY <1>4 DEF T
<1>6. x - 1 \in Nat /\ x - 1 < x
  BY <1>5
<1>7. x - 1 \notin T
  BY <1>2, <1>4, <1>5, <1>6
<1>8. x - 1 \in S
  BY <1>6, <1>7 DEF T
<1>9. (x - 1) + 1 \in S
  BY <1>6, <1>8
<1> QED BY <1>5, <1>9

\* The levels that query_subtree walks through exist.
LEMMA LevelsExist ==
  ASSUME NEW t
  PROVE  \E f : f = [k \in 0..MaxDepth |-> IF k = 0 THEN {t} ELSE f[k - 1] \cup Delegated(f[k - 1])]
<1> DEFINE Is(f, n) == f = [k \in 0..n |-> IF k = 0 THEN {t} ELSE f[k - 1] \cup Delegated(f[k - 1])]
           S == {n \in Nat : \E f : Is(f, n)}
<1>1. 0 \in S
  <2> DEFINE f == [k \in 0..0 |-> {t}]
  <2>1. Is(f, 0)
    OBVIOUS
  <2> QED BY <2>1
<1>2. ASSUME NEW n \in Nat, n \in S PROVE n + 1 \in S
  <2>1. PICK f : Is(f, n)
    BY <1>2
  <2> DEFINE g == [k \in 0..(n + 1) |-> IF k = n + 1 THEN f[n] \cup Delegated(f[n]) ELSE f[k]]
  <2>2. \A k \in 0..n : g[k] = f[k]
    OBVIOUS
  <2>3. \A k \in 0..n : f[k] = IF k = 0 THEN {t} ELSE f[k - 1] \cup Delegated(f[k - 1])
    BY <2>1
  <2>4. ASSUME NEW k \in 0..(n + 1)
        PROVE  g[k] = IF k = 0 THEN {t} ELSE g[k - 1] \cup Delegated(g[k - 1])
    <3>1. CASE k = n + 1
      <4>1. k # 0 /\ k - 1 = n /\ n \in 0..n
        BY <3>1
      <4>2. g[k] = f[n] \cup Delegated(f[n]) /\ g[k - 1] = f[n]
        BY <2>2, <3>1, <4>1
      <4> HIDE DEF g
      <4> QED BY <4>1, <4>2
    <3>2. CASE k # n + 1
      <4>1. k \in 0..n /\ (k # 0 => k - 1 \in 0..n)
        BY <3>2
      <4>2. g[k] = f[k] /\ (k # 0 => g[k - 1] = f[k - 1])
        BY <2>2, <4>1
      <4> HIDE DEF g
      <4> QED BY <2>3, <4>1, <4>2
    <3> QED BY <3>1, <3>2
  <2>5. g = [k \in 0..(n + 1) |-> g[k]]
    OBVIOUS
  <2> HIDE DEF g
  <2>6. Is(g, n + 1)
    BY <2>4, <2>5
  <2> QED BY <2>6
<1> HIDE DEF S
<1>3. \A n \in Nat : n \in S
  BY <1>1, <1>2, SetInduction
<1>4. MaxDepth \in S
  BY <1>3, TreeConstants
<1> QED BY <1>4 DEF S

\* They are what Subtree is made of.
LEMMA Levels ==
  ASSUME NEW t
  PROVE  \E f : /\ f[MaxDepth] = Subtree(t)
                /\ f[0] = {t}
                /\ \A k \in Nat : k < MaxDepth => f[k + 1] = f[k] \cup Delegated(f[k])
<1> DEFINE down == CHOOSE f : f = [k \in 0..MaxDepth |-> IF k = 0 THEN {t} ELSE f[k - 1] \cup Delegated(f[k - 1])]
<1>1. Subtree(t) = down[MaxDepth]
  BY DEF Subtree
<1>2. down = [k \in 0..MaxDepth |-> IF k = 0 THEN {t} ELSE down[k - 1] \cup Delegated(down[k - 1])]
  <2>1. \E f : f = [k \in 0..MaxDepth |-> IF k = 0 THEN {t} ELSE f[k - 1] \cup Delegated(f[k - 1])]
    BY LevelsExist, Zenon
  <2> QED BY <2>1, Zenon
<1> HIDE DEF down
<1>3. \A k \in 0..MaxDepth : down[k] = IF k = 0 THEN {t} ELSE down[k - 1] \cup Delegated(down[k - 1])
  BY <1>2
<1>4. down[0] = {t}
  <2>1. 0 \in 0..MaxDepth
    BY TreeConstants
  <2> QED BY <1>3, <2>1
<1>5. ASSUME NEW k \in Nat, k < MaxDepth PROVE down[k + 1] = down[k] \cup Delegated(down[k])
  <2>1. k + 1 \in 0..MaxDepth /\ k + 1 # 0 /\ (k + 1) - 1 = k
    BY <1>5, TreeConstants
  <2> QED BY <1>3, <2>1
<1> QED BY <1>1, <1>4, <1>5

\* The cut-off of query_subtree never cuts: what a task of the subtree delegated
\* is in the subtree, for delegation goes no deeper than the walk.
LEMMA SubtreeClosed ==
  ASSUME TreeTypeOK, EdgeInv, NEW t \in Tasks, NEW c \in Tasks, edge[c] # NoEdge,
         edge[c].parent.task \in Subtree(t)
  PROVE  c \in Subtree(t)
<1>1. PICK f : /\ f[MaxDepth] = Subtree(t) /\ f[0] = {t}
               /\ \A k \in Nat : k < MaxDepth => f[k + 1] = f[k] \cup Delegated(f[k])
  BY Levels
<1>2. MaxDepth \in Nat /\ \A n \in Tasks : edge[n].depth \in Nat /\ edge[n].depth <= MaxDepth
  BY TreeConstants DEF TreeTypeOK
<1> DEFINE S == {k \in Nat : k <= MaxDepth =>
                   /\ \A j \in 0..k : f[j] \subseteq f[k]
                   /\ \A n \in f[k] : n \in Tasks /\ \E j \in 0..k : n \in f[j] /\ j <= edge[n].depth}
<1>3. 0 \in S
  BY <1>1, <1>2
<1>4. ASSUME NEW k \in Nat, k \in S PROVE k + 1 \in S
  <2> SUFFICES ASSUME k + 1 <= MaxDepth
               PROVE  /\ \A j \in 0..(k + 1) : f[j] \subseteq f[k + 1]
                      /\ \A n \in f[k + 1] : n \in Tasks /\ \E j \in 0..(k + 1) : n \in f[j] /\ j <= edge[n].depth
    OBVIOUS
  <2>1. /\ \A j \in 0..k : f[j] \subseteq f[k]
        /\ \A n \in f[k] : n \in Tasks /\ \E j \in 0..k : n \in f[j] /\ j <= edge[n].depth
        /\ k < MaxDepth
    BY <1>2, <1>4
  <2>2. f[k + 1] = f[k] \cup Delegated(f[k])
    BY <1>1, <2>1
  <2>3. \A j \in 0..(k + 1) : f[j] \subseteq f[k + 1]
    BY <2>1, <2>2
  <2>4. ASSUME NEW n \in f[k] PROVE n \in Tasks /\ \E j \in 0..(k + 1) : n \in f[j] /\ j <= edge[n].depth
    BY <2>1
  <2>5. ASSUME NEW n \in Delegated(f[k])
        PROVE  n \in Tasks /\ \E j \in 0..(k + 1) : n \in f[j] /\ j <= edge[n].depth
    <3> DEFINE p == edge[n].parent.task
    <3>1. n \in Tasks /\ edge[n] # NoEdge /\ p \in f[k]
      BY DEF Delegated
    <3>2. PICK j \in 0..k : p \in f[j] /\ j <= edge[p].depth
      BY <2>1, <3>1
    <3>3. edge[n].depth = edge[p].depth + 1 /\ edge[p].depth \in Nat
      BY <1>2, <2>1, <3>1 DEF EdgeInv
    <3>4. j \in Nat /\ j < MaxDepth /\ j + 1 \in 0..(k + 1) /\ j + 1 <= edge[n].depth
      BY <2>1, <1>2, <3>2, <3>3
    <3>5. n \in f[j + 1]
      BY <1>1, <3>1, <3>2, <3>4 DEF Delegated
    <3> QED BY <3>1, <3>4, <3>5
  <2> QED BY <2>2, <2>3, <2>4, <2>5
<1> HIDE DEF S
<1>5. MaxDepth \in S
  BY <1>2, <1>3, <1>4, SetInduction
<1> DEFINE n == edge[c].parent.task
<1>6. /\ \A j \in 0..MaxDepth : f[j] \subseteq f[MaxDepth]
      /\ n \in Tasks /\ \E j \in 0..MaxDepth : n \in f[j] /\ j <= edge[n].depth
  BY <1>1, <1>2, <1>5 DEF S
<1>7. PICK j \in 0..MaxDepth : n \in f[j] /\ j <= edge[n].depth
  BY <1>6
<1>8. edge[c].depth = edge[n].depth + 1
  BY DEF EdgeInv
<1>9. j \in Nat /\ j < MaxDepth /\ j + 1 \in 0..MaxDepth
  BY <1>2, <1>6, <1>7, <1>8
<1>10. c \in f[j + 1]
  BY <1>1, <1>7, <1>9 DEF Delegated
<1> QED BY <1>1, <1>6, <1>9, <1>10

-----------------------------------------------------------------------------
(* What a supervisor, a worker or an owner does to a single run. *)

\* r may be the next state of t's run.
Moved(t, r) ==
  /\ r \in Run /\ SoundRun(r)
  /\ r.rev = task[t].rev /\ r.intent = task[t].intent
  /\ task[t].completed => r.completed
  /\ SettledRun(task[t]) => SettledRun(r) \/ Owned(t)
  /\ r.att = task[t].att \/ r.att = task[t].att + 1
  /\ r.verdict \in {"children", "settled"} \/ r.outcome = "candidate" =>
       r.att = task[t].att /\ ChildrenSettled(t)
  /\ r.verdict = "settled" \/ r.outcome = "candidate" => r.open = {}

\* Every result that is committed moves its run legally: a candidate only after
\* the attempt read its children and its questions and found them settled.
LEMMA Commits ==
  ASSUME TreeSafe, NEW t \in Tasks, NEW o \in {"candidate", "failed", "cancelled", "lost"},
         ~task[t].completed, o = "candidate" => task[t].verdict = "settled", Commit(t, o)
  PROVE  \E r : Moved(t, r) /\ Set(t, r)
<1> DEFINE s == task[t]
           r == [s EXCEPT !.st = "terminal", !.outcome = o, !.acked = FALSE,
                   !.decided = "none", !.completed = TRUE, !.verdict = "none"]
<1>1. s \in Run
  BY DEF TreeSafe, TreeTypeOK
<1>2. r \in Run /\ r.rev = s.rev /\ r.att = s.att /\ r.st = "terminal" /\ r.outcome = o
      /\ r.early = s.early /\ r.completed = TRUE /\ r.intent = s.intent
      /\ r.open = s.open /\ r.verdict = "none" /\ r.acked = FALSE
  BY <1>1 DEF Run
<1>3. Set(t, r)
  BY DEF Commit
<1> HIDE DEF r
<1>4. SoundRun(r)
  BY <1>2 DEF SoundRun
<1>5. SettledRun(s) => SettledRun(r)
  <2>1. SoundRun(s) /\ ~s.completed
    BY DEF TreeSafe, SoundRuns
  <2>2. SettledRun(s) => s.early
    BY <2>1 DEF SoundRun, SettledRun
  <2> QED BY <1>2, <2>2 DEF SettledRun
<1>6. o = "candidate" => ChildrenSettled(t) /\ s.open = {}
  BY DEF TreeSafe, VerdictInv
<1>7. Moved(t, r)
  BY <1>2, <1>4, <1>5, <1>6 DEF Moved
<1> QED BY <1>3, <1>7

\* A failure that leaves the run open for another attempt moves it legally.
LEMMA CommitsForRetry ==
  ASSUME TreeSafe, NEW t \in Tasks, task[t].st = "running", CommitForRetry(t)
  PROVE  \E r : Moved(t, r) /\ Set(t, r)
<1> DEFINE s == task[t]
           r == [s EXCEPT !.st = "terminal", !.outcome = "failed", !.acked = FALSE]
<1>1. s \in Run /\ SoundRun(s)
  BY DEF TreeSafe, TreeTypeOK, SoundRuns
<1>2. r \in Run /\ r.rev = s.rev /\ r.att = s.att /\ r.st = "terminal" /\ r.outcome = "failed"
      /\ r.early = s.early /\ r.completed = s.completed /\ r.intent = s.intent
      /\ r.open = s.open /\ r.verdict = s.verdict /\ r.acked = FALSE
  BY <1>1 DEF Run
<1>3. Set(t, r)
  BY DEF CommitForRetry
<1> HIDE DEF r
<1>4. ~s.completed /\ s.verdict = "none"
  BY <1>1 DEF SoundRun
<1>5. SoundRun(r)
  BY <1>2, <1>4 DEF SoundRun
<1>6. SettledRun(s) => SettledRun(r)
  <2>1. SettledRun(s) => s.early
    BY <1>1, <1>4 DEF SoundRun, SettledRun
  <2> QED BY <1>2, <2>1 DEF SettledRun
<1>7. Moved(t, r)
  BY <1>2, <1>4, <1>5, <1>6 DEF Moved
<1> QED BY <1>3, <1>7

\* The tasks' budgets are within the largest one.
LEMMA BudgetIsBounded ==
  ASSUME NEW t \in Tasks
  PROVE  Budget(t) \in Nat /\ Budget(t) <= MaxAttempts
BY TreeConstants DEF Budget

\* A step of its supervisor moves a run legally.
LEMMA SupervisorMoves ==
  ASSUME TreeSafe, NEW t \in Tasks, Supervise(t) \/ Recover(t)
  PROVE  \E r : Moved(t, r) /\ Set(t, r)
<1> DEFINE s == task[t]
<1>1. s \in Run /\ SoundRun(s)
  BY DEF TreeSafe, TreeTypeOK, SoundRuns
<1>2. s.verdict \in {"children", "settled"} \/ s.outcome = "candidate" => ChildrenSettled(t)
  BY DEF TreeSafe, VerdictInv
<1>3. s.verdict = "settled" \/ s.outcome = "candidate" => s.open = {}
  BY DEF TreeSafe, VerdictInv
<1>4. CASE Claim(t)
  <2> DEFINE r == [s EXCEPT !.att = @ + 1, !.st = "running", !.granted = FALSE,
                      !.asked = {}, !.open = {}]
  <2>1. s.att + 1 \in 0..MaxAttempts /\ s.att \in Nat
    BY <1>1, <1>4, BudgetIsBounded, TreeConstants DEF Claim, Run
  <2>2. r \in Run /\ r.rev = s.rev /\ r.att = s.att + 1 /\ r.st = "running" /\ r.outcome = s.outcome
        /\ r.early = s.early /\ r.completed = s.completed /\ r.intent = s.intent
        /\ r.open = {} /\ r.verdict = s.verdict /\ r.acked = s.acked /\ r.decided = s.decided
    BY <1>1, <2>1 DEF Run
  <2>3. Set(t, r)
    BY <1>4 DEF Claim
  <2> HIDE DEF r
  <2>4. ~s.completed /\ s.rev >= 1 /\ (s.att = 0 \/ s.st = "terminal")
    BY <1>1, <1>4 DEF Claim, Alive, Exists, Run
  <2>5. s.verdict = "none" /\ s.outcome # "candidate"
    BY <1>1, <2>4 DEF SoundRun
  <2>6. SoundRun(r)
    BY <1>1, <2>1, <2>2, <2>4, <2>5 DEF SoundRun
  <2>7. Moved(t, r)
    BY <2>2, <2>5, <2>6 DEF Moved, SettledRun
  <2> QED BY <2>3, <2>7
<1>5. CASE SpawnFails(t)
  <2>1. s.st = "running" /\ ~s.completed
    BY <1>1, <1>5 DEF SpawnFails, SoundRun
  <2>2. CommitForRetry(t) \/ Commit(t, "failed")
    BY <1>5 DEF SpawnFails
  <2> QED BY <2>1, <2>2, Commits, CommitsForRetry
<1>6. CASE Grant(t)
  <2> DEFINE r == [s EXCEPT !.granted = TRUE]
  <2>1. r \in Run /\ r.rev = s.rev /\ r.att = s.att /\ r.st = s.st /\ r.outcome = s.outcome
        /\ r.early = s.early /\ r.completed = s.completed /\ r.intent = s.intent
        /\ r.open = s.open /\ r.verdict = s.verdict /\ r.acked = s.acked /\ r.decided = s.decided
    BY <1>1 DEF Run
  <2>2. Set(t, r)
    BY <1>6 DEF Grant
  <2> HIDE DEF r
  <2>3. Moved(t, r)
    BY <1>1, <1>2, <1>3, <2>1 DEF Moved, SettledRun, SoundRun
  <2> QED BY <2>2, <2>3
<1>7. CASE RunFails(t)
  <2>1. s.st = "running" /\ ~s.completed
    BY <1>1, <1>7 DEF RunFails, SoundRun
  <2>2. Commit(t, "failed") \/ Commit(t, "cancelled")
    BY <1>7 DEF RunFails
  <2> QED BY <2>1, <2>2, Commits
<1>8. CASE RunSucceeds(t)
  <2> DEFINE r == [s EXCEPT !.st = "collecting"]
  <2>1. r \in Run /\ r.rev = s.rev /\ r.att = s.att /\ r.st = "collecting" /\ r.outcome = s.outcome
        /\ r.early = s.early /\ r.completed = s.completed /\ r.intent = s.intent
        /\ r.open = s.open /\ r.verdict = s.verdict /\ r.acked = s.acked /\ r.decided = s.decided
    BY <1>1 DEF Run
  <2>2. Set(t, r) /\ s.st = "running"
    BY <1>8 DEF RunSucceeds
  <2> HIDE DEF r
  <2>3. Moved(t, r)
    BY <1>1, <1>2, <1>3, <2>1, <2>2 DEF Moved, SettledRun, SoundRun
  <2> QED BY <2>2, <2>3
<1>9. CASE ReadChildren(t)
  <2> DEFINE v == IF UnsettledChildren(Current(t)) = {} THEN "children" ELSE "unsettled"
             r == [s EXCEPT !.verdict = v]
  <2>1. v \in {"children", "unsettled"}
    OBVIOUS
  <2>2. v = "children" => ChildrenSettled(t)
    BY DEF ChildrenSettled, UnsettledChildren, SettledRun, Children
  <2>3. Set(t, r) /\ s.st = "collecting"
    BY <1>9 DEF ReadChildren
  <2> HIDE DEF v
  <2>4. r \in Run /\ r.rev = s.rev /\ r.att = s.att /\ r.st = s.st /\ r.outcome = s.outcome
        /\ r.early = s.early /\ r.completed = s.completed /\ r.intent = s.intent
        /\ r.open = s.open /\ r.verdict = v /\ r.acked = s.acked /\ r.decided = s.decided
    BY <1>1, <2>1 DEF Run
  <2> HIDE DEF r
  <2>5. Moved(t, r)
    BY <1>1, <1>2, <1>3, <2>1, <2>2, <2>3, <2>4 DEF Moved, SettledRun, SoundRun
  <2> QED BY <2>3, <2>5
<1>10. CASE ReadQuestions(t)
  <2> DEFINE v == IF s.open = {} THEN "settled" ELSE "unsettled"
             r == [s EXCEPT !.verdict = v]
  <2>1. v \in {"settled", "unsettled"} /\ (v = "settled" => s.open = {})
    OBVIOUS
  <2>2. Set(t, r) /\ s.verdict = "children"
    BY <1>10 DEF ReadQuestions
  <2> HIDE DEF v
  <2>3. r \in Run /\ r.rev = s.rev /\ r.att = s.att /\ r.st = s.st /\ r.outcome = s.outcome
        /\ r.early = s.early /\ r.completed = s.completed /\ r.intent = s.intent
        /\ r.open = s.open /\ r.verdict = v /\ r.acked = s.acked /\ r.decided = s.decided
    BY <1>1, <2>1 DEF Run
  <2> HIDE DEF r
  <2>4. Moved(t, r)
    BY <1>1, <1>2, <1>3, <2>1, <2>2, <2>3 DEF Moved, SettledRun, SoundRun
  <2> QED BY <2>2, <2>4
<1>11. CASE Seal(t)
  <2>1. ~s.completed
    BY <1>1, <1>11 DEF Seal, SoundRun
  <2>2. (s.verdict = "settled" /\ Commit(t, "candidate")) \/ Commit(t, "failed")
    BY <1>11 DEF Seal
  <2> QED BY <2>1, <2>2, Commits
<1>12. CASE Recover(t)
  <2>1. s.st \in {"running", "collecting", "none"} /\ ~s.completed
    BY <1>1, <1>12 DEF Recover, SoundRun
  <2>2. Commit(t, "lost") \/ Commit(t, "cancelled")
    BY <1>12 DEF Recover
  <2> QED BY <2>1, <2>2, Commits
<1> QED BY <1>4, <1>5, <1>6, <1>7, <1>8, <1>9, <1>10, <1>11, <1>12 DEF Supervise

\* So does what an owner does about a result, and a message.
LEMMA OwnersAndMessagesMove ==
  ASSUME TreeSafe, NEW t \in Tasks,
         \/ Acknowledge(t) \/ Decide(t) \/ Withdraw(t)
         \/ \E side \in Sides : Ask(t, side) \/ Reply(t, side)
  PROVE  \E r : Moved(t, r) /\ Set(t, r)
<1> DEFINE s == task[t]
<1>1. s \in Run /\ SoundRun(s)
  BY DEF TreeSafe, TreeTypeOK, SoundRuns
<1>2. s.verdict \in {"children", "settled"} \/ s.outcome = "candidate" => ChildrenSettled(t)
  BY DEF TreeSafe, VerdictInv
<1>3. s.verdict = "settled" \/ s.outcome = "candidate" => s.open = {}
  BY DEF TreeSafe, VerdictInv
<1>4. CASE Acknowledge(t)
  <2> DEFINE e == ~s.completed
             r == [s EXCEPT !.acked = TRUE, !.early = e]
  <2>1. e \in BOOLEAN /\ (e <=> ~s.completed)
    OBVIOUS
  <2>2. Set(t, r) /\ Owned(t) /\ ~s.acked
    BY <1>4 DEF Acknowledge
  <2> HIDE DEF e
  <2>3. r \in Run /\ r.rev = s.rev /\ r.att = s.att /\ r.st = s.st /\ r.outcome = s.outcome
        /\ r.early = e /\ r.completed = s.completed /\ r.intent = s.intent
        /\ r.open = s.open /\ r.verdict = s.verdict /\ r.acked = TRUE /\ r.decided = s.decided
    BY <1>1, <2>1 DEF Run
  <2> HIDE DEF r
  <2>4. Moved(t, r)
    BY <1>1, <1>2, <1>3, <2>1, <2>2, <2>3 DEF Moved, SoundRun
  <2> QED BY <2>2, <2>4
<1>5. CASE Decide(t)
  <2>1. PICK v \in {"accepted", "rejected"} : Set(t, [s EXCEPT !.acked = TRUE, !.decided = v])
    BY <1>5 DEF Decide
  <2> DEFINE r == [s EXCEPT !.acked = TRUE, !.decided = v]
  <2>2. Set(t, r) /\ Owned(t) /\ s.outcome = "candidate"
    BY <1>5, <2>1 DEF Decide
  <2>3. r \in Run /\ r.rev = s.rev /\ r.att = s.att /\ r.st = s.st /\ r.outcome = s.outcome
        /\ r.early = s.early /\ r.completed = s.completed /\ r.intent = s.intent
        /\ r.open = s.open /\ r.verdict = s.verdict /\ r.acked = TRUE /\ r.decided = v
    BY <1>1 DEF Run
  <2> HIDE DEF r
  <2>4. Moved(t, r)
    BY <1>1, <1>2, <1>3, <2>2, <2>3 DEF Moved, SoundRun
  <2> QED BY <2>2, <2>4
<1> DEFINE Talked(a, o) == [s EXCEPT !.asked = a, !.open = o]
<1>6. ASSUME NEW a \in SUBSET Sides, NEW o \in SUBSET Sides, s.st = "running" \/ o \subseteq s.open,
             Set(t, Talked(a, o))
      PROVE  \E r : Moved(t, r) /\ Set(t, r)
  <2> DEFINE r == [s EXCEPT !.asked = a, !.open = o]
  <2>1. r \in Run /\ r.rev = s.rev /\ r.att = s.att /\ r.st = s.st /\ r.outcome = s.outcome
        /\ r.early = s.early /\ r.completed = s.completed /\ r.intent = s.intent
        /\ r.open = o /\ r.verdict = s.verdict /\ r.acked = s.acked /\ r.decided = s.decided
    BY <1>1 DEF Run
  <2>2. Set(t, r)
    BY <1>6
  <2> HIDE DEF r
  <2>3. s.verdict = "settled" \/ s.outcome = "candidate" => o = {}
    BY <1>1, <1>3, <1>6 DEF SoundRun
  <2>4. Moved(t, r)
    BY <1>1, <1>2, <2>1, <2>3 DEF Moved, SettledRun, SoundRun
  <2> QED BY <2>2, <2>4
<1>7. \A o : [s EXCEPT !.open = o] = Talked(s.asked, o)
  BY <1>1 DEF Run
<1>8. s.asked \in SUBSET Sides /\ s.open \in SUBSET Sides /\ "worker" \in Sides
  BY <1>1 DEF Run, Sides
<1>9. CASE Withdraw(t)
  <2>1. Set(t, Talked(s.asked, s.open \ {"worker"}))
    BY <1>7, <1>9 DEF Withdraw
  <2> HIDE DEF Talked
  <2> QED BY <1>6, <1>8, <2>1
<1>10. ASSUME NEW side \in Sides, Ask(t, side) PROVE \E r : Moved(t, r) /\ Set(t, r)
  <2>1. s.st = "running" /\ Set(t, Talked(s.asked \cup {side}, s.open \cup {side}))
    BY <1>10 DEF Ask, Postable
  <2> HIDE DEF Talked
  <2> QED BY <1>6, <1>8, <2>1
<1>11. ASSUME NEW side \in Sides, Reply(t, side) PROVE \E r : Moved(t, r) /\ Set(t, r)
  <2>1. Set(t, Talked(s.asked, s.open \ {side}))
    BY <1>7, <1>11 DEF Reply
  <2> HIDE DEF Talked
  <2> QED BY <1>6, <1>8, <2>1
<1> QED BY <1>4, <1>5, <1>9, <1>10, <1>11

-----------------------------------------------------------------------------
(* Counting children. *)

\* An attempt's children are among the finitely many tasks that were delegated.
LEMMA ChildrenFinite ==
  ASSUME EdgeInv, NEW p
  PROVE  IsFiniteSet(Children(p))
<1>1. Children(p) \subseteq {c \in Tasks : edge[c] # NoEdge}
  BY DEF Children, NoEdge
<1> QED BY <1>1, FS_Subset DEF EdgeInv

\* The children that may still do work.
Working(p) == {c \in Children(p) : ~Cancelled(c) /\ ~task[c].completed}

\* A limit on a set holds for its subsets.
LEMMA LimitOfSubset ==
  ASSUME NEW A, IsFiniteSet(A), NEW B, B \subseteq A, Cardinality(A) <= MaxChildren
  PROVE  Cardinality(B) <= MaxChildren
<1>1. IsFiniteSet(B) /\ Cardinality(B) <= Cardinality(A)
  BY FS_Subset
<1>2. Cardinality(A) \in Nat /\ Cardinality(B) \in Nat /\ MaxChildren \in Nat
  BY <1>1, FS_CardinalityType, TreeConstants
<1> QED BY <1>1, <1>2

\* The limit holds after a step that only took working children away.
LEMMA LimitKept ==
  ASSUME TreeSafe, \A n \in Tasks : Working(Current(n))' \subseteq Working(Current(n))
  PROVE  ChildLimit'
<1> SUFFICES ASSUME NEW n \in Tasks PROVE Cardinality(Working(Current(n))') <= MaxChildren
  BY DEF ChildLimit, Working
<1>1. IsFiniteSet(Working(Current(n)))
  <2>1. IsFiniteSet(Children(Current(n)))
    BY ChildrenFinite DEF TreeSafe
  <2> QED BY <2>1, FS_Subset DEF Working
<1>2. Cardinality(Working(Current(n))) <= MaxChildren
  BY DEF TreeSafe, ChildLimit, Working
<1> QED BY <1>1, <1>2, LimitOfSubset

-----------------------------------------------------------------------------
(* Every action keeps the invariant. *)

\* A step of a single run.
LEMMA MoveStep ==
  ASSUME TreeSafe, NEW t \in Tasks, NEW r, Moved(t, r), Set(t, r)
  PROVE  TreeSafe'
<1>1. /\ plan' = plan /\ edge' = edge /\ asking' = asking /\ dead' = dead
      /\ task' = [task EXCEPT ![t] = r]
  BY DEF Set
<1>2. TreeTypeOK /\ EdgeInv /\ AskingInv /\ SoundRuns /\ VerdictInv /\ ChildLimit /\ TreeCancelIsClosed
  BY DEF TreeSafe
<1>3. r \in Run /\ task \in [Tasks -> Run]
  BY <1>2 DEF Moved, TreeTypeOK
<1>4. \A c \in Tasks : task'[c] = IF c = t THEN r ELSE task[c]
  BY <1>1, <1>3
<1>5. \A c \in Tasks : /\ task'[c].rev = task[c].rev /\ task'[c].intent = task[c].intent
                       /\ (task[c].completed => task'[c].completed)
                       /\ task[c].att \in Nat /\ task[c].rev \in Nat
                       /\ (task'[c].att = task[c].att \/ (task'[c].att = task[c].att + 1 /\ c = t))
  BY <1>3, <1>4 DEF Moved, Run
<1>6. TreeTypeOK'
  BY <1>1, <1>2, <1>3 DEF TreeTypeOK
<1>7. EdgeInv'
  <2>1. ASSUME NEW p, Happened(p) PROVE Happened(p)'
    <3>1. p \in Attempt /\ p.task \in Tasks /\ p.rev \in Nat /\ p.att \in Nat
      BY <2>1 DEF Happened, Attempt
    <3> QED BY <1>5, <2>1, <3>1 DEF Happened
  <2>2. ASSUME NEW c \in Tasks, edge[c] # NoEdge
        PROVE  /\ c # Root /\ Exists(c)' /\ Happened(edge[c].parent)'
               /\ edge[c].depth = edge[edge[c].parent.task].depth + 1
    <3> DEFINE p == edge[c].parent
    <3>1. c # Root /\ Exists(c) /\ Happened(p) /\ edge[c].depth = edge[p.task].depth + 1
      BY <1>2, <2>2 DEF EdgeInv
    <3>2. Happened(p)'
      BY <1>1, <2>1, <3>1
    <3> QED BY <1>1, <1>5, <3>1, <3>2 DEF Exists
  <2> QED BY <1>1, <1>2, <2>2 DEF EdgeInv
<1>8. AskingInv'
  BY <1>1, <1>2, <1>5 DEF AskingInv, Exists
<1>9. SoundRuns'
  BY <1>2, <1>4 DEF SoundRuns, Moved
<1>10. \A c \in Tasks : Cancelled(c)' <=> Cancelled(c)
  BY <1>5 DEF Cancelled, Exists
<1>11. \A n \in Tasks : Children(Current(n))' \subseteq Children(Current(n))
  <2> SUFFICES ASSUME NEW n \in Tasks, NEW c \in Tasks, edge[c].parent = Current(n)', edge[c].parent # NoAttempt
               PROVE  edge[c].parent = Current(n)
    BY <1>1 DEF Children
  <2>1. Happened(edge[c].parent)
    BY <1>2 DEF EdgeInv, NoEdge
  <2>2. task'[n].att = task[n].att /\ task'[n].rev = task[n].rev
    BY <1>5, <2>1 DEF Happened, Current
  <2> QED BY <2>2 DEF Current
<1>12. ChildLimit'
  <2>1. \A n \in Tasks : Working(Current(n))' \subseteq Working(Current(n))
    BY <1>5, <1>10, <1>11 DEF Working, Children
  <2> QED BY <2>1, LimitKept
<1>13. TreeCancelIsClosed'
  <2> SUFFICES ASSUME NEW c \in Tasks, edge[c] # NoEdge,
                      task'[edge[c].parent.task].intent = edge[c].parent.rev
               PROVE  Cancelled(c)' \/ task'[c].completed
    BY <1>1 DEF TreeCancelIsClosed
  <2>1. edge[c].parent.task \in Tasks
    BY <1>2 DEF EdgeInv, Happened, Attempt
  <2>2. Cancelled(c) \/ task[c].completed
    BY <1>2, <1>5, <2>1 DEF TreeCancelIsClosed
  <2> QED BY <1>5, <1>10, <2>2
<1>14. VerdictInv'
  <2> SUFFICES ASSUME NEW n \in Tasks
               PROVE  /\ task'[n].verdict \in {"children", "settled"} \/ task'[n].outcome = "candidate" =>
                           ChildrenSettled(n)'
                      /\ task'[n].verdict = "settled" \/ task'[n].outcome = "candidate" => task'[n].open = {}
    BY DEF VerdictInv
  <2>1. task'[n].verdict = "settled" \/ task'[n].outcome = "candidate" => task'[n].open = {}
    BY <1>2, <1>4 DEF VerdictInv, Moved
  <2>2. ASSUME task'[n].verdict \in {"children", "settled"} \/ task'[n].outcome = "candidate",
               NEW c \in Children(Current(n))'
        PROVE  Cancelled(c)' \/ SettledRun(task'[c])
    <3>1. ChildrenSettled(n)
      BY <1>2, <1>4, <2>2 DEF VerdictInv, Moved
    <3>2. c \in Children(Current(n)) /\ c \in Tasks
      BY <1>11, <2>2 DEF Children
    <3>3. Cancelled(c) \/ SettledRun(task[c])
      BY <3>1, <3>2 DEF ChildrenSettled
    <3>4. CASE c # t
      BY <1>4, <1>10, <3>2, <3>3, <3>4
    <3>5. CASE c = t
      <4>1. edge[t].parent = Current(n) /\ edge[t] # NoEdge
        BY <3>2, <3>5 DEF Children, NoEdge
      <4>2. t # Root /\ n # t
        <5>1. edge[t].parent.task = n
          BY <4>1 DEF Current
        <5>2. edge[t].depth = edge[n].depth + 1 /\ t # Root
          BY <1>2, <4>1, <5>1 DEF EdgeInv
        <5>3. edge[t].depth \in Int
          BY <1>2 DEF TreeTypeOK
        <5> QED BY <5>2, <5>3
      <4>3. task[n].verdict \in {"children", "settled"} \/ task[n].outcome = "candidate"
        BY <1>4, <2>2, <4>2
      <4>4. task[n].st # "running"
        BY <1>2, <4>3 DEF SoundRuns, SoundRun
      <4>5. ~Owned(t)
        BY <4>1, <4>2, <4>4 DEF Owned, IsRunning, Current
      <4>6. Cancelled(t) \/ SettledRun(r)
        BY <3>3, <3>5, <4>5 DEF Moved
      <4> QED BY <1>4, <1>10, <3>5, <4>6
    <3> QED BY <3>4, <3>5
  <2>3. task'[n].verdict \in {"children", "settled"} \/ task'[n].outcome = "candidate" => ChildrenSettled(n)'
    BY <2>2 DEF ChildrenSettled
  <2> QED BY <2>1, <2>3
<1> QED BY <1>6, <1>7, <1>8, <1>9, <1>12, <1>13, <1>14 DEF TreeSafe

\* A new run has done nothing yet.
LEMMA NewRunIsSound ==
  ASSUME NEW rev \in 1..MaxRevisions, NEW intent \in 0..MaxRevisions
  PROVE  \E r : /\ r = NewRun(rev, intent)
               /\ r \in Run /\ SoundRun(r) /\ r.rev = rev /\ r.intent = intent
               /\ r.verdict = "none" /\ r.outcome = "none"
<1> DEFINE r == NewRun(rev, intent)
<1>1. /\ r.rev = rev /\ r.intent = intent /\ r.verdict = "none" /\ r.outcome = "none"
      /\ r.st = "none" /\ r.acked = FALSE /\ r.completed = FALSE
  BY DEF NewRun
<1>2. rev \in 0..MaxRevisions /\ 0 \in 0..MaxAttempts
  BY TreeConstants
<1>3. r \in Run
  BY <1>2 DEF NewRun, Run
<1> HIDE DEF r
<1>4. SoundRun(r)
  BY <1>1 DEF SoundRun
<1> QED BY <1>1, <1>3, <1>4 DEF r

\* A new revision of the owner's own task.
LEMMA AdmitRootStep ==
  ASSUME TreeSafe, AdmitRoot
  PROVE  TreeSafe'
<1> DEFINE r == NewRun(task[Root].rev + 1, task[Root].intent)
<1>1. TreeTypeOK /\ EdgeInv /\ AskingInv /\ SoundRuns /\ VerdictInv /\ TreeCancelIsClosed
  BY DEF TreeSafe
<1>2. Root \in Tasks /\ MaxRevisions \in Nat /\ MaxRevisions >= 1
  BY TreeConstants
<1>3. task \in [Tasks -> Run] /\ task[Root].rev \in 0..(MaxRevisions - 1) /\ task[Root].intent \in 0..MaxRevisions
  <2>1. task \in [Tasks -> Run] /\ task[Root].rev \in 0..MaxRevisions /\ task[Root].intent \in 0..MaxRevisions
    BY <1>1, <1>2 DEF TreeTypeOK, Run
  <2> QED BY <1>2, <2>1 DEF AdmitRoot, Exists, Revisable
<1>4. /\ r \in Run /\ SoundRun(r) /\ r.rev = task[Root].rev + 1 /\ r.intent = task[Root].intent
      /\ r.verdict = "none" /\ r.outcome = "none"
  <2>1. task[Root].rev + 1 \in 1..MaxRevisions
    BY <1>2, <1>3
  <2> QED BY <1>3, <2>1, NewRunIsSound
<1>5. /\ plan' = plan /\ edge' = edge /\ asking' = asking /\ dead' \subseteq dead
      /\ task' = [task EXCEPT ![Root] = r]
  BY DEF AdmitRoot, Record
<1> HIDE DEF r
<1>6. \A c \in Tasks : task'[c] = IF c = Root THEN r ELSE task[c]
  BY <1>2, <1>3, <1>5
<1>7. TreeTypeOK'
  BY <1>1, <1>2, <1>3, <1>4, <1>5 DEF TreeTypeOK
<1>8. \A p : Happened(p) => Happened(p)' /\ p # Current(Root)'
  BY <1>3, <1>4, <1>6 DEF Happened, Attempt, Current
<1>9. EdgeInv'
  <2> SUFFICES ASSUME NEW c \in Tasks, edge[c] # NoEdge
               PROVE  /\ c # Root /\ Exists(c)' /\ Happened(edge[c].parent)'
                      /\ edge[c].depth = edge[edge[c].parent.task].depth + 1
    BY <1>1, <1>5 DEF EdgeInv
  <2> DEFINE p == edge[c].parent
  <2>1. c # Root /\ Exists(c) /\ Happened(p) /\ edge[c].depth = edge[p.task].depth + 1
    BY <1>1 DEF EdgeInv
  <2>2. Happened(p)'
    BY <1>5, <1>8, <2>1
  <2> QED BY <1>5, <1>6, <2>1, <2>2 DEF Exists
<1>10. AskingInv'
  BY <1>1, <1>5, <1>6 DEF AskingInv, Exists
<1>11. SoundRuns'
  BY <1>1, <1>4, <1>6 DEF SoundRuns
<1>12. \A c \in Tasks : c # Root => (Cancelled(c)' <=> Cancelled(c))
  BY <1>6 DEF Cancelled, Exists
<1>13. \A n, c \in Tasks : c \in Children(Current(n))' => n # Root /\ c # Root /\ c \in Children(Current(n))
  <2> SUFFICES ASSUME NEW n \in Tasks, NEW c \in Tasks, c \in Children(Current(n))'
               PROVE  n # Root /\ c # Root /\ c \in Children(Current(n))
    OBVIOUS
  <2>1. edge[c].parent = Current(n)' /\ edge[c].parent # NoAttempt /\ edge[c] # NoEdge
    BY <1>5 DEF Children, NoEdge
  <2>2. Happened(edge[c].parent) /\ c # Root
    BY <1>1, <2>1 DEF EdgeInv
  <2>3. n # Root
    BY <1>8, <2>1, <2>2
  <2>4. Current(n)' = Current(n)
    BY <1>6, <2>3 DEF Current
  <2> QED BY <2>1, <2>2, <2>3, <2>4 DEF Children
<1>14. ChildLimit'
  <2>1. \A n \in Tasks : Working(Current(n))' \subseteq Working(Current(n))
    <3> SUFFICES ASSUME NEW n \in Tasks, NEW c \in Working(Current(n))' PROVE c \in Working(Current(n))
      OBVIOUS
    <3>1. c \in Tasks /\ c \in Children(Current(n))' /\ ~Cancelled(c)' /\ ~task'[c].completed
      BY DEF Working, Children
    <3>2. c # Root /\ c \in Children(Current(n))
      BY <1>13, <3>1
    <3> QED BY <1>6, <1>12, <3>1, <3>2 DEF Working
  <2> QED BY <2>1, LimitKept
<1>15. TreeCancelIsClosed'
  <2> SUFFICES ASSUME NEW c \in Tasks, edge[c] # NoEdge,
                      task'[edge[c].parent.task].intent = edge[c].parent.rev
               PROVE  Cancelled(c)' \/ task'[c].completed
    BY <1>5 DEF TreeCancelIsClosed
  <2>1. edge[c].parent.task \in Tasks /\ c # Root
    BY <1>1 DEF EdgeInv, Happened, Attempt
  <2>2. Cancelled(c) \/ task[c].completed
    BY <1>1, <1>4, <1>6, <2>1 DEF TreeCancelIsClosed
  <2> QED BY <1>6, <1>12, <2>1, <2>2
<1>16. VerdictInv'
  <2> SUFFICES ASSUME NEW n \in Tasks
               PROVE  /\ task'[n].verdict \in {"children", "settled"} \/ task'[n].outcome = "candidate" =>
                           ChildrenSettled(n)'
                      /\ task'[n].verdict = "settled" \/ task'[n].outcome = "candidate" => task'[n].open = {}
    BY DEF VerdictInv
  <2>1. CASE n = Root
    BY <1>4, <1>6, <2>1
  <2>2. CASE n # Root
    <3>1. task'[n] = task[n]
      BY <1>6, <2>2
    <3>2. ChildrenSettled(n) => ChildrenSettled(n)'
      <4> SUFFICES ASSUME ChildrenSettled(n), NEW c \in Children(Current(n))'
                   PROVE  Cancelled(c)' \/ SettledRun(task'[c])
        BY DEF ChildrenSettled
      <4>1. c \in Tasks /\ c # Root /\ c \in Children(Current(n))
        BY <1>13 DEF Children
      <4>2. Cancelled(c) \/ SettledRun(task[c])
        BY <4>1 DEF ChildrenSettled
      <4> QED BY <1>6, <1>12, <4>1, <4>2
    <3> QED BY <1>1, <3>1, <3>2 DEF VerdictInv
  <2> QED BY <2>1, <2>2
<1> QED BY <1>7, <1>9, <1>10, <1>11, <1>14, <1>15, <1>16 DEF TreeSafe

\* A first check of an admission.
LEMMA StartChildStep ==
  ASSUME TreeSafe, NEW c \in Tasks, NEW t \in Tasks, StartChild(c, Current(t))
  PROVE  TreeSafe'
<1> DEFINE p == Current(t)
<1>1. TreeTypeOK /\ EdgeInv /\ AskingInv /\ SoundRuns /\ VerdictInv /\ ChildLimit /\ TreeCancelIsClosed
  BY DEF TreeSafe
<1>2. /\ asking' = [asking EXCEPT ![c] = p] /\ plan' = plan /\ task' = task /\ edge' = edge /\ dead' = dead
      /\ c # Root /\ IsRunning(p) /\ (~Exists(c) \/ (Revisable(c) /\ edge[c].parent = p))
  BY DEF StartChild, MayDelegate
<1>3. p \in Attempt
  <2>1. task[t] \in Run /\ task[t].st = "running"
    BY <1>1, <1>2 DEF TreeTypeOK, IsRunning, Current
  <2>2. task[t].rev >= 1 /\ task[t].att >= 1
    BY <1>1, <2>1 DEF SoundRuns, SoundRun
  <2> QED BY <2>1, <2>2 DEF Attempt, Current, Run
<1>4. TreeTypeOK'
  BY <1>1, <1>2, <1>3 DEF TreeTypeOK
<1>5. AskingInv'
  <2>1. task[c].rev \in 0..MaxRevisions /\ MaxRevisions \in Nat /\ MaxRevisions >= 1
    BY <1>1, TreeConstants DEF TreeTypeOK, Run
  <2>2. task[c].rev < MaxRevisions /\ (Exists(c) => edge[c].parent = p)
    BY <1>2, <2>1 DEF Exists, Revisable
  <2>3. \A n \in Tasks : asking'[n] = IF n = c THEN p ELSE asking[n]
    BY <1>1, <1>2 DEF TreeTypeOK
  <2> HIDE DEF p
  <2> SUFFICES ASSUME NEW n \in Tasks, asking'[n] # NoAttempt
               PROVE  n # Root /\ task[n].rev < MaxRevisions /\ (Exists(n) => edge[n].parent = asking'[n])
    BY <1>2 DEF AskingInv, Exists
  <2> QED BY <1>1, <1>2, <2>2, <2>3 DEF AskingInv
<1>6. EdgeInv' /\ SoundRuns'
  BY <1>1, <1>2 DEF EdgeInv, Exists, Happened, SoundRuns
<1>7. VerdictInv'
  BY <1>1, <1>2 DEF VerdictInv, ChildrenSettled, Children, Current, Cancelled, Exists
<1>8. ChildLimit' /\ TreeCancelIsClosed'
  BY <1>1, <1>2 DEF ChildLimit, TreeCancelIsClosed, Children, Current, Cancelled, Exists
<1> QED BY <1>4, <1>5, <1>6, <1>7, <1>8 DEF TreeSafe

\* The transaction that records a child, or finds that it may not.
LEMMA RecordChildStep ==
  ASSUME TreeSafe, NEW c \in Tasks, RecordChild(c)
  PROVE  TreeSafe'
<1> DEFINE p == asking[c]
           r == NewRun(task[c].rev + 1, task[c].intent)
           d == edge[p.task].depth
           e == [parent |-> p, depth |-> d + 1]
<1>1. TreeTypeOK /\ EdgeInv /\ AskingInv /\ SoundRuns /\ VerdictInv /\ ChildLimit /\ TreeCancelIsClosed
  BY DEF TreeSafe
<1>2. asking' = [asking EXCEPT ![c] = NoAttempt] /\ plan' = plan /\ p # NoAttempt
  BY DEF RecordChild
<1>3. \A n \in Tasks : asking'[n] = IF n = c THEN NoAttempt ELSE asking[n]
  BY <1>1, <1>2 DEF TreeTypeOK
<1>4. asking' \in [Tasks -> Attempt \cup {NoAttempt}]
  BY <1>1, <1>2 DEF TreeTypeOK
<1>5. c # Root /\ task[c].rev < MaxRevisions /\ (Exists(c) => edge[c].parent = p)
  BY <1>1, <1>2 DEF AskingInv
<1>6. CASE ~ParentAdmits(p)
  <2>1. task' = task /\ edge' = edge /\ dead' = dead
    BY <1>6 DEF RecordChild
  <2>2. TreeTypeOK'
    BY <1>1, <1>2, <1>4, <2>1 DEF TreeTypeOK
  <2>3. EdgeInv' /\ SoundRuns'
    BY <1>1, <2>1 DEF EdgeInv, Exists, Happened, SoundRuns
  <2>4. AskingInv'
    BY <1>1, <1>3, <2>1 DEF AskingInv, Exists
  <2>5. VerdictInv'
    BY <1>1, <2>1 DEF VerdictInv, ChildrenSettled, Children, Current, Cancelled, Exists
  <2>6. ChildLimit' /\ TreeCancelIsClosed'
    BY <1>1, <2>1 DEF ChildLimit, TreeCancelIsClosed, Children, Current, Cancelled, Exists
  <2> QED BY <2>2, <2>3, <2>4, <2>5, <2>6 DEF TreeSafe
<1>7. CASE ParentAdmits(p)
  <2>1. /\ task' = [task EXCEPT ![c] = r] /\ dead' \subseteq dead
        /\ edge' = [edge EXCEPT ![c] = e]
    BY <1>7 DEF RecordChild, Record
  <2>2. /\ task \in [Tasks -> Run] /\ task[c].rev \in Nat /\ task[c].intent \in 0..MaxRevisions
        /\ edge \in [Tasks -> [parent : Attempt \cup {NoAttempt}, depth : 0..MaxDepth]]
        /\ MaxDepth \in Nat /\ p \in Attempt /\ p.task \in Tasks
    <3>1. p \in Attempt
      BY <1>1, <1>2 DEF TreeTypeOK
    <3> QED BY <1>1, <3>1, TreeConstants DEF TreeTypeOK, Run, Attempt
  <2>3. /\ p = Current(p.task) /\ task[p.task].st = "running" /\ task[p.task].intent # p.rev
        /\ Cardinality(ActiveChildren(p)) < MaxChildren /\ d < MaxDepth /\ d \in Nat
    BY <1>7, <2>2 DEF ParentAdmits, IsRunning
  <2>4. /\ r \in Run /\ SoundRun(r) /\ r.rev = task[c].rev + 1 /\ r.intent = task[c].intent
        /\ r.verdict = "none" /\ r.outcome = "none"
    <3>1. task[c].rev + 1 \in 1..MaxRevisions
      BY <1>5, <2>2, TreeConstants
    <3> QED BY <2>2, <3>1, NewRunIsSound
  <2>5. e \in [parent : Attempt \cup {NoAttempt}, depth : 0..MaxDepth] /\ e # NoEdge
        /\ e.parent = p /\ e.depth = d + 1
    BY <1>2, <2>2, <2>3 DEF NoEdge
  <2> HIDE DEF r, e, d, p
  <2>6. \A n \in Tasks : /\ task'[n] = IF n = c THEN r ELSE task[n]
                         /\ edge'[n] = IF n = c THEN e ELSE edge[n]
    BY <2>1, <2>2
  <2>7. Exists(c) => edge[c] # NoEdge /\ edge[c] = e
    <3> SUFFICES ASSUME Exists(c) PROVE edge[c] # NoEdge /\ edge[c] = e
      OBVIOUS
    <3>1. edge[c].parent = p /\ edge[c] # NoEdge
      BY <1>2, <1>5 DEF NoEdge
    <3>2. edge[c].depth = d + 1
      BY <1>1, <3>1 DEF EdgeInv, d
    <3>3. edge[c] = [parent |-> edge[c].parent, depth |-> edge[c].depth]
      BY <2>2
    <3> QED BY <3>1, <3>2, <3>3 DEF e
  <2>8. p.task # c
    <3> SUFFICES ASSUME p.task = c PROVE FALSE
      OBVIOUS
    <3>1. Exists(c)
      BY <1>1, <2>2, <2>3 DEF Exists, SoundRuns, SoundRun
    <3>2. edge[c].depth = d + 1 /\ d = edge[c].depth
      BY <2>5, <2>7, <3>1 DEF d
    <3> QED BY <2>3, <3>2
  <2>9. \A n \in Tasks : edge[n] # NoEdge => edge'[n] = edge[n]
    BY <1>1, <2>6, <2>7 DEF EdgeInv
  <2>10. \A q : Happened(q) => Happened(q)' /\ q # Current(c)'
    BY <2>2, <2>4, <2>6 DEF Happened, Attempt, Current
  <2>11. Happened(p)
    <3>1. task[p.task].rev \in Nat /\ task[p.task].att \in Nat
      BY <2>2 DEF Run
    <3>2. p.rev = task[p.task].rev /\ p.att = task[p.task].att
      BY <2>3 DEF Current
    <3> QED BY <2>2, <3>1, <3>2 DEF Happened
  <2>12. TreeTypeOK'
    <3>1. task' \in [Tasks -> Run]
      BY <2>1, <2>2, <2>4
    <3>2. edge' \in [Tasks -> [parent : Attempt \cup {NoAttempt}, depth : 0..MaxDepth]]
      BY <2>1, <2>2, <2>5
    <3> QED BY <1>1, <1>2, <1>4, <2>1, <3>1, <3>2 DEF TreeTypeOK
  <2>13. EdgeInv'
    <3>1. IsFiniteSet({n \in Tasks : edge'[n] # NoEdge})
      <4> DEFINE E == {n \in Tasks : edge[n] # NoEdge}
      <4>1. IsFiniteSet(E \cup {c})
        BY <1>1, FS_AddElement DEF EdgeInv
      <4>2. {n \in Tasks : edge'[n] # NoEdge} \subseteq E \cup {c}
        BY <2>6
      <4> QED BY <4>1, <4>2, FS_Subset
    <3>2. ASSUME NEW n \in Tasks, edge'[n] # NoEdge
          PROVE  /\ n # Root /\ Exists(n)' /\ Happened(edge[n].parent)'
                 /\ edge'[n].depth = edge'[edge'[n].parent.task].depth + 1
      <4>1. CASE n = c
        <5>1. edge'[c] = e /\ edge'[p.task] = edge[p.task]
          BY <2>2, <2>6, <2>8
        <5>2. \A q : q = p => Happened(q)'
          BY <2>10, <2>11
        <5>3. edge'[c].parent = p
          BY <2>5, <5>1
        <5>4. Happened(edge[c].parent)'
          BY <5>2, <5>3 DEF Happened
        <5>5. task'[c].rev > 0
          BY <2>2, <2>4, <2>6
        <5> QED BY <1>5, <2>5, <4>1, <5>1, <5>4, <5>5 DEF d, Exists
      <4>2. CASE n # c
        <5> DEFINE q == edge[n].parent
        <5>1. edge'[n] = edge[n] /\ edge[n] # NoEdge
          BY <2>6, <3>2, <4>2
        <5>2. n # Root /\ Exists(n) /\ Happened(q) /\ edge[n].depth = edge[q.task].depth + 1
          BY <1>1, <5>1 DEF EdgeInv
        <5>3. \A x : x = q => Happened(x)'
          BY <2>10, <5>2
        <5>4. Happened(edge[n].parent)'
          BY <5>1, <5>3 DEF Happened
        <5>5. q.task \in Tasks /\ edge'[q.task] = edge[q.task]
          <6>1. q.task \in Tasks
            BY <5>2 DEF Happened, Attempt
          <6>2. CASE q.task = c
            <7>1. task[c].rev > 0
              BY <2>2, <5>2, <6>2 DEF Happened, Attempt
            <7> QED BY <2>6, <2>7, <6>2, <7>1 DEF Exists
          <6> QED BY <2>6, <6>1, <6>2
        <5>6. Exists(n)'
          BY <2>6, <4>2, <5>2 DEF Exists
        <5> QED BY <5>1, <5>2, <5>4, <5>5, <5>6
      <4> QED BY <4>1, <4>2
    <3> QED BY <3>1, <3>2 DEF EdgeInv
  <2>14. AskingInv'
    BY <1>1, <1>3, <2>6 DEF AskingInv, Exists
  <2>15. SoundRuns'
    BY <1>1, <2>4, <2>6 DEF SoundRuns
  <2>16. \A n \in Tasks : n # c => (Cancelled(n)' <=> Cancelled(n))
    BY <2>6 DEF Cancelled, Exists
  <2>17. \A n, k \in Tasks : k \in Children(Current(n))' =>
            n # c /\ (k # c => k \in Children(Current(n))) /\ (k = c => n = p.task)
    <3> SUFFICES ASSUME NEW n \in Tasks, NEW k \in Tasks, k \in Children(Current(n))'
                 PROVE  n # c /\ (k # c => k \in Children(Current(n))) /\ (k = c => n = p.task)
      OBVIOUS
    <3>1. edge'[k].parent = Current(n)' /\ edge'[k].parent # NoAttempt
      BY DEF Children
    <3>2. Happened(edge'[k].parent)
      BY <1>1, <2>5, <2>6, <2>11, <3>1 DEF EdgeInv, NoEdge
    <3>3. n # c
      BY <2>10, <3>1, <3>2
    <3>4. Current(n)' = Current(n)
      BY <2>6, <3>3 DEF Current
    <3>5. k = c => n = p.task
      BY <2>5, <2>6, <3>1, <3>4 DEF Current
    <3> QED BY <2>6, <3>1, <3>3, <3>4, <3>5 DEF Children
  <2>18. ChildLimit'
    <3> SUFFICES ASSUME NEW n \in Tasks PROVE Cardinality(Working(Current(n))') <= MaxChildren
      BY DEF ChildLimit, Working
    <3>1. \A k \in Working(Current(n))' : k \in Tasks /\ k \in Children(Current(n))' /\ ~Cancelled(k)' /\ ~task'[k].completed
      BY DEF Working, Children
    <3>2. \A k \in Working(Current(n))' : k # c => k \in Working(Current(n))
      BY <2>6, <2>16, <2>17, <3>1 DEF Working
    <3>3. CASE n # p.task
      <4>1. Working(Current(n))' \subseteq Working(Current(n))
        BY <2>17, <3>1, <3>2, <3>3
      <4>2. IsFiniteSet(Working(Current(n)))
        <5>1. IsFiniteSet(Children(Current(n)))
          BY <1>1, ChildrenFinite
        <5> QED BY <5>1, FS_Subset DEF Working
      <4>3. Cardinality(Working(Current(n))) <= MaxChildren
        BY <1>1 DEF ChildLimit, Working
      <4> QED BY <4>1, <4>2, <4>3, LimitOfSubset
    <3>4. CASE n = p.task
      <4>1. Working(p) \subseteq ActiveChildren(p)
        BY <1>1 DEF Working, ActiveChildren, SoundRuns, SoundRun, Children
      <4>2. Working(Current(n))' \subseteq ActiveChildren(p) \cup {c}
        BY <2>3, <3>2, <3>4, <4>1
      <4>3. IsFiniteSet(ActiveChildren(p))
        <5>1. IsFiniteSet(Children(p))
          BY <1>1, ChildrenFinite
        <5> QED BY <5>1, FS_Subset DEF ActiveChildren
      <4>4. IsFiniteSet(ActiveChildren(p) \cup {c})
            /\ Cardinality(ActiveChildren(p) \cup {c}) <= Cardinality(ActiveChildren(p)) + 1
        <5>1. Cardinality(ActiveChildren(p)) \in Nat
          BY <4>3, FS_CardinalityType
        <5>2. /\ IsFiniteSet(ActiveChildren(p) \cup {c})
              /\ \/ Cardinality(ActiveChildren(p) \cup {c}) = Cardinality(ActiveChildren(p))
                 \/ Cardinality(ActiveChildren(p) \cup {c}) = Cardinality(ActiveChildren(p)) + 1
          BY <4>3, FS_AddElement
        <5> QED BY <5>1, <5>2
      <4>5. Cardinality(ActiveChildren(p) \cup {c}) <= MaxChildren
        <5>1. Cardinality(ActiveChildren(p)) \in Nat /\ Cardinality(ActiveChildren(p) \cup {c}) \in Nat
              /\ MaxChildren \in Nat
          BY <4>3, <4>4, FS_CardinalityType, TreeConstants
        <5> QED BY <2>3, <4>4, <5>1
      <4> QED BY <4>2, <4>4, <4>5, LimitOfSubset
    <3> QED BY <3>3, <3>4
  <2>19. TreeCancelIsClosed'
    <3> SUFFICES ASSUME NEW n \in Tasks, edge'[n] # NoEdge,
                        task'[edge'[n].parent.task].intent = edge'[n].parent.rev
                 PROVE  Cancelled(n)' \/ task'[n].completed
      BY DEF TreeCancelIsClosed
    <3>1. n # c
      BY <2>2, <2>3, <2>5, <2>6, <2>8
    <3>2. edge'[n] = edge[n] /\ edge[n].parent.task \in Tasks
      BY <1>1, <2>6, <3>1 DEF EdgeInv, Happened, Attempt
    <3>3. Cancelled(n) \/ task[n].completed
      BY <1>1, <2>4, <2>6, <3>2 DEF TreeCancelIsClosed
    <3> QED BY <2>6, <2>16, <3>1, <3>3
  <2>20. VerdictInv'
    <3> SUFFICES ASSUME NEW n \in Tasks
                 PROVE  /\ task'[n].verdict \in {"children", "settled"} \/ task'[n].outcome = "candidate" =>
                             ChildrenSettled(n)'
                        /\ task'[n].verdict = "settled" \/ task'[n].outcome = "candidate" => task'[n].open = {}
      BY DEF VerdictInv
    <3>1. CASE n = c
      BY <2>4, <2>6, <3>1
    <3>2. CASE n # c
      <4>1. task'[n] = task[n]
        BY <2>6, <3>2
      <4>2. ASSUME task[n].verdict \in {"children", "settled"} \/ task[n].outcome = "candidate",
                   NEW k \in Children(Current(n))'
            PROVE  Cancelled(k)' \/ SettledRun(task'[k])
        <5>1. k \in Tasks
          BY DEF Children
        <5>2. task[n].st # "running"
          BY <1>1, <4>2 DEF SoundRuns, SoundRun
        <5>3. k # c /\ k \in Children(Current(n))
          BY <2>3, <2>17, <4>2, <5>1, <5>2
        <5>4. Cancelled(k) \/ SettledRun(task[k])
          BY <1>1, <4>2, <5>3 DEF VerdictInv, ChildrenSettled
        <5> QED BY <2>6, <2>16, <5>1, <5>3, <5>4
      <4>3. task[n].verdict \in {"children", "settled"} \/ task[n].outcome = "candidate" => ChildrenSettled(n)'
        BY <4>2 DEF ChildrenSettled
      <4> QED BY <1>1, <4>1, <4>3 DEF VerdictInv
    <3> QED BY <3>1, <3>2
  <2> QED BY <2>12, <2>13, <2>14, <2>15, <2>18, <2>19, <2>20 DEF TreeSafe
<1> QED BY <1>6, <1>7

\* A cancellation of a subtree, in one transaction.
LEMMA CancelTreeStep ==
  ASSUME TreeSafe, NEW t \in Tasks, CancelTree(t)
  PROVE  TreeSafe'
<1> DEFINE S == Subtree(t)
<1>1. TreeTypeOK /\ EdgeInv /\ AskingInv /\ SoundRuns /\ VerdictInv /\ ChildLimit /\ TreeCancelIsClosed
  BY DEF TreeSafe
<1>2. \A c \in Tasks : edge[c] # NoEdge /\ edge[c].parent.task \in S => c \in S
  BY <1>1, SubtreeClosed
<1>3. /\ plan' = plan /\ edge' = edge /\ asking' = asking /\ dead' = dead
      /\ task' = [n \in Tasks |-> IF n \in S THEN [task[n] EXCEPT !.intent = task[n].rev] ELSE task[n]]
  BY DEF CancelTree
<1> HIDE DEF S
<1>4. task \in [Tasks -> Run]
  BY <1>1 DEF TreeTypeOK
<1>5. ASSUME NEW n \in Tasks
      PROVE  /\ task'[n] \in Run
             /\ task'[n].rev = task[n].rev /\ task'[n].att = task[n].att /\ task'[n].st = task[n].st
             /\ task'[n].outcome = task[n].outcome /\ task'[n].acked = task[n].acked
             /\ task'[n].decided = task[n].decided /\ task'[n].early = task[n].early
             /\ task'[n].completed = task[n].completed /\ task'[n].open = task[n].open
             /\ task'[n].verdict = task[n].verdict
             /\ task'[n].intent = IF n \in S THEN task[n].rev ELSE task[n].intent
  <2>1. task[n] \in Run /\ task'[n] = IF n \in S THEN [task[n] EXCEPT !.intent = task[n].rev] ELSE task[n]
    BY <1>3, <1>4
  <2>2. CASE n \in S
    <3> DEFINE r == [task[n] EXCEPT !.intent = task[n].rev]
    <3>1. task'[n] = r
      BY <2>1, <2>2
    <3>2. task[n].rev \in 0..MaxRevisions
      BY <2>1 DEF Run
    <3>3. /\ r \in Run
          /\ r.rev = task[n].rev /\ r.att = task[n].att /\ r.st = task[n].st
          /\ r.outcome = task[n].outcome /\ r.acked = task[n].acked
          /\ r.decided = task[n].decided /\ r.early = task[n].early
          /\ r.completed = task[n].completed /\ r.open = task[n].open
          /\ r.verdict = task[n].verdict /\ r.intent = task[n].rev
      BY <2>1, <3>2 DEF Run
    <3> HIDE DEF r
    <3> QED BY <2>2, <3>1, <3>3
  <2>3. CASE n \notin S
    BY <2>1, <2>3
  <2> QED BY <2>2, <2>3
<1>6. TreeTypeOK'
  <2>1. task' \in [Tasks -> Run]
    BY <1>3, <1>5
  <2> QED BY <1>1, <1>3, <2>1 DEF TreeTypeOK
<1>7. \A p : Happened(p) => Happened(p)'
  BY <1>5 DEF Happened, Attempt
<1>8. EdgeInv'
  <2> SUFFICES ASSUME NEW c \in Tasks, edge[c] # NoEdge
               PROVE  /\ c # Root /\ Exists(c)' /\ Happened(edge[c].parent)'
                      /\ edge[c].depth = edge[edge[c].parent.task].depth + 1
    BY <1>1, <1>3 DEF EdgeInv
  <2>1. c # Root /\ Exists(c) /\ Happened(edge[c].parent) /\ edge[c].depth = edge[edge[c].parent.task].depth + 1
    BY <1>1 DEF EdgeInv
  <2>2. Happened(edge[c].parent)'
    BY <1>3, <1>7, <2>1 DEF Happened
  <2> QED BY <1>5, <2>1, <2>2 DEF Exists
<1>9. AskingInv'
  BY <1>1, <1>3, <1>5 DEF AskingInv, Exists
<1>10. SoundRuns'
  BY <1>1, <1>5 DEF SoundRuns, SoundRun
<1>11. \A n \in Tasks : Cancelled(n) => Cancelled(n)'
  BY <1>5 DEF Cancelled, Exists
<1>12. \A n \in Tasks : Children(Current(n))' = Children(Current(n))
  BY <1>3, <1>5 DEF Children, Current
<1>13. ChildLimit'
  <2>1. \A n \in Tasks : Working(Current(n))' \subseteq Working(Current(n))
    BY <1>5, <1>11, <1>12 DEF Working, Children
  <2> QED BY <2>1, LimitKept
<1>14. TreeCancelIsClosed'
  <2> SUFFICES ASSUME NEW c \in Tasks, edge[c] # NoEdge,
                      task'[edge[c].parent.task].intent = edge[c].parent.rev
               PROVE  Cancelled(c)' \/ task'[c].completed
    BY <1>3 DEF TreeCancelIsClosed
  <2> DEFINE n == edge[c].parent.task
  <2>1. n \in Tasks /\ Exists(c)
    BY <1>1 DEF EdgeInv, Happened, Attempt
  <2>2. CASE n \in S
    <3>1. c \in S
      BY <1>2, <2>2
    <3>2. Cancelled(c)'
      BY <1>5, <2>1, <3>1 DEF Cancelled, Exists
    <3> QED BY <3>2
  <2>3. CASE n \notin S
    <3>1. Cancelled(c) \/ task[c].completed
      BY <1>1, <1>5, <2>1, <2>3 DEF TreeCancelIsClosed
    <3> QED BY <1>5, <1>11, <3>1
  <2> QED BY <2>2, <2>3
<1>15. VerdictInv'
  <2> SUFFICES ASSUME NEW n \in Tasks
               PROVE  /\ task'[n].verdict \in {"children", "settled"} \/ task'[n].outcome = "candidate" =>
                           ChildrenSettled(n)'
                      /\ task'[n].verdict = "settled" \/ task'[n].outcome = "candidate" => task'[n].open = {}
    BY DEF VerdictInv
  <2>1. ChildrenSettled(n) => ChildrenSettled(n)'
    <3> SUFFICES ASSUME ChildrenSettled(n), NEW c \in Children(Current(n))'
                 PROVE  Cancelled(c)' \/ SettledRun(task'[c])
      BY DEF ChildrenSettled
    <3>1. c \in Tasks /\ c \in Children(Current(n))
      BY <1>12 DEF Children
    <3>2. Cancelled(c) \/ SettledRun(task[c])
      BY <3>1 DEF ChildrenSettled
    <3>3. SettledRun(task[c]) => SettledRun(task'[c])
      BY <1>5, <3>1 DEF SettledRun
    <3> QED BY <1>11, <3>1, <3>2, <3>3
  <2> QED BY <1>1, <1>5, <2>1 DEF VerdictInv
<1> QED BY <1>6, <1>8, <1>9, <1>10, <1>13, <1>14, <1>15 DEF TreeSafe

\* A step that leaves the tables alone, as the death of a supervisor does.
LEMMA QuietStep ==
  ASSUME TreeSafe, UNCHANGED <<plan, task, edge, asking>>, dead' \subseteq Tasks
  PROVE  TreeSafe'
BY DEF TreeSafe, TreeTypeOK, EdgeInv, Happened, AskingInv, SoundRuns, VerdictInv, ChildrenSettled,
       ChildLimit, TreeCancelIsClosed, Children, Current, Cancelled, Exists

\* Nothing exists at first.
LEMMA TreeInit == Init => TreeSafe
<1> SUFFICES ASSUME Init PROVE TreeSafe
  OBVIOUS
<1> DEFINE r == NewRun(0, 0)
<1>1. /\ plan \in Plans /\ task = [t \in Tasks |-> r] /\ edge = [t \in Tasks |-> NoEdge]
      /\ asking = [t \in Tasks |-> NoAttempt] /\ dead = {}
  BY DEF Init
<1>2. /\ r.rev = 0 /\ r.att = 0 /\ r.verdict = "none" /\ r.outcome = "none" /\ r.st = "none"
      /\ r.acked = FALSE /\ r.completed = FALSE
  BY DEF NewRun
<1>3. 0 \in 0..MaxRevisions /\ 0 \in 0..MaxAttempts /\ 0 \in 0..MaxDepth /\ MaxChildren >= 0
  BY TreeConstants
<1>4. r \in Run
  BY <1>3 DEF NewRun, Run
<1> HIDE DEF r
<1>5. SoundRun(r)
  BY <1>2 DEF SoundRun
<1>6. TreeTypeOK
  <2>1. NoEdge \in [parent : Attempt \cup {NoAttempt}, depth : 0..MaxDepth]
    BY <1>3 DEF NoEdge
  <2>2. task \in [Tasks -> Run] /\ edge \in [Tasks -> [parent : Attempt \cup {NoAttempt}, depth : 0..MaxDepth]]
    BY <1>1, <1>4, <2>1
  <2>3. asking \in [Tasks -> Attempt \cup {NoAttempt}]
    BY <1>1
  <2> QED BY <1>1, <2>2, <2>3 DEF TreeTypeOK
<1>7. {c \in Tasks : edge[c] # NoEdge} = {}
  BY <1>1
<1>8. EdgeInv
  BY <1>1, <1>7, FS_EmptySet DEF EdgeInv
<1>9. AskingInv /\ TreeCancelIsClosed
  BY <1>1 DEF AskingInv, TreeCancelIsClosed
<1>10. SoundRuns /\ VerdictInv
  BY <1>1, <1>2, <1>5 DEF SoundRuns, VerdictInv
<1>11. ChildLimit
  <2> SUFFICES ASSUME NEW t \in Tasks PROVE Cardinality(Working(Current(t))) <= MaxChildren
    BY DEF ChildLimit, Working
  <2>1. Working(Current(t)) = {}
    BY <1>1 DEF Working, Children, NoEdge
  <2> QED BY <1>3, <2>1, FS_EmptySet
<1> QED BY <1>6, <1>8, <1>9, <1>10, <1>11 DEF TreeSafe

\* Every step keeps it.
LEMMA TreeStep == TreeSafe /\ [Next]_vars => TreeSafe'
<1> SUFFICES ASSUME TreeSafe, [Next]_vars PROVE TreeSafe'
  OBVIOUS
<1>1. dead \subseteq Tasks
  BY DEF TreeSafe, TreeTypeOK
<1>2. CASE AdmitRoot
  BY <1>2, AdmitRootStep
<1>3. ASSUME NEW c \in Tasks, NEW t \in Tasks, StartChild(c, Current(t)) PROVE TreeSafe'
  BY <1>3, StartChildStep
<1>4. ASSUME NEW t \in Tasks, RecordChild(t) PROVE TreeSafe'
  BY <1>4, RecordChildStep
<1>5. ASSUME NEW t \in Tasks, Supervise(t) \/ Recover(t) PROVE TreeSafe'
  BY <1>5, SupervisorMoves, MoveStep
<1>6. ASSUME NEW t \in Tasks,
             \/ Acknowledge(t) \/ Decide(t) \/ Withdraw(t)
             \/ \E side \in Sides : Ask(t, side) \/ Reply(t, side)
      PROVE  TreeSafe'
  BY <1>6, OwnersAndMessagesMove, MoveStep
<1>7. ASSUME NEW t \in Tasks, Die(t) PROVE TreeSafe'
  BY <1>1, <1>7, QuietStep DEF Die
<1>8. ASSUME NEW t \in Tasks, CancelTree(t) PROVE TreeSafe'
  BY <1>8, CancelTreeStep
<1>9. CASE UNCHANGED vars
  BY <1>1, <1>9, QuietStep DEF vars
<1> QED BY <1>2, <1>3, <1>4, <1>5, <1>6, <1>7, <1>8, <1>9 DEF Next

\* The inductive invariant: edges lead one level down from attempts that
\* happened, and a verdict on an attempt's children stays true.
THEOREM TreeInvariant == Spec => []TreeSafe
<1>1. Init => TreeSafe
  BY TreeInit
<1>2. TreeSafe /\ [Next]_vars => TreeSafe'
  BY TreeStep
<1> QED BY <1>1, <1>2, PTL DEF Spec

\* However many commands of workers race, no attempt has more working children
\* than its limit, and no work survives below a cancelled attempt
\* (validated_parent_depth, record_cancellation_intents).
THEOREM TreeInvHolds == Spec => []TreeInv
<1>1. TreeSafe => TreeInv
  BY DEF TreeSafe, TreeInv
<1> QED BY <1>1, TreeInvariant, PTL

\* A candidate stands for the whole tree below it: its questions were answered
\* and its children cancelled, or read and decided, or acknowledged before
\* their last retry (unsettled_worker_reason before the seal).
THEOREM SealedParentIsSettledHolds == Spec => []SealedParentIsSettled
<1>1. TreeSafe => SealedParentIsSettled
  <2> SUFFICES ASSUME TreeSafe, NEW t \in Tasks, task[t].outcome = "candidate"
               PROVE  /\ task[t].open = {}
                      /\ \A c \in UnsettledChildren(Current(t)) : task[c].early
    BY DEF SealedParentIsSettled
  <2>1. task[t].open = {} /\ ChildrenSettled(t)
    BY DEF TreeSafe, VerdictInv
  <2>2. ASSUME NEW c \in UnsettledChildren(Current(t)) PROVE task[c].early
    <3>1. c \in Children(Current(t)) /\ ~Cancelled(c)
      BY DEF UnsettledChildren
    <3>2. SettledRun(task[c])
      BY <2>1, <3>1 DEF ChildrenSettled
    <3> QED BY <3>2 DEF UnsettledChildren, SettledRun
  <2> QED BY <2>1, <2>2
<1> QED BY <1>1, TreeInvariant, PTL
=============================================================================
