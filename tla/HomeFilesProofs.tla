-------------------------- MODULE HomeFilesProofs --------------------------
(* What the parts of HomeFiles promise, for every value of the constants.     *)
(* Every part has an invariant of its own, which its first states have, its   *)
(* steps keep, the steps of the others leave alone, and which implies what is *)
(* promised of it; a behaviour of the home is one of a part among fresh ones. *)
EXTENDS HomeFiles, SequenceTheorems, FiniteSetTheorems, WellFoundedInduction, TLAPS

-----------------------------------------------------------------------------
(* Processes that are waited for.                                               *)

Process == [alive : BOOLEAN, group : BOOLEAN, holds : SUBSET Streams]
Pipe == [written : Nat, taken : Nat, reader : {"reads", "eof", "over", "gone"}]
Findings == [timed : BOOLEAN, cancelled : BOOLEAN, overflow : BOOLEAN]

RunWaits == {"exit", "grace", "captures", "over"}
ProbeWaits == {"exit", "stdout", "stdout again", "stderr", "stderr again", "over"}

ProcessTyped ==
    /\ procs \in [Procs -> Process] /\ \A p \in Procs : ~Alive(p) => procs[p].holds = {}
    /\ pipes \in [Streams -> Pipe]
    /\ \/ call = "run" /\ waiting \in RunWaits
       \/ call = "probe" /\ waiting \in ProbeWaits
    /\ ticks \in Nat /\ since \in Nat /\ marker \in BOOLEAN /\ stopped \in BOOLEAN
    /\ found \in Findings
    /\ IF Alive("leader") THEN procs["leader"].group /\ exit = "none" ELSE exit # "none"

\* When each wait ends: an exit by the deadline, every other wait half a second later.
WaitedFor(what, until) == waiting = what => since <= until /\ ticks <= since + 1
WaitsAreBounded ==
    /\ waiting = "exit" => ticks <= Deadline
    /\ waiting = "captures" => ticks <= Deadline + 1
    /\ WaitedFor("grace", Deadline) /\ WaitedFor("stdout", Deadline)
    /\ WaitedFor("stdout again", Deadline + 1) /\ WaitedFor("stderr", Deadline + 2)
    /\ WaitedFor("stderr again", Deadline + 3)

\* Why a reader has stopped: everything is read and nobody can write more, or a probe's group
\* is gone, or a run's output was too much.
ReaderStopped(s) ==
    /\ pipes[s].reader = "eof" => AtEof(s) /\ pipes[s].taken <= PipeLimit
    /\ pipes[s].reader = "reads" => pipes[s].taken <= PipeLimit
    /\ pipes[s].reader = "over" => found.overflow
    /\ call = "probe" /\ pipes[s].reader \in {"over", "gone"} => Group = {}

\* How far a probe is: the pipes it is past have no reader.
PastStdout == waiting \in {"stderr", "stderr again", "over"}
ProbeIsPast ==
    call = "probe" =>
        /\ PastStdout => HasRead("stdout")
        /\ waiting = "over" => HasRead("stderr")
        /\ waiting \in {"stdout again", "stderr again"} => Group = {}

\* Whoever was stopped is gone, but for the grace of a run, and the call knows it.
StoppedIsGone ==
    /\ waiting = "grace" => stopped
    /\ stopped =>
          /\ waiting = "grace" \/ Group = {}
          /\ \/ found.timed \/ found.cancelled \/ found.overflow
             \/ waiting \in {"stdout again", "stderr again", "over"} /\ gave # "result"

ResultIsWhole ==
    gave = "result" =>
        /\ waiting = "over" /\ exit = "success" /\ ~stopped
        /\ \A s \in Streams : pipes[s].reader = "eof"

ProcessIInv ==
    /\ ProcessTyped /\ WaitsAreBounded /\ (\A s \in Streams : ReaderStopped(s))
    /\ ProbeIsPast /\ StoppedIsGone /\ ResultIsWhole
-----------------------------------------------------------------------------
\* A pipe that is read to its end, and a reader that was stopped, stay so.
LEMMA ReaderStays ==
  ASSUME NEW s, ReaderStopped(s), pipes'[s] = pipes[s], call' = call,
         Holders(s)' \subseteq Holders(s), call = "probe" /\ Group = {} => Group' = {},
         found.overflow => found'.overflow
  PROVE  ReaderStopped(s)'
BY DEF ReaderStopped, AtEof

\* What the processes do of their own accord takes nothing away that brgr knows.
LEMMA ProcessesGoOn ==
  ASSUME ProcessIInv, UNCHANGED <<outsideVars>>, ProcessTyped', Group = {} => Group' = {},
         \A s \in Streams : ReaderStopped(s)' /\ pipes'[s].reader = pipes[s].reader,
         exit \in {"none", exit'}
  PROVE  ProcessIInv'
<1>1. /\ call' = call /\ waiting' = waiting /\ ticks' = ticks /\ since' = since /\ found' = found
      /\ gave' = gave /\ stopped' = stopped
  BY DEF outsideVars
<1>2. WaitsAreBounded'
  BY <1>1 DEF ProcessIInv, WaitsAreBounded, WaitedFor
<1>3. ProbeIsPast'
  BY <1>1 DEF ProcessIInv, ProbeIsPast, PastStdout, HasRead, Streams
<1>4. StoppedIsGone'
  BY <1>1 DEF ProcessIInv, StoppedIsGone
<1>5. ResultIsWhole'
  BY <1>1 DEF ProcessIInv, ResultIsWhole
<1> QED BY <1>2, <1>3, <1>4, <1>5 DEF ProcessIInv

\* A process changes, or goes: brgr only sees the leader's end.
LEMMA OneProcessMoves ==
  ASSUME ProcessIInv, NEW p \in Procs, NEW w \in Process, procs' = [procs EXCEPT ![p] = w],
         w.alive \/ w.holds = {}, Leads(p) /\ w.alive => Alive(p) /\ w.group,
         exit' \in IF Leads(p) /\ ~w.alive /\ Alive(p) THEN {"success", "failure"} ELSE {exit},
         UNCHANGED <<outsideVars, pipes>>, marker' \in BOOLEAN,
         Group = {} => ~(w.alive /\ w.group),
         \A s \in Streams : w.alive /\ s \in w.holds => Holders(s) # {}
  PROVE  ProcessIInv'
<1>1. ProcessTyped /\ "leader" \in Procs
  BY DEF ProcessIInv, Procs
<1>2. /\ procs' \in [Procs -> Process] /\ procs'[p] = w /\ \A q \in Procs \ {p} : procs'[q] = procs[q]
  BY <1>1 DEF ProcessTyped
<1>3. /\ call' = call /\ waiting' = waiting /\ ticks' = ticks /\ since' = since /\ found' = found
      /\ gave' = gave /\ stopped' = stopped /\ pipes' = pipes
  BY DEF outsideVars
<1>4. \A q \in Procs : ~Alive(q)' => procs'[q].holds = {}
  BY <1>1, <1>2 DEF ProcessTyped, Alive
<1>5. IF Alive("leader")' THEN procs'["leader"].group /\ exit' = "none" ELSE exit' # "none"
  <2>1. CASE p = "leader"
    <3>1. CASE w.alive
      BY <1>1, <1>2, <2>1, <3>1 DEF ProcessTyped, Alive, Leads
    <3>2. CASE ~w.alive
      BY <1>1, <1>2, <2>1, <3>2 DEF ProcessTyped, Alive, Leads
    <3> QED BY <3>1, <3>2
  <2>2. CASE p # "leader"
    BY <1>1, <1>2, <2>2 DEF ProcessTyped, Alive, Leads
  <2> QED BY <2>1, <2>2
<1>6. ProcessTyped'
  BY <1>1, <1>2, <1>3, <1>4, <1>5 DEF ProcessTyped
<1>7. Group = {} => Group' = {}
  BY <1>2 DEF Group, Alive
<1>8. \A s \in Streams : Holders(s) = {} => Holders(s)' = {}
  BY <1>2 DEF Holders, Alive
<1>9. \A s \in Streams : ReaderStopped(s)'
  BY <1>3, <1>7, <1>8 DEF ProcessIInv, ReaderStopped, AtEof
<1>10. exit \in {"none", exit'}
  BY <1>1 DEF ProcessTyped, Leads
<1> QED BY <1>3, <1>6, <1>7, <1>9, <1>10, ProcessesGoOn

\* Who is dead holds nothing and leads nobody.
LEMMA DeadIsNobody ==
  Dead \in Process /\ ~Dead.alive /\ Dead.holds = {}
BY DEF Dead, Process

\* Every step of the processes.
LEMMA ProcessesStepStay ==
  ASSUME ProcessIInv,
         \/ \E p \in Procs : Exits(p) \/ \E q \in Procs : Spawns(p, q)
         \/ \E p \in Procs, s \in Streams : Closes(p, s) \/ Writes(p, s)
         \/ OwnerCancels
  PROVE  ProcessIInv'
<1>1. ProcessTyped /\ procs \in [Procs -> Process] /\ marker \in BOOLEAN
  BY DEF ProcessIInv, ProcessTyped
<1>2. ASSUME NEW p \in Procs, Dies(p), Alive(p), marker' = marker, UNCHANGED <<outsideVars, pipes>>,
             exit' \in IF Leads(p) THEN {"success", "failure"} ELSE {exit}
      PROVE  ProcessIInv'
  <2>1. procs' = [procs EXCEPT ![p] = Dead]
    BY <1>2 DEF Dies
  <2> QED BY <1>1, <1>2, <2>1, DeadIsNobody, OneProcessMoves
<1>3. ASSUME NEW p \in Procs, Exits(p) PROVE ProcessIInv'
  BY <1>2, <1>3 DEF Exits
<1>4. ASSUME NEW p \in Procs, NEW q \in Procs, Spawns(p, q) PROVE ProcessIInv'
  <2>1. PICK holds \in SUBSET procs[p].holds, stays \in BOOLEAN :
          /\ stays => procs[p].group
          /\ procs' = [procs EXCEPT ![q] = [alive |-> TRUE, group |-> stays, holds |-> holds]]
    BY <1>4 DEF Spawns
  <2> DEFINE w == [alive |-> TRUE, group |-> stays, holds |-> holds]
  <2>2. Alive(p) /\ ~Leads(q) /\ UNCHANGED <<outsideVars, pipes, marker, exit>>
    BY <1>4 DEF Spawns
  <2>3. w \in Process /\ w.alive /\ w.group = stays /\ w.holds = holds
    BY <1>1, <2>1 DEF Process
  <2>4. Group = {} => ~stays
    BY <2>1, <2>2 DEF Group
  <2>5. \A s \in Streams : s \in holds => Holders(s) # {}
    BY <2>1, <2>2 DEF Holders
  <2>6. procs' = [procs EXCEPT ![q] = w]
    BY <2>1
  <2> HIDE DEF w
  <2> QED BY <1>1, <2>2, <2>3, <2>4, <2>5, <2>6, OneProcessMoves
<1>5. ASSUME NEW p \in Procs, NEW s \in Streams, Closes(p, s) PROVE ProcessIInv'
  <2> DEFINE w == [procs[p] EXCEPT !.holds = @ \ {s}]
  <2>1. /\ procs' = [procs EXCEPT ![p] = w] /\ s \in procs[p].holds
        /\ UNCHANGED <<outsideVars, pipes, marker, exit>>
    BY <1>5 DEF Closes
  <2>2. Alive(p)
    BY <1>1, <2>1 DEF ProcessTyped
  <2>3. w \in Process /\ w.alive = procs[p].alive /\ w.group = procs[p].group /\ w.holds \subseteq procs[p].holds
    BY <1>1 DEF Process
  <2>4. w.alive /\ (Leads(p) => w.group)
    BY <1>1, <2>2, <2>3 DEF ProcessTyped, Alive, Leads
  <2>5. Group = {} => ~w.group
    BY <2>2, <2>3 DEF Group
  <2>6. \A t \in Streams : t \in w.holds => Holders(t) # {}
    BY <2>2, <2>3 DEF Holders
  <2> HIDE DEF w
  <2> QED BY <1>1, <2>1, <2>2, <2>3, <2>4, <2>5, <2>6, OneProcessMoves
<1>6. ASSUME NEW p \in Procs, NEW s \in Streams, Writes(p, s) PROVE ProcessIInv'
  <2>1. s \in procs[p].holds /\ Alive(p) /\ UNCHANGED <<outsideVars, marker>>
    BY <1>1, <1>6 DEF Writes, ProcessTyped
  <2>2. CASE pipes[s].reader = "reads"
    <3>1. procs' = procs /\ exit' = exit /\ pipes' = [pipes EXCEPT ![s].written = @ + 1]
      BY <1>6, <2>2 DEF Writes
    <3>2. pipes \in [Streams -> Pipe]
      BY <1>1 DEF ProcessTyped
    <3>3. pipes[s].written + 1 \in Nat
      BY <3>2 DEF Pipe
    <3>4. /\ pipes' \in [Streams -> Pipe] /\ pipes'[s].reader = "reads" /\ pipes'[s].taken = pipes[s].taken
          /\ \A t \in Streams \ {s} : pipes'[t] = pipes[t]
      BY <2>2, <3>1, <3>2, <3>3 DEF Pipe
    <3>5. /\ call' = call /\ waiting' = waiting /\ ticks' = ticks /\ since' = since /\ found' = found
          /\ gave' = gave /\ stopped' = stopped /\ marker' = marker
      BY <2>1 DEF outsideVars
    <3>6. ProcessTyped'
      BY <1>1, <3>1, <3>4, <3>5 DEF ProcessTyped, Alive
    <3>7. Group' = Group /\ \A t : Holders(t)' = Holders(t)
      BY <3>1 DEF Group, Holders, Alive
    <3>8. ReaderStopped(s)'
      BY <2>2, <3>4 DEF ProcessIInv, ReaderStopped
    <3>9. \A t \in Streams : ReaderStopped(t)' /\ pipes'[t].reader = pipes[t].reader
      BY <2>2, <3>4, <3>5, <3>7, <3>8, ReaderStays DEF ProcessIInv
    <3> QED BY <2>1, <3>1, <3>6, <3>7, <3>9, ProcessesGoOn
  <2>3. CASE pipes[s].reader # "reads"
    <3>1. Dies(p) /\ exit' = (IF Leads(p) THEN "failure" ELSE exit) /\ pipes' = pipes
      BY <1>6, <2>3 DEF Writes
    <3> QED BY <1>2, <2>1, <3>1
  <2> QED BY <2>2, <2>3
<1>7. ASSUME OwnerCancels PROVE ProcessIInv'
  <2>1. /\ UNCHANGED <<outsideVars, procs, pipes, exit>> /\ marker' = TRUE
        /\ call' = call /\ waiting' = waiting /\ ticks' = ticks /\ since' = since /\ found' = found
        /\ gave' = gave /\ stopped' = stopped
    BY <1>7 DEF OwnerCancels, outsideVars
  <2>2. ProcessTyped'
    BY <1>1, <2>1 DEF ProcessTyped, Alive
  <2>3. Group' = Group /\ \A t : Holders(t)' = Holders(t)
    BY <2>1 DEF Group, Holders, Alive
  <2>4. \A t \in Streams : ReaderStopped(t)'
    BY <2>1, <2>3, ReaderStays DEF ProcessIInv
  <2> QED BY <2>1, <2>2, <2>3, <2>4, ProcessesGoOn
<1> QED BY <1>3, <1>4, <1>5, <1>6, <1>7

\* A stopped group is gone, and nobody new holds a pipe.
LEMMA KilledGroupIsGone ==
  ASSUME ProcessTyped, KillGroup
  PROVE  /\ procs' \in [Procs -> Process] /\ (\A p \in Procs : ~Alive(p)' => procs'[p].holds = {})
         /\ IF Alive("leader")' THEN procs'["leader"].group /\ exit' = "none" ELSE exit' # "none"
         /\ Group' = {} /\ stopped' = TRUE /\ (\A s : Holders(s)' \subseteq Holders(s))
         /\ exit # "none" => exit' = exit
<1>1. /\ procs' = [p \in Procs |-> IF p \in Group THEN Dead ELSE procs[p]] /\ stopped' = TRUE
      /\ exit' = IF Alive("leader") THEN "failure" ELSE exit
  BY DEF KillGroup
<1>2. /\ procs' \in [Procs -> Process] /\ "leader" \in Procs
      /\ \A p \in Procs : IF p \in Group THEN procs'[p] = Dead ELSE procs'[p] = procs[p]
  BY <1>1, DeadIsNobody DEF ProcessTyped, Procs
<1>3. \A p \in Procs : (p \in Group <=> Alive(p) /\ procs[p].group) /\ (Alive(p) <=> procs[p].alive)
  BY DEF Group, Alive
<1>4. \A p \in Procs : Alive(p)' => procs'[p] = procs[p] /\ Alive(p) /\ ~procs[p].group
  BY <1>2, <1>3, DeadIsNobody DEF Alive
<1>5. \A p \in Procs : ~Alive(p)' => procs'[p].holds = {}
  BY <1>2, <1>3, DeadIsNobody DEF Alive, ProcessTyped
<1>6. ~Alive("leader")' /\ exit' # "none"
  BY <1>1, <1>2, <1>4 DEF ProcessTyped
<1>7. Group' = {}
  BY <1>4 DEF Group
<1>8. \A s : Holders(s)' \subseteq Holders(s)
  BY <1>4 DEF Holders
<1>9. exit # "none" => exit' = exit
  BY <1>1 DEF ProcessTyped
<1> QED BY <1>1, <1>2, <1>5, <1>6, <1>7, <1>8, <1>9

\* What is left as it is while nobody is stopped.
LEMMA SparedGroupStays ==
  ASSUME ProcessTyped, procs' = procs, exit' = exit
  PROVE  /\ procs' \in [Procs -> Process] /\ (\A p \in Procs : ~Alive(p)' => procs'[p].holds = {})
         /\ IF Alive("leader")' THEN procs'["leader"].group /\ exit' = "none" ELSE exit' # "none"
         /\ Group' = Group /\ (\A s : Holders(s)' = Holders(s))
BY DEF ProcessTyped, Group, Holders, Alive

\* What brgr's steps have in common: processes only go, and readers that have stopped stay so.
LEMMA BrgrGoesOn ==
  ASSUME ProcessIInv, call' = call, marker' = marker, ticks' = ticks,
         KillGroup \/ (UNCHANGED <<procs, exit>>), stopped' \in BOOLEAN,
         pipes' \in [Streams -> Pipe], found' \in Findings, since' \in Nat,
         call = "run" => waiting' \in RunWaits, call = "probe" => waiting' \in ProbeWaits
  PROVE  /\ ProcessTyped' /\ (Group = {} => Group' = {}) /\ (\A s : Holders(s)' \subseteq Holders(s))
         /\ (KillGroup => Group' = {}) /\ (exit # "none" => exit' = exit)
         /\ \A s \in Streams : pipes'[s] = pipes[s] /\ (found.overflow => found'.overflow) => ReaderStopped(s)'
<1>1. ProcessTyped
  BY DEF ProcessIInv
<1>2. /\ procs' \in [Procs -> Process] /\ (\A p \in Procs : ~Alive(p)' => procs'[p].holds = {})
      /\ IF Alive("leader")' THEN procs'["leader"].group /\ exit' = "none" ELSE exit' # "none"
      /\ (Group = {} => Group' = {}) /\ (\A s : Holders(s)' \subseteq Holders(s))
      /\ (KillGroup => Group' = {}) /\ (exit # "none" => exit' = exit)
  <2>1. CASE KillGroup
    BY <1>1, <2>1, KilledGroupIsGone
  <2>2. CASE ~KillGroup
    BY <1>1, <2>2, SparedGroupStays
  <2> QED BY <2>1, <2>2
<1>3. ProcessTyped'
  BY <1>1, <1>2 DEF ProcessTyped
<1>4. \A s \in Streams : pipes'[s] = pipes[s] /\ (found.overflow => found'.overflow) => ReaderStopped(s)'
  BY <1>2, ReaderStays DEF ProcessIInv
<1> QED BY <1>2, <1>3, <1>4

\* Reading, by a run's reader or a probe's.
LEMMA ReadsStay ==
  ASSUME ProcessIInv, NEW s \in Streams, Reads(s)
  PROVE  ProcessIInv'
<1>1. ProcessTyped /\ pipes \in [Streams -> Pipe] /\ found \in Findings /\ PipeLimit \in Nat
  BY ProcessConstants DEF ProcessIInv, ProcessTyped
<1> DEFINE taken == pipes[s].taken + 1
<1>2. /\ pipes[s].reader = "reads" /\ call' = call /\ waiting' = waiting /\ ticks' = ticks /\ since' = since
      /\ marker' = marker /\ gave' = gave
  BY DEF Reads
<1>3. taken \in Nat /\ pipes[s].taken \in Nat
  BY <1>1 DEF Pipe
<1>4. \/ /\ AtEof(s) /\ pipes' = [pipes EXCEPT ![s].reader = "eof"] /\ Spares /\ found' = found
      \/ /\ taken <= pipes[s].written /\ taken <= PipeLimit
         /\ pipes' = [pipes EXCEPT ![s].taken = taken] /\ Spares /\ found' = found
      \/ /\ pipes' = [pipes EXCEPT ![s].taken = PipeLimit, ![s].reader = "over"]
         /\ found' = [found EXCEPT !.overflow = TRUE]
         /\ IF call = "probe" THEN KillGroup ELSE Spares
  BY DEF Reads
<1>5. /\ pipes' \in [Streams -> Pipe] /\ \A t \in Streams \ {s} : pipes'[t] = pipes[t]
  BY <1>1, <1>3, <1>4 DEF Pipe
<1>6. /\ found' \in Findings /\ found'.timed = found.timed /\ found'.cancelled = found.cancelled
      /\ (found.overflow => found'.overflow) /\ (pipes'[s].reader = "over" => found'.overflow)
  BY <1>1, <1>2, <1>4 DEF Findings, Pipe
<1>7. \/ KillGroup /\ stopped' = TRUE /\ found'.overflow
      \/ UNCHANGED <<procs, exit>> /\ stopped' = stopped
  <2>1. found' = [found EXCEPT !.overflow = TRUE] => found'.overflow
    BY <1>1 DEF Findings
  <2> QED BY <1>4, <2>1 DEF KillGroup, Spares
<1>8. stopped \in BOOLEAN /\ since \in Nat /\ (call = "run" => waiting \in RunWaits) /\ (call = "probe" => waiting \in ProbeWaits)
  BY <1>1 DEF ProcessTyped
<1>9. /\ ProcessTyped' /\ (Group = {} => Group' = {}) /\ (\A t : Holders(t)' \subseteq Holders(t))
      /\ (KillGroup => Group' = {}) /\ (exit # "none" => exit' = exit)
      /\ \A t \in Streams : pipes'[t] = pipes[t] /\ (found.overflow => found'.overflow) => ReaderStopped(t)'
  BY <1>2, <1>5, <1>6, <1>7, <1>8, BrgrGoesOn
<1>10. ReaderStopped(s)'
  <2>1. CASE AtEof(s) /\ pipes' = [pipes EXCEPT ![s].reader = "eof"]
    <3>1. pipes'[s].reader = "eof" /\ pipes'[s].taken = pipes[s].taken /\ pipes'[s].written = pipes[s].written
      BY <1>1, <2>1 DEF Pipe
    <3>2. pipes[s].taken <= PipeLimit
      BY <1>2 DEF ProcessIInv, ReaderStopped
    <3> QED BY <1>9, <2>1, <3>1, <3>2 DEF ReaderStopped, AtEof
  <2>2. CASE taken <= PipeLimit /\ pipes' = [pipes EXCEPT ![s].taken = taken]
    <3>1. pipes'[s].reader = "reads" /\ pipes'[s].taken = taken
      BY <1>1, <1>2, <2>2 DEF Pipe
    <3> QED BY <2>2, <3>1 DEF ReaderStopped
  <2>3. CASE /\ pipes' = [pipes EXCEPT ![s].taken = PipeLimit, ![s].reader = "over"]
             /\ IF call = "probe" THEN KillGroup ELSE Spares
    <3>1. pipes'[s].reader = "over"
      BY <1>1, <2>3 DEF Pipe
    <3> QED BY <1>2, <1>6, <1>9, <2>3, <3>1 DEF ReaderStopped
  <2> QED BY <1>4, <2>1, <2>2, <2>3
<1>11. \A t \in Streams : ReaderStopped(t)'
  BY <1>5, <1>6, <1>9, <1>10
<1>12. \A t \in Streams : pipes[t].reader # "reads" => pipes'[t] = pipes[t]
  BY <1>2, <1>5
<1>13. WaitsAreBounded'
  BY <1>2 DEF ProcessIInv, WaitsAreBounded, WaitedFor
<1>14. ProbeIsPast'
  <2>1. \A t \in Streams : HasRead(t) => HasRead(t)'
    BY <1>12 DEF HasRead
  <2> QED BY <1>2, <1>9, <2>1 DEF ProcessIInv, ProbeIsPast, PastStdout, Streams
<1>15. StoppedIsGone'
  <2>1. CASE KillGroup /\ stopped' = TRUE /\ found'.overflow
    BY <1>9, <2>1 DEF StoppedIsGone
  <2>2. CASE UNCHANGED <<procs, exit>> /\ stopped' = stopped
    BY <1>2, <1>6, <1>9, <2>2 DEF ProcessIInv, StoppedIsGone
  <2> QED BY <1>7, <2>1, <2>2
<1>16. ResultIsWhole'
  <2> SUFFICES ASSUME gave' = "result" PROVE ResultIsWhole'
    BY DEF ResultIsWhole
  <2>1. \A t \in Streams : pipes[t].reader = "eof"
    BY <1>2 DEF ProcessIInv, ResultIsWhole
  <2> QED BY <1>2, <2>1
<1> QED BY <1>9, <1>11, <1>13, <1>14, <1>15, <1>16 DEF ProcessIInv

\* A run that is stopped, or whose leader has gone.
LEMMA RunWaitsStay ==
  ASSUME ProcessIInv, RunStops \/ RunExits
  PROVE  ProcessIInv'
<1>1. ProcessTyped /\ Deadline \in Nat /\ found \in Findings /\ pipes \in [Streams -> Pipe] /\ ticks \in Nat
  BY ProcessConstants DEF ProcessIInv, ProcessTyped
<1>2. /\ call = "run" /\ waiting = "exit" /\ call' = call /\ procs' = procs /\ pipes' = pipes
      /\ ticks' = ticks /\ marker' = marker /\ exit' = exit /\ gave' = gave /\ since' = ticks
      /\ waiting' \in {"grace", "captures"}
  BY DEF RunStops, RunExits, WaitFor
<1>3. /\ waiting' = "grace" => /\ RunStops /\ stopped' = TRUE
                               /\ found' = [found EXCEPT !.timed = ticks >= Deadline, !.cancelled = marker]
      /\ waiting' = "captures" => found' = found /\ stopped' = stopped
  BY <1>2 DEF RunStops, RunExits, WaitFor
<1>4. found' \in Findings /\ stopped' \in BOOLEAN /\ found'.overflow = found.overflow
  <2>1. CASE waiting' = "grace"
    <3>1. (ticks >= Deadline) \in BOOLEAN /\ marker \in BOOLEAN
      BY <1>1 DEF ProcessTyped
    <3>2. found' = [found EXCEPT !.timed = ticks >= Deadline, !.cancelled = marker] /\ stopped' = TRUE
      BY <1>3, <2>1
    <3> QED BY <1>1, <3>1, <3>2 DEF Findings
  <2>2. CASE waiting' = "captures"
    BY <1>1, <1>3, <2>2 DEF ProcessTyped
  <2> QED BY <1>2, <2>1, <2>2
<1>5. /\ ProcessTyped' /\ (\A s \in Streams : ReaderStopped(s)') /\ (Group = {} => Group' = {})
  <2>1. "grace" \in RunWaits /\ "captures" \in RunWaits
    BY DEF RunWaits
  <2> QED BY <1>1, <1>2, <1>4, <2>1, BrgrGoesOn
<1>6. WaitsAreBounded'
  <2>1. ticks <= Deadline
    BY <1>2 DEF ProcessIInv, WaitsAreBounded
  <2>2. ticks' <= Deadline + 1 /\ since' <= Deadline /\ ticks' <= since' + 1
    BY <1>1, <1>2, <2>1
  <2> QED BY <1>2, <2>2 DEF WaitsAreBounded, WaitedFor
<1>7. ProbeIsPast' /\ ResultIsWhole'
  BY <1>2 DEF ProcessIInv, ProbeIsPast, ResultIsWhole
<1>8. StoppedIsGone'
  <2>1. CASE waiting' = "grace"
    <3>1. found'.timed = (ticks >= Deadline) /\ found'.cancelled = marker
      BY <1>1, <1>3, <2>1 DEF Findings
    <3>2. MustStop
      BY <1>3, <2>1 DEF RunStops
    <3>3. stopped' = TRUE /\ (found'.timed \/ found'.cancelled \/ found'.overflow)
      BY <1>3, <1>4, <2>1, <3>1, <3>2 DEF MustStop
    <3> QED BY <2>1, <3>3 DEF StoppedIsGone
  <2>2. CASE waiting' = "captures"
    <3>1. found' = found /\ stopped' = stopped
      BY <1>3, <2>2
    <3>2. stopped => Group = {} /\ (found.timed \/ found.cancelled \/ found.overflow)
      BY <1>2 DEF ProcessIInv, StoppedIsGone
    <3> QED BY <1>5, <2>2, <3>1, <3>2 DEF StoppedIsGone
  <2> QED BY <1>2, <2>1, <2>2
<1> QED BY <1>5, <1>6, <1>7, <1>8 DEF ProcessIInv

\* The grace of a stopped run is over.
LEMMA GraceEndsStays ==
  ASSUME ProcessIInv, GraceEnds
  PROVE  ProcessIInv'
<1>1. /\ ProcessTyped /\ Deadline \in Nat /\ found \in Findings /\ pipes \in [Streams -> Pipe]
      /\ ticks \in Nat /\ since \in Nat
  BY ProcessConstants DEF ProcessIInv, ProcessTyped
<1>2. /\ waiting = "grace" /\ waiting' = "captures" /\ since' = ticks /\ KillGroup /\ call' = call
      /\ pipes' = pipes /\ ticks' = ticks /\ marker' = marker /\ found' = found /\ gave' = gave
  BY DEF GraceEnds, StopsGroup, WaitFor
<1>3. call = "run" /\ stopped' = TRUE
  BY <1>1, <1>2 DEF ProcessTyped, ProbeWaits, KillGroup
<1>4. ProcessTyped' /\ (\A s \in Streams : ReaderStopped(s)') /\ Group' = {}
  <2>1. "captures" \in RunWaits
    BY DEF RunWaits
  <2> QED BY <1>1, <1>2, <1>3, <2>1, BrgrGoesOn
<1>5. WaitsAreBounded'
  <2>1. since <= Deadline /\ ticks <= since + 1
    BY <1>2 DEF ProcessIInv, WaitsAreBounded, WaitedFor
  <2> QED BY <1>1, <1>2, <2>1 DEF WaitsAreBounded, WaitedFor
<1>6. ProbeIsPast' /\ ResultIsWhole'
  BY <1>2, <1>3 DEF ProcessIInv, ProbeIsPast, ResultIsWhole
<1>7. StoppedIsGone'
  <2>1. found.timed \/ found.cancelled \/ found.overflow \/ ~stopped
    BY <1>2 DEF ProcessIInv, StoppedIsGone
  <2>2. stopped
    BY <1>2 DEF ProcessIInv, StoppedIsGone
  <2> QED BY <1>2, <1>4, <2>1, <2>2 DEF StoppedIsGone
<1> QED BY <1>4, <1>5, <1>6, <1>7 DEF ProcessIInv

\* Both pipes are read: the call is over, and its result is whole.
LEMMA ReturnsStay ==
  ASSUME ProcessIInv, \A s \in Streams : HasRead(s), Returns, waiting \in {"captures", "stderr"},
         UNCHANGED <<call, procs, pipes, ticks, marker, exit, found, stopped>>
  PROVE  ProcessIInv'
<1>1. /\ ProcessTyped /\ found \in Findings /\ pipes \in [Streams -> Pipe] /\ ticks \in Nat /\ stopped \in BOOLEAN
  BY DEF ProcessIInv, ProcessTyped
<1>2. waiting' = "over" /\ since' = ticks /\ gave' = IF MayCollect THEN "result" ELSE "none"
  BY DEF Returns, WaitFor
<1>3. ProcessTyped' /\ (\A s \in Streams : ReaderStopped(s)') /\ (Group = {} => Group' = {})
  <2>1. "over" \in RunWaits /\ "over" \in ProbeWaits
    BY DEF RunWaits, ProbeWaits
  <2> QED BY <1>1, <1>2, <2>1, BrgrGoesOn
<1>4. WaitsAreBounded'
  BY <1>2 DEF WaitsAreBounded, WaitedFor
<1>5. ProbeIsPast'
  BY <1>2 DEF ProbeIsPast, HasRead, Streams
<1>6. stopped => Group = {} /\ (found.timed \/ found.cancelled \/ found.overflow)
  BY DEF ProcessIInv, StoppedIsGone
<1>7. StoppedIsGone'
  BY <1>2, <1>3, <1>6 DEF StoppedIsGone
<1>8. ResultIsWhole'
  BY <1>1, <1>2, <1>6 DEF ResultIsWhole, MayCollect
<1> QED BY <1>3, <1>4, <1>5, <1>7, <1>8 DEF ProcessIInv

\* Readers that are given up.
LEMMA GivenUpReaders ==
  ASSUME ProcessTyped, NEW ss \in SUBSET Streams, GiveUp(ss)
  PROVE  /\ pipes' \in [Streams -> Pipe]
         /\ \A s \in Streams : \/ pipes'[s] = pipes[s] /\ (s \in ss => HasRead(s))
                               \/ s \in ss /\ ~HasRead(s) /\ pipes'[s].reader = "gone"
<1>1. pipes' = [s \in Streams |->
    IF s \in ss /\ pipes[s].reader = "reads" THEN [pipes[s] EXCEPT !.reader = "gone"] ELSE pipes[s]]
  BY DEF GiveUp
<1>2. \A s \in Streams : pipes[s] \in Pipe
  BY DEF ProcessTyped
<1>3. \A w \in Pipe : [w EXCEPT !.reader = "gone"] \in Pipe /\ [w EXCEPT !.reader = "gone"].reader = "gone"
  BY DEF Pipe
<1> QED BY <1>1, <1>2, <1>3 DEF HasRead

\* A run whose pipes are kept open past the deadline.
LEMMA CapturesTimeOutStays ==
  ASSUME ProcessIInv, CapturesTimeOut
  PROVE  ProcessIInv'
<1>1. ProcessTyped /\ found \in Findings /\ ticks \in Nat
  BY DEF ProcessIInv, ProcessTyped
<1>2. /\ waiting = "captures" /\ KillGroup /\ GiveUp(Streams) /\ waiting' = "over" /\ since' = ticks
      /\ gave' = "error" /\ call' = call /\ ticks' = ticks /\ marker' = marker /\ found' = found
  BY DEF CapturesTimeOut, WaitFor
<1>3. call = "run" /\ stopped' = TRUE
  BY <1>1, <1>2 DEF ProcessTyped, ProbeWaits, KillGroup
<1>4. /\ pipes' \in [Streams -> Pipe]
      /\ \A s \in Streams : pipes'[s] = pipes[s] \/ pipes'[s].reader = "gone"
  BY <1>1, <1>2, GivenUpReaders
<1>5. /\ ProcessTyped' /\ Group' = {} /\ (exit # "none" => exit' = exit)
      /\ \A s \in Streams : pipes'[s] = pipes[s] => ReaderStopped(s)'
  <2>1. "over" \in RunWaits
    BY DEF RunWaits
  <2> QED BY <1>1, <1>2, <1>3, <1>4, <2>1, BrgrGoesOn
<1>6. \A s \in Streams : ReaderStopped(s)'
  BY <1>2, <1>3, <1>4, <1>5 DEF ReaderStopped
<1>7. WaitsAreBounded' /\ ProbeIsPast' /\ ResultIsWhole' /\ StoppedIsGone'
  BY <1>2, <1>3, <1>5 DEF WaitsAreBounded, WaitedFor, ProbeIsPast, ResultIsWhole, StoppedIsGone
<1> QED BY <1>5, <1>6, <1>7 DEF ProcessIInv

\* A probe whose leader has gone, or whose time is over.
LEMMA ProbeExitsStays ==
  ASSUME ProcessIInv, ProbeExits
  PROVE  ProcessIInv'
<1>1. /\ ProcessTyped /\ Deadline \in Nat /\ found \in Findings /\ pipes \in [Streams -> Pipe] /\ ticks \in Nat
      /\ stopped \in BOOLEAN
  BY ProcessConstants DEF ProcessIInv, ProcessTyped
<1>2. /\ call = "probe" /\ waiting = "exit" /\ waiting' = "stdout" /\ since' = ticks /\ call' = call
      /\ pipes' = pipes /\ ticks' = ticks /\ marker' = marker /\ gave' = gave
  BY DEF ProbeExits, WaitFor
<1>3. \/ UNCHANGED <<procs, exit>> /\ stopped' = stopped /\ found' = found
      \/ KillGroup /\ stopped' = TRUE /\ found' = [found EXCEPT !.timed = TRUE]
  BY DEF ProbeExits, Spares, KillGroup
<1>4. /\ found' \in Findings /\ found'.overflow = found.overflow /\ found'.cancelled = found.cancelled
      /\ (found.timed => found'.timed) /\ (found' = [found EXCEPT !.timed = TRUE] => found'.timed)
  BY <1>1, <1>3 DEF Findings
<1>5. /\ ProcessTyped' /\ (\A s \in Streams : ReaderStopped(s)') /\ (Group = {} => Group' = {})
      /\ (KillGroup => Group' = {})
  <2>1. "stdout" \in ProbeWaits
    BY DEF ProbeWaits
  <2> QED BY <1>1, <1>2, <1>3, <1>4, <2>1, BrgrGoesOn
<1>6. WaitsAreBounded'
  <2>1. ticks <= Deadline
    BY <1>2 DEF ProcessIInv, WaitsAreBounded
  <2> QED BY <1>1, <1>2, <2>1 DEF WaitsAreBounded, WaitedFor
<1>7. ProbeIsPast' /\ ResultIsWhole'
  BY <1>2 DEF ProcessIInv, ProbeIsPast, PastStdout, ResultIsWhole
<1>8. StoppedIsGone'
  BY <1>2, <1>3, <1>4, <1>5 DEF ProcessIInv, StoppedIsGone
<1> QED BY <1>5, <1>6, <1>7, <1>8 DEF ProcessIInv

\* A probe goes on to its other pipe, or is over.
LEMMA PipeJoinedStays ==
  ASSUME ProcessIInv, NEW s \in Streams, PipeJoined(s)
  PROVE  ProcessIInv'
<1>1. /\ ProcessTyped /\ Deadline \in Nat /\ found \in Findings /\ pipes \in [Streams -> Pipe]
      /\ ticks \in Nat /\ since \in Nat /\ stopped \in BOOLEAN
  BY ProcessConstants DEF ProcessIInv, ProcessTyped
<1>2. /\ waiting = s /\ HasRead(s) /\ AfterPipe(s) /\ s \in {"stdout", "stderr"}
      /\ UNCHANGED <<call, procs, pipes, ticks, marker, exit, found, stopped>>
  BY DEF PipeJoined, Streams
<1>3. call = "probe"
  BY <1>1, <1>2 DEF ProcessTyped, RunWaits
<1>4. CASE s = "stderr"
  <2>1. Returns /\ HasRead("stdout")
    BY <1>2, <1>3, <1>4 DEF AfterPipe, ProcessIInv, ProbeIsPast, PastStdout
  <2> QED BY <1>2, <1>4, <2>1, ReturnsStay DEF Streams
<1>5. CASE s = "stdout"
  <2>1. waiting' = "stderr" /\ since' = ticks /\ gave' = gave
    BY <1>2, <1>5 DEF AfterPipe, WaitFor
  <2>2. ProcessTyped' /\ (\A t \in Streams : ReaderStopped(t)') /\ (Group = {} => Group' = {})
    <3>1. "stderr" \in ProbeWaits
      BY DEF ProbeWaits
    <3> QED BY <1>1, <1>2, <1>3, <2>1, <3>1, BrgrGoesOn
  <2>3. WaitsAreBounded'
    <3>1. since <= Deadline /\ ticks <= since + 1
      BY <1>2, <1>5 DEF ProcessIInv, WaitsAreBounded, WaitedFor
    <3>2. since' <= Deadline + 2 /\ ticks' <= since' + 1
      BY <1>1, <1>2, <2>1, <3>1
    <3> QED BY <2>1, <3>2 DEF WaitsAreBounded, WaitedFor
  <2>4. ProbeIsPast'
    BY <1>2, <1>5, <2>1 DEF ProbeIsPast, HasRead
  <2>5. stopped => Group = {} /\ (found.timed \/ found.cancelled \/ found.overflow)
    BY <1>2, <1>5 DEF ProcessIInv, StoppedIsGone
  <2>6. StoppedIsGone' /\ ResultIsWhole'
    BY <1>2, <1>5, <2>1, <2>2, <2>5 DEF ProcessIInv, StoppedIsGone, ResultIsWhole
  <2> QED BY <2>2, <2>3, <2>4, <2>6 DEF ProcessIInv
<1> QED BY <1>2, <1>4, <1>5

\* Somebody keeps a probe's pipe open: the group is stopped, and the pipe is given one more wait.
LEMMA PipeStaysOpenStays ==
  ASSUME ProcessIInv, NEW s \in Streams, PipeStaysOpen(s)
  PROVE  ProcessIInv'
<1>1. /\ ProcessTyped /\ Deadline \in Nat /\ found \in Findings /\ pipes \in [Streams -> Pipe]
      /\ ticks \in Nat /\ since \in Nat
  BY ProcessConstants DEF ProcessIInv, ProcessTyped
<1>2. /\ waiting = s /\ KillGroup /\ waiting' = Again(s) /\ since' = ticks /\ s \in {"stdout", "stderr"}
      /\ UNCHANGED <<call, pipes, ticks, marker, found, gave>> /\ stopped' = TRUE
  BY DEF PipeStaysOpen, StopsHolders, WaitFor, KillGroup, Streams
<1>3. call = "probe" /\ waiting' \in {"stdout again", "stderr again"}
  BY <1>1, <1>2 DEF ProcessTyped, RunWaits, Again
<1>4. ProcessTyped' /\ (\A t \in Streams : ReaderStopped(t)') /\ Group' = {}
  <2>1. waiting' \in ProbeWaits
    BY <1>3 DEF ProbeWaits
  <2> QED BY <1>1, <1>2, <1>3, <2>1, BrgrGoesOn
<1>9. since' = ticks /\ ticks' = ticks
  BY <1>2
<1>5. WaitsAreBounded'
  <2>1. CASE s = "stdout"
    <3>1. since <= Deadline /\ ticks <= since + 1
      BY <1>2, <2>1 DEF ProcessIInv, WaitsAreBounded, WaitedFor, Again
    <3>2. since' <= Deadline + 1 /\ ticks' <= since' + 1
      BY <1>1, <1>9, <3>1
    <3> QED BY <1>2, <2>1, <3>2 DEF WaitsAreBounded, WaitedFor, Again
  <2>2. CASE s = "stderr"
    <3>1. since <= Deadline + 2 /\ ticks <= since + 1
      BY <1>2, <2>2 DEF ProcessIInv, WaitsAreBounded, WaitedFor, Again
    <3>2. since' <= Deadline + 3 /\ ticks' <= since' + 1
      BY <1>1, <1>9, <3>1
    <3> QED BY <1>2, <2>2, <3>2 DEF WaitsAreBounded, WaitedFor, Again
  <2> QED BY <1>2, <2>1, <2>2
<1>6. ProbeIsPast'
  <2>1. waiting' = "stderr again" => waiting = "stderr"
    BY <1>2 DEF Again
  <2> QED BY <1>2, <1>3, <1>4, <2>1 DEF ProcessIInv, ProbeIsPast, PastStdout, HasRead
<1>7. gave # "result"
  BY <1>2 DEF ProcessIInv, ResultIsWhole
<1>8. StoppedIsGone' /\ ResultIsWhole'
  BY <1>2, <1>3, <1>4, <1>7 DEF StoppedIsGone, ResultIsWhole
<1> QED BY <1>4, <1>5, <1>6, <1>8 DEF ProcessIInv

\* A pipe that stays open all the same is given up.
LEMMA PipeGivenUpStays ==
  ASSUME ProcessIInv, NEW s \in Streams, PipeGivenUp(s)
  PROVE  ProcessIInv'
<1>1. /\ ProcessTyped /\ Deadline \in Nat /\ found \in Findings /\ pipes \in [Streams -> Pipe]
      /\ ticks \in Nat /\ since \in Nat /\ stopped \in BOOLEAN
  BY ProcessConstants DEF ProcessIInv, ProcessTyped
<1>2. /\ waiting = Again(s) /\ GiveUp({s}) /\ found' = [found EXCEPT !.overflow = TRUE]
      /\ UNCHANGED <<call, procs, ticks, marker, exit, stopped>> /\ since' = ticks /\ s \in {"stdout", "stderr"}
      /\ s = "stdout" => waiting' = "stderr" /\ gave' = gave
      /\ s # "stdout" => waiting' = "over" /\ gave' = "none"
  BY DEF PipeGivenUp, WaitFor, Streams
<1>3. waiting \in {"stdout again", "stderr again"} /\ call = "probe"
  BY <1>1, <1>2 DEF Again, ProcessTyped, RunWaits
<1>4. Group = {}
  BY <1>3 DEF ProcessIInv, ProbeIsPast
<1>5. /\ pipes' \in [Streams -> Pipe]
      /\ \A t \in Streams : (pipes'[t] = pipes[t] /\ (t = s => HasRead(t))) \/ pipes'[t].reader = "gone"
  <2>1. {s} \in SUBSET Streams
    OBVIOUS
  <2> QED BY <1>1, <1>2, <2>1, GivenUpReaders
<1>6. found' \in Findings /\ found'.overflow
  BY <1>1, <1>2 DEF Findings
<1>7. ProcessTyped' /\ Group' = {} /\ \A t \in Streams : pipes'[t] = pipes[t] => ReaderStopped(t)'
  <2>1. waiting' \in ProbeWaits
    BY <1>2 DEF ProbeWaits
  <2> QED BY <1>1, <1>2, <1>3, <1>4, <1>5, <1>6, <2>1, BrgrGoesOn
<1>8. \A t \in Streams : ReaderStopped(t)'
  BY <1>5, <1>7 DEF ReaderStopped
<1>9. HasRead(s)' /\ \A t \in Streams : HasRead(t) => HasRead(t)'
  BY <1>5 DEF HasRead
<1>10. WaitsAreBounded'
  <2>1. CASE s = "stdout"
    <3>1. since <= Deadline + 1 /\ ticks <= since + 1
      BY <1>2, <2>1 DEF ProcessIInv, WaitsAreBounded, WaitedFor, Again
    <3>2. since' <= Deadline + 2 /\ ticks' <= since' + 1
      BY <1>1, <1>2, <3>1
    <3> QED BY <1>2, <2>1, <3>2 DEF WaitsAreBounded, WaitedFor
  <2>2. CASE s # "stdout"
    BY <1>2, <2>2 DEF WaitsAreBounded, WaitedFor
  <2> QED BY <2>1, <2>2
<1>11. ProbeIsPast'
  <2>1. CASE s = "stdout"
    BY <1>2, <1>9, <2>1 DEF ProbeIsPast
  <2>2. CASE s = "stderr"
    <3>1. HasRead("stdout")
      BY <1>2, <1>3, <2>2 DEF ProcessIInv, ProbeIsPast, PastStdout, Again
    <3> QED BY <1>2, <1>9, <2>2, <3>1 DEF ProbeIsPast, Streams
  <2> QED BY <1>2, <2>1, <2>2
<1>12. StoppedIsGone'
  BY <1>2, <1>6, <1>7 DEF StoppedIsGone
<1>13. ResultIsWhole'
  <2>1. gave # "result"
    BY <1>3 DEF ProcessIInv, ResultIsWhole
  <2> QED BY <1>2, <2>1 DEF ResultIsWhole
<1> QED BY <1>7, <1>8, <1>10, <1>11, <1>12, <1>13 DEF ProcessIInv

\* Time passes only when brgr has nothing to do.
LEMMA HalfSecondStays ==
  ASSUME ProcessIInv, HalfSecond
  PROVE  ProcessIInv'
<1>1. ProcessTyped /\ Deadline \in Nat /\ ticks \in Nat /\ since \in Nat
  BY ProcessConstants DEF ProcessIInv, ProcessTyped
<1>2. /\ Waits /\ ticks' = ticks + 1
      /\ UNCHANGED <<call, procs, pipes, waiting, since, marker, exit, found, gave, stopped>>
  BY DEF HalfSecond
<1>3. ProcessTyped'
  <2>1. ticks' \in Nat
    BY <1>1, <1>2
  <2> QED BY <1>1, <1>2, <2>1 DEF ProcessTyped, Alive
<1>4. Group' = Group /\ \A t : Holders(t)' = Holders(t)
  BY <1>2 DEF Group, Holders, Alive
<1>5. \A t \in Streams : ReaderStopped(t)'
  BY <1>2, <1>4, ReaderStays DEF ProcessIInv
<1>6. waiting \notin {"exit", "captures", "over"} => ticks <= since
  BY <1>1, <1>2 DEF Waits, GraceIsOver
<1>7. waiting \in {"exit", "captures"} => ticks < Deadline
  <2>1. CASE call = "run"
    BY <1>1, <1>2, <2>1 DEF Waits, RunHasWork, MustStop, OutOfTime
  <2>2. CASE call = "probe"
    <3>1. waiting # "captures"
      BY <1>1, <2>2 DEF ProcessTyped, ProbeWaits
    <3>2. waiting = "exit" => ~(ticks >= Deadline)
      BY <1>2, <2>2 DEF Waits, ProbeHasWork
    <3> QED BY <1>1, <3>1, <3>2
  <2> QED BY <1>1, <2>1, <2>2 DEF ProcessTyped
<1>8. WaitsAreBounded'
  <2>1. waiting \in {"exit", "captures"} => ticks' <= Deadline /\ ticks' <= Deadline + 1
    BY <1>1, <1>2, <1>7
  <2>2. waiting \notin {"exit", "captures", "over"} => ticks' <= since' + 1
    BY <1>1, <1>2, <1>6
  <2>3. since' = since /\ waiting' = waiting
    BY <1>2
  <2> QED BY <2>1, <2>2, <2>3 DEF ProcessIInv, WaitsAreBounded, WaitedFor
<1>9. ProbeIsPast' /\ StoppedIsGone' /\ ResultIsWhole'
  BY <1>2, <1>4 DEF ProcessIInv, ProbeIsPast, PastStdout, HasRead, StoppedIsGone, ResultIsWhole
<1> QED BY <1>3, <1>5, <1>8, <1>9 DEF ProcessIInv

\* Every step, of the processes and of brgr.
LEMMA ProcessStepStays ==
  ASSUME ProcessIInv, ProcessNext
  PROVE  ProcessIInv'
<1>1. ASSUME Captured PROVE ProcessIInv'
  BY <1>1, ReturnsStay DEF Captured
<1> QED BY <1>1, ProcessesStepStay, ReadsStay, RunWaitsStay, GraceEndsStays, CapturesTimeOutStays,
           ProbeExitsStays, PipeJoinedStays, PipeStaysOpenStays, PipeGivenUpStays, HalfSecondStays
           DEF ProcessNext

\* A step of another part keeps it.
LEMMA ProcessStutters ==
  ASSUME ProcessIInv, UNCHANGED processVars
  PROVE  ProcessIInv'
<1>1. /\ UNCHANGED <<outsideVars>> /\ procs' = procs /\ pipes' = pipes /\ marker' = marker /\ exit' = exit
      /\ call' = call /\ found' = found
  BY DEF processVars, outsideVars
<1>2. ProcessTyped'
  BY DEF processVars, ProcessIInv, ProcessTyped, Alive
<1>3. Group' = Group /\ \A t : Holders(t)' = Holders(t)
  BY <1>1 DEF Group, Holders, Alive
<1>4. \A t \in Streams : ReaderStopped(t)'
  BY <1>1, <1>3, ReaderStays DEF ProcessIInv
<1> QED BY <1>1, <1>2, <1>3, <1>4, ProcessesGoOn

\* It holds before anything was started.
LEMMA ProcessStart ==
  ASSUME ProcessInit
  PROVE  ProcessIInv
<1>1. /\ procs = [p \in Procs |-> IF Leads(p) THEN [alive |-> TRUE, group |-> TRUE, holds |-> Streams] ELSE Dead]
      /\ pipes = [s \in Streams |-> [written |-> 0, taken |-> 0, reader |-> "reads"]]
      /\ waiting = "exit" /\ ticks = 0 /\ since = 0 /\ marker = FALSE /\ exit = "none"
      /\ found = [timed |-> FALSE, cancelled |-> FALSE, overflow |-> FALSE]
      /\ gave = "nothing" /\ stopped = FALSE /\ call \in {"run", "probe"}
  BY DEF ProcessInit
<1>2. Deadline \in Nat /\ PipeLimit \in Nat
  BY ProcessConstants
<1>3. procs \in [Procs -> Process] /\ (\A p \in Procs : ~Alive(p) => procs[p].holds = {})
      /\ Alive("leader") /\ procs["leader"].group
  BY <1>1, DeadIsNobody DEF Process, Alive, Leads, Procs
<1>4. pipes \in [Streams -> Pipe]
  BY <1>1 DEF Pipe
<1>5. ProcessTyped
  BY <1>1, <1>3, <1>4 DEF ProcessTyped, Findings, RunWaits, ProbeWaits
<1>6. \A s \in Streams : ReaderStopped(s)
  BY <1>1, <1>2 DEF ReaderStopped
<1>7. WaitsAreBounded
  BY <1>1, <1>2 DEF WaitsAreBounded, WaitedFor
<1>8. ProbeIsPast /\ StoppedIsGone /\ ResultIsWhole
  BY <1>1 DEF ProbeIsPast, PastStdout, StoppedIsGone, ResultIsWhole
<1> QED BY <1>5, <1>6, <1>7, <1>8 DEF ProcessIInv

\* It implies what is promised of a process.
LEMMA ProcessPromise ==
  ASSUME ProcessIInv
  PROVE  ProcessInv
<1>1. /\ ProcessTyped /\ Deadline \in Nat /\ ticks \in Nat /\ since \in Nat /\ pipes \in [Streams -> Pipe]
  BY ProcessConstants DEF ProcessIInv, ProcessTyped
<1>2. WholeOrNothing
  <2> SUFFICES ASSUME gave = "result" PROVE WholeOrNothing
    BY DEF WholeOrNothing
  <2>1. exit = "success" /\ ~stopped
    BY DEF ProcessIInv, ResultIsWhole
  <2>2. ASSUME NEW s \in Streams PROVE pipes[s].taken = pipes[s].written /\ pipes[s].written <= PipeLimit
    <3>1. pipes[s].reader = "eof" /\ ReaderStopped(s)
      BY DEF ProcessIInv, ResultIsWhole
    <3> QED BY <3>1 DEF ReaderStopped, AtEof
  <2> QED BY <2>1, <2>2 DEF WholeOrNothing
<1>3. BackInTime
  <2>1. waiting \in {"exit", "grace", "captures"} => ticks <= Deadline + 1
    <3>1. /\ waiting = "exit" => ticks <= Deadline
          /\ waiting = "captures" => ticks <= Deadline + 1
          /\ waiting = "grace" => since <= Deadline /\ ticks <= since + 1
      BY DEF ProcessIInv, WaitsAreBounded, WaitedFor
    <3>2. ticks <= Deadline \/ (since <= Deadline /\ ticks <= since + 1) => ticks <= Deadline + 1
      BY <1>1
    <3> QED BY <3>1, <3>2
  <2>2. waiting \in {"exit", "stdout", "stdout again", "stderr", "stderr again"} => ticks <= Deadline + 4
    <3>1. /\ waiting = "exit" => ticks <= Deadline
          /\ waiting = "stdout" => since <= Deadline /\ ticks <= since + 1
          /\ waiting = "stdout again" => since <= Deadline + 1 /\ ticks <= since + 1
          /\ waiting = "stderr" => since <= Deadline + 2 /\ ticks <= since + 1
          /\ waiting = "stderr again" => since <= Deadline + 3 /\ ticks <= since + 1
      BY DEF ProcessIInv, WaitsAreBounded, WaitedFor
    <3>2. /\ ticks <= Deadline => ticks <= Deadline + 4
          /\ since <= Deadline /\ ticks <= since + 1 => ticks <= Deadline + 4
          /\ since <= Deadline + 1 /\ ticks <= since + 1 => ticks <= Deadline + 4
          /\ since <= Deadline + 2 /\ ticks <= since + 1 => ticks <= Deadline + 4
          /\ since <= Deadline + 3 /\ ticks <= since + 1 => ticks <= Deadline + 4
      BY <1>1
    <3> QED BY <3>1, <3>2
  <2>3. CASE call = "run"
    <3>1. waiting # "over" => waiting \in {"exit", "grace", "captures"}
      BY <1>1, <2>3 DEF ProcessTyped, RunWaits
    <3> QED BY <2>1, <2>3, <3>1 DEF BackInTime
  <2>4. CASE call = "probe"
    <3>1. waiting # "over" => waiting \in {"exit", "stdout", "stdout again", "stderr", "stderr again"}
      BY <1>1, <2>4 DEF ProcessTyped, ProbeWaits
    <3> QED BY <2>2, <2>4, <3>1 DEF BackInTime
  <2> QED BY <1>1, <2>3, <2>4 DEF ProcessTyped
<1>4. NobodyRunsOn
  <2> SUFFICES ASSUME waiting = "over" PROVE NobodyRunsOn
    BY DEF NobodyRunsOn
  <2>1. stopped => Group = {}
    BY DEF ProcessIInv, StoppedIsGone
  <2>2. ASSUME call = "probe", NEW s \in Streams PROVE Holders(s) \cap Group = {}
    <3>1. pipes[s].reader # "reads"
      BY <2>2 DEF ProcessIInv, ProbeIsPast, PastStdout, HasRead, Streams
    <3>2. pipes[s].reader \in {"eof", "over", "gone"}
      BY <1>1, <3>1 DEF Pipe
    <3> QED BY <2>2, <3>2 DEF ProcessIInv, ReaderStopped, AtEof
  <2> QED BY <2>1, <2>2 DEF NobodyRunsOn
<1>5. waiting \in Streams \cup {"exit", "grace", "captures", "stdout again", "stderr again", "over"}
  BY <1>1 DEF ProcessTyped, RunWaits, ProbeWaits, Streams
<1> QED BY <1>2, <1>3, <1>4, <1>5 DEF ProcessInv

-----------------------------------------------------------------------------
(* The answer in a reduced stream.                                              *)

KeptLines == {Reduced(l) : l \in Lines}
Said(lines) == {lines[i].model : i \in {j \in DOMAIN lines : IsMessage(lines[j])}}
Turned(lines) == \E i \in DOMAIN lines : lines[i].type = "turn_end"

\* Of two messages the answer, or the reason for none, is the same.
SameMessage(m, n) == m.text = n.text /\ Shortened(m.error) = Shortened(n.error) /\ (m.error = "" <=> n.error = "")

\* What the answer depends on is the same in what was kept and in what was written.
SaysTheSame(some, all) ==
    /\ Garbled(some) <=> Garbled(all)
    /\ Ends(some) = Ends(all) /\ (Turned(some) <=> Turned(all)) /\ Said(some) = Said(all)
    /\ LastMessage(some) = 0 <=> LastMessage(all) = 0
    /\ LastMessage(all) # 0 => SameMessage(some[LastMessage(some)], all[LastMessage(all)])

StreamIInv ==
    /\ raw \in Nat /\ truncated \in BOOLEAN /\ closed \in BOOLEAN /\ ~(truncated /\ closed)
    /\ kept \in Seq(KeptLines) /\ written \in Seq(Lines) /\ Len(kept) <= Len(written)
    /\ ~truncated => SaysTheSame(kept, written)
    /\ CaptureIsBounded
-----------------------------------------------------------------------------
\* Numbers are well-ordered.
LEMMA LeastNumber ==
  ASSUME NEW S \in SUBSET Nat, S # {}
  PROVE  \E x \in S : \A y \in S : x <= y
<1>1. PICK R : IsWellFoundedOn(R, Nat) /\ \A x, y \in Nat : <<x, y>> \in R <=> x < y
  BY NatLessThanWellFounded DEF OpToRel
<1>2. PICK x \in S : \A y \in S : ~(<<y, x>> \in R)
  <2>1. S \subseteq Nat /\ S # {}
    OBVIOUS
  <2>2. IsWellFoundedOn(R, Nat)
    BY <1>1
  <2> QED BY ONLY <2>1, <2>2, WFMin, Zenon
<1>3. \A y \in S : x <= y
  <2> TAKE y \in S
  <2>1. x \in Nat /\ y \in Nat /\ ~(<<y, x>> \in R)
    BY <1>2
  <2> QED BY <1>1, <2>1
<1> QED BY <1>3

\* The sizes up to each line, as the recursion that RetainedSize evaluates gives them.
Totals(lines, f) ==
    /\ f \in [0..Len(lines) -> Int] /\ f[0] = 0
    /\ \A n \in 1..Len(lines) : f[n] = f[n - 1] + lines[n].size + 1

\* There are such sizes.
LEMMA TotalsExist ==
  ASSUME NEW S, \A l \in S : l.size \in Int, NEW lines \in Seq(S)
  PROVE  \E f : Totals(lines, f)
<1> DEFINE Sums(n, f) == f \in [0..n -> Int] /\ f[0] = 0 /\ \A i \in 1..n : f[i] = f[i - 1] + lines[i].size + 1
           Bad == {n \in 0..Len(lines) : ~\E f : Sums(n, f)}
<1>1. Bad = {}
  <2> SUFFICES ASSUME Bad # {} PROVE FALSE
    OBVIOUS
  <2>1. Bad \in SUBSET Nat
    OBVIOUS
  <2>2. PICK n \in Bad : \A m \in Bad : n <= m
    <3> HIDE DEF Bad
    <3> QED BY <2>1, LeastNumber
  <2>3. n \in Nat /\ n <= Len(lines) /\ Len(lines) \in Nat /\ ~\E f : Sums(n, f)
    OBVIOUS
  <2>4. CASE n = 0
    <3>1. Sums(0, [i \in 0..0 |-> 0])
      OBVIOUS
    <3> QED BY <2>3, <2>4, <3>1
  <2>5. CASE n # 0
    <3>1. n - 1 \in 0..Len(lines) /\ ~(n <= n - 1)
      BY <2>3, <2>5
    <3>2. PICK f : Sums(n - 1, f)
      BY <2>2, <3>1
    <3> DEFINE g == [i \in 0..n |-> IF i = n THEN f[n - 1] + lines[n].size + 1 ELSE f[i]]
    <3>3. f \in [0..n - 1 -> Int] /\ f[0] = 0 /\ \A i \in 1..n - 1 : f[i] = f[i - 1] + lines[i].size + 1
      BY <3>2
    <3>4. lines[n].size \in Int
      BY <2>3, <2>5
    <3>5. g \in [0..n -> Int]
      BY <2>3, <2>5, <3>3, <3>4
    <3>6. g[0] = 0 /\ \A i \in 1..n : g[i] = g[i - 1] + lines[i].size + 1
      <4>1. g[0] = 0
        BY <2>3, <2>5, <3>3
      <4>2. ASSUME NEW i \in 1..n PROVE g[i] = g[i - 1] + lines[i].size + 1
        <5>1. i - 1 \in 0..n /\ i - 1 # n /\ g[i - 1] = f[i - 1]
          BY <2>3
        <5>2. CASE i = n
          BY <2>3, <5>1, <5>2
        <5>3. CASE i # n
          <6>1. i \in 1..n - 1 /\ i \in 0..n
            BY <2>3, <5>3
          <6> QED BY <3>3, <5>1, <5>3, <6>1
        <5> QED BY <5>2, <5>3
      <4> QED BY <4>1, <4>2
    <3>7. Sums(n, g)
      BY <3>5, <3>6
    <3> QED BY <2>3, <3>7
  <2> QED BY <2>4, <2>5
<1>2. Len(lines) \in 0..Len(lines)
  OBVIOUS
<1>3. PICK f : Sums(Len(lines), f)
  BY <1>1, <1>2
<1> QED BY <1>3 DEF Totals

\* What RetainedSize adds up to is the last of them.
LEMMA SizeIsTheTotal ==
  ASSUME NEW S, NEW lines \in Seq(S), NEW f, Totals(lines, f)
  PROVE  RetainedSize(lines) = f[Len(lines)]
<1> DEFINE Is(g) == g = [n \in 0..Len(lines) |-> IF n = 0 THEN 0 ELSE g[n - 1] + lines[n].size + 1]
           upTo == CHOOSE g : Is(g)
           Bad == {n \in 0..Len(lines) : upTo[n] # f[n]}
<1>1. f \in [0..Len(lines) -> Int] /\ f[0] = 0 /\ Len(lines) \in Nat
      /\ \A n \in 1..Len(lines) : f[n] = f[n - 1] + lines[n].size + 1
  BY DEF Totals
<1>2. Is(f)
  BY <1>1
<1>3. Is(upTo)
  BY <1>2
<1>4. RetainedSize(lines) = upTo[Len(lines)]
  BY DEF RetainedSize
<1> HIDE DEF upTo
<1>5. Bad = {}
  <2> SUFFICES ASSUME Bad # {} PROVE FALSE
    OBVIOUS
  <2>1. Bad \in SUBSET Nat
    OBVIOUS
  <2>2. PICK n \in Bad : \A m \in Bad : n <= m
    <3> HIDE DEF Bad
    <3> QED BY <2>1, LeastNumber
  <2>3. n \in Nat /\ n <= Len(lines) /\ n \in 0..Len(lines) /\ upTo[n] # f[n]
    OBVIOUS
  <2>4. upTo[n] = IF n = 0 THEN 0 ELSE upTo[n - 1] + lines[n].size + 1
    BY <1>3, <2>3
  <2>5. n # 0
    BY <1>1, <2>3, <2>4
  <2>6. n - 1 \in 0..Len(lines) /\ ~(n <= n - 1)
    BY <1>1, <2>3, <2>5
  <2>7. upTo[n - 1] = f[n - 1]
    BY <2>2, <2>6
  <2> QED BY <1>1, <2>3, <2>4, <2>5, <2>7
<1> QED BY <1>1, <1>4, <1>5

\* A line adds its size and its end.
LEMMA SizeGrows ==
  ASSUME NEW S, \A l \in S : l.size \in Int, NEW lines \in Seq(S), NEW l \in S
  PROVE  RetainedSize(lines) \in Int /\ RetainedSize(Append(lines, l)) = RetainedSize(lines) + l.size + 1
<1> DEFINE n == Len(lines)
           more == Append(lines, l)
<1>1. PICK f : Totals(lines, f)
  BY TotalsExist
<1>2. f \in [0..n -> Int] /\ f[0] = 0 /\ \A i \in 1..n : f[i] = f[i - 1] + lines[i].size + 1
  BY <1>1 DEF Totals
<1>3. n \in Nat /\ more \in Seq(S) /\ Len(more) = n + 1 /\ more[n + 1] = l /\ \A i \in 1..n : more[i] = lines[i]
  OBVIOUS
<1>4. RetainedSize(lines) = f[n]
  BY <1>1, SizeIsTheTotal
<1> DEFINE g == [i \in 0..n + 1 |-> IF i = n + 1 THEN f[n] + l.size + 1 ELSE f[i]]
<1>5. f[n] \in Int
  BY <1>2, <1>3
<1> HIDE DEF n, more
<1>6. g \in [0..n + 1 -> Int] /\ g[n + 1] = f[n] + l.size + 1 /\ g[0] = 0 /\ g[n] = f[n]
  BY <1>2, <1>3, <1>5
<1>7. \A i \in 1..n + 1 : g[i] = g[i - 1] + more[i].size + 1
  <2> SUFFICES ASSUME NEW i \in 1..n + 1 PROVE g[i] = g[i - 1] + more[i].size + 1
    OBVIOUS
  <2>1. CASE i = n + 1
    BY <1>3, <1>6, <2>1
  <2>2. CASE i # n + 1
    <3>1. i \in 1..n /\ i - 1 \in 0..n /\ i - 1 # n + 1 /\ i \in 0..n + 1 /\ i - 1 \in 0..n + 1
      BY <1>3, <2>2
    <3>2. g[i] = f[i] /\ g[i - 1] = f[i - 1]
      BY <2>2, <3>1
    <3> QED BY <1>2, <1>3, <3>1, <3>2
  <2> QED BY <2>1, <2>2
<1> HIDE DEF g
<1>8. Totals(more, g)
  BY <1>3, <1>6, <1>7 DEF Totals
<1>9. RetainedSize(more) = g[n + 1]
  BY <1>3, <1>8, SizeIsTheTotal
<1> QED BY <1>4, <1>5, <1>6, <1>9 DEF more

\* Nothing takes no room.
LEMMA NothingIsSmall ==
  RetainedSize(<<>>) = 0
<1>1. <<>> \in Seq({}) /\ Len(<<>>) = 0
  OBVIOUS
<1>2. Totals(<<>>, [i \in 0..0 |-> 0])
  BY <1>1 DEF Totals
<1>3. RetainedSize(<<>>) = [i \in 0..0 |-> 0][Len(<<>>)]
  BY <1>1, <1>2, SizeIsTheTotal
<1> QED BY <1>1, <1>3

\* What one more line adds to what is found in a stream.
LEMMA FoundGrows ==
  ASSUME NEW S, NEW lines \in Seq(S), NEW l \in S
  PROVE  LET more == Append(lines, l)
         IN  /\ Garbled(more) <=> Garbled(lines) \/ l.type = "garbled"
             /\ Ends(more) = IF l.type = "agent_end" THEN Ends(lines) \cup {l.stop} ELSE Ends(lines)
             /\ Turned(more) <=> Turned(lines) \/ l.type = "turn_end"
             /\ Said(more) = IF IsMessage(l) THEN Said(lines) \cup {l.model} ELSE Said(lines)
             /\ LastMessage(more) = IF IsMessage(l) THEN Len(lines) + 1 ELSE LastMessage(lines)
             /\ LastMessage(lines) \in 0..Len(lines)
             /\ more[Len(lines) + 1] = l /\ \A i \in 1..Len(lines) : more[i] = lines[i]
<1> DEFINE n == Len(lines)
           more == Append(lines, l)
<1>1. /\ n \in Nat /\ more \in Seq(S) /\ Len(more) = n + 1 /\ more[n + 1] = l /\ \A i \in 1..n : more[i] = lines[i]
      /\ DOMAIN more = 1..n + 1 /\ DOMAIN lines = 1..n /\ n = Len(lines)
  OBVIOUS
<1> HIDE DEF n, more
<1>2. n + 1 \in 1..n + 1 /\ \A i \in 1..n + 1 : i = n + 1 \/ i \in 1..n
  BY <1>1
<1>3. \A i \in 1..n : i \in 1..n + 1
  BY <1>1
<1>4. Garbled(more) <=> Garbled(lines) \/ l.type = "garbled"
  BY <1>1, <1>2, <1>3 DEF Garbled
<1>5. Turned(more) <=> Turned(lines) \/ l.type = "turn_end"
  BY <1>1, <1>2, <1>3 DEF Turned
<1>6. Ends(more) = IF l.type = "agent_end" THEN Ends(lines) \cup {l.stop} ELSE Ends(lines)
  BY <1>1, <1>2, <1>3 DEF Ends
<1>7. Said(more) = IF IsMessage(l) THEN Said(lines) \cup {l.model} ELSE Said(lines)
  BY <1>1, <1>2, <1>3 DEF Said
<1>8. /\ LastMessage(more) = IF IsMessage(l) THEN n + 1 ELSE LastMessage(lines)
      /\ LastMessage(lines) \in 0..n
  <2> DEFINE I == {i \in 1..n : IsMessage(lines[i])}
             J == {i \in 1..n + 1 : IsMessage(more[i])}
  <2>1. LastMessage(lines) = (IF I # {} THEN Max(I) ELSE 0) /\ LastMessage(more) = (IF J # {} THEN Max(J) ELSE 0)
    BY <1>1 DEF LastMessage, SelectLastInSeq
  <2>2. I \subseteq 1..n /\ (I # {} => Max(I) \in I)
    <3>1. ASSUME I # {} PROVE \E x \in I : \A y \in I : x >= y
      <4> DEFINE D == {n - i : i \in I}
      <4>1. D \in SUBSET Nat /\ D # {}
        BY <1>1, <3>1
      <4>2. PICK d \in D : \A e \in D : d <= e
        <5> HIDE DEF D
        <5> QED BY <4>1, LeastNumber
      <4>3. PICK x \in I : d = n - x
        OBVIOUS
      <4>4. \A y \in I : n - x <= n - y
        BY <4>2, <4>3
      <4>5. \A y \in I : y \in 1..n /\ n - x <= n - y
        BY <4>4
      <4>6. x \in 1..n
        OBVIOUS
      <4> HIDE DEF I
      <4>7. \A y \in I : x >= y
        BY <1>1, <4>5, <4>6
      <4> QED BY <4>3, <4>7
    <3> HIDE DEF I
    <3>2. I # {} => Max(I) \in I
      BY <3>1 DEF Max
    <3> QED BY <3>2 DEF I
  <2>3. CASE IsMessage(l)
    <3>1. n + 1 \in J /\ \A y \in J : n + 1 >= y
      BY <1>1, <1>2, <2>3
    <3>2. \A x \in J : (\A y \in J : x >= y) => x = n + 1
      BY <1>1, <3>1
    <3> HIDE DEF J
    <3>3. Max(J) = n + 1
      BY <3>1, <3>2 DEF Max
    <3> QED BY <1>1, <2>1, <2>2, <2>3, <3>1, <3>3
  <2>4. CASE ~IsMessage(l)
    <3>1. J = I
      BY <1>1, <1>2, <1>3, <2>4
    <3> HIDE DEF I, J
    <3>2. LastMessage(more) = LastMessage(lines)
      BY <2>1, <3>1
    <3>3. LastMessage(lines) = 0 \/ LastMessage(lines) \in 1..n
      BY <2>1, <2>2
    <3> QED BY <1>1, <2>4, <3>2, <3>3
  <2> QED BY <2>3, <2>4
<1> QED BY <1>1, <1>4, <1>5, <1>6, <1>7, <1>8 DEF n, more

\* A reduced line says what the line said, and is a line.
LEMMA ReducedSaysTheSame ==
  ASSUME NEW l \in Lines
  PROVE  LET r == Reduced(l)
         IN  /\ r \in KeptLines /\ r.size \in Int /\ r.type = l.type /\ r.stop = l.stop /\ r.model = l.model
             /\ SameMessage(r, l)
<1>1. /\ l = [type |-> l.type, text |-> l.text, error |-> l.error, model |-> l.model,
              stop |-> l.stop, size |-> l.size]
      /\ l.size \in Nat
  BY StreamConstants
<1> DEFINE r == Reduced(l)
<1>2. CASE l.error = "long error"
  <2>1. r = [type |-> l.type, text |-> l.text, error |-> "error", model |-> l.model,
             stop |-> l.stop, size |-> l.size - 1]
    BY <1>1, <1>2 DEF Reduced, Shortened
  <2>2. Shortened("error") = "error" /\ Shortened(l.error) = "error"
    BY <1>2 DEF Shortened
  <2>3. r.error = "error" /\ r.text = l.text /\ r.type = l.type /\ r.stop = l.stop /\ r.model = l.model
        /\ r.size = l.size - 1
    BY <2>1
  <2>4. r \in KeptLines
    BY DEF KeptLines
  <2>5. r.size \in Int
    <3>1. r.size = l.size - 1 /\ l.size \in Nat
      BY <1>1, <2>3
    <3> QED BY ONLY <3>1
  <2>6. SameMessage(r, l)
    <3>1. r.text = l.text /\ Shortened(r.error) = Shortened(l.error)
      BY <2>2, <2>3
    <3>2. r.error # "" /\ l.error # ""
      BY <1>2, <2>3
    <3> HIDE DEF r
    <3> QED BY <3>1, <3>2 DEF SameMessage
  <2> HIDE DEF r
  <2>7. r.type = l.type /\ r.stop = l.stop /\ r.model = l.model
    BY <2>3
  <2> QED BY <2>4, <2>5, <2>6, <2>7 DEF r
<1>3. CASE l.error # "long error"
  <2>1. r = l
    BY <1>3 DEF Reduced
  <2>2. r \in KeptLines
    BY DEF KeptLines
  <2>3. r.size \in Int
    <3>1. r.size \in Nat
      BY <1>1, <2>1
    <3> QED BY ONLY <3>1
  <2> HIDE DEF r
  <2>4. SameMessage(r, l)
    BY <2>1 DEF SameMessage
  <2> QED BY <2>1, <2>2, <2>3, <2>4 DEF r
<1> QED BY <1>2, <1>3

\* A line that is passed over, or kept reduced, leaves what is found the same.
LEMMA SameGoesOn ==
  ASSUME NEW some \in Seq(KeptLines), NEW all \in Seq(Lines), SaysTheSame(some, all), NEW l \in Lines
  PROVE  /\ Matters(l) => SaysTheSame(Append(some, Reduced(l)), Append(all, l))
         /\ ~Matters(l) => SaysTheSame(some, Append(all, l))
<1> DEFINE r == Reduced(l)
           a == Append(all, l)
           s == Append(some, r)
<1>1. r \in KeptLines /\ r.type = l.type /\ r.stop = l.stop /\ r.model = l.model /\ SameMessage(r, l)
  BY ReducedSaysTheSame
<1>2. /\ Garbled(a) <=> Garbled(all) \/ l.type = "garbled"
      /\ Ends(a) = IF l.type = "agent_end" THEN Ends(all) \cup {l.stop} ELSE Ends(all)
      /\ Turned(a) <=> Turned(all) \/ l.type = "turn_end"
      /\ Said(a) = IF IsMessage(l) THEN Said(all) \cup {l.model} ELSE Said(all)
      /\ LastMessage(a) = IF IsMessage(l) THEN Len(all) + 1 ELSE LastMessage(all)
      /\ LastMessage(all) \in 0..Len(all)
      /\ a[Len(all) + 1] = l /\ \A i \in 1..Len(all) : a[i] = all[i]
  BY FoundGrows
<1> HIDE DEF r
<1>3. /\ Garbled(s) <=> Garbled(some) \/ r.type = "garbled"
      /\ Ends(s) = IF r.type = "agent_end" THEN Ends(some) \cup {r.stop} ELSE Ends(some)
      /\ Turned(s) <=> Turned(some) \/ r.type = "turn_end"
      /\ Said(s) = IF IsMessage(r) THEN Said(some) \cup {r.model} ELSE Said(some)
      /\ LastMessage(s) = IF IsMessage(r) THEN Len(some) + 1 ELSE LastMessage(some)
      /\ LastMessage(some) \in 0..Len(some)
      /\ s[Len(some) + 1] = r /\ \A i \in 1..Len(some) : s[i] = some[i]
  BY <1>1, FoundGrows
<1> HIDE DEF a, s
<1>4. /\ Garbled(some) <=> Garbled(all)
      /\ Ends(some) = Ends(all) /\ (Turned(some) <=> Turned(all)) /\ Said(some) = Said(all)
      /\ LastMessage(some) = 0 <=> LastMessage(all) = 0
      /\ LastMessage(all) # 0 => SameMessage(some[LastMessage(some)], all[LastMessage(all)])
  BY DEF SaysTheSame
<1>5. Len(all) \in Nat /\ Len(some) \in Nat
  OBVIOUS
<1>6. /\ LastMessage(all) # 0 => a[LastMessage(all)] = all[LastMessage(all)]
      /\ LastMessage(some) # 0 => s[LastMessage(some)] = some[LastMessage(some)]
  BY <1>2, <1>3, <1>5
<1>7. ASSUME Matters(l) PROVE SaysTheSame(s, a)
  <2>1. IsMessage(r) <=> IsMessage(l)
    BY <1>1 DEF IsMessage
  <2>2. CASE IsMessage(l)
    <3>1. /\ LastMessage(s) = Len(some) + 1 /\ LastMessage(a) = Len(all) + 1
          /\ LastMessage(s) # 0 /\ LastMessage(a) # 0
          /\ s[LastMessage(s)] = r /\ a[LastMessage(a)] = l
      BY <1>2, <1>3, <1>5, <2>1, <2>2
    <3> QED BY <1>1, <1>2, <1>3, <1>4, <2>1, <3>1 DEF SaysTheSame
  <2>3. CASE ~IsMessage(l)
    <3>1. LastMessage(s) = LastMessage(some) /\ LastMessage(a) = LastMessage(all)
      BY <1>2, <1>3, <2>1, <2>3
    <3> QED BY <1>1, <1>2, <1>3, <1>4, <1>6, <2>1, <3>1 DEF SaysTheSame
  <2> QED BY <2>2, <2>3
<1>8. ASSUME ~Matters(l) PROVE SaysTheSame(some, a)
  <2>1. l.type = "update"
    BY <1>8 DEF Matters
  <2> QED BY <1>2, <1>4, <1>6, <2>1 DEF SaysTheSame, IsMessage
<1> QED BY <1>7, <1>8 DEF a, s, r

\* What says the same is found to say the same.
LEMMA SameIsCollected ==
  ASSUME NEW some, NEW all, SaysTheSame(some, all)
  PROVE  Collected(some) = Collected(all)
<1>1. /\ Garbled(some) <=> Garbled(all)
      /\ Ends(some) = Ends(all) /\ (Turned(some) <=> Turned(all)) /\ Said(some) = Said(all)
      /\ LastMessage(some) = 0 <=> LastMessage(all) = 0
      /\ LastMessage(all) # 0 => SameMessage(some[LastMessage(some)], all[LastMessage(all)])
  BY DEF SaysTheSame
<1>2. Ended(some) <=> Ended(all)
  BY <1>1 DEF Ended, Turned
<1>3. Model(some) = Model(all)
  <2> DEFINE Named(said) ==
               LET named == said \ {""}
               IN  IF \E a, b \in named : a # b THEN "mixed"
                   ELSE IF "" \in said
                        THEN IF requested # "" \/ named # {} THEN "unavailable" ELSE ""
                   ELSE IF named = {} THEN IF requested # "" THEN "unavailable" ELSE ""
                   ELSE LET m == CHOOSE x \in named : TRUE
                        IN  IF requested \notin {"", m} THEN "mismatch" ELSE m
  <2>1. Model(some) = Named(Said(some)) /\ Model(all) = Named(Said(all))
    BY DEF Model, Said
  <2> HIDE DEF Named
  <2> QED BY <1>1, <2>1
<1>4. Answer(some) = Answer(all)
  <2>1. CASE Garbled(all)
    BY <1>1, <2>1 DEF Answer
  <2>2. CASE ~Garbled(all) /\ ~Ended(all)
    BY <1>1, <1>2, <2>2 DEF Answer
  <2>3. CASE ~Garbled(all) /\ Ended(all) /\ LastMessage(all) = 0
    BY <1>1, <1>2, <2>3 DEF Answer
  <2>4. CASE ~Garbled(all) /\ Ended(all) /\ LastMessage(all) # 0
    <3> DEFINE Of(m, ends) ==
                 IF m.text # "" /\ "error" \notin ends THEN <<"answer", m.text>>
                 ELSE IF m.error # "" THEN <<"refused", Shortened(m.error)>>
                 ELSE <<"refused", "no text">>
    <3>1. Answer(all) = Of(all[LastMessage(all)], Ends(all))
      BY <2>4 DEF Answer
    <3>2. Answer(some) = Of(some[LastMessage(some)], Ends(some))
      BY <1>1, <1>2, <2>4 DEF Answer
    <3>3. SameMessage(some[LastMessage(some)], all[LastMessage(all)]) /\ Ends(some) = Ends(all)
      BY <1>1, <2>4
    <3> DEFINE m == some[LastMessage(some)]
               n == all[LastMessage(all)]
               ends == Ends(all)
    <3>4. m.text = n.text /\ Shortened(m.error) = Shortened(n.error) /\ (m.error = "" <=> n.error = "")
      BY <3>3 DEF SameMessage
    <3> HIDE DEF m, n, ends
    <3>5. Of(m, ends) = Of(n, ends)
      <4>1. CASE n.text # "" /\ "error" \notin ends
        BY <3>4, <4>1
      <4>2. CASE ~(n.text # "" /\ "error" \notin ends) /\ n.error # ""
        <5>1. ~(m.text # "" /\ "error" \notin ends) /\ m.error # "" /\ Shortened(m.error) = Shortened(n.error)
          <6>1. m.error # ""
            BY <3>4, <4>2, Zenon
          <6>2. ~(m.text # "" /\ "error" \notin ends)
            BY <3>4, <4>2, Zenon
          <6> QED BY <3>4, <6>1, <6>2, Zenon
        <5>2. Of(n, ends) = <<"refused", Shortened(n.error)>>
          BY <4>2
        <5>3. Of(m, ends) = <<"refused", Shortened(m.error)>>
          BY <5>1
        <5> HIDE DEF Of
        <5> QED BY <5>1, <5>2, <5>3
      <4>3. CASE ~(n.text # "" /\ "error" \notin ends) /\ n.error = ""
        BY <3>4, <4>3
      <4> QED BY <4>1, <4>2, <4>3
    <3> HIDE DEF Of
    <3> QED BY <3>1, <3>2, <3>3, <3>5 DEF m, n, ends
  <2> QED BY <2>1, <2>2, <2>3, <2>4
<1> QED BY <1>3, <1>4 DEF Collected

\* Reading a line, and the end of the stream.
LEMMA StreamStepStays ==
  ASSUME StreamIInv, StreamNext
  PROVE  StreamIInv'
<1>1. /\ raw \in Nat /\ truncated \in BOOLEAN /\ closed \in BOOLEAN /\ ~(truncated /\ closed)
      /\ kept \in Seq(KeptLines) /\ written \in Seq(Lines) /\ Len(kept) <= Len(written)
      /\ (~truncated => SaysTheSame(kept, written)) /\ RetainedSize(kept) <= SemanticLimit
  BY DEF StreamIInv, CaptureIsBounded
<1>2. CASE ReadLine
  <2>1. PICK line \in Lines :
          /\ written' = Append(written, line)
          /\ raw' = raw + line.size + 1
          /\ truncated' = \/ raw' > TransportLimit \/ line.size > SemanticLimit
                          \/ Matters(line) /\ ~Fits(line)
          /\ kept' = IF truncated' \/ ~Matters(line) THEN kept ELSE Append(kept, Reduced(line))
    BY <1>2 DEF ReadLine
  <2>2. ~truncated /\ ~closed /\ closed' = closed
    BY <1>2 DEF ReadLine
  <2>3. /\ line.size \in Nat /\ Reduced(line) \in KeptLines /\ Reduced(line).size \in Int
    BY StreamConstants, ReducedSaysTheSame
  <2>4. raw' \in Nat /\ truncated' \in BOOLEAN
    <3>1. raw' \in Nat
      BY <1>1, <2>1, <2>3
    <3>2. truncated' \in BOOLEAN
      BY <2>1
    <3> QED BY <3>1, <3>2
  <2>5. written' \in Seq(Lines) /\ Len(written') = Len(written) + 1
    BY <1>1, <2>1
  <2>6. \A l \in KeptLines : l.size \in Int
    BY ReducedSaysTheSame DEF KeptLines
  <2>7. CASE truncated' \/ ~Matters(line)
    <3>1. kept' = kept
      BY <2>1, <2>7
    <3>2. ~truncated' => SaysTheSame(kept', written')
      BY <1>1, <2>1, <2>2, <2>7, <3>1, SameGoesOn
    <3>3. Len(kept') <= Len(written')
      BY <1>1, <2>5, <3>1
    <3>4. CaptureIsBounded'
      BY <1>1, <3>1 DEF CaptureIsBounded
    <3> QED BY <1>1, <2>2, <2>4, <2>5, <3>1, <3>2, <3>3, <3>4 DEF StreamIInv
  <2>8. CASE ~truncated' /\ Matters(line)
    <3>1. kept' = Append(kept, Reduced(line)) /\ Fits(line)
      BY <2>1, <2>8
    <3>2. kept' \in Seq(KeptLines) /\ Len(kept') = Len(kept) + 1
      BY <1>1, <2>3, <3>1
    <3>3. SaysTheSame(kept', written')
      BY <1>1, <2>1, <2>2, <2>8, <3>1, SameGoesOn
    <3>4. RetainedSize(kept') = RetainedSize(kept) + Reduced(line).size + 1
      BY <1>1, <2>3, <2>6, <3>1, SizeGrows
    <3>5. CaptureIsBounded'
      BY <3>1, <3>4 DEF CaptureIsBounded, Fits
    <3>6. Len(kept') <= Len(written')
      BY <1>1, <2>5, <3>2
    <3> QED BY <1>1, <2>2, <2>4, <2>5, <2>8, <3>2, <3>3, <3>5, <3>6 DEF StreamIInv
  <2> QED BY <2>4, <2>7, <2>8
<1>3. CASE StreamEnds
  BY <1>1, <1>3 DEF StreamEnds, StreamIInv, CaptureIsBounded
<1> QED BY <1>2, <1>3 DEF StreamNext

\* When nothing of it moves, it stays.
LEMMA StreamStutters ==
  ASSUME StreamIInv, UNCHANGED streamVars
  PROVE  StreamIInv'
BY DEF StreamIInv, streamVars, CaptureIsBounded

\* It holds before the first line.
LEMMA StreamStart ==
  ASSUME StreamInit
  PROVE  StreamIInv
<1>1. kept = <<>> /\ written = <<>> /\ raw = 0 /\ truncated = FALSE /\ closed = FALSE
  BY DEF StreamInit
<1>2. <<>> \in Seq(KeptLines) /\ <<>> \in Seq(Lines) /\ Len(<<>>) = 0
  OBVIOUS
<1>3. LastMessage(<<>>) = 0 /\ ~Garbled(<<>>) /\ ~Turned(<<>>)
  BY <1>2 DEF LastMessage, SelectLastInSeq, Garbled, Turned
<1>4. SaysTheSame(<<>>, <<>>)
  BY <1>3 DEF SaysTheSame
<1>5. CaptureIsBounded
  BY <1>1, NothingIsSmall, StreamConstants DEF CaptureIsBounded
<1>6. raw \in Nat /\ truncated \in BOOLEAN /\ closed \in BOOLEAN /\ ~(truncated /\ closed)
  BY <1>1
<1>7. kept \in Seq(KeptLines) /\ written \in Seq(Lines) /\ Len(kept) <= Len(written)
  BY <1>1, <1>2
<1>8. SaysTheSame(kept, written)
  BY <1>1, <1>4
<1> QED BY <1>5, <1>6, <1>7, <1>8 DEF StreamIInv

\* What the invariant holds is what the stream promises.
LEMMA StreamPromise ==
  ASSUME StreamIInv
  PROVE  StreamInv
<1>1. NothingIsLostInCapture
  BY SameIsCollected DEF StreamIInv, NothingIsLostInCapture
<1> QED BY <1>1 DEF StreamIInv, StreamInv

-----------------------------------------------------------------------------
(* The patch of a worktree.                                                     *)

IndexTexts == Texts \cup {"intent", "smudged"}
Index == [entries : [WorkFiles -> [text : IndexTexts, time : Nat]], time : Nat]
Steps == {"work", "index", "root", "copy", "stamp", "list", "add", "diff", "branch", "stash", "over"}
SealRecord ==
    [step : Steps, verdict : {"candidate", "failed"}, listed : SUBSET WorkFiles,
     patch : [WorkFiles -> IndexTexts \cup {"unread", "cut"}], note : {"none", "left", "unknown"}]
Git == [at : {"none", "runs", "closed", "ended"}, cut : BOOLEAN, ok : BOOLEAN]

TreeTyped == tree \in [WorkFiles -> [text : Texts, time : Nat]]
PatchTyped ==
    /\ TreeTyped
    /\ workIndex \in Index /\ copy \in Index /\ clock \in 0..MaxNow
    /\ stash \in [branch : Nat, detached : Nat] /\ begun \in Nat
    /\ seal \in SealRecord
    /\ git \in Git /\ (git.at = "none" \/ seal.step \notin GitCommands => git = NoGit)
    /\ git.at = "ended" => ~git.cut
    /\ late \in BOOLEAN /\ raced \in BOOLEAN
    /\ had \in [WorkFiles -> SUBSET Texts]

\* What an index is trusted for is so.
Sound(index) ==
    /\ index.time <= clock
    /\ \A f \in WorkFiles : Trusted(index, f) => index.entries[f].text = tree[f].text
CopyIsSound ==
    ~raced =>
        /\ seal.step = "stamp" => copy.entries = workIndex.entries
        /\ seal.step \in {"list", "add", "diff"} => Sound(copy)

Claimed == WorkFiles \ (IgnoredFiles \cup AskedFiles)
Wrote == git.at \in {"closed", "ended"} /\ git.ok /\ ~git.cut

\* What the patch has to show is in the index, was found new, or was not there.
NewIsListed == \A f \in Claimed \ (Tracked(copy) \cup seal.listed) : "none" \in had[f]
NewIsEntered ==
    /\ (seal.step = "list" /\ Wrote) \/ seal.step \in {"add", "diff"} => NewIsListed
    /\ (seal.step = "add" /\ Wrote) \/ seal.step = "diff" => seal.listed \subseteq Tracked(copy)

Shows == ~raced => \A f \in Claimed : seal.patch[f] \in had[f]
Before == {"work", "index", "root", "copy", "stamp", "list", "add"}
Behind == {"branch", "stash", "over"}
PatchIsRead ==
    /\ seal.step \in Before => seal.patch = Unread
    /\ seal.step = "diff" /\ Wrote => seal.patch # Unread /\ Shows
    /\ seal.step \in Behind => (seal.patch # Unread => Shows)
    /\ seal.step \in Behind /\ seal.verdict = "candidate" => seal.patch # Unread

StashIsRead ==
    /\ seal.step # "work" => begun <= stash.branch
    /\ seal.note = "left" => stash.branch > 0
    /\ seal.step = "over" \/ (seal.step = "stash" /\ Wrote) => (begun > 0 => seal.note # "none")

PatchIInv ==
    /\ PatchTyped /\ Sound(workIndex) /\ CopyIsSound /\ NewIsEntered
    /\ Sealing => \A f \in WorkFiles : tree[f].text \in had[f]
    /\ PatchIsRead /\ StashIsRead
-----------------------------------------------------------------------------
\* Only a file that is there has a size.
LEMMA SizesDiffer ==
  /\ \A t \in Texts : t # "none" => SizeOf(t) # 0
  /\ SizeOf("none") = 0 /\ SizeOf("intent") = 0 /\ SizeOf("smudged") = 0
BY DEF Texts, SizeOf

\* An entry without a file's text is the stat of no file.
LEMMA NoFileIsMatched ==
  ASSUME NEW file \in [text : Texts, time : Nat], NEW entry,
         entry.text \in {"none", "intent", "smudged"}
  PROVE  ~SameStat(entry, file)
<1>1. SizeOf(entry.text) = 0
  BY SizesDiffer
<1>2. file.text \in Texts
  OBVIOUS
<1>3. file.text # "none" => SizeOf(file.text) # 0
  BY <1>2, SizesDiffer
<1> QED BY <1>1, <1>3 DEF SameStat

\* An entry that looks unchanged in an index written anew is of an unchanged file.
LEMMA RewritingTells ==
  ASSUME NEW index \in Index, Sound(index), TreeTyped, clock \in Nat
  PROVE  LET r == Rewritten(index)
         IN  /\ r \in Index /\ r.time = clock /\ Tracked(index) \subseteq Tracked(r)
             /\ \A f \in WorkFiles : SameStat(r.entries[f], tree[f]) => r.entries[f].text = tree[f].text
<1> DEFINE r == Rewritten(index)
           anew(f) == LET entry == index.entries[f] IN
                      IF /\ SameStat(entry, tree[f]) /\ entry.time >= index.time
                         /\ entry.text # tree[f].text
                      THEN Smudged(entry) ELSE entry
<1>1. r.entries = [f \in WorkFiles |-> anew(f)] /\ r.time = clock /\ r = [entries |-> r.entries, time |-> r.time]
  BY DEF Rewritten
<1>2. index.time \in Nat /\ index.entries \in [WorkFiles -> [text : IndexTexts, time : Nat]]
  BY DEF Index
<1>3. \A f \in WorkFiles : index.entries[f] \in [text : IndexTexts, time : Nat]
  BY <1>2
<1>4. \A f \in WorkFiles : /\ Smudged(index.entries[f]) \in [text : IndexTexts, time : Nat]
                          /\ Smudged(index.entries[f]).text = "smudged"
  BY <1>3 DEF Smudged, IndexTexts
<1>5. \A f \in WorkFiles : anew(f) = index.entries[f] \/ anew(f) = Smudged(index.entries[f])
  OBVIOUS
<1>6. \A f \in WorkFiles : anew(f) \in [text : IndexTexts, time : Nat]
  <2> HIDE DEF anew
  <2> QED BY <1>3, <1>4, <1>5
<1>7. \A f \in WorkFiles : r.entries[f] = anew(f)
  BY <1>1
<1>8. r \in Index
  BY <1>1, <1>6 DEF Index
<1>9. Tracked(index) \subseteq Tracked(r)
  <2> SUFFICES ASSUME NEW f \in WorkFiles, index.entries[f] # NotInIndex PROVE r.entries[f] # NotInIndex
    BY DEF Tracked
  <2>1. r.entries[f] = index.entries[f] \/ r.entries[f].text = "smudged"
    <3> HIDE DEF anew, r
    <3> QED BY <1>4, <1>5, <1>7
  <2>2. NotInIndex.text = "none"
    BY DEF NotInIndex, Noted
  <2> QED BY <2>1, <2>2
<1>10. ASSUME NEW f \in WorkFiles, SameStat(r.entries[f], tree[f]) PROVE r.entries[f].text = tree[f].text
  <2>1. tree[f] \in [text : Texts, time : Nat]
    BY DEF TreeTyped
  <2>2. r.entries[f] = index.entries[f]
    <3> SUFFICES ASSUME r.entries[f] # index.entries[f] PROVE FALSE
      OBVIOUS
    <3>1. r.entries[f].text = "smudged"
      <4> HIDE DEF anew, r
      <4> QED BY <1>4, <1>5, <1>7
    <3> QED BY <1>10, <2>1, <3>1, NoFileIsMatched
  <2>3. SameStat(index.entries[f], tree[f])
    BY <1>10, <2>2
  <2>4. CASE index.entries[f].time >= index.time
    <3>1. anew(f) = index.entries[f]
      BY <1>7, <2>2
    <3> SUFFICES ASSUME index.entries[f].text # tree[f].text PROVE FALSE
      BY <2>2
    <3>2. anew(f) = Smudged(index.entries[f])
      BY <2>3, <2>4
    <3>3. index.entries[f].text = "smudged"
      <4> HIDE DEF anew
      <4> QED BY <1>4, <3>1, <3>2
    <3> QED BY <2>1, <2>3, <3>3, NoFileIsMatched
  <2>5. CASE ~(index.entries[f].time >= index.time)
    <3>1. index.entries[f].time < index.time
      BY <1>2, <1>3, <2>5
    <3> QED BY <2>2, <2>3, <3>1 DEF Sound, Trusted
  <2> QED BY <2>4, <2>5
<1> QED BY <1>1, <1>8, <1>9, <1>10

\* What a step of the worker or of time needs to leave as it is.
LEMMA WorkGoesOn ==
  ASSUME PatchIInv, seal' = seal, git' = git, copy' = copy, begun' = begun, PatchTyped', Sound(workIndex)',
         raced => raced', ~raced' /\ seal.step = "stamp" => workIndex'.entries = workIndex.entries,
         Sound(copy) => Sound(copy)',
         \A f \in WorkFiles : had[f] \subseteq had'[f],
         Sealing => \A f \in WorkFiles : tree'[f].text \in had'[f],
         stash'.branch >= stash.branch
  PROVE  PatchIInv'
<1>1. CopyIsSound'
  BY DEF PatchIInv, CopyIsSound
<1>2. NewIsEntered'
  BY DEF PatchIInv, NewIsEntered, NewIsListed, Wrote, Tracked, Claimed
<1>3. PatchIsRead'
  BY DEF PatchIInv, PatchIsRead, Shows, Wrote, Claimed
<1>4. StashIsRead'
  <2>1. stash.branch \in Nat /\ stash'.branch \in Nat /\ begun \in Nat
    BY DEF PatchIInv, PatchTyped
  <2>2. seal.step # "work" => begun <= stash'.branch
    BY <2>1 DEF PatchIInv, StashIsRead
  <2>3. seal.note = "left" => stash'.branch > 0
    BY <2>1 DEF PatchIInv, StashIsRead
  <2> QED BY <2>2, <2>3 DEF PatchIInv, StashIsRead, Wrote
<1> QED BY <1>1, <1>2, <1>3, <1>4 DEF PatchIInv, Sealing

\* A file that is written now is newer than what any index is trusted for.
LEMMA NewIsNotTrusted ==
  ASSUME NEW index \in Index, Sound(index), clock' = clock, clock \in Nat,
         \A f \in WorkFiles : tree'[f] = tree[f] \/ tree'[f].time = clock \/ tree'[f].text = "none"
  PROVE  index.time <= clock /\ \A f \in WorkFiles :
           SameStat(index.entries[f], tree'[f]) /\ index.entries[f].time < index.time => index.entries[f].text = tree'[f].text
<1>1. index.time <= clock /\ index.time \in Nat /\ \A f \in WorkFiles : index.entries[f].time \in Nat
  BY DEF Sound, Index
<1>2. ASSUME NEW f \in WorkFiles, SameStat(index.entries[f], tree'[f]), index.entries[f].time < index.time
      PROVE  index.entries[f].text = tree'[f].text
  <2>1. tree'[f].text # "none" /\ index.entries[f].time = tree'[f].time
    BY <1>2 DEF SameStat
  <2>2. tree'[f] = tree[f]
    <3> SUFFICES ASSUME tree'[f].time = clock PROVE FALSE
      BY <2>1
    <3>1. index.entries[f].time = clock
      BY <2>1
    <3> QED BY <1>1, <1>2, <3>1
  <2>3. Trusted(index, f)
    BY <1>2, <2>2 DEF Trusted
  <2> QED BY <2>2, <2>3 DEF Sound
<1> QED BY <1>1, <1>2

\* The same of an index whose entries that look unchanged are of unchanged files.
LEMMA AllTold ==
  ASSUME NEW index \in Index, index.time <= clock,
         \A f \in WorkFiles : SameStat(index.entries[f], tree[f]) => index.entries[f].text = tree[f].text
  PROVE  Sound(index)
BY DEF Sound, Trusted

\* The worker edits a file.
LEMMA EditKeepsPatch ==
  ASSUME PatchIInv, NEW f \in WorkFiles, Edit(f)
  PROVE  PatchIInv'
<1>1. /\ UNCHANGED <<workIndex, clock, stash, copy, seal, git, late, begun, raced>>
      /\ PatchTyped /\ clock \in Nat
  BY DEF PatchIInv, Edit, PatchTyped
<1>2. PICK text \in Texts : tree' = [tree EXCEPT ![f] = Noted(text, clock)]
                            /\ had' = IF Sealing THEN [g \in WorkFiles |-> had[g] \cup {tree'[g].text}] ELSE had
  BY DEF Edit, Changed
<1>3. Noted(text, clock) \in [text : Texts, time : Nat] /\ Noted(text, clock).time = clock
  BY <1>1 DEF Noted
<1>4. tree' \in [WorkFiles -> [text : Texts, time : Nat]]
  BY <1>1, <1>2, <1>3 DEF PatchTyped, TreeTyped
<1>5. \A g \in WorkFiles : tree'[g] = tree[g] \/ tree'[g].time = clock \/ tree'[g].text = "none"
  BY <1>1, <1>2, <1>3 DEF PatchTyped, TreeTyped
<1>6. Sound(workIndex)' /\ (Sound(copy) => Sound(copy)')
  BY <1>1, <1>5, NewIsNotTrusted DEF PatchIInv, PatchTyped, Sound, Trusted
<1>7. /\ had' \in [WorkFiles -> SUBSET Texts] /\ \A g \in WorkFiles : had[g] \subseteq had'[g]
      /\ Sealing => \A g \in WorkFiles : tree'[g].text \in had'[g]
  <2>1. \A g \in WorkFiles : tree'[g].text \in Texts
    BY <1>4
  <2>2. had \in [WorkFiles -> SUBSET Texts]
    BY <1>1 DEF PatchTyped
  <2>3. CASE Sealing
    BY <1>2, <2>1, <2>2, <2>3
  <2>4. CASE ~Sealing
    BY <1>2, <2>2, <2>4
  <2> QED BY <2>3, <2>4
<1>8. PatchTyped'
  BY <1>1, <1>4, <1>7 DEF PatchTyped, TreeTyped
<1>9. stash'.branch >= stash.branch
  BY <1>1 DEF PatchTyped
<1> QED BY <1>1, <1>6, <1>7, <1>8, <1>9, WorkGoesOn

\* The worker stages a file, or takes it out of its index.
LEMMA StageKeepsPatch ==
  ASSUME PatchIInv, NEW f \in WorkFiles, Stage(f)
  PROVE  PatchIInv'
<1>1. /\ UNCHANGED <<tree, clock, stash, copy, seal, git, late, had, begun>>
      /\ PatchTyped /\ clock \in Nat /\ Sound(workIndex) /\ raced' = (raced \/ seal.step = "stamp")
  BY DEF PatchIInv, Stage, PatchTyped, Indexed
<1> DEFINE r == Rewritten(workIndex)
<1>2. PICK entry \in {IF Present(f) THEN tree[f] ELSE NotInIndex, NotInIndex} :
             workIndex' = [r EXCEPT !.entries[f] = entry]
  BY DEF Stage, Indexed
<1>3. /\ r \in Index /\ r.time = clock
      /\ \A g \in WorkFiles : SameStat(r.entries[g], tree[g]) => r.entries[g].text = tree[g].text
  BY <1>1, RewritingTells DEF PatchTyped
<1> HIDE DEF r
<1>4. entry \in [text : IndexTexts, time : Nat] /\ (entry = tree[f] \/ entry.text = "none")
  BY <1>1 DEF PatchTyped, TreeTyped, IndexTexts, NotInIndex, Noted, Texts
<1>5. /\ workIndex' \in Index /\ workIndex'.time = clock
      /\ \A g \in WorkFiles : workIndex'.entries[g] = IF g = f THEN entry ELSE r.entries[g]
  BY <1>2, <1>3, <1>4 DEF Index
<1>6. \A g \in WorkFiles : tree[g] \in [text : Texts, time : Nat]
  BY <1>1 DEF PatchTyped, TreeTyped
<1>7. ASSUME NEW g \in WorkFiles, SameStat(workIndex'.entries[g], tree[g])
      PROVE  workIndex'.entries[g].text = tree[g].text
  <2>1. CASE g = f
    BY <1>4, <1>5, <1>6, <1>7, <2>1, NoFileIsMatched
  <2>2. CASE g # f
    BY <1>3, <1>5, <1>7, <2>2
  <2> QED BY <2>1, <2>2
<1>8. Sound(workIndex)'
  BY <1>1, <1>5, <1>7 DEF Sound, Trusted
<1>9. Sound(copy) => Sound(copy)'
  BY <1>1 DEF Sound, Trusted
<1>10. PatchTyped'
  BY <1>1, <1>5 DEF PatchTyped, TreeTyped
<1>11. stash'.branch >= stash.branch
  BY <1>1 DEF PatchTyped
<1>12. Sealing => \A g \in WorkFiles : tree'[g].text \in had'[g]
  BY <1>1 DEF PatchIInv
<1> QED BY <1>1, <1>8, <1>9, <1>10, <1>11, <1>12, WorkGoesOn

\* The worker stashes what it has changed.
LEMMA StashKeepsPatch ==
  ASSUME PatchIInv, Stash
  PROVE  PatchIInv'
<1> DEFINE clean == [f \in WorkFiles |->
            IF f \in Tracked(workIndex) \cup BaseFiles
            THEN IF f \in BaseFiles THEN Noted("base", clock) ELSE NotInIndex ELSE tree[f]]
           entries == [f \in WorkFiles |-> IF f \in BaseFiles THEN clean[f] ELSE NotInIndex]
<1>1. /\ UNCHANGED <<clock, copy, seal, git, late, begun>>
      /\ PatchTyped /\ clock \in Nat /\ raced' = (raced \/ seal.step = "stamp")
      /\ tree' = clean
      /\ had' = IF Sealing THEN [g \in WorkFiles |-> had[g] \cup {clean[g].text}] ELSE had
      /\ workIndex' = [entries |-> entries, time |-> clock]
  BY DEF PatchIInv, Stash, PatchTyped, Indexed, Changed
<1>2. Noted("base", clock) \in [text : Texts, time : Nat] /\ Noted("base", clock).time = clock
  BY <1>1 DEF Noted, Texts
<1>3. NotInIndex \in [text : Texts, time : Nat] /\ NotInIndex.text = "none"
  BY DEF NotInIndex, Noted, Texts
<1>4. /\ clean \in [WorkFiles -> [text : Texts, time : Nat]]
      /\ \A f \in WorkFiles : clean[f] = tree[f] \/ clean[f].time = clock \/ clean[f].text = "none"
  BY <1>1, <1>2, <1>3 DEF PatchTyped, TreeTyped
<1>5. /\ entries \in [WorkFiles -> [text : Texts, time : Nat]]
      /\ \A f \in WorkFiles : entries[f] = clean[f] \/ entries[f].text = "none"
  BY <1>3, <1>4
<1> HIDE DEF clean, entries
<1>6. workIndex' \in Index /\ workIndex'.time = clock /\ workIndex'.entries = entries
  <2>1. entries \in [WorkFiles -> [text : IndexTexts, time : Nat]]
    BY <1>5 DEF IndexTexts
  <2> QED BY <1>1, <2>1 DEF Index
<1>7. ASSUME NEW f \in WorkFiles, SameStat(entries[f], clean[f]) PROVE entries[f].text = clean[f].text
  BY <1>4, <1>5, <1>7, NoFileIsMatched
<1>8. Sound(workIndex)'
  BY <1>1, <1>6, <1>7 DEF Sound, Trusted
<1>9. Sound(copy) => Sound(copy)'
  BY <1>1, <1>4, NewIsNotTrusted DEF PatchTyped, Sound, Trusted
<1>10. /\ had' \in [WorkFiles -> SUBSET Texts] /\ \A g \in WorkFiles : had[g] \subseteq had'[g]
       /\ Sealing => \A g \in WorkFiles : tree'[g].text \in had'[g]
  <2>1. \A g \in WorkFiles : clean[g].text \in Texts
    BY <1>4
  <2>2. had \in [WorkFiles -> SUBSET Texts]
    BY <1>1 DEF PatchTyped
  <2>3. CASE Sealing
    BY <1>1, <2>1, <2>2, <2>3
  <2>4. CASE ~Sealing
    BY <1>1, <2>2, <2>4
  <2> QED BY <2>3, <2>4
<1>11. stash' \in [branch : Nat, detached : Nat] /\ stash'.branch >= stash.branch
  <2>1. PICK where \in {"branch", "detached"} : stash' = [stash EXCEPT ![where] = @ + 1]
    BY DEF Stash
  <2>2. stash \in [branch : Nat, detached : Nat]
    BY <1>1 DEF PatchTyped
  <2>3. CASE where = "branch"
    BY <2>1, <2>2, <2>3
  <2>4. CASE where = "detached"
    BY <2>1, <2>2, <2>4
  <2> QED BY <2>3, <2>4
<1>12. raced' \in BOOLEAN
  BY <1>1 DEF PatchTyped
<1>13. PatchTyped'
  BY <1>1, <1>4, <1>6, <1>10, <1>11, <1>12 DEF PatchTyped, TreeTyped
<1> QED BY <1>1, <1>8, <1>9, <1>10, <1>11, <1>13, WorkGoesOn

\* Time passes.
LEMMA TickKeepsPatch ==
  ASSUME PatchIInv, Tick
  PROVE  PatchIInv'
<1>1. /\ UNCHANGED <<tree, workIndex, stash, copy, seal, git, late, work, had, begun, raced>>
      /\ PatchTyped /\ clock < MaxNow /\ clock' = clock + 1 /\ clock \in 0..MaxNow /\ MaxNow \in Nat
  BY PatchConstants DEF PatchIInv, Tick, PatchTyped
<1>2. clock' \in 0..MaxNow
  BY ONLY <1>1
<1>3. PatchTyped'
  BY <1>1, <1>2 DEF PatchTyped, TreeTyped
<1>4. ASSUME NEW index \in Index, Sound(index) PROVE index.time <= clock'
  <2>1. index.time \in Nat /\ index.time <= clock
    BY <1>4 DEF Sound, Index
  <2> QED BY <1>1, <2>1
<1>5. Sound(workIndex)' /\ (Sound(copy) => Sound(copy)')
  BY <1>1, <1>4 DEF PatchIInv, PatchTyped, Sound, Trusted
<1>6. stash'.branch >= stash.branch
  BY <1>1 DEF PatchTyped
<1>7. Sealing => \A g \in WorkFiles : tree'[g].text \in had'[g]
  BY <1>1 DEF PatchIInv
<1> QED BY <1>1, <1>3, <1>5, <1>6, <1>7, WorkGoesOn
\* The sealing moves on by itself: the worktree stays for the moment.
LEMMA SealingGoesOn ==
  ASSUME PatchIInv, UNCHANGED leftoverVars, seal.step \notin {"work", "over"},
         copy' \in Index, seal' \in SealRecord, seal'.step # "work",
         git' \in Git, git'.at = "none" \/ seal'.step \notin GitCommands => git' = NoGit,
         git'.at = "ended" => ~git'.cut, late' \in BOOLEAN,
         CopyIsSound', NewIsEntered', PatchIsRead', StashIsRead'
  PROVE  PatchIInv'
<1>1. UNCHANGED <<tree, workIndex, clock, stash, had, begun, raced>> /\ PatchTyped
  BY DEF leftoverVars, PatchIInv
<1>2. PatchTyped'
  BY <1>1 DEF PatchTyped, TreeTyped
<1>3. Sound(workIndex)'
  BY <1>1 DEF PatchIInv, Sound, Trusted
<1>4. \A f \in WorkFiles : tree'[f].text \in had'[f]
  BY <1>1 DEF PatchIInv, Sealing
<1> QED BY <1>2, <1>3, <1>4 DEF PatchIInv

\* What is unread is told from what was read.
LEMMA UnreadIsNoPatch ==
  /\ Unread \in [WorkFiles -> IndexTexts \cup {"unread", "cut"}]
  /\ \A p \in [WorkFiles -> IndexTexts] : p # Unread
<1>1. Unread \in [WorkFiles -> IndexTexts \cup {"unread", "cut"}]
  BY DEF Unread
<1>2. ASSUME NEW p \in [WorkFiles -> IndexTexts], p = Unread PROVE FALSE
  <2>1. PICK f \in WorkFiles : TRUE
    BY PatchConstants
  <2>2. p[f] = "unread" /\ p[f] \in IndexTexts
    BY <1>2 DEF Unread
  <2> QED BY <2>2 DEF IndexTexts, Texts
<1> QED BY <1>1, <1>2

\* A git command fails.
LEMMA FailingKeepsPatch ==
  ASSUME PatchIInv, UNCHANGED leftoverVars, copy' = copy, seal.step \in GitCommands, Fails
  PROVE  PatchIInv'
<1>1. /\ PatchTyped /\ seal \in SealRecord /\ late \in BOOLEAN /\ copy \in Index
      /\ git' = NoGit /\ late' = (late /\ ~Retried)
  BY DEF PatchIInv, PatchTyped, Fails
<1>2. /\ seal.step \in Steps /\ seal.verdict \in {"candidate", "failed"} /\ seal.listed \in SUBSET WorkFiles
      /\ seal.note \in {"none", "left", "unknown"}
      /\ seal.patch \in [WorkFiles -> IndexTexts \cup {"unread", "cut"}]
      /\ seal = [step |-> seal.step, verdict |-> seal.verdict, listed |-> seal.listed,
                 patch |-> seal.patch, note |-> seal.note]
  BY <1>1 DEF SealRecord
<1>3. UNCHANGED <<tree, workIndex, clock, stash, had, begun, raced>>
  BY DEF leftoverVars
<1>4. git' \in Git /\ git'.at = "none" /\ ~git'.cut
  BY <1>1 DEF Git, NoGit
<1>5. CASE Noting
  <2>1. seal' = [step |-> "over", verdict |-> seal.verdict, listed |-> seal.listed,
                 patch |-> seal.patch, note |-> "unknown"] /\ seal.step \in {"branch", "stash"}
    BY <1>2, <1>5 DEF Fails, NotChecked, Noting
  <2>2. seal' \in SealRecord
    BY <1>2, <2>1 DEF SealRecord, Steps
  <2>3. CopyIsSound' /\ NewIsEntered'
    BY <2>1 DEF CopyIsSound, NewIsEntered
  <2>4. PatchIsRead'
    <3>1. seal.patch # Unread => Shows
      BY <2>1 DEF PatchIInv, PatchIsRead, Behind
    <3>2. seal.verdict = "candidate" => seal.patch # Unread
      BY <2>1 DEF PatchIInv, PatchIsRead, Behind
    <3>3. Shows => Shows'
      BY <1>3, <2>1 DEF Shows
    <3> QED BY <2>1, <3>1, <3>2, <3>3 DEF PatchIsRead, Before, Behind
  <2>5. StashIsRead'
    <3>1. begun <= stash.branch
      BY <2>1 DEF PatchIInv, StashIsRead
    <3> QED BY <1>3, <2>1, <3>1 DEF StashIsRead
  <2>6. seal'.step \notin GitCommands /\ seal'.step # "work"
    BY <2>1 DEF GitCommands
  <2> QED BY <1>1, <1>4, <2>1, <2>2, <2>3, <2>4, <2>5, <2>6, SealingGoesOn
<1>6. CASE ~Noting
  <2> DEFINE on == IF Retried THEN "index" ELSE "branch"
  <2>1. /\ seal' = [step |-> on, verdict |-> "failed", listed |-> seal.listed,
                    patch |-> Unread, note |-> seal.note]
        /\ on \in {"index", "branch"}
    BY <1>2, <1>6 DEF Fails
  <2> HIDE DEF on
  <2>2. seal' \in SealRecord
    BY <1>2, <2>1, UnreadIsNoPatch DEF SealRecord, Steps
  <2>3. CopyIsSound' /\ NewIsEntered'
    BY <2>1 DEF CopyIsSound, NewIsEntered
  <2>4. PatchIsRead'
    BY <2>1 DEF PatchIsRead, Before, Behind
  <2>5. StashIsRead'
    <3>1. begun <= stash.branch /\ (seal.note = "left" => stash.branch > 0)
      BY DEF PatchIInv, StashIsRead, GitCommands
    <3> QED BY <1>3, <1>4, <2>1, <3>1 DEF StashIsRead, Wrote
  <2>6. seal'.step # "work" /\ seal.step \notin {"work", "over"}
    BY <2>1 DEF GitCommands
  <2>7. late' \in BOOLEAN
    BY <1>1
  <2> QED BY <1>1, <1>4, <2>2, <2>3, <2>4, <2>5, <2>6, <2>7, SealingGoesOn
<1> QED BY <1>5, <1>6

\* A git command begins, and one that has written ends.
LEMMA GitMovesKeepPatch ==
  ASSUME PatchIInv, UNCHANGED leftoverVars, copy' = copy, seal' = seal, late' \in BOOLEAN,
         Wrote' <=> Wrote, seal.step \in GitCommands \/ (git' = NoGit /\ seal.step \notin {"work", "over"}),
         git' \in Git, git'.at = "none" => git' = NoGit, git'.at = "ended" => ~git'.cut
  PROVE  PatchIInv'
<1>1. UNCHANGED <<tree, workIndex, clock, stash, had, begun, raced>> /\ PatchTyped
  BY DEF leftoverVars, PatchIInv
<1>2. seal.step \notin {"work", "over"}
  BY DEF GitCommands
<1>3. CopyIsSound'
  BY <1>1 DEF PatchIInv, CopyIsSound, Sound, Trusted
<1>4. NewIsEntered'
  BY <1>1 DEF PatchIInv, NewIsEntered, NewIsListed, Tracked
<1>5. PatchIsRead'
  BY <1>1 DEF PatchIInv, PatchIsRead, Shows
<1>6. StashIsRead'
  BY <1>1 DEF PatchIInv, StashIsRead
<1> QED BY <1>1, <1>2, <1>3, <1>4, <1>5, <1>6, SealingGoesOn DEF PatchTyped

\* git is started, or the deadline has passed and it is not.
LEMMA SpawnKeepsPatch ==
  ASSUME PatchIInv, SpawnGit
  PROVE  PatchIInv'
<1>1. seal.step \in GitCommands /\ git = NoGit /\ UNCHANGED leftoverVars /\ copy' = copy /\ late \in BOOLEAN
  BY DEF SpawnGit, PatchIInv, PatchTyped
<1>2. CASE late
  BY <1>1, <1>2, FailingKeepsPatch DEF SpawnGit
<1>3. CASE ~late
  <2>1. git' = [at |-> "runs", cut |-> FALSE, ok |-> TRUE] /\ seal' = seal /\ late' = late
    BY <1>3 DEF SpawnGit, NoGit
  <2>2. git' \in Git /\ ~Wrote /\ ~Wrote' /\ git'.at = "runs"
    BY <1>1, <2>1 DEF Git, Wrote, NoGit
  <2> QED BY <1>1, <2>1, <2>2, GitMovesKeepPatch
<1> QED BY <1>2, <1>3

\* git ends after its output.
LEMMA ExitKeepsPatch ==
  ASSUME PatchIInv, GitExits
  PROVE  PatchIInv'
<1>1. /\ git \in Git /\ git.at = "closed" /\ ~git.cut /\ git' = [git EXCEPT !.at = "ended"]
      /\ UNCHANGED leftoverVars /\ copy' = copy /\ seal' = seal /\ late' \in BOOLEAN
  BY DEF GitExits, PatchIInv, PatchTyped
<1>2. git' = [at |-> "ended", cut |-> git.cut, ok |-> git.ok] /\ git' \in Git
  BY <1>1 DEF Git
<1>3. seal.step \in GitCommands
  BY <1>1 DEF PatchIInv, PatchTyped, NoGit
<1>4. Wrote' <=> Wrote
  BY <1>1, <1>2 DEF Wrote
<1> QED BY <1>1, <1>2, <1>3, <1>4, GitMovesKeepPatch

\* The deadline passes under a running git.
LEMMA DeadlineKeepsPatch ==
  ASSUME PatchIInv, DeadlinePasses
  PROVE  PatchIInv'
<1>1. /\ git' = git /\ git \in Git /\ UNCHANGED leftoverVars /\ copy' = copy /\ seal' = seal /\ late' = TRUE
      /\ seal.step \notin {"work", "over"}
      /\ (git.at = "none" \/ seal.step \notin GitCommands => git = NoGit) /\ (git.at = "ended" => ~git.cut)
  BY DEF DeadlinePasses, Sealing, PatchIInv, PatchTyped
<1>2. Wrote' <=> Wrote
  BY <1>1 DEF Wrote
<1>3. late' \in BOOLEAN
  BY <1>1
<1> QED BY <1>1, <1>2, <1>3, GitMovesKeepPatch

\* What a trusted entry, the file itself or its absence shows is what the file had.
LEMMA ShownIsHad ==
  ASSUME PatchIInv, seal.step = "diff"
  PROVE  /\ \A f \in WorkFiles : Shown(copy, f) \in IndexTexts
         /\ ~raced => \A f \in Claimed : Shown(copy, f) \in had[f]
<1>1. /\ copy \in Index /\ TreeTyped /\ (~raced => Sound(copy)) /\ \A f \in WorkFiles : tree[f].text \in had[f]
  BY DEF PatchIInv, PatchTyped, CopyIsSound, Sealing
<1>2. \A f \in Claimed \ (Tracked(copy) \cup seal.listed) : "none" \in had[f]
  BY DEF PatchIInv, NewIsEntered, NewIsListed
<1>3. seal.listed \subseteq Tracked(copy)
  BY DEF PatchIInv, NewIsEntered
<1>4. ASSUME NEW f \in WorkFiles PROVE Shown(copy, f) \in IndexTexts
  <2>1. copy.entries[f].text \in IndexTexts
    BY <1>1 DEF Index
  <2>2. tree[f].text \in IndexTexts /\ "none" \in IndexTexts
    BY <1>1 DEF TreeTyped, IndexTexts, Texts
  <2> QED BY <2>1, <2>2 DEF Shown
<1>5. ASSUME ~raced, NEW f \in Claimed PROVE Shown(copy, f) \in had[f]
  <2>1. f \in WorkFiles
    BY DEF Claimed
  <2>2. CASE f \notin Tracked(copy)
    BY <1>2, <1>3, <2>2 DEF Shown
  <2>3. CASE f \in Tracked(copy) /\ Trusted(copy, f)
    BY <1>1, <1>5, <2>1, <2>3 DEF Shown, Sound
  <2>4. CASE f \in Tracked(copy) /\ ~Trusted(copy, f)
    BY <1>1, <2>1, <2>4 DEF Shown
  <2> QED BY <2>2, <2>3, <2>4
<1> QED BY <1>4, <1>5

\* An index written anew has the entries it had.
LEMMA RewritingStays ==
  ASSUME NEW index \in Index, clock \in Nat
  PROVE  Rewritten(index) \in Index /\ Tracked(index) \subseteq Tracked(Rewritten(index))
<1> DEFINE r == Rewritten(index)
<1>1. /\ r = [entries |-> r.entries, time |-> clock]
      /\ r.entries \in [WorkFiles -> UNION {{index.entries[f], Smudged(index.entries[f])} : f \in WorkFiles}]
      /\ \A f \in WorkFiles : r.entries[f] \in {index.entries[f], Smudged(index.entries[f])}
  BY DEF Rewritten
<1>2. \A f \in WorkFiles : /\ index.entries[f] \in [text : IndexTexts, time : Nat]
                          /\ Smudged(index.entries[f]) \in [text : IndexTexts, time : Nat]
                          /\ Smudged(index.entries[f]).text = "smudged"
  BY DEF Index, Smudged, IndexTexts
<1> HIDE DEF r
<1>3. r.entries \in [WorkFiles -> [text : IndexTexts, time : Nat]]
  BY <1>1, <1>2
<1>4. r \in Index
  BY <1>1, <1>3 DEF Index
<1>5. NotInIndex.text = "none"
  BY DEF NotInIndex, Noted
<1>6. \A f \in WorkFiles : index.entries[f] # NotInIndex => r.entries[f] # NotInIndex
  BY <1>1, <1>2, <1>5
<1> QED BY <1>4, <1>6 DEF Tracked, r

\* What is to be added is an entry, and no other one.
LEMMA IntentIsAnEntry ==
  IntentToAdd \in [text : IndexTexts, time : Nat] /\ IntentToAdd # NotInIndex
<1>1. IntentToAdd.text = "intent" /\ NotInIndex.text = "none"
  BY DEF IntentToAdd, NotInIndex, Noted
<1>2. IntentToAdd \in [text : IndexTexts, time : Nat]
  BY DEF IntentToAdd, Noted, IndexTexts
<1> QED BY <1>1, <1>2

\* A git command writes what it found.
LEMMA WritingKeepsPatch ==
  ASSUME PatchIInv, GitWrites
  PROVE  PatchIInv'
<1>1. PICK cut \in BOOLEAN, ok \in BOOLEAN :
          /\ ~Long => ~cut
          /\ git' = [at |-> "closed", cut |-> cut, ok |-> ok]
          /\ seal' = Output(ok /\ ~cut)
          /\ copy' = IF seal.step = "add" /\ ok
                     THEN LET c == Rewritten(copy) IN [c EXCEPT !.entries =
                             [f \in WorkFiles |-> IF f \in seal.listed THEN IntentToAdd ELSE @[f]]]
                     ELSE copy
  BY DEF GitWrites
<1>2. /\ git.at = "runs" /\ UNCHANGED leftoverVars /\ late' = late
      /\ PatchTyped /\ seal \in SealRecord /\ copy \in Index /\ late \in BOOLEAN
  BY DEF GitWrites, PatchIInv, PatchTyped
<1>3. /\ seal.step \in Steps /\ seal.verdict \in {"candidate", "failed"} /\ seal.listed \in SUBSET WorkFiles
      /\ seal.note \in {"none", "left", "unknown"}
      /\ seal.patch \in [WorkFiles -> IndexTexts \cup {"unread", "cut"}]
      /\ seal = [step |-> seal.step, verdict |-> seal.verdict, listed |-> seal.listed,
                 patch |-> seal.patch, note |-> seal.note]
  BY <1>2 DEF SealRecord
<1>4. UNCHANGED <<tree, workIndex, clock, stash, had, begun, raced>> /\ \A f \in WorkFiles : tree[f].text \in had[f]
  BY <1>2 DEF leftoverVars, PatchIInv, Sealing, NoGit, PatchTyped, GitCommands
<1>5. seal.step \in GitCommands
  BY <1>2 DEF PatchTyped, NoGit
<1>6. git' \in Git /\ git'.at = "closed" /\ (Wrote' <=> ok /\ ~cut) /\ ~Wrote
  BY <1>1, <1>2 DEF Git, Wrote
<1>7. seal.step \notin {"work", "over"}
  BY <1>5 DEF GitCommands
<1>8. begun <= stash.branch /\ (seal.note = "left" => stash.branch > 0) /\ begun \in Nat /\ stash.branch \in Nat
  BY <1>2, <1>7 DEF PatchIInv, StashIsRead, PatchTyped
<1>9. CASE seal.step = "list"
  <2> DEFINE l == IF ok /\ ~cut THEN Untracked ELSE {}
  <2>1. seal' = [step |-> "list", verdict |-> seal.verdict, listed |-> l,
                 patch |-> seal.patch, note |-> seal.note] /\ copy' = copy
    BY <1>1, <1>3, <1>9 DEF Output
  <2>2. l \in SUBSET WorkFiles /\ (ok /\ ~cut => l = Untracked)
    BY DEF Untracked
  <2> HIDE DEF l
  <2>3. seal' \in SealRecord
    BY <1>3, <1>9, <2>1, <2>2 DEF SealRecord
  <2>4. CopyIsSound'
    BY <1>4, <1>9, <2>1 DEF PatchIInv, CopyIsSound, Sound, Trusted
  <2>5. NewIsEntered'
    <3>1. ASSUME Wrote', NEW f \in Claimed, f \notin Tracked(copy), f \notin l PROVE "none" \in had[f]
      <4>1. f \in WorkFiles \ (Tracked(copy) \cup IgnoredFiles \cup AskedFiles) /\ f \notin Untracked
        BY <1>6, <2>2, <3>1 DEF Claimed
      <4>2. tree[f].text = "none"
        BY <4>1 DEF Untracked, Present
      <4> QED BY <1>4, <4>1, <4>2
    <3>2. Wrote' => NewIsListed'
      BY <1>4, <2>1, <3>1 DEF NewIsListed, Tracked
    <3> QED BY <2>1, <3>2 DEF NewIsEntered
  <2>6. PatchIsRead'
    BY <1>9, <2>1 DEF PatchIInv, PatchIsRead, Before, Behind
  <2>7. StashIsRead'
    BY <1>4, <1>8, <2>1 DEF StashIsRead
  <2> QED BY <1>2, <1>5, <1>6, <1>7, <1>9, <2>1, <2>3, <2>4, <2>5, <2>6, <2>7, SealingGoesOn
<1>10. CASE seal.step = "diff"
  <2> DEFINE p == [f \in WorkFiles |-> IF ok /\ ~cut THEN Shown(copy, f) ELSE "cut"]
  <2>1. seal' = [step |-> "diff", verdict |-> seal.verdict, listed |-> seal.listed,
                 patch |-> p, note |-> seal.note] /\ copy' = copy
    BY <1>1, <1>3, <1>10 DEF Output
  <2>2. p \in [WorkFiles -> IndexTexts \cup {"unread", "cut"}]
    BY <1>10, ShownIsHad
  <2>3. ok /\ ~cut => p \in [WorkFiles -> IndexTexts] /\ (~raced => \A f \in Claimed : p[f] \in had[f])
    BY <1>10, ShownIsHad DEF Claimed
  <2> HIDE DEF p
  <2>4. seal' \in SealRecord
    BY <1>3, <1>10, <2>1, <2>2 DEF SealRecord
  <2>5. CopyIsSound'
    BY <1>4, <1>10, <2>1 DEF PatchIInv, CopyIsSound, Sound, Trusted
  <2>6. NewIsEntered'
    BY <1>4, <1>10, <2>1 DEF PatchIInv, NewIsEntered, NewIsListed, Tracked
  <2>7. PatchIsRead'
    <3>1. Wrote' => seal'.patch # Unread
      BY <1>6, <2>1, <2>3, UnreadIsNoPatch
    <3>2. Wrote' => Shows'
      BY <1>4, <1>6, <2>1, <2>3 DEF Shows
    <3>3. Unread' = Unread
      BY DEF Unread
    <3> QED BY <2>1, <3>1, <3>2, <3>3 DEF PatchIsRead, Before, Behind
  <2>8. StashIsRead'
    BY <1>4, <1>8, <2>1 DEF StashIsRead
  <2> QED BY <1>2, <1>5, <1>6, <1>7, <1>10, <2>1, <2>4, <2>5, <2>6, <2>7, <2>8, SealingGoesOn
<1>11. CASE seal.step = "add"
  <2>1. seal' = seal /\ ~cut
    BY <1>1, <1>11 DEF Output, Long
  <2>2. PatchIsRead'
    BY <1>4, <1>11, <2>1 DEF PatchIInv, PatchIsRead, Before, Behind
  <2>3. StashIsRead'
    BY <1>4, <1>8, <1>11, <2>1 DEF StashIsRead
  <2>4. NewIsListed
    BY <1>11 DEF PatchIInv, NewIsEntered
  <2>5. CASE ~ok
    <3>1. copy' = copy
      BY <1>1, <2>5
    <3>2. CopyIsSound'
      BY <1>4, <2>1, <3>1 DEF PatchIInv, CopyIsSound, Sound, Trusted
    <3>3. NewIsListed'
      BY <1>4, <2>1, <2>4, <3>1 DEF NewIsListed, Tracked
    <3>4. NewIsEntered'
      BY <1>6, <1>11, <2>1, <2>5, <3>3 DEF NewIsEntered
    <3> QED BY <1>2, <1>5, <1>6, <1>7, <2>1, <2>2, <2>3, <3>1, <3>2, <3>4, SealingGoesOn
  <2>6. CASE ok /\ raced
    <3> DEFINE c == Rewritten(copy)
    <3>1. copy' = [c EXCEPT !.entries = [f \in WorkFiles |-> IF f \in seal.listed THEN IntentToAdd ELSE c.entries[f]]]
      BY <1>1, <1>11, <2>6
    <3>2. c \in Index /\ Tracked(copy) \subseteq Tracked(c)
      BY <1>2, RewritingStays DEF PatchTyped
    <3> HIDE DEF c
    <3>3. copy' \in Index /\ \A f \in WorkFiles : copy'.entries[f] = IF f \in seal.listed THEN IntentToAdd ELSE c.entries[f]
      BY <3>1, <3>2, IntentIsAnEntry DEF Index
    <3>4. CopyIsSound'
      BY <1>4, <2>6 DEF CopyIsSound
    <3>5. NewIsEntered'
      BY <1>3, <1>4, <1>11, <2>1, <2>4, <3>2, <3>3, IntentIsAnEntry DEF NewIsEntered, NewIsListed, Tracked
    <3> QED BY <1>2, <1>5, <1>6, <1>7, <2>1, <2>2, <2>3, <3>3, <3>4, <3>5, SealingGoesOn
  <2>7. CASE ok /\ ~raced
    <3> DEFINE c == Rewritten(copy)
    <3>1. copy' = [c EXCEPT !.entries = [f \in WorkFiles |-> IF f \in seal.listed THEN IntentToAdd ELSE c.entries[f]]]
      BY <1>1, <1>11, <2>7
    <3>2. Sound(copy) /\ TreeTyped /\ clock \in Nat
      BY <1>2, <1>11, <2>7 DEF PatchIInv, CopyIsSound, PatchTyped
    <3>3. /\ c \in Index /\ c.time = clock /\ Tracked(copy) \subseteq Tracked(c)
          /\ \A f \in WorkFiles : SameStat(c.entries[f], tree[f]) => c.entries[f].text = tree[f].text
      BY <1>2, <3>2, RewritingTells
    <3> HIDE DEF c
    <3>4. /\ copy' \in Index /\ copy'.time = clock
          /\ \A f \in WorkFiles : copy'.entries[f] = IF f \in seal.listed THEN IntentToAdd ELSE c.entries[f]
      BY <3>1, <3>3, IntentIsAnEntry DEF Index
    <3>5. \A f \in WorkFiles : SameStat(copy'.entries[f], tree[f]) => copy'.entries[f].text = tree[f].text
      <4> TAKE f \in WorkFiles
      <4>1. tree[f] \in [text : Texts, time : Nat]
        BY <3>2 DEF TreeTyped
      <4>2. IntentToAdd.text = "intent"
        BY DEF IntentToAdd, Noted
      <4>3. ~SameStat(IntentToAdd, tree[f])
        BY <4>1, <4>2, NoFileIsMatched
      <4> QED BY <3>3, <3>4, <4>3
    <3>6. Sound(copy)'
      BY <1>4, <3>2, <3>4, <3>5 DEF Sound, Trusted
    <3>7. CopyIsSound'
      BY <1>11, <2>1, <3>6 DEF CopyIsSound
    <3>8. NewIsEntered'
      BY <1>3, <1>4, <1>11, <2>1, <2>4, <3>3, <3>4, IntentIsAnEntry DEF NewIsEntered, NewIsListed, Tracked
    <3> QED BY <1>2, <1>5, <1>6, <1>7, <2>1, <2>2, <2>3, <3>4, <3>7, <3>8, SealingGoesOn
  <2> QED BY <2>5, <2>6, <2>7
<1>12. CASE seal.step = "stash"
  <2> DEFINE n == IF ok /\ LeftBehind THEN "left" ELSE "none"
  <2>1. seal' = [step |-> "stash", verdict |-> seal.verdict, listed |-> seal.listed,
                 patch |-> seal.patch, note |-> n] /\ copy' = copy /\ ~cut
    BY <1>1, <1>3, <1>12 DEF Output, Long
  <2>2. n \in {"none", "left"} /\ (n = "left" => stash.branch > 0) /\ (ok /\ begun > 0 => n = "left")
    BY <1>8 DEF LeftBehind
  <2> HIDE DEF n
  <2>3. seal' \in SealRecord
    BY <1>3, <1>12, <2>1, <2>2 DEF SealRecord
  <2>4. CopyIsSound' /\ NewIsEntered'
    BY <2>1 DEF CopyIsSound, NewIsEntered
  <2>5. PatchIsRead'
    <3>1. seal.patch # Unread => Shows
      BY <1>12 DEF PatchIInv, PatchIsRead, Behind
    <3>2. seal.verdict = "candidate" => seal.patch # Unread
      BY <1>12 DEF PatchIInv, PatchIsRead, Behind
    <3>3. Shows => Shows'
      BY <1>4, <2>1 DEF Shows
    <3> QED BY <2>1, <3>1, <3>2, <3>3 DEF PatchIsRead, Before, Behind
  <2>6. StashIsRead'
    <3>1. begun > 0 /\ Wrote' => seal'.note # "none"
      BY <1>6, <2>1, <2>2
    <3> QED BY <1>4, <1>8, <2>1, <2>2, <3>1 DEF StashIsRead
  <2> QED BY <1>2, <1>5, <1>6, <1>7, <1>12, <2>1, <2>3, <2>4, <2>5, <2>6, SealingGoesOn
<1>13. CASE seal.step \in {"index", "root", "branch"}
  <2>1. seal' = seal /\ copy' = copy
    BY <1>1, <1>13 DEF Output
  <2>2. CopyIsSound' /\ NewIsEntered'
    BY <1>13, <2>1 DEF CopyIsSound, NewIsEntered
  <2>3. PatchIsRead'
    <3>1. Shows => Shows'
      BY <1>4, <2>1 DEF Shows
    <3> QED BY <1>13, <2>1, <3>1 DEF PatchIInv, PatchIsRead, Before, Behind
  <2>4. StashIsRead'
    BY <1>4, <1>8, <1>13, <2>1 DEF StashIsRead
  <2> QED BY <1>2, <1>5, <1>6, <1>7, <2>1, <2>2, <2>3, <2>4, SealingGoesOn
<1> QED BY <1>5, <1>9, <1>10, <1>11, <1>12, <1>13 DEF GitCommands
\* What a git command has given is taken, or it has failed.
LEMMA CollectKeepsPatch ==
  ASSUME PatchIInv, Collect
  PROVE  PatchIInv'
<1>1. /\ UNCHANGED leftoverVars /\ copy' = copy /\ PatchTyped /\ seal \in SealRecord /\ late \in BOOLEAN
      /\ copy \in Index
  BY DEF Collect, PatchIInv, PatchTyped
<1>2. git # NoGit
  BY DEF Collect, Complete, NoGit
<1>3. seal.step \in GitCommands
  BY <1>1, <1>2 DEF PatchTyped
<1>4. CASE ~Complete
  BY <1>1, <1>3, <1>4, FailingKeepsPatch DEF Collect
<1>5. CASE Complete
  <2>1. seal' = [seal EXCEPT !.step = After] /\ git' = NoGit /\ late' = late
    BY <1>5 DEF Collect, Forth
  <2>2. Wrote
    BY <1>1, <1>5 DEF Complete, Wrote, PatchTyped
  <2>3. /\ seal.verdict \in {"candidate", "failed"} /\ seal.listed \in SUBSET WorkFiles
        /\ seal.note \in {"none", "left", "unknown"}
        /\ seal.patch \in [WorkFiles -> IndexTexts \cup {"unread", "cut"}]
        /\ seal' = [step |-> After, verdict |-> seal.verdict, listed |-> seal.listed,
                    patch |-> seal.patch, note |-> seal.note]
    BY <1>1, <2>1 DEF SealRecord
  <2>4. git' \in Git /\ git'.at = "none" /\ ~Wrote'
    BY <2>1 DEF Git, NoGit, Wrote
  <2>5. UNCHANGED <<tree, workIndex, clock, stash, had, begun, raced>>
    BY <1>1 DEF leftoverVars
  <2>6. seal.step \notin {"work", "over"}
    BY <1>3 DEF GitCommands
  <2>7. begun <= stash.branch /\ (seal.note = "left" => stash.branch > 0)
    BY <2>6 DEF PatchIInv, StashIsRead
  <2>8. Shows => Shows'
    BY <2>3, <2>5 DEF Shows
  <2>9. CASE seal.step \in {"index", "root"}
    <3>1. After \in {"root", "copy"}
      BY <2>9 DEF After
    <3>2. seal.patch = Unread
      BY <2>9 DEF PatchIInv, PatchIsRead, Before
    <3> DEFINE to == After
    <3>3. seal' \in SealRecord /\ seal'.step \in {"root", "copy"}
      BY <2>3, <3>1 DEF SealRecord, Steps
    <3>4. CopyIsSound' /\ NewIsEntered'
      BY <3>3 DEF CopyIsSound, NewIsEntered
    <3>5. PatchIsRead'
      BY <2>3, <3>2, <3>3 DEF PatchIsRead, Before, Behind, Unread
    <3>6. StashIsRead'
      BY <2>3, <2>4, <2>5, <2>7, <3>3 DEF StashIsRead
    <3>7. seal'.step # "work"
      BY <3>3
    <3> QED BY <1>1, <2>1, <2>4, <2>6, <3>3, <3>4, <3>5, <3>6, <3>7, SealingGoesOn
  <2>10. CASE seal.step \in {"list", "add"}
    <3>1. After \in {"add", "diff"} /\ (After = "diff" => seal.step = "add" \/ seal.listed = {})
      BY <2>10 DEF After
    <3>2. seal.patch = Unread /\ NewIsListed
      BY <2>2, <2>10 DEF PatchIInv, PatchIsRead, Before, NewIsEntered
    <3>3. seal' \in SealRecord /\ seal'.step = After
      BY <2>3, <3>1 DEF SealRecord, Steps
    <3>4. CopyIsSound'
      BY <1>1, <2>5, <2>10, <3>1, <3>3 DEF PatchIInv, CopyIsSound, Sound, Trusted
    <3>5. NewIsEntered'
      <4>1. NewIsListed'
        BY <1>1, <2>3, <2>5, <3>2 DEF NewIsListed, Tracked
      <4>2. After = "diff" => seal.listed \subseteq Tracked(copy)
        BY <2>2, <3>1 DEF PatchIInv, NewIsEntered
      <4> QED BY <1>1, <2>3, <2>4, <3>3, <4>1, <4>2 DEF NewIsEntered, Tracked
    <3>6. PatchIsRead'
      BY <2>3, <2>4, <3>1, <3>2, <3>3 DEF PatchIsRead, Before, Behind, Unread
    <3>7. StashIsRead'
      BY <2>3, <2>4, <2>5, <2>7, <3>1, <3>3 DEF StashIsRead
    <3>8. seal'.step # "work"
      BY <3>1, <3>3
    <3> QED BY <1>1, <2>1, <2>4, <2>6, <3>3, <3>4, <3>5, <3>6, <3>7, <3>8, SealingGoesOn
  <2>11. CASE seal.step \in {"diff", "branch", "stash"}
    <3>1. After \in {"branch", "stash", "over"} /\ (After = "over" => seal.step = "stash")
      BY <2>11 DEF After
    <3>2. /\ seal.patch # Unread => Shows
          /\ seal.verdict = "candidate" => seal.patch # Unread
      BY <2>2, <2>11 DEF PatchIInv, PatchIsRead, Behind
    <3>3. seal' \in SealRecord /\ seal'.step = After
      BY <2>3, <3>1 DEF SealRecord, Steps
    <3>4. CopyIsSound' /\ NewIsEntered'
      BY <3>1, <3>3 DEF CopyIsSound, NewIsEntered
    <3>5. PatchIsRead'
      BY <2>3, <2>8, <3>1, <3>2, <3>3 DEF PatchIsRead, Before, Behind, Unread
    <3>6. StashIsRead'
      <4>1. After = "over" /\ begun > 0 => seal.note # "none"
        BY <2>2, <3>1 DEF PatchIInv, StashIsRead
      <4> QED BY <2>3, <2>4, <2>5, <2>7, <3>1, <3>3, <4>1 DEF StashIsRead
    <3>7. seal'.step # "work"
      BY <3>1, <3>3
    <3> QED BY <1>1, <2>1, <2>4, <2>6, <3>3, <3>4, <3>5, <3>6, <3>7, SealingGoesOn
  <2> QED BY <1>3, <2>9, <2>10, <2>11 DEF GitCommands
<1> QED BY <1>4, <1>5

\* The sealing begins: every file has the text it has.
LEMMA BeginningKeepsPatch ==
  ASSUME PatchIInv, BeginSealing
  PROVE  PatchIInv'
<1>1. /\ seal.step = "work" /\ seal' = [seal EXCEPT !.step = "index"]
      /\ had' = [f \in WorkFiles |-> {tree[f].text}] /\ begun' = stash.branch
      /\ UNCHANGED <<tree, workIndex, clock, stash, copy, git, late, work, raced>>
      /\ PatchTyped /\ seal \in SealRecord
  BY DEF BeginSealing, Forth, PatchIInv, PatchTyped
<1>2. git = NoGit /\ NoGit.at = "none"
  BY <1>1 DEF PatchTyped, GitCommands, NoGit
<1>3. /\ seal' \in SealRecord /\ seal'.step = "index" /\ seal'.patch = seal.patch /\ seal'.note = seal.note
      /\ seal'.listed = seal.listed /\ seal'.verdict = seal.verdict
  BY <1>1 DEF SealRecord, Steps
<1>4. /\ had' \in [WorkFiles -> SUBSET Texts] /\ \A f \in WorkFiles : tree'[f].text \in had'[f]
  BY <1>1 DEF PatchTyped, TreeTyped
<1>5. stash.branch \in Nat
  BY <1>1 DEF PatchTyped
<1>6. PatchTyped'
  BY <1>1, <1>2, <1>3, <1>4, <1>5 DEF PatchTyped, TreeTyped
<1>7. Sound(workIndex)'
  BY <1>1 DEF PatchIInv, Sound, Trusted
<1>8. CopyIsSound' /\ NewIsEntered'
  BY <1>3 DEF CopyIsSound, NewIsEntered
<1>9. PatchIsRead'
  BY <1>1, <1>3 DEF PatchIInv, PatchIsRead, Before, Behind, Unread
<1>10. StashIsRead'
  BY <1>1, <1>3, <1>5 DEF PatchIInv, StashIsRead
<1> QED BY <1>4, <1>6, <1>7, <1>8, <1>9, <1>10 DEF PatchIInv

\* The worker's index is copied, and the copy gets its time.
LEMMA CopyingKeepsPatch ==
  ASSUME PatchIInv, CopyIndex \/ StampCopy
  PROVE  PatchIInv'
<1>1. /\ UNCHANGED leftoverVars /\ git' = git /\ late' = late
      /\ PatchTyped /\ seal \in SealRecord /\ workIndex \in Index /\ copy \in Index /\ clock \in Nat
      /\ seal.step \in {"copy", "stamp"} /\ Sound(workIndex)
  BY DEF CopyIndex, StampCopy, PatchIInv, PatchTyped
<1> DEFINE to == IF seal.step = "copy" THEN "stamp" ELSE "list"
<1>2. seal' = [seal EXCEPT !.step = to] /\ (seal.step = "stamp" <=> to = "list") /\ to \in {"stamp", "list"}
  BY <1>1 DEF CopyIndex, StampCopy, Forth
<1> HIDE DEF to
<1>3. git = NoGit /\ NoGit \in Git /\ NoGit.at = "none" /\ late \in BOOLEAN
  BY <1>1 DEF PatchTyped, GitCommands, NoGit, Git
<1>4. /\ seal' \in SealRecord /\ seal'.step = to /\ seal'.patch = seal.patch /\ seal'.note = seal.note
      /\ seal'.listed = seal.listed /\ seal'.verdict = seal.verdict
  BY <1>1, <1>2 DEF SealRecord, Steps
<1>5. UNCHANGED <<tree, workIndex, clock, stash, had, begun, raced>>
  BY <1>1 DEF leftoverVars
<1>6. NewIsEntered' /\ ~Wrote'
  BY <1>1, <1>2, <1>3, <1>4 DEF NewIsEntered, Wrote
<1>7. PatchIsRead'
  BY <1>1, <1>2, <1>4 DEF PatchIInv, PatchIsRead, Before, Behind, Unread
<1>8. StashIsRead'
  BY <1>1, <1>2, <1>4, <1>5, <1>6 DEF PatchIInv, StashIsRead
<1>9. copy' \in Index /\ CopyIsSound'
  <2>1. CASE seal.step = "copy"
    <3>1. copy' = [workIndex EXCEPT !.time = clock]
      BY <2>1 DEF CopyIndex, StampCopy
    <3>2. copy' \in Index /\ copy'.entries = workIndex.entries
      BY <1>1, <3>1 DEF Index
    <3>3. to = "stamp"
      BY <1>2, <2>1
    <3> QED BY <1>4, <1>5, <3>2, <3>3 DEF CopyIsSound
  <2>2. CASE seal.step = "stamp"
    <3>1. copy' = [copy EXCEPT !.time = workIndex.time] /\ to = "list"
      BY <1>2, <2>2 DEF CopyIndex, StampCopy, IndexTime
    <3>2. /\ copy' = [entries |-> copy.entries, time |-> workIndex.time]
          /\ workIndex = [entries |-> workIndex.entries, time |-> workIndex.time]
          /\ copy' \in Index
      BY <1>1, <3>1 DEF Index
    <3>3. ~raced => copy' = workIndex
      BY <2>2, <3>2 DEF PatchIInv, CopyIsSound
    <3>4. ~raced => Sound(copy)'
      <4> SUFFICES ASSUME ~raced PROVE Sound(copy)'
        OBVIOUS
      <4> QED BY <1>1, <1>5, <3>3 DEF Sound, Trusted
    <3> QED BY <1>4, <1>5, <3>1, <3>2, <3>4 DEF CopyIsSound
  <2> QED BY <1>1, <2>1, <2>2
<1>10. seal'.step # "work" /\ seal.step \notin {"work", "over"}
  BY <1>1, <1>2, <1>4
<1> QED BY <1>1, <1>3, <1>4, <1>6, <1>7, <1>8, <1>9, <1>10, SealingGoesOn

\* Every step of a sealing and beside it.
LEMMA PatchStepStays ==
  ASSUME PatchIInv, PatchNext
  PROVE  PatchIInv'
BY EditKeepsPatch, StageKeepsPatch, StashKeepsPatch, TickKeepsPatch, BeginningKeepsPatch, SpawnKeepsPatch,
   WritingKeepsPatch, ExitKeepsPatch, DeadlineKeepsPatch, CollectKeepsPatch, CopyingKeepsPatch DEF PatchNext

\* When nothing of it moves, it stays.
LEMMA PatchStutters ==
  ASSUME PatchIInv, UNCHANGED patchVars
  PROVE  PatchIInv'
<1>1. UNCHANGED <<tree, workIndex, clock, stash, copy, seal, git, late, had, begun, raced>>
  BY DEF patchVars
<1>2. PatchTyped' /\ Sound(workIndex)' /\ CopyIsSound'
  BY <1>1 DEF PatchIInv, PatchTyped, TreeTyped, Sound, Trusted, CopyIsSound
<1>3. NewIsEntered' /\ PatchIsRead' /\ StashIsRead'
  BY <1>1 DEF PatchIInv, NewIsEntered, NewIsListed, Tracked, PatchIsRead, Shows, Wrote, StashIsRead
<1> QED BY <1>1, <1>2, <1>3 DEF PatchIInv, Sealing

\* It holds before the worker has done anything.
LEMMA PatchStart ==
  ASSUME PatchInit
  PROVE  PatchIInv
<1>1. /\ tree = [f \in WorkFiles |-> FromBase(f)] /\ clock \in 0..1
      /\ workIndex = [entries |-> [f \in WorkFiles |-> FromBase(f)], time |-> clock]
      /\ stash = [branch |-> 0, detached |-> 0] /\ copy = workIndex
      /\ git = NoGit /\ late = FALSE /\ had = [f \in WorkFiles |-> {}] /\ begun = 0 /\ raced = FALSE
  BY DEF PatchInit
<1>2. PICK v \in {"candidate", "failed"} :
          seal = [step |-> "work", verdict |-> v, listed |-> {}, patch |-> Unread, note |-> "none"]
  BY DEF PatchInit
<1>3. \A f \in WorkFiles : FromBase(f) \in [text : Texts, time : Nat] /\ FromBase(f) \in [text : IndexTexts, time : Nat]
  BY DEF FromBase, NotInIndex, Noted, Texts, IndexTexts
<1>4. TreeTyped /\ workIndex \in Index
  BY <1>1, <1>3 DEF TreeTyped, Index
<1>5. seal \in SealRecord /\ seal.step = "work" /\ seal.patch = Unread /\ seal.note = "none"
  BY <1>2, UnreadIsNoPatch DEF SealRecord, Steps
<1>6. git \in Git /\ git.at = "none"
  BY <1>1 DEF NoGit, Git
<1>7. clock \in 0..MaxNow /\ clock \in Nat
  BY <1>1, PatchConstants
<1>8. had \in [WorkFiles -> SUBSET Texts] /\ stash \in [branch : Nat, detached : Nat] /\ begun \in Nat
  BY <1>1
<1>9. PatchTyped
  BY <1>1, <1>4, <1>5, <1>6, <1>7, <1>8 DEF PatchTyped
<1>10. Sound(workIndex)
  BY <1>1, <1>7 DEF Sound, Trusted
<1>11. CopyIsSound /\ NewIsEntered /\ ~Sealing
  BY <1>5 DEF CopyIsSound, NewIsEntered, Sealing
<1>12. PatchIsRead /\ StashIsRead
  BY <1>5 DEF PatchIsRead, StashIsRead, Before, Behind
<1> QED BY <1>9, <1>10, <1>11, <1>12 DEF PatchIInv

\* What the invariant holds is what the patch promises.
LEMMA PatchPromise ==
  ASSUME PatchIInv
  PROVE  PatchInv
<1>1. git.at \in {"none", "runs", "closed", "ended"} /\ clock \in 0..MaxNow
  BY DEF PatchIInv, PatchTyped, Git
<1>2. PatchIsWhole
  BY DEF PatchIInv, PatchIsRead, Behind, Shows, Claimed, PatchIsWhole
<1>3. CandidateHasItsPatch
  BY DEF PatchIInv, PatchIsRead, Behind, CandidateHasItsPatch
<1>4. StashIsTold
  BY DEF PatchIInv, StashIsRead, StashIsTold
<1> QED BY <1>1, <1>2, <1>3, <1>4 DEF PatchInv

-----------------------------------------------------------------------------
(* Sealed files.                                                                *)

SealSteps == {"idle", "open", "read", "sync", "persist", "link", "verify", "commit"}
SealWork == [step : SealSteps, inode : 0..2, length : Nat, copy : Contents]
Object == [bytes : Contents \cup {Torn}, synced : BOOLEAN, linked : BOOLEAN]

SealTyped ==
    /\ source \in [kind : {"file", "link"}, inode : Inodes]
    /\ inodes \in [Inodes -> Contents] /\ sealer \in [Sealers -> SealWork]
    /\ objects \in [Contents -> Object \cup {NoObject}]
    /\ results \subseteq Contents /\ borrowed \subseteq Contents /\ meddled \subseteq Contents
    /\ writes \in 0..MaxWrites /\ outages \in 0..MaxOutages

\* An object nobody meddled with holds its bytes on the disk, under its name's digest.
Whole(d) == objects[d] # NoObject => objects[d].bytes = d /\ objects[d].synced
\* It can be found again after a power loss.
Durable(d) == objects[d] # NoObject /\ objects[d].bytes = d /\ objects[d].linked

\* What a sealer has read is within the limit, is there once it was given its name, and is
\* durable before a result names it.
SealerKnows(s) ==
    LET d == sealer[s].copy
    IN  /\ Len(d) <= MaxBytes
        /\ sealer[s].step \in {"open", "read"} => sealer[s].inode \in Inodes
        /\ sealer[s].step = "link" => d \in meddled \/ objects[d] # NoObject
        /\ sealer[s].step = "commit" => d \in borrowed \cup meddled \/ Durable(d)

SealIInv ==
    /\ SealTyped
    /\ \A d \in Contents \ meddled : Whole(d)
    /\ \A d \in results \ (borrowed \cup meddled) : Durable(d)
    /\ ResultsKeepTheLimit
    /\ \A s \in Sealers : SealerKnows(s)
-----------------------------------------------------------------------------
\* What a file may hold: sequences of blocks up to the limit and one more.
LEMMA ContentsAreSequences ==
  ASSUME NEW c
  PROVE  c \in Contents <=> c \in Seq(Blocks) /\ Len(c) <= MaxBytes + 1
<1>1. MaxBytes \in Nat
  BY SealConstants
<1>2. ASSUME c \in Contents PROVE c \in Seq(Blocks) /\ Len(c) <= MaxBytes + 1
  <2>1. PICK n \in 0..MaxBytes + 1 : c \in [1..n -> Blocks]
    BY <1>2 DEF Contents
  <2> QED BY <1>1, <2>1
<1>3. ASSUME c \in Seq(Blocks), Len(c) <= MaxBytes + 1 PROVE c \in Contents
  <2>1. Len(c) \in 0..MaxBytes + 1 /\ c \in [1..Len(c) -> Blocks]
    BY <1>1, <1>3
  <2> QED BY <2>1 DEF Contents
<1> QED BY <1>2, <1>3

\* A file that may grow stays one that a sealer may meet.
LEMMA ContentsGrow ==
  ASSUME NEW c \in Contents, Len(c) <= MaxBytes, NEW b \in Blocks
  PROVE  Append(c, b) \in Contents /\ Len(Append(c, b)) = Len(c) + 1
<1>1. c \in Seq(Blocks)
  BY ContentsAreSequences
<1>2. Append(c, b) \in Seq(Blocks) /\ Len(Append(c, b)) = Len(c) + 1
  BY <1>1
<1>3. Len(c) \in Nat /\ MaxBytes \in Nat
  BY <1>1, SealConstants
<1>4. Len(Append(c, b)) <= MaxBytes + 1
  BY <1>2, <1>3
<1> QED BY <1>2, <1>4, ContentsAreSequences

\* Who rests knows nothing.
LEMMA RestIsWork ==
  AtRest \in SealWork /\ AtRest.step = "idle" /\ Len(AtRest.copy) = 0 /\ <<>> \in Contents
<1>1. <<>> \in Seq(Blocks) /\ Len(<<>>) = 0 /\ 0 <= MaxBytes + 1
  BY SealConstants
<1>2. <<>> \in Contents
  BY <1>1, ContentsAreSequences
<1>3. AtRest.copy = <<>> /\ AtRest.step = "idle" /\ AtRest \in SealWork
  BY <1>2 DEF AtRest, SealWork, SealSteps
<1> QED BY <1>1, <1>2, <1>3

\* A step keeps the invariant if it keeps the objects nobody meddles with, and what each sealer
\* knows afterwards is so.
LEMMA SealGoesOn ==
  ASSUME SealIInv, SealTyped', borrowed \subseteq borrowed', meddled \subseteq meddled',
         \A d \in Contents \ meddled' : Whole(d)' /\ (Durable(d) => Durable(d)'),
         \A d \in results' \ results : Len(d) <= MaxBytes /\ (d \in borrowed' \cup meddled' \/ Durable(d)'),
         \A s \in Sealers : SealerKnows(s)'
  PROVE  SealIInv'
<1>1. ResultsKeepTheLimit'
  BY DEF SealIInv, ResultsKeepTheLimit
<1>2. \A d \in results' \ (borrowed' \cup meddled') : Durable(d)'
  <2> SUFFICES ASSUME NEW d \in results', d \notin borrowed' \cup meddled' PROVE Durable(d)'
    OBVIOUS
  <2>1. d \in Contents \ meddled'
    BY DEF SealTyped
  <2>2. CASE d \in results
    BY <2>1, <2>2 DEF SealIInv
  <2>3. CASE d \notin results
    BY <2>3
  <2> QED BY <2>2, <2>3
<1> QED BY <1>1, <1>2 DEF SealIInv

\* The sealers that do not move know what they knew.
LEMMA OthersKnow ==
  ASSUME SealIInv, NEW s \in Sealers, sealer'[s] = sealer[s],
         borrowed \subseteq borrowed', meddled \subseteq meddled',
         \A d \in Contents \ meddled' :
            (objects[d] # NoObject => objects'[d] # NoObject) /\ (Durable(d) => Durable(d)')
  PROVE  SealerKnows(s)'
<1>1. SealerKnows(s) /\ sealer[s] \in SealWork
  BY DEF SealIInv, SealTyped
<1>2. sealer[s].copy \in Contents
  BY <1>1 DEF SealWork
<1> DEFINE d == sealer[s].copy
<1>3. d \in Contents
  BY <1>2
<1>4. /\ Len(d) <= MaxBytes
      /\ sealer[s].step \in {"open", "read"} => sealer[s].inode \in Inodes
      /\ sealer[s].step = "link" => d \in meddled \/ objects[d] # NoObject
      /\ sealer[s].step = "commit" => d \in borrowed \cup meddled \/ Durable(d)
  BY <1>1 DEF SealerKnows
<1>5. \A e \in Contents \ meddled' : Durable(e) => objects'[e] # NoObject /\ objects'[e].bytes = e /\ objects'[e].linked
  BY DEF Durable
<1>6. /\ sealer[s].step = "link" => d \in meddled' \/ objects'[d] # NoObject
      /\ sealer[s].step = "commit" =>
            d \in borrowed' \cup meddled' \/ (objects'[d] # NoObject /\ objects'[d].bytes = d /\ objects'[d].linked)
  <2> HIDE DEF d
  <2> QED BY <1>3, <1>4, <1>5
<1> QED BY <1>4, <1>6 DEF SealerKnows, Durable

\* One sealer goes on; the objects stay as they are.
LEMMA SealerMoves ==
  ASSUME SealIInv, NEW s \in Sealers, NEW w \in SealWork, sealer' = [sealer EXCEPT ![s] = w],
         source' = source, inodes' = inodes, objects' = objects, meddled' = meddled, writes' = writes,
         outages' \in 0..MaxOutages, borrowed' \subseteq Contents, borrowed \subseteq borrowed',
         Len(w.copy) <= MaxBytes, w.step \in {"open", "read"} => w.inode \in Inodes,
         w.step = "link" => w.copy \in meddled \/ objects[w.copy] # NoObject,
         w.step = "commit" => w.copy \in borrowed' \cup meddled \/ Durable(w.copy),
         \/ results' = results
         \/ \E d \in Contents : /\ results' = results \cup {d} /\ Len(d) <= MaxBytes
                                /\ d \in borrowed' \cup meddled \/ Durable(d)
  PROVE  SealIInv'
<1>1. SealTyped
  BY DEF SealIInv
<1>2. sealer' \in [Sealers -> SealWork] /\ sealer'[s] = w /\ \A t \in Sealers \ {s} : sealer'[t] = sealer[t]
  BY <1>1 DEF SealTyped
<1>3. SealTyped'
  BY <1>1, <1>2 DEF SealTyped
<1>4. \A d : (Durable(d)' <=> Durable(d)) /\ (Whole(d)' <=> Whole(d))
  BY DEF Durable, Whole
<1>5. SealerKnows(s)'
  BY <1>2 DEF SealerKnows, Durable
<1>6. \A t \in Sealers : SealerKnows(t)'
  BY <1>2, <1>4, <1>5, OthersKnow
<1>7. \A d \in Contents \ meddled' : Whole(d)' /\ (Durable(d) => Durable(d)')
  BY <1>4 DEF SealIInv
<1> QED BY <1>3, <1>4, <1>6, <1>7, SealGoesOn

\* An object is put or completed while one sealer goes on.
LEMMA ObjectIsPut ==
  ASSUME SealIInv, NEW s \in Sealers, NEW step \in SealSteps, sealer' = [sealer EXCEPT ![s].step = step],
         NEW o \in Object, objects' = [objects EXCEPT ![sealer[s].copy] = o],
         sealer[s].copy \notin meddled => o.bytes = sealer[s].copy /\ o.synced,
         Durable(sealer[s].copy) => o.bytes = sealer[s].copy /\ o.linked,
         step \notin {"open", "read"}, step = "commit" => o.linked,
         source' = source, inodes' = inodes, results' = results, borrowed' = borrowed,
         meddled' = meddled, writes' = writes, outages' = outages
  PROVE  SealIInv'
<1>1. SealTyped /\ sealer[s] \in SealWork /\ SealerKnows(s)
  BY DEF SealIInv, SealTyped
<1> DEFINE d == sealer[s].copy
<1>2. d \in Contents /\ Len(d) <= MaxBytes
  BY <1>1 DEF SealWork, SealerKnows
<1>3. objects' \in [Contents -> Object \cup {NoObject}] /\ objects'[d] = o
      /\ \A e \in Contents \ {d} : objects'[e] = objects[e]
  BY <1>1, <1>2 DEF SealTyped
<1>4. o # NoObject
  BY SealConstants DEF Object
<1>5. /\ sealer' \in [Sealers -> SealWork] /\ sealer'[s].step = step /\ sealer'[s].copy = d
      /\ \A t \in Sealers \ {s} : sealer'[t] = sealer[t]
  BY <1>1 DEF SealTyped, SealWork
<1>a. (d \notin meddled => o.bytes = d /\ o.synced) /\ (Durable(d) => o.bytes = d /\ o.linked)
  OBVIOUS
<1> HIDE DEF d
<1>6. SealTyped'
  BY <1>1, <1>3, <1>5 DEF SealTyped
<1>7. \A e \in Contents \ meddled' : Whole(e)' /\ (Durable(e) => Durable(e)')
  <2> SUFFICES ASSUME NEW e \in Contents, e \notin meddled PROVE Whole(e)' /\ (Durable(e) => Durable(e)')
    OBVIOUS
  <2>1. CASE e = d
    BY <1>a, <1>3, <1>4, <2>1 DEF Whole, Durable
  <2>2. CASE e # d
    BY <1>3, <2>2 DEF SealIInv, Whole, Durable
  <2> QED BY <2>1, <2>2
<1>8. \A e \in Contents : objects[e] # NoObject => objects'[e] # NoObject
  BY <1>3, <1>4
<1>9. SealerKnows(s)'
  <2>1. step = "commit" => d \in meddled' \/ (objects'[d] # NoObject /\ objects'[d].bytes = d /\ objects'[d].linked)
    BY <1>a, <1>3, <1>4
  <2> QED BY <1>2, <1>3, <1>4, <1>5, <2>1 DEF SealerKnows, Durable
<1>10. \A t \in Sealers : SealerKnows(t)'
  BY <1>5, <1>7, <1>8, <1>9, OthersKnow
<1> QED BY <1>6, <1>7, <1>10, SealGoesOn

\* Every step of a sealer, of the worker's leftovers and of the machine.
LEMMA SealStepStays ==
  ASSUME SealIInv, SealNext
  PROVE  SealIInv'
<1>1. SealTyped /\ MaxBytes \in Nat /\ AtRest \in SealWork /\ AtRest.step = "idle" /\ Len(AtRest.copy) = 0
      /\ <<>> \in Contents
  BY RestIsWork, SealConstants DEF SealIInv
<1>2. ASSUME NEW s \in Sealers
      PROVE  /\ sealer[s] \in SealWork /\ SealerKnows(s) /\ sealer[s].copy \in Contents
             /\ Len(sealer[s].copy) \in Nat /\ Len(sealer[s].copy) <= MaxBytes
  BY <1>1, ContentsAreSequences DEF SealTyped, SealIInv, SealWork, SealerKnows
<1>3. ASSUME NEW s \in Sealers, GivesUp(s), UNCHANGED <<source, inodes, objects, results, borrowed, meddled, writes>>,
             outages' \in 0..MaxOutages
      PROVE  SealIInv'
  <2>1. sealer' = [sealer EXCEPT ![s] = AtRest] /\ borrowed \subseteq Contents
    BY <1>1, <1>3 DEF GivesUp, SealTyped
  <2>2. AtRest.step \notin {"open", "read", "link", "commit"} /\ Len(AtRest.copy) <= MaxBytes
    BY <1>1
  <2> QED BY <1>1, <1>3, <2>1, <2>2, SealerMoves
<1>4. ASSUME NEW s \in Sealers, NEW step \in SealSteps, Gives(s, step), step \notin {"link", "commit"},
             step \in {"open", "read"} => sealer[s].inode \in Inodes,
             UNCHANGED <<source, inodes, objects, results, sealGhost>>
      PROVE  SealIInv'
  <2> DEFINE w == [sealer[s] EXCEPT !.step = step]
  <2>1. w \in SealWork /\ w.step = step /\ w.copy = sealer[s].copy /\ w.inode = sealer[s].inode
    BY <1>2 DEF SealWork
  <2>2. sealer' = [sealer EXCEPT ![s] = w]
    BY <1>4 DEF Gives
  <2>3. borrowed \subseteq Contents /\ borrowed' = borrowed /\ meddled' = meddled /\ writes' = writes
        /\ outages' \in 0..MaxOutages
    BY <1>1, <1>4 DEF SealTyped, sealGhost
  <2> HIDE DEF w
  <2> QED BY <1>2, <1>4, <2>1, <2>2, <2>3, SealerMoves
<1>5. ASSUME NEW s \in Sealers, BeginSeal(s) PROVE SealIInv'
  <2> DEFINE w == [step |-> "open", inode |-> source.inode, length |-> Len(inodes[source.inode]), copy |-> <<>>]
  <2>1. source.inode \in Inodes /\ inodes[source.inode] \in Contents
    BY <1>1 DEF SealTyped
  <2>2. Len(inodes[source.inode]) \in Nat /\ source.inode \in 0..2
    BY <2>1, ContentsAreSequences DEF Inodes
  <2>3. w \in SealWork /\ w.step = "open" /\ w.copy = <<>> /\ w.inode \in Inodes /\ Len(w.copy) <= MaxBytes
    BY <1>1, <2>1, <2>2 DEF SealWork, SealSteps
  <2>4. sealer' = [sealer EXCEPT ![s] = w] /\ UNCHANGED <<source, inodes, objects, results>>
        /\ borrowed' = borrowed /\ meddled' = meddled /\ writes' = writes /\ outages' = outages
    BY <1>5 DEF BeginSeal, sealGhost
  <2>5. borrowed \subseteq Contents /\ outages' \in 0..MaxOutages
    BY <1>1, <2>4 DEF SealTyped
  <2> HIDE DEF w
  <2> QED BY <2>3, <2>4, <2>5, SealerMoves
<1>6. ASSUME NEW s \in Sealers, OpenSource(s) PROVE SealIInv'
  <2>1. sealer[s].inode \in Inodes
    BY <1>2, <1>6 DEF OpenSource, SealerKnows
  <2>2. "read" \in SealSteps
    BY DEF SealSteps
  <2>3. CASE SameFile(s)
    BY <1>4, <1>6, <2>1, <2>2, <2>3 DEF OpenSource
  <2>4. CASE ~SameFile(s)
    BY <1>1, <1>3, <1>6, <2>4 DEF OpenSource, sealGhost, SealTyped
  <2> QED BY <2>3, <2>4
<1>7. ASSUME NEW s \in Sealers, ReadBlock(s) PROVE SealIInv'
  <2> DEFINE at == Len(sealer[s].copy) + 1
             bytes == inodes[sealer[s].inode]
             w == [sealer[s] EXCEPT !.copy = Append(@, bytes[at])]
  <2>1. sealer[s].step = "read" /\ sealer[s].inode \in Inodes
    BY <1>2, <1>7 DEF ReadBlock, SealerKnows
  <2>2. bytes \in Contents /\ bytes \in Seq(Blocks) /\ at \in Nat \ {0}
    BY <1>1, <1>2, <2>1, ContentsAreSequences DEF SealTyped
  <2>3. UNCHANGED <<source, inodes, objects, results>> /\ borrowed' = borrowed /\ meddled' = meddled
        /\ writes' = writes /\ outages' = outages
    BY <1>7 DEF ReadBlock, sealGhost
  <2>4. CASE at > Len(bytes)
    BY <1>4, <1>7, <2>4 DEF ReadBlock, SealSteps
  <2>5. CASE ~(at > Len(bytes)) /\ TooLong(s)
    BY <1>1, <1>3, <1>7, <2>3, <2>5 DEF ReadBlock, SealTyped
  <2>6. CASE ~(at > Len(bytes)) /\ ~TooLong(s)
    <3>1. sealer' = [sealer EXCEPT ![s].copy = Append(@, bytes[at])]
      BY <1>7, <2>6 DEF ReadBlock
    <3>2. sealer' = [sealer EXCEPT ![s] = w]
      BY <3>1
    <3>3. bytes[at] \in Blocks
      BY <2>2, <2>6
    <3>4. at <= MaxBytes
      BY <1>1, <1>2, <2>6 DEF TooLong
    <3> HIDE DEF bytes
    <3>5. Append(sealer[s].copy, bytes[at]) \in Contents /\ Len(Append(sealer[s].copy, bytes[at])) = at
      BY <1>2, <3>3, ContentsGrow
    <3>6. w \in SealWork /\ w.step = "read" /\ w.inode = sealer[s].inode /\ Len(w.copy) = at
      BY <1>2, <2>1, <3>5 DEF SealWork
    <3>7. borrowed \subseteq Contents /\ outages' \in 0..MaxOutages
      BY <1>1, <2>3 DEF SealTyped
    <3> HIDE DEF w, at
    <3> QED BY <2>1, <2>3, <3>2, <3>4, <3>6, <3>7, SealerMoves
  <2> QED BY <2>4, <2>5, <2>6
<1>8. ASSUME NEW s \in Sealers, SyncTemporary(s) PROVE SealIInv'
  BY <1>4, <1>8 DEF SyncTemporary, SealSteps
<1>9. ASSUME NEW s \in Sealers, Persist(s) PROVE SealIInv'
  <2> DEFINE d == sealer[s].copy
             o == [bytes |-> d, synced |-> sealer[s].step = "persist", linked |-> FALSE]
  <2>1. sealer[s].step = "persist" /\ UNCHANGED <<source, inodes, results, sealGhost>>
    BY <1>9 DEF Persist, MayPersist
  <2>2. CASE objects[d] = NoObject
    <3>1. objects' = [objects EXCEPT ![d] = o] /\ sealer' = [sealer EXCEPT ![s].step = "link"]
      BY <1>9, <2>2 DEF Persist, Gives
    <3>2. o \in Object /\ o.bytes = d /\ o.synced
      BY <1>2, <2>1 DEF Object
    <3>3. ~Durable(d)
      BY <2>2 DEF Durable
    <3>4. borrowed' = borrowed /\ meddled' = meddled /\ writes' = writes /\ outages' = outages /\ "link" \in SealSteps
      BY <2>1 DEF sealGhost, SealSteps
    <3> HIDE DEF o
    <3> QED BY <2>1, <3>1, <3>2, <3>3, <3>4, ObjectIsPut
  <2>3. CASE objects[d] # NoObject
    <3>1. Gives(s, "verify") /\ UNCHANGED <<source, inodes, objects, results, sealGhost>> /\ "verify" \in SealSteps
      BY <1>9, <2>3 DEF Persist, SealSteps
    <3> QED BY <1>4, <3>1
  <2> QED BY <2>2, <2>3
<1>10. ASSUME NEW s \in Sealers, SyncDirectory(s) PROVE SealIInv'
  <2> DEFINE d == sealer[s].copy
  <2>1. /\ sealer[s].step = "link" /\ sealer' = [sealer EXCEPT ![s].step = "commit"] /\ "commit" \in SealSteps
        /\ source' = source /\ inodes' = inodes /\ results' = results /\ borrowed' = borrowed
        /\ meddled' = meddled /\ writes' = writes /\ outages' = outages
    BY <1>10 DEF SyncDirectory, Gives, sealGhost, SealSteps
  <2>2. d \in Contents /\ objects[d] \in Object \cup {NoObject} /\ (d \notin meddled => objects[d] # NoObject)
    BY <1>1, <1>2, <2>1 DEF SealTyped, SealerKnows
  <2>3. CASE objects[d] = NoObject
    <3> DEFINE w == [sealer[s] EXCEPT !.step = "commit"]
    <3>1. objects' = objects /\ sealer' = [sealer EXCEPT ![s] = w]
      BY <1>10, <2>1, <2>3 DEF SyncDirectory
    <3>2. w \in SealWork /\ w.step = "commit" /\ w.copy = d /\ d \in meddled
      BY <1>2, <2>1, <2>2, <2>3 DEF SealWork
    <3>3. borrowed \subseteq Contents /\ outages' \in 0..MaxOutages
      BY <1>1, <2>1 DEF SealTyped
    <3> HIDE DEF w
    <3> QED BY <1>2, <2>1, <3>1, <3>2, <3>3, SealerMoves
  <2>4. CASE objects[d] # NoObject
    <3> DEFINE o == Linked(objects[d])
    <3>1. objects' = [objects EXCEPT ![d] = o]
      BY <1>10, <2>4 DEF SyncDirectory
    <3>2. o \in Object /\ o.bytes = objects[d].bytes /\ o.synced /\ o.linked
      BY <2>2, <2>4 DEF Linked, Object
    <3>3. (d \notin meddled => objects[d].bytes = d) /\ (Durable(d) => objects[d].bytes = d)
      BY <2>2, <2>4 DEF SealIInv, Whole, Durable
    <3> HIDE DEF o
    <3> QED BY <2>1, <3>1, <3>2, <3>3, ObjectIsPut
  <2> QED BY <2>3, <2>4
<1>11. ASSUME NEW s \in Sealers, VerifyExisting(s) PROVE SealIInv'
  <2> DEFINE d == sealer[s].copy
             w == [sealer[s] EXCEPT !.step = "commit"]
  <2>1. sealer[s].step = "verify" /\ UNCHANGED <<source, inodes, objects, results, meddled, writes, outages>>
    BY <1>11 DEF VerifyExisting
  <2>2. d \in Contents /\ borrowed \subseteq Contents /\ outages' \in 0..MaxOutages
    BY <1>1, <1>2, <2>1 DEF SealTyped
  <2>3. CASE Readable(d)
    <3>1. /\ sealer' = [sealer EXCEPT ![s] = w]
          /\ borrowed' = IF objects[d].linked THEN borrowed ELSE borrowed \cup {d}
      BY <1>11, <2>3 DEF VerifyExisting, Gives
    <3>2. w \in SealWork /\ w.step = "commit" /\ w.copy = d
      BY <1>2 DEF SealWork, SealSteps
    <3>3. d \in borrowed' \cup meddled \/ Durable(d)
      BY <2>3, <3>1 DEF Durable, Readable
    <3>4. borrowed' \subseteq Contents /\ borrowed \subseteq borrowed'
      BY <2>2, <3>1
    <3> HIDE DEF w
    <3> QED BY <1>2, <2>1, <2>2, <3>1, <3>2, <3>3, <3>4, SealerMoves
  <2>4. CASE ~Readable(d)
    <3>1. GivesUp(s) /\ borrowed' = borrowed
      BY <1>11, <2>4 DEF VerifyExisting
    <3> QED BY <1>3, <2>1, <2>2, <3>1
  <2> QED BY <2>3, <2>4
<1>12. ASSUME NEW s \in Sealers, CommitReference(s) PROVE SealIInv'
  <2> DEFINE d == sealer[s].copy
  <2>1. /\ sealer[s].step = "commit" /\ sealer' = [sealer EXCEPT ![s] = AtRest]
        /\ source' = source /\ inodes' = inodes /\ objects' = objects /\ borrowed' = borrowed
        /\ meddled' = meddled /\ writes' = writes /\ outages' = outages
        /\ results' = IF Readable(d) THEN results \cup {d} ELSE results
    BY <1>12 DEF CommitReference, GivesUp, sealGhost
  <2>2. d \in Contents /\ Len(d) <= MaxBytes /\ (d \in borrowed \cup meddled \/ Durable(d))
    BY <1>2, <2>1 DEF SealerKnows
  <2>3. borrowed \subseteq Contents /\ outages' \in 0..MaxOutages
    BY <1>1, <2>1 DEF SealTyped
  <2> HIDE DEF d
  <2>4. \/ results' = results
        \/ \E e \in Contents : /\ results' = results \cup {e} /\ Len(e) <= MaxBytes
                               /\ e \in borrowed' \cup meddled \/ Durable(e)
    BY <2>1, <2>2
  <2>5. AtRest.step \notin {"open", "read", "link", "commit"} /\ Len(AtRest.copy) <= MaxBytes
    BY <1>1
  <2> QED BY <1>1, <2>1, <2>3, <2>4, <2>5, SealerMoves
<1>13. ASSUME NEW s \in Sealers, SealerDies(s) PROVE SealIInv'
  <2>1. outages \in 0..MaxOutages /\ outages < MaxOutages /\ outages' = outages + 1
    BY <1>1, <1>13 DEF SealerDies, SealTyped
  <2>2. outages' \in 0..MaxOutages
    BY <2>1, SealConstants
  <2> QED BY <1>3, <1>13, <2>2 DEF SealerDies
<1>14. ASSUME WorkerWrites \/ WorkerReplaces PROVE SealIInv'
  <2>1. /\ sealer' = sealer /\ objects' = objects /\ results' = results /\ borrowed' = borrowed
        /\ meddled' = meddled /\ outages' = outages /\ writes < MaxWrites /\ writes' = writes + 1
    BY <1>14 DEF WorkerWrites, WorkerReplaces, Write
  <2>2. writes' \in 0..MaxWrites
    BY <1>1, <2>1, SealConstants DEF SealTyped
  <2>3. source' \in [kind : {"file", "link"}, inode : Inodes]
    BY <1>1, <1>14 DEF WorkerWrites, WorkerReplaces, SealTyped
  <2>4. inodes' \in [Inodes -> Contents]
    <3>1. CASE inodes' = inodes
      BY <1>1, <3>1 DEF SealTyped
    <3>2. ASSUME NEW i \in Inodes, NEW b \in Blocks, Len(inodes[i]) <= MaxBytes,
                 inodes' = [inodes EXCEPT ![i] = Append(@, b)]
          PROVE  inodes' \in [Inodes -> Contents]
      <4>1. Append(inodes[i], b) \in Contents
        BY <1>1, <3>2, ContentsGrow DEF SealTyped
      <4> QED BY <1>1, <3>2, <4>1 DEF SealTyped
    <3>3. ASSUME NEW i \in Inodes, NEW b \in Blocks, inodes[i] # <<>>, inodes' = [inodes EXCEPT ![i][1] = b]
          PROVE  inodes' \in [Inodes -> Contents]
      <4>1. inodes[i] \in Seq(Blocks) /\ Len(inodes[i]) <= MaxBytes + 1
        BY <1>1, ContentsAreSequences DEF SealTyped
      <4>a. 1 \in 1..Len(inodes[i])
        BY <3>3, <4>1
      <4>2. [inodes[i] EXCEPT ![1] = b] \in Seq(Blocks) /\ Len([inodes[i] EXCEPT ![1] = b]) = Len(inodes[i])
        BY <4>1, <4>a, ExceptSeq
      <4>3. [inodes[i] EXCEPT ![1] = b] \in Contents
        BY <4>1, <4>2, ContentsAreSequences
      <4> QED BY <1>1, <3>3, <4>3 DEF SealTyped
    <3>4. inodes' = inodes \/ \E i \in Inodes, b \in Blocks :
             \/ Len(inodes[i]) <= MaxBytes /\ inodes' = [inodes EXCEPT ![i] = Append(@, b)]
             \/ inodes[i] # <<>> /\ inodes' = [inodes EXCEPT ![i][1] = b]
      BY <1>14 DEF WorkerWrites, WorkerReplaces, Write
    <3> QED BY <3>1, <3>2, <3>3, <3>4
  <2>5. SealTyped'
    BY <1>1, <2>1, <2>2, <2>3, <2>4 DEF SealTyped
  <2>6. \A d : (Durable(d)' <=> Durable(d)) /\ (Whole(d)' <=> Whole(d))
    BY <2>1 DEF Durable, Whole
  <2>7. \A d \in Contents \ meddled' : Whole(d)' /\ (Durable(d) => Durable(d)')
    BY <2>1, <2>6 DEF SealIInv
  <2>8. \A s \in Sealers : SealerKnows(s)'
    BY <2>1, <2>6, OthersKnow
  <2> QED BY <2>1, <2>5, <2>7, <2>8, SealGoesOn
<1>15. ASSUME PowerLoss PROVE SealIInv'
  <2>1. /\ sealer' = [s \in Sealers |-> AtRest] /\ source' = source /\ inodes' = inodes
        /\ results' = results /\ borrowed' = borrowed /\ meddled' = meddled /\ writes' = writes
        /\ outages < MaxOutages /\ outages' = outages + 1
    BY <1>15 DEF PowerLoss
  <2>2. objects' \in [Contents -> UNION {AfterOutage(objects[d]) : d \in Contents}]
        /\ \A d \in Contents : objects'[d] \in AfterOutage(objects[d])
    BY <1>15 DEF PowerLoss
  <2>3. ASSUME NEW d \in Contents, objects'[d] # NoObject
        PROVE  /\ objects[d] \in Object /\ objects'[d] \in Object /\ objects'[d].synced /\ objects'[d].linked
               /\ objects[d].synced => objects'[d].bytes = objects[d].bytes
    <3>1. objects'[d] \in AfterOutage(objects[d]) /\ objects[d] \in Object \cup {NoObject}
      BY <1>1, <2>2 DEF SealTyped
    <3>2. objects[d] # NoObject
      BY <2>3, <3>1 DEF AfterOutage
    <3>3. objects'[d] = [objects[d] EXCEPT !.bytes = IF objects[d].synced THEN @ ELSE Torn,
                                          !.synced = TRUE, !.linked = TRUE]
      BY <2>3, <3>1, <3>2 DEF AfterOutage
    <3>4. objects[d] \in Object
      BY <3>1, <3>2
    <3> QED BY <3>3, <3>4 DEF Object
  <2>4. \A d \in Contents : objects[d] # NoObject /\ objects[d].linked => objects'[d] # NoObject
    <3> SUFFICES ASSUME NEW d \in Contents, objects[d] # NoObject, objects[d].linked PROVE objects'[d] # NoObject
      OBVIOUS
    <3>1. objects'[d] \in AfterOutage(objects[d]) /\ objects[d] \in Object
      BY <1>1, <2>2 DEF SealTyped
    <3>2. objects'[d] = [objects[d] EXCEPT !.bytes = IF objects[d].synced THEN @ ELSE Torn,
                                          !.synced = TRUE, !.linked = TRUE]
      BY <3>1 DEF AfterOutage
    <3>3. objects'[d] \in Object
      BY <3>1, <3>2 DEF Object
    <3> QED BY <3>3, SealConstants DEF Object
  <2>5. SealTyped'
    <3>1. outages' \in 0..MaxOutages
      BY <1>1, <2>1, SealConstants DEF SealTyped
    <3>2. objects' \in [Contents -> Object \cup {NoObject}]
      BY <2>2, <2>3
    <3>3. sealer' \in [Sealers -> SealWork]
      BY <1>1, <2>1
    <3> QED BY <1>1, <2>1, <3>1, <3>2, <3>3 DEF SealTyped
  <2>6. \A d \in Contents \ meddled' : Whole(d)' /\ (Durable(d) => Durable(d)')
    <3> SUFFICES ASSUME NEW d \in Contents, d \notin meddled PROVE Whole(d)' /\ (Durable(d) => Durable(d)')
      BY <2>1
    <3>1. Whole(d)
      BY DEF SealIInv
    <3>2. objects[d] \in Object => objects[d] # NoObject
      BY SealConstants DEF Object
    <3>3. Whole(d)'
      BY <2>3, <3>1, <3>2 DEF Whole
    <3>4. ASSUME Durable(d) PROVE objects'[d] # NoObject /\ objects'[d].bytes = d /\ objects'[d].linked
      BY <2>3, <2>4, <3>1, <3>4 DEF Whole, Durable
    <3> QED BY <3>3, <3>4 DEF Durable
  <2>7. \A s \in Sealers : SealerKnows(s)'
    BY <1>1, <2>1 DEF SealerKnows
  <2> QED BY <2>1, <2>5, <2>6, <2>7, SealGoesOn
<1>16. ASSUME Meddle PROVE SealIInv'
  <2>1. PICK d \in Contents :
          /\ objects[d] # NoObject
          /\ objects' \in {[objects EXCEPT ![d] = NoObject], [objects EXCEPT ![d].bytes = Torn]}
          /\ meddled' = meddled \cup {d}
    BY <1>16 DEF Meddle
  <2>2. /\ sealer' = sealer /\ source' = source /\ inodes' = inodes
        /\ results' = results /\ borrowed' = borrowed /\ writes' = writes
        /\ outages < MaxOutages /\ outages' = outages + 1
    BY <1>16 DEF Meddle
  <2>3. /\ objects' \in [Contents -> Object \cup {NoObject}]
        /\ \A e \in Contents \ {d} : objects'[e] = objects[e]
    <3>1. objects[d] \in Object
      BY <1>1, <2>1 DEF SealTyped
    <3>2. [objects[d] EXCEPT !.bytes = Torn] \in Object
      BY <3>1 DEF Object
    <3> QED BY <1>1, <2>1, <3>2 DEF SealTyped
  <2>4. SealTyped'
    <3>1. outages' \in 0..MaxOutages
      BY <1>1, <2>2, SealConstants DEF SealTyped
    <3> QED BY <1>1, <2>1, <2>2, <2>3, <3>1 DEF SealTyped
  <2>5. \A e \in Contents \ meddled' : objects'[e] = objects[e] /\ Whole(e)' /\ (Durable(e) => Durable(e)')
    BY <2>1, <2>3 DEF SealIInv, Whole, Durable
  <2>6. \A s \in Sealers : SealerKnows(s)'
    BY <2>1, <2>2, <2>5, OthersKnow
  <2> QED BY <2>1, <2>2, <2>4, <2>5, <2>6, SealGoesOn
<1> QED BY <1>5, <1>6, <1>7, <1>8, <1>9, <1>10, <1>11, <1>12, <1>13, <1>14, <1>15, <1>16 DEF SealNext

\* A step of another part keeps it.
LEMMA SealStutters ==
  ASSUME SealIInv, UNCHANGED sealVars
  PROVE  SealIInv'
<1>1. /\ source' = source /\ inodes' = inodes /\ sealer' = sealer /\ objects' = objects /\ results' = results
      /\ borrowed' = borrowed /\ meddled' = meddled /\ writes' = writes /\ outages' = outages
  BY DEF sealVars, sealGhost
<1>2. SealTyped'
  BY <1>1 DEF SealIInv, SealTyped
<1>3. \A d : (Durable(d)' <=> Durable(d)) /\ (Whole(d)' <=> Whole(d))
  BY <1>1 DEF Durable, Whole
<1>4. \A s \in Sealers : SealerKnows(s)'
  BY <1>1, <1>3, OthersKnow
<1>5. \A d \in Contents \ meddled' : Whole(d)' /\ (Durable(d) => Durable(d)')
  BY <1>1, <1>3 DEF SealIInv
<1> QED BY <1>1, <1>2, <1>4, <1>5, SealGoesOn

\* It holds before anything was sealed.
LEMMA SealStart ==
  ASSUME SealInit
  PROVE  SealIInv
<1>1. inodes \in [Inodes -> Contents]
  <2>1. PICK b \in Blocks : inodes = [i \in Inodes |-> <<b>>]
    BY DEF SealInit
  <2>2. <<b>> \in Seq(Blocks) /\ Len(<<b>>) = 1
    OBVIOUS
  <2>a. 1 <= MaxBytes + 1
    BY SealConstants
  <2>3. <<b>> \in Contents
    BY <2>2, <2>a, ContentsAreSequences
  <2> QED BY <2>1, <2>3
<1>2. SealTyped
  <2>1. writes \in 0..MaxWrites /\ outages \in 0..MaxOutages
    BY SealConstants DEF SealInit
  <2>2. source \in [kind : {"file", "link"}, inode : Inodes]
    BY DEF SealInit, Inodes
  <2>3. sealer \in [Sealers -> SealWork]
    BY RestIsWork DEF SealInit
  <2> QED BY <1>1, <2>1, <2>2, <2>3 DEF SealInit, SealTyped
<1>3. \A s \in Sealers : SealerKnows(s)
  BY RestIsWork, SealConstants DEF SealInit, SealerKnows
<1>4. \A d \in Contents : Whole(d)
  BY DEF SealInit, Whole
<1>5. results = {}
  BY DEF SealInit
<1> QED BY <1>2, <1>3, <1>4, <1>5 DEF SealIInv, ResultsKeepTheLimit

\* It implies what is promised of objects and results.
LEMMA SealPromise ==
  ASSUME SealIInv
  PROVE  SealInv
<1>1. SealTyped /\ MaxBytes \in Nat
  BY SealConstants DEF SealIInv
<1>2. SealTypeOK
  <2>1. \A i \in Inodes : Len(inodes[i]) <= MaxBytes + 1
    BY <1>1, ContentsAreSequences DEF SealTyped
  <2>2. \A s \in Sealers : sealer[s].step \in SealSteps /\ Len(sealer[s].copy) <= MaxBytes + 1
    BY <1>1, ContentsAreSequences DEF SealTyped, SealWork
  <2> QED BY <1>1, <2>1, <2>2 DEF SealTypeOK, SealTyped, SealSteps
<1>3. ObjectsAreWhole /\ ResultsStayReadable
  BY DEF SealIInv, ObjectsAreWhole, ResultsStayReadable, Whole, Durable, Readable
<1> QED BY <1>2, <1>3 DEF SealInv, SealIInv

-----------------------------------------------------------------------------
(* One filer at a time brings back what it learned for the ledger it read.     *)

Samples == {SampleOf(e) : e \in Errors}
Private == {"path", "id", "secret", "email", "label", "quoted"}

\* What an entry may be: it was counted, and has the sample of its first failure.
Entries == [count : Nat, sample : Samples \cup {<<>>}, url : BOOLEAN, commented : Nat]
SoundEntry(entry) ==
    /\ entry.commented <= entry.count
    /\ entry.count > 0 => entry.sample \in Samples
    /\ entry.url => entry.count > 0
    /\ ~entry.url => entry.commented = 0

FilerSteps == {"off", "spawned", "load", "call", "create", "memo"}
FilerWork == [step : FilerSteps, copy : [Classes -> Entries], todo : SUBSET Classes, at : Classes \cup {<<>>}]
RecorderWork == [step : {"idle", "lock", "memo", "spawn"}, error : Errors \cup {<<>>}]
Issues == [issues : 0..2, found : BOOLEAN, comments : Nat]
MemoTyped ==
    /\ ledger \in [Classes -> Entries] /\ failures \in [Classes -> Nat]
    /\ recorder \in [Recorders -> RecorderWork]
    /\ \A r \in Recorders : recorder[r].step = "lock" => recorder[r].error \in Errors
    /\ filer \in [Filers -> FilerWork] /\ github \in [Classes -> Issues]
    /\ ledgerLock \in Recorders \cup Filers \cup {NoProcess}
    /\ reportLock \in Filers \cup {NoProcess}
    /\ reporting \in BOOLEAN /\ unsure \subseteq Classes /\ deaths \in 0..MaxDeaths

EntriesAreSound ==
    \A c \in Classes : SoundEntry(ledger[c]) /\ \A f \in Filers : SoundEntry(filer[f].copy[c])

\* The filer that reads, calls and merges holds the report lock.
AtWork(f) == filer[f].step \in {"load", "call", "create", "memo"}
OneFiler == \A f \in Filers : AtWork(f) => reportLock = f

\* What a filer has read is older than the ledger, and what it adds is what it did.
Brings(old, new) ==
    /\ new.count <= old.count /\ old.commented <= new.commented
    /\ old.url => new.url
    /\ new.url /\ ~old.url => new.commented > old.commented
NoEntries == [c \in Classes |-> NoEntry]
CopyHolds(f) ==
    /\ filer[f].step \in {"off", "spawned", "load"} => filer[f].copy = NoEntries
    /\ filer[f].step \in {"call", "create"} => \A c \in Classes : Brings(ledger[c], filer[f].copy[c])
    /\ filer[f].step = "create" => filer[f].at \in Classes /\ ToFile(filer[f].copy[filer[f].at])
    /\ filer[f].step = "memo" =>
          \A c \in Classes : /\ filer[f].copy[c].url = ledger[c].url
                             /\ filer[f].copy[c].commented = ledger[c].commented

\* A class: its issue is in the ledger, or the filer that made it will say so.
IssueIsKnown(c) ==
    /\ github[c].issues <= 1
    /\ github[c].issues = 0 \/ ledger[c].url \/ \E f \in Filers : filer[f].copy[c].url

\* And it was commented on for the milestones the ledger or this filer knows of.
ReachedAt(n) == {m \in Milestones : m <= n}
CommentsAreDue(c) ==
    \/ github[c].comments <= Cardinality(ReachedAt(ledger[c].commented))
    \/ \E f \in Filers : github[c].comments <= Cardinality(ReachedAt(filer[f].copy[c].commented))

MemoIInv ==
    /\ MemoTyped /\ EntriesAreSound /\ OneFiler /\ CountsAreKept
    /\ \A f \in Filers : CopyHolds(f)
    /\ \A c \in Classes \ unsure : IssueIsKnown(c) /\ CommentsAreDue(c)
    /\ published \cap Private = {}
-----------------------------------------------------------------------------
(* What leaves the machine: an error loses what is private before it does.     *)

Pieces == STRING \cup {"<pane-name>", "<masked>"}

\* The least of a set of places is one of them, and no place is before it.
LEMMA FirstPlace ==
  ASSUME NEW I \in SUBSET Nat, I # {}
  PROVE  Min(I) \in I /\ \A i \in I : Min(I) <= i
<1>1. \E x \in I : \A y \in I : x <= y
  BY LeastNumber
<1> QED BY <1>1 DEF Min

\* The first piece of some kinds is one of these kinds, and none is before it.
LEMMA FirstIs ==
  ASSUME NEW e \in Seq(Pieces), NEW kinds
  PROVE  LET at == FirstOf(e, kinds)
         IN  /\ at \in 0..Len(e)
             /\ at = 0 => \A i \in 1..Len(e) : e[i] \notin kinds
             /\ at # 0 => e[at] \in kinds /\ \A i \in 1..(at - 1) : e[i] \notin kinds
<1> DEFINE I == {i \in 1..Len(e) : e[i] \in kinds}
           at == FirstOf(e, kinds)
<1>1. at = IF I # {} THEN Min(I) ELSE 0
  BY DEF FirstOf, SelectInSeq
<1>2. Len(e) \in Nat /\ I \subseteq 1..Len(e) /\ I \in SUBSET Nat
  OBVIOUS
<1>3. CASE I = {}
  BY <1>1, <1>2, <1>3
<1>4. CASE I # {}
  <2>1. at = Min(I)
    BY <1>1, <1>4
  <2> HIDE DEF at
  <2>2. at \in I /\ \A i \in I : at <= i
    <3> HIDE DEF I
    <3> QED BY <1>2, <1>4, <2>1, FirstPlace
  <2>3. at \in 1..Len(e) /\ e[at] \in kinds
    BY <2>2
  <2>4. \A i \in 1..(at - 1) : i \in 1..Len(e) /\ ~(at <= i)
    BY <1>2, <2>3
  <2>5. \A i \in 1..(at - 1) : e[i] \notin kinds
    BY <2>2, <2>4
  <2> USE DEF at
  <2> QED BY <1>2, <2>3, <2>5
<1> QED BY <1>3, <1>4

\* What is cut off begins at the first of some kinds.
LEMMA CutIsPrefix ==
  ASSUME NEW e \in Seq(Pieces), NEW kinds
  PROVE  LET at == FirstOf(e, kinds)
             n == IF at = 0 THEN Len(e) ELSE at - 1
             cut == IF at = 0 THEN e ELSE SubSeq(e, 1, at - 1)
         IN  /\ cut \in Seq(Pieces) /\ Len(cut) = n /\ n \in 0..Len(e)
             /\ \A i \in 1..n : cut[i] = e[i] /\ e[i] \notin kinds
             /\ e # <<>> /\ e[1] \notin kinds => n >= 1
<1> DEFINE at == FirstOf(e, kinds)
           n == IF at = 0 THEN Len(e) ELSE at - 1
           cut == IF at = 0 THEN e ELSE SubSeq(e, 1, at - 1)
<1>1. /\ at \in 0..Len(e) /\ Len(e) \in Nat
      /\ at = 0 => \A i \in 1..Len(e) : e[i] \notin kinds
      /\ at # 0 => e[at] \in kinds /\ \A i \in 1..(at - 1) : e[i] \notin kinds
  BY FirstIs
<1>2. e # <<>> => Len(e) >= 1
  OBVIOUS
<1> HIDE DEF at
<1>3. CASE at = 0
  <2>1. n = Len(e) /\ cut = e
    BY <1>3
  <2> HIDE DEF n, cut
  <2> QED BY <1>1, <1>2, <1>3, <2>1 DEF n, cut, at
<1>4. CASE at # 0
  <2>1. at - 1 \in 0..Len(e) /\ n = at - 1 /\ cut = SubSeq(e, 1, at - 1)
    BY <1>1, <1>4
  <2>2. cut \in Seq(Pieces) /\ Len(cut) = at - 1 /\ \A i \in 1..(at - 1) : cut[i] = e[i]
    BY <1>1, <2>1
  <2> HIDE DEF n, cut
  <2>3. at = 1 => e[1] \in kinds
    BY <1>1, <1>4
  <2>4. e # <<>> /\ e[1] \notin kinds => n >= 1
    BY <1>1, <1>4, <2>1, <2>3
  <2>5. \A i \in 1..n : cut[i] = e[i] /\ e[i] \notin kinds
    BY <1>1, <1>4, <2>1, <2>2
  <2>6. cut \in Seq(Pieces) /\ Len(cut) = n /\ n \in 0..Len(e)
    BY <2>1, <2>2
  <2> QED BY <2>4, <2>5, <2>6 DEF n, cut, at
<1> USE DEF at
<1> QED BY <1>3, <1>4

\* The place of a piece that may be quoted: behind a marker, as in every error.
Marked(e, i) ==
    \E j \in 1..(i - 1) :
       \/ e[j] \in Quotes
       \/ e[j] = "colon" /\ \E k \in 1..j : e[k] = "unknown screen"

\* An error without its free text is the first of its pieces, none of them behind a marker.
LEMMA FreeTextIsCut ==
  ASSUME NEW e \in Seq(Pieces)
  PROVE  LET text == WithoutFreeText(e)
         IN  /\ text \in Seq(Pieces) /\ Len(text) <= Len(e)
             /\ \A i \in 1..Len(text) : text[i] = e[i] /\ ~Marked(e, i)
             /\ e # <<>> /\ e[1] \notin Quotes => text # <<>>
<1> DEFINE cut == BeforeQuotes(e)
           Screens == {"unknown screen"}
           screen == FirstOf(cut, Screens)
           E == {i \in screen..Len(cut) : cut[i] = "colon"}
           end == SelectInSubSeq(cut, screen, Len(cut), LAMBDA p : p = "colon")
           text == WithoutFreeText(e)
<1>1. /\ cut \in Seq(Pieces) /\ Len(cut) \in 0..Len(e) /\ Len(e) \in Nat /\ Len(cut) \in Nat
      /\ \A i \in 1..Len(cut) : cut[i] = e[i] /\ e[i] \notin Quotes
      /\ e # <<>> /\ e[1] \notin Quotes => Len(cut) >= 1
  BY CutIsPrefix DEF BeforeQuotes
<1>2. end = IF E # {} THEN Min(E) ELSE 0
  BY DEF SelectInSubSeq
<1>3. text = IF screen = 0 \/ end = 0 THEN cut ELSE SubSeq(cut, 1, end - 1)
  BY DEF WithoutFreeText
<1> HIDE DEF cut, text
<1>4. /\ screen \in 0..Len(cut) /\ screen \in Nat
      /\ screen = 0 => \A i \in 1..Len(cut) : cut[i] \notin Screens
      /\ screen # 0 => /\ cut[screen] \in Screens
                       /\ \A i \in 1..(screen - 1) : cut[i] \notin Screens
  <2> HIDE DEF E, Screens, end
  <2>1. screen \in 0..Len(cut) => screen \in Nat
    BY <1>1
  <2> QED BY <1>1, <2>1, FirstIs
<1>9. \A i \in E : i \in screen..Len(cut) /\ cut[i] = "colon"
  OBVIOUS
<1>10. E = {} => \A i \in screen..Len(cut) : cut[i] # "colon"
  OBVIOUS
<1>11. \A p : p = "unknown screen" <=> p \in Screens
  OBVIOUS
<1> HIDE DEF screen, end, E, Screens
<1>5. \A i \in 1..Len(cut) : Marked(e, i) =>
         \E j \in 1..(i - 1) : cut[j] = "colon" /\ \E k \in 1..j : cut[k] \in Screens
  <2> SUFFICES ASSUME NEW i \in 1..Len(cut), Marked(e, i)
               PROVE  \E j \in 1..(i - 1) : cut[j] = "colon" /\ \E k \in 1..j : cut[k] \in Screens
    OBVIOUS
  <2>1. PICK j \in 1..(i - 1) : \/ e[j] \in Quotes
                                \/ e[j] = "colon" /\ \E k \in 1..j : e[k] = "unknown screen"
    BY DEF Marked
  <2>2. j \in 1..Len(cut) /\ \A k \in 1..j : k \in 1..Len(cut)
    BY <1>1
  <2>3. e[j] = "colon" /\ \E k \in 1..j : e[k] = "unknown screen"
    BY <1>1, <2>1, <2>2
  <2>4. PICK k \in 1..j : e[k] \in Screens
    BY <1>11, <2>3
  <2>5. cut[k] \in Screens /\ cut[j] = "colon"
    BY <1>1, <2>2, <2>3, <2>4
  <2> QED BY <2>5
<1>6. CASE screen = 0
  <2>1. text = cut
    BY <1>3, <1>6
  <2>2. \A i \in 1..Len(cut) : ~Marked(e, i)
    <3> SUFFICES ASSUME NEW i \in 1..Len(cut), Marked(e, i) PROVE FALSE
      OBVIOUS
    <3>1. PICK j \in 1..(i - 1) : \E k \in 1..j : cut[k] \in Screens
      BY <1>5
    <3>2. \A k \in 1..j : k \in 1..Len(cut)
      BY <1>1
    <3> QED BY <1>4, <1>6, <3>1, <3>2
  <2>3. e # <<>> /\ e[1] \notin Quotes => cut # <<>>
    BY <1>1
  <2> QED BY <1>1, <2>1, <2>2, <2>3 DEF text
<1>7. CASE screen # 0 /\ E = {}
  <2>1. text = cut
    BY <1>2, <1>3, <1>7
  <2>2. \A i \in 1..Len(cut) : ~Marked(e, i)
    <3> SUFFICES ASSUME NEW i \in 1..Len(cut), Marked(e, i) PROVE FALSE
      OBVIOUS
    <3>1. PICK j \in 1..(i - 1) : cut[j] = "colon" /\ \E k \in 1..j : cut[k] \in Screens
      BY <1>5
    <3>2. PICK k \in 1..j : cut[k] \in Screens
      BY <3>1
    <3>3. ~(k < screen)
      <4> SUFFICES ASSUME k < screen PROVE FALSE
        OBVIOUS
      <4>1. k \in 1..(screen - 1)
        BY <1>4
      <4> QED BY <1>4, <1>7, <3>2, <4>1
    <3>4. j \in screen..Len(cut)
      BY <1>1, <1>4, <3>3
    <3> QED BY <1>7, <1>10, <3>1, <3>4
  <2>3. e # <<>> /\ e[1] \notin Quotes => cut # <<>>
    BY <1>1
  <2> QED BY <1>1, <2>1, <2>2, <2>3 DEF text
<1>8. CASE screen # 0 /\ E # {}
  <2>1. E \in SUBSET Nat
    <3>1. \A i \in screen..Len(cut) : i \in Nat
      BY <1>1, <1>4
    <3> QED BY <1>9, <3>1
  <2>2. end \in E /\ \A i \in E : end <= i
    <3>1. end = Min(E)
      BY <1>2, <1>8
    <3> QED BY <1>8, <2>1, <3>1, FirstPlace
  <2>3. end \in screen..Len(cut) /\ cut[end] = "colon"
    BY <1>9, <2>2
  <2>4. end # screen
    <3>1. cut[screen] = "unknown screen"
      BY <1>4, <1>8, <1>11
    <3> QED BY <2>3, <3>1
  <2>5. end - 1 \in 1..Len(cut) /\ end # 0 /\ end \in 1..Len(cut)
    <3>1. end \in screen..Len(cut)
      BY <2>3
    <3> QED BY <1>1, <1>4, <1>8, <2>4, <3>1
  <2>6. text = SubSeq(cut, 1, end - 1)
    BY <1>3, <1>8, <2>5
  <2>7. text \in Seq(Pieces) /\ Len(text) = end - 1 /\ \A i \in 1..(end - 1) : text[i] = cut[i]
    BY <1>1, <2>5, <2>6
  <2>8. \A i \in 1..(end - 1) : i \in 1..Len(cut) /\ ~Marked(e, i)
    <3> SUFFICES ASSUME NEW i \in 1..(end - 1) PROVE i \in 1..Len(cut) /\ ~Marked(e, i)
      OBVIOUS
    <3>1. i \in 1..Len(cut)
      BY <1>1, <2>5
    <3> SUFFICES ASSUME Marked(e, i) PROVE FALSE
      BY <3>1
    <3>2. PICK j \in 1..(i - 1) : cut[j] = "colon" /\ \E k \in 1..j : cut[k] \in Screens
      BY <1>5, <3>1
    <3>3. PICK k \in 1..j : cut[k] \in Screens
      BY <3>2
    <3>4. ~(k < screen)
      <4> SUFFICES ASSUME k < screen PROVE FALSE
        OBVIOUS
      <4>1. k \in 1..(screen - 1)
        BY <1>4
      <4> QED BY <1>4, <1>8, <3>3, <4>1
    <3>5. j \in screen..Len(cut) /\ ~(end <= j)
      BY <1>1, <1>4, <2>5, <3>1, <3>4
    <3>6. j \in E
      BY <3>2, <3>5 DEF E
    <3> QED BY <2>2, <3>5, <3>6
  <2>9. Len(text) >= 1 /\ Len(text) <= Len(e)
    BY <1>1, <2>5, <2>7
  <2>10. text # <<>>
    BY <2>9
  <2> QED BY <1>1, <2>7, <2>8, <2>9, <2>10 DEF text
<1> QED BY <1>6, <1>7, <1>8 DEF text
\* Masking keeps every place and changes the pieces of the masked kinds only.
LEMMA MaskIs ==
  ASSUME NEW e \in Seq(Pieces), NEW kinds
  PROVE  LET m == Mask(e, kinds)
         IN  /\ m \in Seq(Pieces) /\ Len(m) = Len(e)
             /\ \A i \in 1..Len(e) : m[i] = IF e[i] \in kinds THEN "<masked>" ELSE e[i]
<1> DEFINE m == Mask(e, kinds)
<1>1. Len(e) \in Nat /\ DOMAIN e = 1..Len(e) /\ \A i \in 1..Len(e) : e[i] \in Pieces
  OBVIOUS
<1>2. "<masked>" \in Pieces
  BY DEF Pieces
<1>3. m = [i \in 1..Len(e) |-> IF e[i] \in kinds THEN "<masked>" ELSE e[i]]
  BY <1>1 DEF Mask
<1> HIDE DEF m
<1>4. \A i \in 1..Len(e) : m[i] = IF e[i] \in kinds THEN "<masked>" ELSE e[i]
  BY <1>3
<1>5. \A i \in 1..Len(e) : m[i] \in Pieces
  BY <1>1, <1>2, <1>4
<1>6. m \in [1..Len(e) -> Pieces]
  BY <1>3, <1>5
<1>7. m \in Seq(Pieces) /\ Len(m) = Len(e)
  BY <1>1, <1>6
<1> QED BY <1>4, <1>7 DEF m

\* Without the pane's name an error is quoted where it was, and begins as it did.
LEMMA UnlabelledIs ==
  ASSUME NEW e \in Errors
  PROVE  LET u == Unlabelled(e)
         IN  /\ u \in Seq(Pieces) /\ u # <<>> /\ u[1] \notin Quotes
             /\ \A i \in 1..Len(u) : u[i] # "label" /\ (u[i] = "quoted" => Marked(u, i))
<1> DEFINE u == Unlabelled(e)
<1>1. /\ e \in Seq(STRING) /\ e # <<>> /\ e[1] \notin Quotes
      /\ \A i \in DOMAIN e : e[i] = "quoted" => Marked(e, i)
  BY MemoConstants DEF Marked
<1>2. Len(e) \in Nat /\ DOMAIN e = 1..Len(e) /\ Len(e) >= 1 /\ \A i \in 1..Len(e) : e[i] \in STRING
  BY <1>1
<1>3. u = [i \in 1..Len(e) |-> IF e[i] = "label" THEN "<pane-name>" ELSE e[i]]
  BY <1>2 DEF Unlabelled
<1> HIDE DEF u
<1>4. \A i \in 1..Len(e) : u[i] = IF e[i] = "label" THEN "<pane-name>" ELSE e[i]
  BY <1>3
<1>5. \A i \in 1..Len(e) : u[i] \in Pieces
  BY <1>2, <1>4 DEF Pieces
<1>6. u \in [1..Len(e) -> Pieces]
  BY <1>3, <1>5
<1>7. u \in Seq(Pieces) /\ Len(u) = Len(e) /\ u # <<>> /\ 1 \in 1..Len(e)
  BY <1>2, <1>6
<1>8. \A i \in 1..Len(e) : u[i] # "label" /\ (e[i] # "label" => u[i] = e[i])
  BY <1>4
<1>9. u[1] \notin Quotes
  BY <1>1, <1>4, <1>7 DEF Quotes
<1>10. ASSUME NEW i \in 1..Len(e), u[i] = "quoted" PROVE Marked(u, i)
  <2>1. e[i] = "quoted"
    BY <1>4, <1>10
  <2>2. PICK j \in 1..(i - 1) : \/ e[j] \in Quotes
                                \/ e[j] = "colon" /\ \E k \in 1..j : e[k] = "unknown screen"
    BY <1>1, <1>2, <2>1 DEF Marked
  <2>3. j \in 1..Len(e) /\ \A k \in 1..j : k \in 1..Len(e)
    BY <1>2
  <2>4. e[j] \in Quotes => u[j] \in Quotes
    BY <1>4, <2>3 DEF Quotes
  <2>5. e[j] = "colon" => u[j] = "colon"
    BY <1>4, <2>3
  <2>6. \A k \in 1..j : e[k] = "unknown screen" => u[k] = "unknown screen"
    BY <1>4, <2>3
  <2> QED BY <2>2, <2>4, <2>5, <2>6 DEF Marked
<1> QED BY <1>7, <1>8, <1>9, <1>10 DEF u

\* A sample says something and holds nothing private.
LEMMA SampleIsClean ==
  ASSUME NEW e \in Errors
  PROVE  SampleOf(e) # <<>> /\ \A i \in DOMAIN SampleOf(e) : SampleOf(e)[i] \notin Private
<1> DEFINE u == Unlabelled(e)
           text == WithoutFreeText(u)
           secrets == {"path"} \cup MaskedSecrets
           s == Mask(text, secrets)
<1>1. /\ u \in Seq(Pieces) /\ u # <<>> /\ u[1] \notin Quotes
      /\ \A i \in 1..Len(u) : u[i] # "label" /\ (u[i] = "quoted" => Marked(u, i))
  BY UnlabelledIs
<1>2. SampleOf(e) = s
  BY DEF SampleOf, Redact
<1> HIDE DEF u
<1>3. /\ text \in Seq(Pieces) /\ Len(text) <= Len(u) /\ text # <<>>
      /\ \A i \in 1..Len(text) : text[i] = u[i] /\ ~Marked(u, i)
  BY <1>1, FreeTextIsCut
<1> HIDE DEF text, secrets
<1>4. /\ s \in Seq(Pieces) /\ Len(s) = Len(text)
      /\ \A i \in 1..Len(text) : s[i] = IF text[i] \in secrets THEN "<masked>" ELSE text[i]
  BY <1>3, MaskIs
<1> HIDE DEF s
<1>5. \A i \in 1..Len(text) : i \in 1..Len(u)
  BY <1>1, <1>3
<1>6. \A i \in 1..Len(text) : text[i] # "label" /\ text[i] # "quoted"
  BY <1>1, <1>3, <1>5
<1>7. \A i \in 1..Len(text) : s[i] \notin Private
  BY <1>4, <1>6 DEF secrets, MaskedSecrets, Private
<1>8. DOMAIN s = 1..Len(text) /\ s # <<>>
  BY <1>3, <1>4
<1> QED BY <1>2, <1>7, <1>8

\* A class holds nothing that was quoted, and not the pane's name.
LEMMA ClassIsClean ==
  ASSUME NEW e \in Errors
  PROVE  /\ ClassOf(e) \in Seq(Pieces)
         /\ \A i \in 1..Len(ClassOf(e)) : ClassOf(e)[i] \notin {"label", "quoted"}
<1> DEFINE u == Unlabelled(e)
           bar == FirstOf(u, {"bar"})
           head == IF bar = 0 THEN u ELSE SubSeq(u, 1, bar - 1)
           text == WithoutFreeText(head)
           kinds == {"path", "id", "pane", "hex", "count"}
           c == Mask(text, kinds)
<1>1. /\ u \in Seq(Pieces)
      /\ \A i \in 1..Len(u) : u[i] # "label" /\ (u[i] = "quoted" => Marked(u, i))
  BY UnlabelledIs
<1>2. ClassOf(e) = c
  BY DEF ClassOf, Classify
<1> HIDE DEF u
<1>3. /\ head \in Seq(Pieces) /\ Len(head) \in 0..Len(u)
      /\ \A i \in 1..Len(head) : head[i] = u[i]
  BY <1>1, CutIsPrefix
<1> HIDE DEF bar, head
<1>4. /\ text \in Seq(Pieces) /\ Len(text) <= Len(head)
      /\ \A i \in 1..Len(text) : text[i] = head[i] /\ ~Marked(head, i)
  BY <1>3, FreeTextIsCut
<1> HIDE DEF text, kinds
<1>5. /\ c \in Seq(Pieces) /\ Len(c) = Len(text)
      /\ \A i \in 1..Len(text) : c[i] = IF text[i] \in kinds THEN "<masked>" ELSE text[i]
  BY <1>4, MaskIs
<1> HIDE DEF c
<1>6. /\ \A i \in 1..Len(text) : i \in 1..Len(head) /\ i \in 1..Len(u)
      /\ \A i \in 1..Len(text) : \A j \in 1..(i - 1) : j \in 1..Len(head) /\ \A k \in 1..j : k \in 1..Len(head)
  BY <1>1, <1>3, <1>4
<1>7. ASSUME NEW i \in 1..Len(text), Marked(u, i) PROVE Marked(head, i)
  <2>1. PICK j \in 1..(i - 1) : \/ u[j] \in Quotes
                                \/ u[j] = "colon" /\ \E k \in 1..j : u[k] = "unknown screen"
    BY <1>7 DEF Marked
  <2>2. u[j] = head[j] /\ \A k \in 1..j : u[k] = head[k]
    BY <1>3, <1>6
  <2> QED BY <2>1, <2>2 DEF Marked
<1>8. \A i \in 1..Len(text) : text[i] = u[i] /\ text[i] # "label" /\ text[i] # "quoted"
  BY <1>1, <1>3, <1>4, <1>6, <1>7
<1>9. \A i \in 1..Len(text) : c[i] \notin {"label", "quoted"}
  BY <1>5, <1>8
<1> QED BY <1>2, <1>5, <1>9

\* What an issue says is redacted.
LEMMA IssueTextIsClean ==
  ASSUME NEW c \in Classes, NEW entry, entry.sample \in Samples \cup {<<>>}
  PROVE  IssueText(c, entry) \cap Private = {}
<1>1. c \in Seq(Pieces) /\ \A i \in 1..Len(c) : c[i] \notin {"label", "quoted"}
  BY ClassIsClean DEF Classes
<1> DEFINE text == WithoutFreeText(c)
           secrets == {"path"} \cup MaskedSecrets
           s == Mask(text, secrets)
<1>2. /\ text \in Seq(Pieces) /\ Len(text) <= Len(c)
      /\ \A i \in 1..Len(text) : text[i] = c[i]
  BY <1>1, FreeTextIsCut
<1>3. Redact(c) = s
  BY DEF Redact
<1> HIDE DEF text, secrets
<1>4. /\ s \in Seq(Pieces) /\ Len(s) = Len(text)
      /\ \A i \in 1..Len(text) : s[i] = IF text[i] \in secrets THEN "<masked>" ELSE text[i]
  BY <1>2, MaskIs
<1> HIDE DEF s
<1>5. \A i \in 1..Len(text) : i \in 1..Len(c)
  BY <1>1, <1>2
<1>6. \A i \in 1..Len(text) : text[i] # "label" /\ text[i] # "quoted"
  BY <1>1, <1>2, <1>5
<1>7. \A i \in 1..Len(text) : s[i] \notin Private
  BY <1>4, <1>6 DEF secrets, MaskedSecrets, Private
<1>8. DOMAIN s = 1..Len(text)
  BY <1>4
<1>9. \A i \in DOMAIN entry.sample : entry.sample[i] \notin Private
  <2>1. CASE entry.sample = <<>>
    BY <2>1
  <2>2. CASE entry.sample \in Samples
    <3>1. PICK e \in Errors : entry.sample = SampleOf(e)
      BY <2>2 DEF Samples
    <3> QED BY <3>1, SampleIsClean
  <2> QED BY <2>1, <2>2
<1>10. ToSet(Redact(c)) \cap Private = {} /\ ToSet(entry.sample) \cap Private = {}
  BY <1>3, <1>7, <1>8, <1>9 DEF ToSet
<1> QED BY <1>10 DEF IssueText
-----------------------------------------------------------------------------
(* Steps of the recorders, of GitHub and of the owner.                         *)

\* More milestones are reached at a higher count.
LEMMA DueGrows ==
  ASSUME NEW m \in Nat, NEW n \in Nat, m <= n
  PROVE  /\ Cardinality(ReachedAt(m)) \in Nat /\ Cardinality(ReachedAt(n)) \in Nat
         /\ Cardinality(ReachedAt(m)) <= Cardinality(ReachedAt(n))
         /\ (\E k \in Milestones : m < k /\ k <= n) => Cardinality(ReachedAt(m)) + 1 <= Cardinality(ReachedAt(n))
<1>1. IsFiniteSet(Milestones) /\ Milestones \subseteq Nat
  BY MemoConstants
<1>2. ReachedAt(m) \subseteq ReachedAt(n) /\ ReachedAt(n) \subseteq Milestones
  <2>1. \A k \in Milestones : k <= m => k <= n
    BY <1>1
  <2> QED BY <2>1 DEF ReachedAt
<1>3. IsFiniteSet(ReachedAt(n)) /\ IsFiniteSet(ReachedAt(m))
  BY <1>1, <1>2, FS_Subset
<1>4. /\ Cardinality(ReachedAt(m)) \in Nat /\ Cardinality(ReachedAt(n)) \in Nat
      /\ Cardinality(ReachedAt(m)) <= Cardinality(ReachedAt(n))
      /\ Cardinality(ReachedAt(m)) = Cardinality(ReachedAt(n)) => ReachedAt(m) = ReachedAt(n)
  BY <1>2, <1>3, FS_Subset, FS_CardinalityType
<1>5. (\E k \in Milestones : m < k /\ k <= n) => ReachedAt(m) # ReachedAt(n)
  BY <1>1 DEF ReachedAt
<1> QED BY <1>4, <1>5

\* What is in an entry.
LEMMA EntryFields ==
  ASSUME MemoTyped
  PROVE  /\ \A c \in Classes : ledger[c] \in Entries /\ failures[c] \in Nat /\ github[c] \in Issues
         /\ \A f \in Filers : filer[f] \in FilerWork /\ \A c \in Classes : filer[f].copy[c] \in Entries
         /\ \A e \in Entries : /\ e.count \in Nat /\ e.commented \in Nat /\ e.url \in BOOLEAN
                               /\ e.sample \in Samples \cup {<<>>}
         /\ \A i \in Issues : i.issues \in 0..2 /\ i.found \in BOOLEAN /\ i.comments \in Nat
<1>1. /\ \A e \in Entries : /\ e.count \in Nat /\ e.commented \in Nat /\ e.url \in BOOLEAN
                            /\ e.sample \in Samples \cup {<<>>}
      /\ \A i \in Issues : i.issues \in 0..2 /\ i.found \in BOOLEAN /\ i.comments \in Nat
  BY DEF Entries, Issues
<1>2. \A c \in Classes : ledger[c] \in Entries /\ failures[c] \in Nat /\ github[c] \in Issues
  BY DEF MemoTyped
<1>3. \A f \in Filers : filer[f] \in FilerWork
  BY DEF MemoTyped
<1>4. \A f \in Filers : filer[f].copy \in [Classes -> Entries]
  BY <1>3 DEF FilerWork
<1>5. \A f \in Filers : \A c \in Classes : filer[f].copy[c] \in Entries
  BY <1>4
<1> QED BY <1>1, <1>2, <1>3, <1>5

\* An entry of nothing.
LEMMA NoEntryIs ==
  /\ NoEntry \in Entries /\ SoundEntry(NoEntry) /\ NoEntries \in [Classes -> Entries]
  /\ NoEntry.count = 0 /\ ~NoEntry.url /\ NoEntry.commented = 0
  /\ \A c \in Classes : NoEntries[c] = NoEntry
  /\ Off \in FilerWork /\ Off.step = "off" /\ Off.copy = NoEntries
<1>1. NoEntry \in Entries /\ NoEntry.count = 0 /\ ~NoEntry.url /\ NoEntry.commented = 0
  BY DEF NoEntry, Entries
<1>2. NoEntries \in [Classes -> Entries] /\ \A c \in Classes : NoEntries[c] = NoEntry
  BY <1>1 DEF NoEntries
<1>3. Off = [step |-> "off", copy |-> NoEntries, todo |-> {}, at |-> <<>>]
  BY DEF Off, NoEntries
<1>4. Off \in FilerWork /\ Off.step = "off" /\ Off.copy = NoEntries
  BY <1>2, <1>3 DEF FilerWork, FilerSteps
<1>5. SoundEntry(NoEntry)
  BY <1>1 DEF SoundEntry
<1> QED BY <1>1, <1>2, <1>4, <1>5

\* The step of a recorder that only moves it on.
LEMMA RecorderMoves ==
  ASSUME MemoIInv, NEW r \in Recorders, NEW w \in RecorderWork, recorder' = [recorder EXCEPT ![r] = w],
         w.step = "lock" => w.error \in Errors,
         ledgerLock' \in Recorders \cup Filers \cup {NoProcess}, deaths' \in 0..MaxDeaths,
         UNCHANGED <<ledger, filer, reportLock, reporting, github, published, failures, unsure>>
  PROVE  MemoIInv'
<1>1. MemoTyped
  BY DEF MemoIInv
<1>2. recorder' \in [Recorders -> RecorderWork]
  BY <1>1 DEF MemoTyped
<1>3. \A q \in Recorders : recorder'[q].step = "lock" => recorder'[q].error \in Errors
  BY <1>1 DEF MemoTyped
<1>4. MemoTyped'
  BY <1>1, <1>2, <1>3 DEF MemoTyped
<1>5. \A c : (IssueIsKnown(c) <=> IssueIsKnown(c)') /\ (CommentsAreDue(c) <=> CommentsAreDue(c)')
  BY DEF IssueIsKnown, CommentsAreDue
<1>6. \A f : CopyHolds(f) <=> CopyHolds(f)'
  BY DEF CopyHolds
<1> QED BY <1>4, <1>5, <1>6 DEF MemoIInv, EntriesAreSound, OneFiler, AtWork, CountsAreKept

\* A failure counts in its class, and nothing else of it changes.
LEMMA CountFailureKeeps ==
  ASSUME MemoIInv, NEW r \in Recorders, CountFailure(r)
  PROVE  MemoIInv'
<1> DEFINE e == recorder[r].error
           c == ClassOf(e)
<1>1. MemoTyped
  BY DEF MemoIInv
<1>2. e \in Errors /\ c \in Classes
  BY <1>1 DEF CountFailure, MemoTyped, Classes
<1>3. /\ ledger' = [ledger EXCEPT ![c] = Counted(ledger[c], e)] /\ failures' = [failures EXCEPT ![c] = @ + 1]
      /\ recorder' = [recorder EXCEPT ![r].step = "memo"] /\ ledgerLock' = r
      /\ UNCHANGED <<memo, filer, reportLock, reporting, github, published, seen, unsure, deaths>>
  BY DEF CountFailure
<1> HIDE DEF e, c
<1>4. /\ \A d \in Classes : ledger[d] \in Entries /\ failures[d] \in Nat
      /\ ledger[c].count \in Nat /\ ledger[c].commented \in Nat /\ ledger[c].url \in BOOLEAN
      /\ ledger[c].sample \in Samples \cup {<<>>}
  BY <1>1, <1>2, EntryFields
<1> DEFINE new == Counted(ledger[c], e)
<1>5. /\ new \in Entries /\ new.count = ledger[c].count + 1 /\ new.commented = ledger[c].commented
      /\ new.url = ledger[c].url
      /\ new.sample = IF ledger[c].count = 0 THEN SampleOf(e) ELSE ledger[c].sample
  <2>1. SampleOf(e) \in Samples
    BY <1>2 DEF Samples
  <2>2. new = [count |-> ledger[c].count + 1, url |-> ledger[c].url, commented |-> ledger[c].commented,
               sample |-> IF ledger[c].count = 0 THEN SampleOf(e) ELSE ledger[c].sample]
    <3> DEFINE s == IF ledger[c].count = 0 THEN SampleOf(e) ELSE ledger[c].sample
    <3>1. ledger[c] \in Entries
      BY <1>2, <1>4
    <3>2. new = [ledger[c] EXCEPT !.count = @ + 1, !.sample = s]
      BY <3>1 DEF Counted, Entries
    <3> HIDE DEF s, new
    <3>3. new = [count |-> ledger[c].count + 1, url |-> ledger[c].url,
                 commented |-> ledger[c].commented, sample |-> s]
      BY <3>1, <3>2 DEF Entries
    <3> QED BY <3>3 DEF s
  <2> QED BY <1>4, <2>1, <2>2 DEF Entries
<1>6. ledger'[c] = new /\ \A d \in Classes : d # c => ledger'[d] = ledger[d]
  BY <1>1, <1>2, <1>3 DEF MemoTyped
<1> HIDE DEF new
<1>7. \A d \in Classes : /\ ledger'[d].url = ledger[d].url /\ ledger'[d].commented = ledger[d].commented
                         /\ ledger[d].count <= ledger'[d].count
  BY <1>4, <1>5, <1>6, EntryFields, <1>1
<1>8. MemoTyped'
  <2>1. ledger' \in [Classes -> Entries] /\ failures' \in [Classes -> Nat]
    BY <1>1, <1>2, <1>3, <1>4, <1>5 DEF MemoTyped, new
  <2>2. recorder[r] \in RecorderWork /\ recorder' = [recorder EXCEPT ![r] = [recorder[r] EXCEPT !.step = "memo"]]
    BY <1>1, <1>3 DEF MemoTyped
  <2>3. [recorder[r] EXCEPT !.step = "memo"] \in RecorderWork /\ [recorder[r] EXCEPT !.step = "memo"].step = "memo"
    BY <2>2 DEF RecorderWork
  <2>4. recorder' \in [Recorders -> RecorderWork]
    BY <1>1, <2>2, <2>3 DEF MemoTyped
  <2>5. \A q \in Recorders : recorder'[q].step = "lock" => recorder'[q].error \in Errors
    BY <1>1, <2>2, <2>3 DEF MemoTyped
  <2> QED BY <1>1, <1>3, <2>1, <2>4, <2>5 DEF MemoTyped
<1>9. EntriesAreSound'
  <2>1. SoundEntry(ledger[c]) /\ ledger[c].count >= 0
    BY <1>2, <1>4 DEF MemoIInv, EntriesAreSound
  <2>2. new.count > 0 /\ new.commented <= new.count /\ (~new.url => new.commented = 0)
    BY <1>4, <1>5, <2>1 DEF SoundEntry
  <2>3. new.sample \in Samples
    BY <1>2, <1>4, <1>5, <2>1 DEF SoundEntry, Samples
  <2>4. SoundEntry(new)
    BY <2>2, <2>3 DEF SoundEntry
  <2> QED BY <1>3, <1>6, <2>4 DEF MemoIInv, EntriesAreSound
<1>10. CountsAreKept'
  BY <1>1, <1>2, <1>3, <1>4, <1>5, <1>6 DEF MemoIInv, CountsAreKept, MemoTyped
<1>11. ASSUME NEW f \in Filers PROVE CopyHolds(f)'
  <2>1. CopyHolds(f)
    BY DEF MemoIInv
  <2>2. \A d \in Classes : Brings(ledger[d], filer[f].copy[d]) => Brings(ledger'[d], filer[f].copy[d])
    <3>1. \A d \in Classes : ledger'[d].count \in Nat /\ ledger[d].count \in Nat /\ filer[f].copy[d].count \in Nat
      BY <1>1, <1>4, <1>5, <1>6, EntryFields
    <3> QED BY <1>7, <3>1 DEF Brings
  <2> QED BY <1>3, <1>7, <2>1, <2>2 DEF CopyHolds
<1>12. \A d \in Classes : (IssueIsKnown(d) => IssueIsKnown(d)') /\ (CommentsAreDue(d) => CommentsAreDue(d)')
  BY <1>3, <1>7 DEF IssueIsKnown, CommentsAreDue
<1> QED BY <1>3, <1>8, <1>9, <1>10, <1>11, <1>12 DEF MemoIInv, OneFiler, AtWork

\* GitHub's index and the owner's switch touch no entry.
LEMMA OutsideKeeps ==
  ASSUME MemoIInv, IssueIsFound \/ SwitchReportingOff
  PROVE  MemoIInv'
<1>1. MemoTyped
  BY DEF MemoIInv
<1>2. /\ UNCHANGED <<files, recorder, filer, ledgerLock, reportLock, published, seen, failures, unsure, deaths>>
      /\ reporting' \in BOOLEAN
  BY <1>1 DEF IssueIsFound, SwitchReportingOff, ghost, MemoTyped
<1>3. /\ github' \in [Classes -> Issues]
      /\ \A c \in Classes : github'[c].issues = github[c].issues /\ github'[c].comments = github[c].comments
  <2>1. CASE SwitchReportingOff
    BY <1>1, <2>1 DEF SwitchReportingOff, MemoTyped
  <2>2. CASE IssueIsFound
    <3>1. PICK c \in Classes : github' = [github EXCEPT ![c].found = TRUE]
      BY <2>2 DEF IssueIsFound
    <3>2. github[c] \in Issues /\ github' = [github EXCEPT ![c] = [github[c] EXCEPT !.found = TRUE]]
      BY <1>1, <3>1 DEF MemoTyped
    <3> DEFINE i == [github[c] EXCEPT !.found = TRUE]
    <3>3. i \in Issues /\ i.issues = github[c].issues /\ i.comments = github[c].comments
      BY <3>2 DEF Issues
    <3> HIDE DEF i
    <3>4. github' = [github EXCEPT ![c] = i]
      BY <3>2 DEF i
    <3> QED BY <1>1, <3>3, <3>4 DEF MemoTyped
  <2> QED BY <2>1, <2>2
<1>4. MemoTyped'
  BY <1>1, <1>2, <1>3 DEF MemoTyped, files
<1>5. ledger' = ledger /\ filer' = filer
  BY <1>2 DEF files
<1>6. \A c \in Classes : (IssueIsKnown(c) => IssueIsKnown(c)') /\ (CommentsAreDue(c) => CommentsAreDue(c)')
  BY <1>3, <1>5 DEF IssueIsKnown, CommentsAreDue
<1>7. \A f : CopyHolds(f) <=> CopyHolds(f)'
  BY <1>5 DEF CopyHolds
<1> QED BY <1>2, <1>4, <1>5, <1>6, <1>7 DEF MemoIInv, EntriesAreSound, OneFiler, AtWork, CountsAreKept
-----------------------------------------------------------------------------
(* Steps of the filers.                                                        *)

\* A filer that moves to w, and what has to be so then.
LEMMA FilerMoves ==
  ASSUME MemoIInv, NEW f \in Filers, NEW w \in FilerWork, filer' = [filer EXCEPT ![f] = w],
         ledger' = ledger, failures' = failures,
         \A c \in Classes : SoundEntry(w.copy[c]), CopyHolds(f)',
         recorder' \in [Recorders -> RecorderWork],
         \A r \in Recorders : recorder'[r].step = "lock" => recorder'[r].error \in Errors,
         ledgerLock' \in Recorders \cup Filers \cup {NoProcess}, reportLock' \in Filers \cup {NoProcess},
         reporting' \in BOOLEAN, unsure' \subseteq Classes, deaths' \in 0..MaxDeaths,
         github' \in [Classes -> Issues],
         w.step \in {"load", "call", "create", "memo"} => reportLock' = f,
         \A g \in Filers \ {f} : AtWork(g) => reportLock' = g,
         \A c \in Classes \ unsure' : IssueIsKnown(c)' /\ CommentsAreDue(c)',
         published' \cap Private = {}
  PROVE  MemoIInv'
<1>1. MemoTyped
  BY DEF MemoIInv
<1>2. filer'[f] = w /\ (\A g \in Filers \ {f} : filer'[g] = filer[g]) /\ filer' \in [Filers -> FilerWork]
  BY <1>1 DEF MemoTyped
<1>3. MemoTyped'
  BY <1>1, <1>2 DEF MemoTyped
<1>4. EntriesAreSound'
  BY <1>2 DEF MemoIInv, EntriesAreSound
<1>5. OneFiler'
  BY <1>2 DEF OneFiler, AtWork
<1>6. CountsAreKept'
  BY DEF MemoIInv, CountsAreKept
<1>7. ASSUME NEW g \in Filers \ {f} PROVE CopyHolds(g)'
  <2>1. CopyHolds(g) /\ filer'[g] = filer[g]
    BY <1>2 DEF MemoIInv
  <2> QED BY <2>1 DEF CopyHolds
<1> QED BY <1>3, <1>4, <1>5, <1>6, <1>7 DEF MemoIInv

\* What is known of a class stays so while no copy loses what the ledger has not.
LEMMA ClassStays ==
  ASSUME MemoIInv, NEW f \in Filers, NEW w \in FilerWork, filer' = [filer EXCEPT ![f] = w],
         ledger' = ledger, NEW c \in Classes, github'[c].issues = github[c].issues,
         github'[c].comments = github[c].comments, IssueIsKnown(c), CommentsAreDue(c),
         filer[f].copy[c].url => w.copy[c].url \/ ledger[c].url,
         \/ filer[f].copy[c].commented <= w.copy[c].commented
         \/ filer[f].copy[c].commented <= ledger[c].commented
  PROVE  IssueIsKnown(c)' /\ CommentsAreDue(c)'
<1>1. MemoTyped
  BY DEF MemoIInv
<1>2. filer'[f] = w /\ \A g \in Filers \ {f} : filer'[g] = filer[g]
  BY <1>1 DEF MemoTyped
<1>3. IssueIsKnown(c)'
  BY <1>2 DEF IssueIsKnown
<1>4. w.copy[c] \in Entries
  BY DEF FilerWork
<1>5. /\ filer[f].copy[c].commented \in Nat /\ ledger[c].commented \in Nat /\ w.copy[c].commented \in Nat
      /\ github[c].comments \in Nat
  BY <1>1, <1>4, EntryFields
<1>6. CASE github[c].comments <= Cardinality(ReachedAt(ledger[c].commented))
  BY <1>3, <1>6 DEF CommentsAreDue
<1>7. CASE \E g \in Filers : github[c].comments <= Cardinality(ReachedAt(filer[g].copy[c].commented))
  <2>1. PICK g \in Filers : github[c].comments <= Cardinality(ReachedAt(filer[g].copy[c].commented))
    BY <1>7
  <2>2. CASE g # f
    <3>1. filer'[g] = filer[g]
      BY <1>2, <2>2
    <3> QED BY <1>3, <2>1, <3>1 DEF CommentsAreDue
  <2>3. CASE g = f /\ filer[f].copy[c].commented <= w.copy[c].commented
    <3>1. Cardinality(ReachedAt(filer[f].copy[c].commented)) <= Cardinality(ReachedAt(w.copy[c].commented))
      BY <1>5, <2>3, DueGrows
    <3>2. Cardinality(ReachedAt(filer[f].copy[c].commented)) \in Nat /\ Cardinality(ReachedAt(w.copy[c].commented)) \in Nat
      BY <1>5, <2>3, DueGrows
    <3>3. github[c].comments <= Cardinality(ReachedAt(w.copy[c].commented))
      BY <1>5, <2>1, <2>3, <3>1, <3>2
    <3> QED BY <1>2, <1>3, <3>3 DEF CommentsAreDue
  <2>4. CASE g = f /\ filer[f].copy[c].commented <= ledger[c].commented
    <3>1. Cardinality(ReachedAt(filer[f].copy[c].commented)) <= Cardinality(ReachedAt(ledger[c].commented))
      BY <1>5, <2>4, DueGrows
    <3>2. Cardinality(ReachedAt(filer[f].copy[c].commented)) \in Nat /\ Cardinality(ReachedAt(ledger[c].commented)) \in Nat
      BY <1>5, <2>4, DueGrows
    <3>3. github[c].comments <= Cardinality(ReachedAt(ledger[c].commented))
      BY <1>5, <2>1, <2>4, <3>1, <3>2
    <3> QED BY <1>3, <3>3 DEF CommentsAreDue
  <2> QED BY <2>2, <2>3, <2>4
<1> QED BY <1>6, <1>7 DEF CommentsAreDue

Stepped(f, s) == [filer[f] EXCEPT !.step = s]

\* A filer of which only the step changes.
LEMMA FilerSteppedIs ==
  ASSUME MemoTyped, NEW f \in Filers, NEW s \in FilerSteps
  PROVE  /\ [filer EXCEPT ![f].step = s] = [filer EXCEPT ![f] = Stepped(f, s)]
         /\ Stepped(f, s) \in FilerWork /\ Stepped(f, s).step = s /\ Stepped(f, s).copy = filer[f].copy
         /\ Stepped(f, s).todo = filer[f].todo /\ Stepped(f, s).at = filer[f].at
<1>1. filer[f] \in FilerWork
  BY DEF MemoTyped
<1> DEFINE w == Stepped(f, s)
<1>2. w \in FilerWork /\ w.step = s /\ w.copy = filer[f].copy /\ w.todo = filer[f].todo /\ w.at = filer[f].at
  BY <1>1 DEF FilerWork, Stepped
<1>3. [filer EXCEPT ![f].step = s] = [filer EXCEPT ![f] = w]
  BY DEF MemoTyped, Stepped
<1> QED BY <1>2, <1>3

\* A filer that is not at work yet and moves on with nothing in its copy.
LEMMA EmptyHandedKeeps ==
  ASSUME MemoIInv, NEW f \in Filers, NEW w \in FilerWork, filer' = [filer EXCEPT ![f] = w],
         filer[f].copy = NoEntries, w.copy = NoEntries, w.step \in {"off", "spawned", "load"},
         UNCHANGED <<ledger, failures, github, published, unsure>>,
         recorder' \in [Recorders -> RecorderWork],
         \A r \in Recorders : recorder'[r].step = "lock" => recorder'[r].error \in Errors,
         ledgerLock' \in Recorders \cup Filers \cup {NoProcess}, reportLock' \in Filers \cup {NoProcess},
         reporting' \in BOOLEAN, deaths' \in 0..MaxDeaths,
         w.step = "load" => reportLock' = f,
         \A g \in Filers \ {f} : AtWork(g) => reportLock' = g
  PROVE  MemoIInv'
<1>1. MemoTyped
  BY DEF MemoIInv
<1>2. filer'[f] = w
  BY <1>1 DEF MemoTyped
<1>3. \A c \in Classes : SoundEntry(w.copy[c])
  BY NoEntryIs
<1>4. CopyHolds(f)'
  BY <1>2 DEF CopyHolds
<1>5. ASSUME NEW c \in Classes \ unsure' PROVE IssueIsKnown(c)' /\ CommentsAreDue(c)'
  <2>1. IssueIsKnown(c) /\ CommentsAreDue(c) /\ c \in Classes
    BY DEF MemoIInv
  <2>2. w.copy[c] = NoEntry /\ filer[f].copy[c] = NoEntry /\ NoEntry.commented = 0
    BY NoEntryIs
  <2>3. filer[f].copy[c].url => w.copy[c].url \/ ledger[c].url
    BY <2>2
  <2>4. filer[f].copy[c].commented <= w.copy[c].commented
    BY <2>2
  <2> QED BY <2>1, <2>3, <2>4, ClassStays
<1>6. /\ unsure' \subseteq Classes /\ github' \in [Classes -> Issues]
      /\ published' \cap Private = {}
  BY <1>1 DEF MemoIInv, MemoTyped
<1>7. w.step \in {"load", "call", "create", "memo"} => reportLock' = f
  OBVIOUS
<1> QED BY <1>3, <1>4, <1>5, <1>6, <1>7, FilerMoves

\* A recorder starts a filer, or does not.
LEMMA SpawnFilerKeeps ==
  ASSUME MemoIInv, NEW r \in Recorders, SpawnFiler(r)
  PROVE  MemoIInv'
<1>1. MemoTyped
  BY DEF MemoIInv
<1>2. Idle \in RecorderWork /\ Idle.step = "idle"
  BY DEF Idle, RecorderWork
<1>3. /\ recorder' = [recorder EXCEPT ![r] = Idle]
      /\ UNCHANGED <<ledger, ledgerLock, reportLock, reporting, github, published, failures, unsure, deaths>>
  BY DEF SpawnFiler, files, ghost
<1>4. /\ ledgerLock' \in Recorders \cup Filers \cup {NoProcess} /\ reportLock' \in Filers \cup {NoProcess}
      /\ reporting' \in BOOLEAN /\ deaths' \in 0..MaxDeaths
  BY <1>1, <1>3 DEF MemoTyped
<1>5. CASE UNCHANGED filer
  <2>1. Idle.step # "lock"
    BY <1>2
  <2> QED BY <1>2, <1>3, <1>4, <1>5, <2>1, RecorderMoves
<1>6. ASSUME NEW f \in Filers, filer[f].step = "off", filer' = [filer EXCEPT ![f].step = "spawned"]
      PROVE  MemoIInv'
  <2>1. "spawned" \in FilerSteps
    BY DEF FilerSteps
  <2>2. filer' = [filer EXCEPT ![f] = Stepped(f, "spawned")]
    BY <1>1, <1>6, <2>1, FilerSteppedIs
  <2>7. LET w == Stepped(f, "spawned")
        IN  w \in FilerWork /\ w.step = "spawned" /\ w.copy = filer[f].copy
    BY <1>1, <2>1, FilerSteppedIs
  <2> DEFINE w == Stepped(f, "spawned")
  <2> HIDE DEF w
  <2>3. filer[f].copy = NoEntries
    BY <1>6 DEF MemoIInv, CopyHolds
  <2>4. /\ recorder' \in [Recorders -> RecorderWork]
        /\ \A q \in Recorders : recorder'[q].step = "lock" => recorder'[q].error \in Errors
    BY <1>1, <1>2, <1>3 DEF MemoTyped
  <2>5. \A g \in Filers \ {f} : AtWork(g) => reportLock' = g
    BY <1>3 DEF MemoIInv, OneFiler
  <2>6. /\ w \in FilerWork /\ w.copy = filer[f].copy /\ filer' = [filer EXCEPT ![f] = w]
        /\ w.step \in {"off", "spawned", "load"} /\ w.step # "load"
    BY <2>2, <2>7 DEF w
  <2> QED BY <1>3, <1>4, <2>3, <2>4, <2>5, <2>6, EmptyHandedKeeps
<1> QED BY <1>5, <1>6 DEF SpawnFiler

\* The report lock is free, and is taken; or the filer leaves.
LEMMA TakeReportLockKeeps ==
  ASSUME MemoIInv, NEW f \in Filers, TakeReportLock(f)
  PROVE  MemoIInv'
<1>1. MemoTyped
  BY DEF MemoIInv
<1>2. /\ filer[f].step = "spawned"
      /\ UNCHANGED <<ledger, recorder, ledgerLock, reporting, github, published, failures, unsure, deaths>>
  BY DEF TakeReportLock, files, ghost
<1>3. filer[f].copy = NoEntries
  BY <1>2 DEF MemoIInv, CopyHolds
<1>4. /\ recorder' \in [Recorders -> RecorderWork]
      /\ \A q \in Recorders : recorder'[q].step = "lock" => recorder'[q].error \in Errors
      /\ ledgerLock' \in Recorders \cup Filers \cup {NoProcess}
      /\ reporting' \in BOOLEAN /\ deaths' \in 0..MaxDeaths
  BY <1>1, <1>2 DEF MemoTyped
<1>5. CASE reporting /\ MayFile
  <2>1. reportLock = NoProcess /\ reportLock' = f /\ filer' = [filer EXCEPT ![f].step = "load"]
    BY <1>5 DEF TakeReportLock, MayFile, FStep
  <2>2. "load" \in FilerSteps
    BY DEF FilerSteps
  <2>3. filer' = [filer EXCEPT ![f] = Stepped(f, "load")]
    BY <1>1, <2>1, <2>2, FilerSteppedIs
  <2>4. \A g \in Filers \ {f} : ~AtWork(g)
    BY <2>1, MemoConstants DEF MemoIInv, OneFiler
  <2>6. LET w == Stepped(f, "load")
        IN  w \in FilerWork /\ w.step = "load" /\ w.copy = filer[f].copy
    BY <1>1, <2>2, FilerSteppedIs
  <2> DEFINE w == Stepped(f, "load")
  <2> HIDE DEF w
  <2>5. /\ w \in FilerWork /\ w.copy = filer[f].copy /\ filer' = [filer EXCEPT ![f] = w]
        /\ w.step \in {"off", "spawned", "load"}
    BY <2>3, <2>6 DEF w
  <2> QED BY <1>2, <1>3, <1>4, <2>1, <2>4, <2>5, EmptyHandedKeeps
<1>6. CASE ~(reporting /\ MayFile)
  <2>1. filer' = [filer EXCEPT ![f] = Off] /\ reportLock' = reportLock
    BY <1>6 DEF TakeReportLock
  <2>2. \A g \in Filers \ {f} : AtWork(g) => reportLock' = g
    BY <2>1 DEF MemoIInv, OneFiler
  <2>3. Off.step \in {"off", "spawned", "load"} /\ Off.step # "load"
    BY NoEntryIs
  <2>4. reportLock' \in Filers \cup {NoProcess}
    BY <1>1, <2>1 DEF MemoTyped
  <2> QED BY <1>2, <1>3, <1>4, <2>1, <2>2, <2>3, <2>4, NoEntryIs, EmptyHandedKeeps
<1> QED BY <1>5, <1>6
\* Only one filer is at work: the others have read nothing.
LEMMA OthersHaveNothing ==
  ASSUME MemoIInv, NEW f \in Filers, AtWork(f), NEW g \in Filers, g # f
  PROVE  ~AtWork(g) /\ filer[g].copy = NoEntries
<1>1. ~AtWork(g)
  BY DEF MemoIInv, OneFiler
<1>2. filer[g].step \in FilerSteps
  BY EntryFields DEF MemoIInv, FilerWork
<1>3. filer[g].step \in {"off", "spawned"}
  BY <1>1, <1>2 DEF AtWork, FilerSteps
<1> QED BY <1>1, <1>3 DEF MemoIInv, CopyHolds

\* The filer that calls GitHub knows of every issue and of every comment.
LEMMA WorkerKnows ==
  ASSUME MemoIInv, NEW f \in Filers, filer[f].step \in {"call", "create"}, NEW c \in Classes \ unsure
  PROVE  /\ github[c].issues = 0 \/ github[c].issues = 1
         /\ github[c].issues = 0 \/ filer[f].copy[c].url
         /\ github[c].comments <= Cardinality(ReachedAt(filer[f].copy[c].commented))
<1>1. MemoTyped /\ AtWork(f) /\ c \in Classes
  BY DEF MemoIInv, AtWork
<1>2. IssueIsKnown(c) /\ CommentsAreDue(c)
  BY DEF MemoIInv
<1>3. Brings(ledger[c], filer[f].copy[c])
  BY <1>1 DEF MemoIInv, CopyHolds
<1>4. \A g \in Filers : g # f => filer[g].copy[c] = NoEntry
  BY <1>1, OthersHaveNothing, NoEntryIs
<1>5. ~NoEntry.url /\ NoEntry.commented = 0
  BY NoEntryIs
<1>6. github[c].issues \in 0..2 /\ github[c].comments \in Nat
  BY <1>1, EntryFields
<1>7. github[c].issues = 0 \/ github[c].issues = 1
  BY <1>2, <1>6 DEF IssueIsKnown
<1>8. github[c].issues = 0 \/ filer[f].copy[c].url
  BY <1>2, <1>3, <1>4, <1>5 DEF IssueIsKnown, Brings
<1>9. github[c].comments <= Cardinality(ReachedAt(filer[f].copy[c].commented))
  <2> DEFINE new == filer[f].copy[c].commented
  <2>1. ledger[c].commented \in Nat /\ new \in Nat /\ ledger[c].commented <= new
    BY <1>1, <1>3, EntryFields DEF Brings
  <2>2. \A n \in Nat : n <= new => /\ Cardinality(ReachedAt(n)) <= Cardinality(ReachedAt(new))
                                   /\ Cardinality(ReachedAt(n)) \in Nat /\ Cardinality(ReachedAt(new)) \in Nat
    BY <2>1, DueGrows
  <2>3. \/ github[c].comments <= Cardinality(ReachedAt(ledger[c].commented))
        \/ \E g \in Filers : github[c].comments <= Cardinality(ReachedAt(filer[g].copy[c].commented))
    BY <1>2 DEF CommentsAreDue
  <2>4. CASE github[c].comments <= Cardinality(ReachedAt(ledger[c].commented))
    BY <1>6, <2>1, <2>2, <2>4
  <2>5. CASE \E g \in Filers : github[c].comments <= Cardinality(ReachedAt(filer[g].copy[c].commented))
    <3>1. PICK g \in Filers : github[c].comments <= Cardinality(ReachedAt(filer[g].copy[c].commented))
      BY <2>5
    <3>2. CASE g = f
      BY <3>1, <3>2
    <3>3. CASE g # f
      <4>1. filer[g].copy[c].commented = 0
        BY <1>4, <1>5, <3>3
      <4>2. github[c].comments <= Cardinality(ReachedAt(0))
        BY <3>1, <4>1
      <4>3. 0 \in Nat /\ 0 <= new
        BY <2>1
      <4> QED BY <1>6, <2>2, <4>2, <4>3
    <3> QED BY <3>2, <3>3
  <2> QED BY <2>3, <2>4, <2>5
<1> QED BY <1>7, <1>8, <1>9

\* What a filer makes of GitHub's answer, and what has to be so then.
LEMMA FilerLearns ==
  ASSUME MemoIInv, NEW f \in Filers, filer[f].step \in {"call", "create"},
         NEW w \in FilerWork, filer' = [filer EXCEPT ![f] = w], w.step \in {"call", "create"},
         w.step = "create" => w.at \in Classes /\ ToFile(w.copy[w.at]),
         \A c \in Classes : SoundEntry(w.copy[c]) /\ Brings(ledger[c], w.copy[c]),
         UNCHANGED <<files, recorder, ledgerLock, reportLock, reporting, failures, deaths>>,
         unsure' \subseteq Classes, github' \in [Classes -> Issues], published' \cap Private = {},
         \A c \in Classes \ unsure' :
            /\ github'[c].issues = 0 \/ github'[c].issues = 1
            /\ github'[c].issues = 0 \/ w.copy[c].url
            /\ github'[c].comments <= Cardinality(ReachedAt(w.copy[c].commented))
  PROVE  MemoIInv'
<1>1. MemoTyped /\ AtWork(f) /\ reportLock = f
  BY DEF MemoIInv, AtWork, OneFiler
<1>2. ledger' = ledger /\ failures' = failures /\ reportLock' = reportLock /\ recorder' = recorder
      /\ ledgerLock' = ledgerLock /\ reporting' = reporting /\ deaths' = deaths
  BY DEF files
<1>3. filer'[f] = w
  BY <1>1 DEF MemoTyped
<1>4. CopyHolds(f)'
  BY <1>2, <1>3 DEF CopyHolds
<1>5. ASSUME NEW c \in Classes \ unsure' PROVE IssueIsKnown(c)' /\ CommentsAreDue(c)'
  <2>1. IssueIsKnown(c)'
    BY <1>3 DEF IssueIsKnown
  <2>2. CommentsAreDue(c)'
    BY <1>3 DEF CommentsAreDue
  <2> QED BY <2>1, <2>2
<1>6. /\ recorder' \in [Recorders -> RecorderWork]
      /\ \A r \in Recorders : recorder'[r].step = "lock" => recorder'[r].error \in Errors
      /\ ledgerLock' \in Recorders \cup Filers \cup {NoProcess} /\ reportLock' \in Filers \cup {NoProcess}
      /\ reporting' \in BOOLEAN /\ deaths' \in 0..MaxDeaths
  BY <1>1, <1>2 DEF MemoTyped
<1>7. \A g \in Filers \ {f} : AtWork(g) => reportLock' = g
  BY <1>1, OthersHaveNothing
<1>8. reportLock' = f
  BY <1>1, <1>2
<1> QED BY <1>2, <1>4, <1>5, <1>6, <1>7, <1>8, FilerMoves

\* A filer that has filed a class, and one that has skipped it.
FiledWork(f, c) ==
    [filer[f] EXCEPT !.step = "call", !.todo = filer[f].todo \ {c},
                     !.copy = [filer[f].copy EXCEPT ![c] = FiledEntry(filer[f].copy[c])]]
SkippedWork(f, c) == [filer[f] EXCEPT !.step = "call", !.todo = @ \ {c}]

\* A skipped class keeps its entry.
LEMMA SkippedIs ==
  ASSUME MemoTyped, NEW f \in Filers, NEW c \in Classes
  PROVE  LET w == SkippedWork(f, c)
         IN  /\ Skipped(f, c) => filer' = [filer EXCEPT ![f] = w]
             /\ w \in FilerWork /\ w.step = "call" /\ w.copy = filer[f].copy
<1>1. filer[f] \in FilerWork
  BY DEF MemoTyped
<1> DEFINE w == SkippedWork(f, c)
<1>2. w = [step |-> "call", copy |-> filer[f].copy, todo |-> filer[f].todo \ {c}, at |-> filer[f].at]
  <2>1. w = [filer[f] EXCEPT !.step = "call", !.todo = filer[f].todo \ {c}]
    BY <1>1 DEF SkippedWork, FilerWork
  <2> HIDE DEF w
  <2> QED BY <1>1, <2>1 DEF FilerWork
<1>3. w \in FilerWork /\ w.step = "call" /\ w.copy = filer[f].copy
  BY <1>1, <1>2 DEF FilerWork, FilerSteps
<1>4. Skipped(f, c) => filer' = [filer EXCEPT ![f] = w]
  BY DEF Skipped, SkippedWork, MemoTyped
<1> QED BY <1>3, <1>4

\* A filed class has its address, and is told of as often as it was counted.
LEMMA FiledIs ==
  ASSUME MemoTyped, NEW f \in Filers, NEW c \in Classes
  PROVE  LET w == FiledWork(f, c)
             e == FiledEntry(filer[f].copy[c])
         IN  /\ Filed(f, c) => filer' = [filer EXCEPT ![f] = w]
             /\ w \in FilerWork /\ w.step = "call"
             /\ \A d \in Classes : w.copy[d] = IF d = c THEN e ELSE filer[f].copy[d]
             /\ e.count = filer[f].copy[c].count /\ e.sample = filer[f].copy[c].sample
             /\ e.url /\ e.commented = filer[f].copy[c].count
<1> DEFINE old == filer[f].copy
           e == FiledEntry(old[c])
           w == FiledWork(f, c)
<1>1. filer[f] \in FilerWork /\ old \in [Classes -> Entries] /\ old[c] \in Entries
  BY EntryFields DEF FilerWork
<1>2. e = [count |-> old[c].count, sample |-> old[c].sample, url |-> TRUE, commented |-> old[c].count]
  <2>1. e = [old[c] EXCEPT !.url = TRUE, !.commented = old[c].count]
    BY DEF FiledEntry
  <2> HIDE DEF e
  <2> QED BY <1>1, <2>1 DEF Entries
<1>3. /\ e \in Entries /\ e.count = old[c].count /\ e.sample = old[c].sample
      /\ e.url /\ e.commented = old[c].count
  BY <1>1, <1>2 DEF Entries
<1>4. w = [step |-> "call", copy |-> [old EXCEPT ![c] = e], todo |-> filer[f].todo \ {c}, at |-> filer[f].at]
  <2> DEFINE new == [old EXCEPT ![c] = e]
  <2>1. w = [filer[f] EXCEPT !.step = "call", !.todo = filer[f].todo \ {c}, !.copy = new]
    BY DEF FiledWork
  <2> HIDE DEF w, new
  <2>2. w = [step |-> "call", copy |-> new, todo |-> filer[f].todo \ {c}, at |-> filer[f].at]
    BY <1>1, <2>1 DEF FilerWork
  <2> QED BY <2>2 DEF new
<1> HIDE DEF e
<1>5. [old EXCEPT ![c] = e] \in [Classes -> Entries]
  BY <1>1, <1>3
<1>6. w \in FilerWork /\ w.step = "call" /\ w.copy = [old EXCEPT ![c] = e]
  BY <1>1, <1>4, <1>5 DEF FilerWork, FilerSteps
<1>7. \A d \in Classes : w.copy[d] = IF d = c THEN e ELSE old[d]
  BY <1>1, <1>6
<1>8. Filed(f, c) => filer' = [filer EXCEPT ![f] = w]
  <2> SUFFICES ASSUME Filed(f, c) PROVE filer' = [filer EXCEPT ![f] = w]
    OBVIOUS
  <2>1. e = FiledEntry(filer[f].copy[c])
    BY DEF e
  <2>2. filer' = [filer EXCEPT ![f].step = "call", ![f].todo = @ \ {c}, ![f].copy[c] = e]
    BY <2>1 DEF Filed
  <2>3. w = [filer[f] EXCEPT !.step = "call", !.todo = filer[f].todo \ {c}, !.copy = [old EXCEPT ![c] = e]]
    BY <2>1 DEF FiledWork
  <2>4. filer \in [Filers -> FilerWork]
    BY DEF MemoTyped
  <2> HIDE DEF w
  <2> QED BY ONLY f \in Filers, <2>2, <2>3, <2>4 DEF FilerWork
<1> QED BY <1>3, <1>6, <1>7, <1>8 DEF e
\* A filed class is sound, and newer than the ledger.
LEMMA FiledIsNewer ==
  ASSUME MemoIInv, NEW f \in Filers, filer[f].step \in {"call", "create"}, NEW c \in Classes,
         ToFile(filer[f].copy[c]) \/ ToComment(filer[f].copy[c])
  PROVE  LET e == FiledEntry(filer[f].copy[c])
         IN  /\ SoundEntry(e) /\ Brings(ledger[c], e)
             /\ Cardinality(ReachedAt(filer[f].copy[c].commented)) <= Cardinality(ReachedAt(e.commented))
             /\ Cardinality(ReachedAt(filer[f].copy[c].commented)) \in Nat /\ Cardinality(ReachedAt(e.commented)) \in Nat
<1> DEFINE old == filer[f].copy[c]
           e == FiledEntry(old)
<1>1. MemoTyped /\ SoundEntry(old) /\ SoundEntry(ledger[c]) /\ Brings(ledger[c], old)
  BY DEF MemoIInv, EntriesAreSound, CopyHolds
<1>2. e.count = old.count /\ e.sample = old.sample /\ e.url /\ e.commented = old.count
  BY <1>1, FiledIs
<1>3. /\ old.count \in Nat /\ old.commented \in Nat /\ old.url \in BOOLEAN
      /\ ledger[c].count \in Nat /\ ledger[c].commented \in Nat /\ ledger[c].url \in BOOLEAN
  BY <1>1, EntryFields
<1>4. old.count > 0
  <2>1. CASE ToFile(old)
    <3>1. old.count >= MinCount
      BY <2>1 DEF ToFile
    <3>2. MinCount \in Nat /\ MinCount > 0
      <4>1. MinCount \in Nat \ {0}
        BY MemoConstants
      <4> QED BY <4>1
    <3> HIDE DEF old
    <3> QED BY <1>3, <3>1, <3>2
  <2>2. CASE ToComment(old)
    BY <1>1, <2>2 DEF ToComment, SoundEntry
  <2> QED BY <2>1, <2>2
<1> HIDE DEF old, e
<1>5. SoundEntry(e)
  BY <1>1, <1>2, <1>3, <1>4 DEF SoundEntry
<1>6. Brings(ledger[c], e)
  <2>1. old.commented <= old.count /\ ledger[c].commented <= old.commented /\ old.count <= ledger[c].count
    BY <1>1 DEF SoundEntry, Brings
  <2>2. ~ledger[c].url => ledger[c].commented = 0
    BY <1>1 DEF SoundEntry
  <2>3. ledger[c].commented <= e.commented /\ e.count <= ledger[c].count
    BY <1>2, <1>3, <2>1
  <2>4. ~ledger[c].url => e.commented > ledger[c].commented
    BY <1>2, <1>3, <1>4, <2>2
  <2> QED BY <1>2, <2>3, <2>4 DEF Brings
<1>7. /\ Cardinality(ReachedAt(old.commented)) <= Cardinality(ReachedAt(old.count))
      /\ Cardinality(ReachedAt(old.commented)) \in Nat /\ Cardinality(ReachedAt(old.count)) \in Nat
  BY <1>1, <1>3, DueGrows DEF SoundEntry
<1>8. /\ Cardinality(ReachedAt(old.commented)) <= Cardinality(ReachedAt(e.commented))
      /\ Cardinality(ReachedAt(old.commented)) \in Nat /\ Cardinality(ReachedAt(e.commented)) \in Nat
  BY <1>2, <1>7
<1> QED BY <1>5, <1>6, <1>8 DEF old, e

\* GitHub has answered: the class is filed.
LEMMA FiledKeeps ==
  ASSUME MemoIInv, NEW f \in Filers, filer[f].step \in {"call", "create"}, NEW c \in Classes,
         ToFile(filer[f].copy[c]) \/ ToComment(filer[f].copy[c]), Filed(f, c),
         UNCHANGED <<files, recorder, ledgerLock, reportLock, reporting, failures, deaths, unsure>>,
         github' \in [Classes -> Issues], published' \cap Private = {},
         \A d \in Classes \ {c} : github'[d] = github[d],
         c \notin unsure => /\ github'[c].issues = 0 \/ github'[c].issues = 1
                            /\ github'[c].comments <= Cardinality(ReachedAt(filer[f].copy[c].count))
  PROVE  MemoIInv'
<1> DEFINE w == FiledWork(f, c)
           e == FiledEntry(filer[f].copy[c])
<1>1. MemoTyped /\ unsure \subseteq Classes
  BY DEF MemoIInv, MemoTyped
<1>2. /\ filer' = [filer EXCEPT ![f] = w] /\ w \in FilerWork /\ w.step = "call"
      /\ \A d \in Classes : w.copy[d] = IF d = c THEN e ELSE filer[f].copy[d]
      /\ e.url /\ e.commented = filer[f].copy[c].count
  BY <1>1, FiledIs
<1>3. SoundEntry(e) /\ Brings(ledger[c], e)
  BY FiledIsNewer
<1> HIDE DEF w, e
<1>4. ASSUME NEW d \in Classes PROVE SoundEntry(w.copy[d]) /\ Brings(ledger[d], w.copy[d])
  <2>1. SoundEntry(filer[f].copy[d]) /\ Brings(ledger[d], filer[f].copy[d])
    BY DEF MemoIInv, EntriesAreSound, CopyHolds
  <2> QED BY <1>2, <1>3, <2>1
<1>5. ASSUME NEW d \in Classes \ unsure'
      PROVE  /\ github'[d].issues = 0 \/ github'[d].issues = 1
             /\ github'[d].issues = 0 \/ w.copy[d].url
             /\ github'[d].comments <= Cardinality(ReachedAt(w.copy[d].commented))
  <2>1. d \in Classes \ unsure
    OBVIOUS
  <2>2. CASE d = c
    BY <1>2, <2>1, <2>2
  <2>3. CASE d # c
    <3>1. w.copy[d] = filer[f].copy[d] /\ github'[d] = github[d]
      BY <1>2, <2>1, <2>3
    <3> QED BY <2>1, <3>1, WorkerKnows
  <2> QED BY <2>2, <2>3
<1>6. unsure' \subseteq Classes /\ w.step \in {"call", "create"} /\ w.step # "create"
  BY <1>1, <1>2
<1> QED BY <1>2, <1>4, <1>5, <1>6, FilerLearns

\* GitHub did not answer: the class is skipped.
LEMMA SkippedKeeps ==
  ASSUME MemoIInv, NEW f \in Filers, filer[f].step \in {"call", "create"}, NEW c \in Classes, Skipped(f, c),
         UNCHANGED <<files, recorder, ledgerLock, reportLock, reporting, failures, deaths>>,
         github' \in [Classes -> Issues], published' \cap Private = {},
         unsure' \subseteq Classes, unsure \subseteq unsure',
         \A d \in Classes \ unsure' : github'[d] = github[d]
  PROVE  MemoIInv'
<1> DEFINE w == SkippedWork(f, c)
<1>1. MemoTyped
  BY DEF MemoIInv
<1>2. filer' = [filer EXCEPT ![f] = w] /\ w \in FilerWork /\ w.step = "call" /\ w.copy = filer[f].copy
  BY <1>1, SkippedIs
<1> HIDE DEF w
<1>3. \A d \in Classes : SoundEntry(w.copy[d]) /\ Brings(ledger[d], w.copy[d])
  BY <1>2 DEF MemoIInv, EntriesAreSound, CopyHolds
<1>4. ASSUME NEW d \in Classes \ unsure'
      PROVE  /\ github'[d].issues = 0 \/ github'[d].issues = 1
             /\ github'[d].issues = 0 \/ w.copy[d].url
             /\ github'[d].comments <= Cardinality(ReachedAt(w.copy[d].commented))
  <2>1. d \in Classes \ unsure /\ github'[d] = github[d]
    OBVIOUS
  <2> QED BY <1>2, <2>1, WorkerKnows
<1>5. w.step \in {"call", "create"} /\ w.step # "create"
  BY <1>2
<1> QED BY <1>2, <1>3, <1>4, <1>5, FilerLearns

\* The search: an issue is found, there is none, or gh failed.
LEMMA SearchKeeps ==
  ASSUME MemoIInv, NEW f \in Filers, Search(f)
  PROVE  MemoIInv'
<1>1. MemoTyped /\ filer[f] \in FilerWork
  BY EntryFields DEF MemoIInv
<1>2. PICK c \in filer[f].todo :
         /\ ToFile(filer[f].copy[c])
         /\ \/ Filed(f, c) /\ UNCHANGED unsure
            \/ UNCHANGED unsure /\ filer' = [filer EXCEPT ![f].step = "create", ![f].at = c]
            \/ GhFails(f, c, FALSE)
  BY DEF Search
<1>3. c \in Classes /\ filer[f].step \in {"call", "create"}
  BY <1>1 DEF FilerWork, Search
<1>4. UNCHANGED <<files, recorder, ledgerLock, reportLock, reporting, failures, deaths, github, published>>
  BY DEF Search
<1>5. /\ github' \in [Classes -> Issues] /\ published' \cap Private = {}
      /\ unsure \subseteq Classes /\ \A d \in Classes : github'[d] = github[d]
  BY <1>1, <1>4 DEF MemoIInv, MemoTyped
<1>6. CASE Filed(f, c) /\ UNCHANGED unsure
  <2>1. ASSUME c \notin unsure
        PROVE  /\ github'[c].issues = 0 \/ github'[c].issues = 1
               /\ github'[c].comments <= Cardinality(ReachedAt(filer[f].copy[c].count))
    <3>1. /\ github[c].issues = 0 \/ github[c].issues = 1
          /\ github[c].comments <= Cardinality(ReachedAt(filer[f].copy[c].commented))
      BY <1>3, <2>1, WorkerKnows
    <3>2. FiledEntry(filer[f].copy[c]).commented = filer[f].copy[c].count
      BY <1>1, <1>3, FiledIs
    <3>3. /\ Cardinality(ReachedAt(filer[f].copy[c].commented)) <= Cardinality(ReachedAt(filer[f].copy[c].count))
          /\ Cardinality(ReachedAt(filer[f].copy[c].commented)) \in Nat /\ Cardinality(ReachedAt(filer[f].copy[c].count)) \in Nat
      BY <1>2, <1>3, <3>2, FiledIsNewer
    <3>4. github[c].comments \in Nat
      BY <1>1, <1>3, EntryFields
    <3>5. github[c].comments <= Cardinality(ReachedAt(filer[f].copy[c].count))
      BY <3>1, <3>3, <3>4
    <3> QED BY <1>3, <1>5, <3>1, <3>5
  <2> QED BY <1>2, <1>3, <1>4, <1>5, <1>6, <2>1, FiledKeeps
<1>7. CASE UNCHANGED unsure /\ filer' = [filer EXCEPT ![f].step = "create", ![f].at = c]
  <2> DEFINE w == [filer[f] EXCEPT !.step = "create", !.at = c]
  <2>1. filer' = [filer EXCEPT ![f] = w]
    BY <1>1, <1>7 DEF MemoTyped
  <2>2. w = [step |-> "create", copy |-> filer[f].copy, todo |-> filer[f].todo, at |-> c]
    <3> PICK x : x = w
      OBVIOUS
    <3>1. x = [filer[f] EXCEPT !.step = "create", !.at = c]
      OBVIOUS
    <3> HIDE DEF w
    <3> QED BY <1>1, <3>1 DEF FilerWork
  <2>3. w \in FilerWork /\ w.step = "create" /\ w.copy = filer[f].copy /\ w.at = c
    BY <1>1, <1>3, <2>2 DEF FilerWork, FilerSteps
  <2> HIDE DEF w
  <2>4. \A d \in Classes : SoundEntry(w.copy[d]) /\ Brings(ledger[d], w.copy[d])
    BY <1>3, <2>3 DEF MemoIInv, EntriesAreSound, CopyHolds
  <2>5. ASSUME NEW d \in Classes \ unsure'
        PROVE  /\ github'[d].issues = 0 \/ github'[d].issues = 1
               /\ github'[d].issues = 0 \/ w.copy[d].url
               /\ github'[d].comments <= Cardinality(ReachedAt(w.copy[d].commented))
    <3>1. d \in Classes \ unsure /\ github'[d] = github[d]
      BY <1>5, <1>7
    <3> QED BY <1>3, <2>3, <3>1, WorkerKnows
  <2>6. w.step \in {"call", "create"} /\ w.at \in Classes /\ ToFile(w.copy[w.at])
    BY <1>2, <1>3, <2>3
  <2>7. unsure' \subseteq Classes
    BY <1>5, <1>7
  <2> QED BY <1>3, <1>4, <1>5, <2>1, <2>3, <2>4, <2>5, <2>6, <2>7, FilerLearns
<1>8. CASE GhFails(f, c, FALSE)
  <2>1. Skipped(f, c) /\ unsure' = unsure
    BY <1>8 DEF GhFails
  <2> QED BY <1>3, <1>4, <1>5, <2>1, SkippedKeeps
<1> QED BY <1>2, <1>6, <1>7, <1>8

\* One class of GitHub's changes.
LEMMA GithubChanges ==
  ASSUME MemoTyped, NEW c \in Classes, NEW i, i \in Issues, github' = [github EXCEPT ![c] = i]
  PROVE  /\ github' \in [Classes -> Issues] /\ github'[c] = i
         /\ \A d \in Classes \ {c} : github'[d] = github[d]
BY DEF MemoTyped

\* An issue is made, and its address comes back or is lost; or nothing is made.
LEMMA CreateKeeps ==
  ASSUME MemoIInv, NEW f \in Filers, Create(f)
  PROVE  MemoIInv'
<1> DEFINE c == filer[f].at
<1>1. MemoTyped /\ filer[f] \in FilerWork
  BY EntryFields DEF MemoIInv
<1>2. filer[f].step \in {"call", "create"} /\ c \in Classes /\ ToFile(filer[f].copy[c])
  BY DEF Create, MemoIInv, CopyHolds
<1>3. UNCHANGED <<files, recorder, ledgerLock, reportLock, reporting, failures, deaths>>
  BY DEF Create
<1>4. \/ /\ github[c].issues < 2 /\ github' = [github EXCEPT ![c].issues = @ + 1]
         /\ published' = published \cup IssueText(c, filer[f].copy[c])
         /\ (Filed(f, c) /\ UNCHANGED unsure) \/ GhFails(f, c, TRUE)
      \/ GhFails(f, c, FALSE) /\ UNCHANGED <<github, published>>
  BY DEF Create
<1>5. unsure \subseteq Classes /\ published \cap Private = {} /\ github \in [Classes -> Issues]
  BY DEF MemoIInv, MemoTyped
<1> HIDE DEF c
<1>6. ASSUME github[c].issues < 2, github' = [github EXCEPT ![c].issues = @ + 1],
             published' = published \cup IssueText(c, filer[f].copy[c]),
             (Filed(f, c) /\ UNCHANGED unsure) \/ GhFails(f, c, TRUE)
      PROVE  MemoIInv'
  <2> DEFINE i == [github[c] EXCEPT !.issues = @ + 1]
  <2>1. github[c] \in Issues /\ github[c].issues \in 0..2
    BY <1>1, <1>2, EntryFields
  <2>2. i \in Issues /\ i.issues = github[c].issues + 1 /\ i.comments = github[c].comments
    BY <1>6, <2>1 DEF Issues
  <2>3. github' = [github EXCEPT ![c] = i]
    BY <1>5, <1>6
  <2> HIDE DEF i
  <2>4. /\ github' \in [Classes -> Issues] /\ github'[c] = i
        /\ \A d \in Classes \ {c} : github'[d] = github[d]
    BY <1>1, <1>2, <2>2, <2>3, GithubChanges
  <2>5. published' \cap Private = {}
    <3>1. filer[f].copy[c].sample \in Samples \cup {<<>>}
      BY <1>1, <1>2, EntryFields
    <3>2. IssueText(c, filer[f].copy[c]) \cap Private = {}
      BY <1>2, <3>1, IssueTextIsClean
    <3> QED BY <1>5, <1>6, <3>2
  <2>6. CASE Filed(f, c) /\ UNCHANGED unsure
    <3>1. ASSUME c \notin unsure
          PROVE  /\ github'[c].issues = 0 \/ github'[c].issues = 1
                 /\ github'[c].comments <= Cardinality(ReachedAt(filer[f].copy[c].count))
      <4>1. /\ github[c].issues = 0 \/ filer[f].copy[c].url
            /\ github[c].comments <= Cardinality(ReachedAt(filer[f].copy[c].commented))
        BY <1>2, <3>1, WorkerKnows
      <4>2. github'[c].issues = 1
        BY <1>2, <2>2, <2>4, <4>1 DEF ToFile
      <4>3. FiledEntry(filer[f].copy[c]).commented = filer[f].copy[c].count
        BY <1>1, <1>2, FiledIs
      <4>4. /\ Cardinality(ReachedAt(filer[f].copy[c].commented)) <= Cardinality(ReachedAt(filer[f].copy[c].count))
            /\ Cardinality(ReachedAt(filer[f].copy[c].commented)) \in Nat /\ Cardinality(ReachedAt(filer[f].copy[c].count)) \in Nat
        BY <1>2, <4>3, FiledIsNewer
      <4>5. github[c].comments \in Nat /\ github'[c].comments = github[c].comments
        BY <1>1, <1>2, <2>2, <2>4, EntryFields
      <4>6. github'[c].comments <= Cardinality(ReachedAt(filer[f].copy[c].count))
        BY <4>1, <4>4, <4>5
      <4> QED BY <4>2, <4>6
    <3> QED BY <1>2, <1>3, <2>4, <2>5, <2>6, <3>1, FiledKeeps
  <2>7. CASE GhFails(f, c, TRUE)
    <3>1. Skipped(f, c) /\ unsure' = unsure \cup {c}
      BY <2>7 DEF GhFails
    <3>2. unsure' \subseteq Classes /\ unsure \subseteq unsure' /\ \A d \in Classes \ unsure' : github'[d] = github[d]
      BY <1>2, <1>5, <2>4, <3>1
    <3> QED BY <1>2, <1>3, <2>4, <2>5, <3>1, <3>2, SkippedKeeps
  <2> QED BY <1>6, <2>6, <2>7
<1>7. ASSUME GhFails(f, c, FALSE), UNCHANGED <<github, published>> PROVE MemoIInv'
  <2>1. Skipped(f, c) /\ unsure' = unsure
    BY <1>7 DEF GhFails
  <2> QED BY <1>2, <1>3, <1>5, <1>7, <2>1, SkippedKeeps
<1> QED BY <1>4, <1>6, <1>7

\* An issue is commented on, and the answer comes back or is lost; or it is not.
LEMMA CommentKeeps ==
  ASSUME MemoIInv, NEW f \in Filers, Comment(f)
  PROVE  MemoIInv'
<1>1. MemoTyped /\ filer[f] \in FilerWork
  BY EntryFields DEF MemoIInv
<1>2. PICK c \in filer[f].todo :
         /\ ToComment(filer[f].copy[c])
         /\ \/ /\ github' = [github EXCEPT ![c].comments = @ + 1]
               /\ (Filed(f, c) /\ UNCHANGED unsure) \/ GhFails(f, c, TRUE)
            \/ GhFails(f, c, FALSE) /\ UNCHANGED github
  BY DEF Comment
<1>3. c \in Classes /\ filer[f].step \in {"call", "create"}
  BY <1>1 DEF FilerWork, Comment
<1>4. UNCHANGED <<files, recorder, ledgerLock, reportLock, reporting, failures, deaths, published>>
  BY DEF Comment
<1>5. unsure \subseteq Classes /\ published' \cap Private = {} /\ github \in [Classes -> Issues]
  BY <1>4 DEF MemoIInv, MemoTyped
<1>6. ASSUME github' = [github EXCEPT ![c].comments = @ + 1],
             (Filed(f, c) /\ UNCHANGED unsure) \/ GhFails(f, c, TRUE)
      PROVE  MemoIInv'
  <2> DEFINE i == [github[c] EXCEPT !.comments = @ + 1]
  <2>1. github[c] \in Issues /\ github[c].comments \in Nat
    BY <1>1, <1>3, EntryFields
  <2>2. i \in Issues /\ i.issues = github[c].issues /\ i.comments = github[c].comments + 1
    BY <2>1 DEF Issues
  <2>3. github' = [github EXCEPT ![c] = i]
    BY <1>5, <1>6
  <2> HIDE DEF i
  <2>4. /\ github' \in [Classes -> Issues] /\ github'[c] = i
        /\ \A d \in Classes \ {c} : github'[d] = github[d]
    BY <1>1, <1>3, <2>2, <2>3, GithubChanges
  <2>5. CASE Filed(f, c) /\ UNCHANGED unsure
    <3>1. ASSUME c \notin unsure
          PROVE  /\ github'[c].issues = 0 \/ github'[c].issues = 1
                 /\ github'[c].comments <= Cardinality(ReachedAt(filer[f].copy[c].count))
      <4> DEFINE before == filer[f].copy[c].commented
                 after == filer[f].copy[c].count
      <4>1. /\ github[c].issues = 0 \/ github[c].issues = 1
            /\ github[c].comments <= Cardinality(ReachedAt(before))
        BY <1>3, <3>1, WorkerKnows
      <4>2. before \in Nat /\ after \in Nat /\ before <= after
        BY <1>1, <1>3, EntryFields DEF MemoIInv, EntriesAreSound, SoundEntry
      <4>3. \E m \in Milestones : after >= m /\ before < m
        BY <1>2 DEF ToComment
      <4> HIDE DEF before, after
      <4>4. \E m \in Milestones : before < m /\ m <= after
        <5>1. PICK m \in Milestones : after >= m /\ before < m
          BY <4>3
        <5>2. m \in Nat
          BY MemoConstants
        <5> QED BY <4>2, <5>1, <5>2
      <4>5. /\ Cardinality(ReachedAt(before)) \in Nat /\ Cardinality(ReachedAt(after)) \in Nat
            /\ Cardinality(ReachedAt(before)) + 1 <= Cardinality(ReachedAt(after))
        BY <4>2, <4>4, DueGrows
      <4>6. github[c].comments + 1 <= Cardinality(ReachedAt(after))
        BY <2>1, <4>1, <4>5
      <4> QED BY <2>2, <2>4, <4>1, <4>6 DEF after
    <3> QED BY <1>2, <1>3, <1>4, <1>5, <2>4, <2>5, <3>1, FiledKeeps
  <2>6. CASE GhFails(f, c, TRUE)
    <3>1. Skipped(f, c) /\ unsure' = unsure \cup {c}
      BY <2>6 DEF GhFails
    <3>2. unsure' \subseteq Classes /\ unsure \subseteq unsure' /\ \A d \in Classes \ unsure' : github'[d] = github[d]
      BY <1>3, <1>5, <2>4, <3>1
    <3> QED BY <1>3, <1>4, <1>5, <2>4, <3>1, <3>2, SkippedKeeps
  <2> QED BY <1>6, <2>5, <2>6
<1>7. ASSUME GhFails(f, c, FALSE), UNCHANGED github PROVE MemoIInv'
  <2>1. Skipped(f, c) /\ unsure' = unsure
    BY <1>7 DEF GhFails
  <2> QED BY <1>3, <1>4, <1>5, <1>7, <2>1, SkippedKeeps
<1> QED BY <1>2, <1>6, <1>7
\* The ledger is read.
LEMMA LoadLedgerKeeps ==
  ASSUME MemoIInv, NEW f \in Filers, LoadLedger(f)
  PROVE  MemoIInv'
<1>1. MemoTyped /\ AtWork(f) /\ reportLock = f /\ filer[f].copy = NoEntries
  BY DEF MemoIInv, LoadLedger, AtWork, OneFiler, CopyHolds
<1> DEFINE todo == {c \in Classes : ToFile(ledger[c]) \/ ToComment(ledger[c])}
           w == [step |-> "call", copy |-> ledger, at |-> <<>>, todo |-> todo]
<1>2. /\ filer' = [filer EXCEPT ![f] = w]
      /\ UNCHANGED <<files, recorder, ledgerLock, reportLock, reporting, github, published, failures, unsure, deaths>>
  BY DEF LoadLedger, ghost
<1>3. todo \subseteq Classes /\ ledger \in [Classes -> Entries]
  BY <1>1 DEF MemoTyped
<1> HIDE DEF todo
<1>4. w \in FilerWork /\ w.step = "call" /\ w.copy = ledger
  BY <1>3 DEF FilerWork, FilerSteps
<1> HIDE DEF w
<1>5. filer'[f] = w /\ ledger' = ledger /\ failures' = failures
  BY <1>1, <1>2 DEF MemoTyped, files
<1>6. ASSUME NEW c \in Classes PROVE Brings(ledger[c], ledger[c])
  <2>1. ledger[c].count \in Nat /\ ledger[c].commented \in Nat
    BY <1>1, EntryFields
  <2> QED BY <2>1 DEF Brings
<1>7. CopyHolds(f)'
  BY <1>4, <1>5, <1>6 DEF CopyHolds
<1>8. \A c \in Classes : SoundEntry(w.copy[c])
  BY <1>4 DEF MemoIInv, EntriesAreSound
<1>9. ASSUME NEW c \in Classes \ unsure' PROVE IssueIsKnown(c)' /\ CommentsAreDue(c)'
  <2>1. IssueIsKnown(c) /\ CommentsAreDue(c) /\ c \in Classes /\ github' = github
    BY <1>2 DEF MemoIInv
  <2>2. filer[f].copy[c] = NoEntry /\ ~NoEntry.url /\ NoEntry.commented = 0
    BY <1>1, NoEntryIs
  <2>3. ledger[c].commented \in Nat
    BY <1>1, EntryFields
  <2>4. filer[f].copy[c].url => w.copy[c].url \/ ledger[c].url
    BY <2>2
  <2>5. filer[f].copy[c].commented <= ledger[c].commented
    BY <2>2, <2>3
  <2> QED BY <1>2, <1>4, <1>5, <2>1, <2>4, <2>5, ClassStays
<1>10. \A g \in Filers \ {f} : AtWork(g) => reportLock' = g
  BY <1>1, OthersHaveNothing
<1>11. /\ recorder' \in [Recorders -> RecorderWork]
       /\ \A r \in Recorders : recorder'[r].step = "lock" => recorder'[r].error \in Errors
       /\ ledgerLock' \in Recorders \cup Filers \cup {NoProcess} /\ reportLock' \in Filers \cup {NoProcess}
       /\ reporting' \in BOOLEAN /\ deaths' \in 0..MaxDeaths /\ unsure' \subseteq Classes
       /\ github' \in [Classes -> Issues] /\ published' \cap Private = {} /\ reportLock' = f
  BY <1>1, <1>2 DEF MemoTyped, MemoIInv
<1> QED BY <1>2, <1>4, <1>5, <1>7, <1>8, <1>9, <1>10, <1>11, FilerMoves

\* What was learned goes into the ledger as it is now.
LEMMA MergeLedgerKeeps ==
  ASSUME MemoIInv, NEW f \in Filers, MergeLedger(f)
  PROVE  MemoIInv'
<1>1. MemoTyped /\ AtWork(f) /\ filer[f].step = "call"
  BY DEF MemoIInv, MergeLedger, AtWork
<1>2. /\ ledgerLock' = f /\ ledger' = Merged(ledger, filer[f].copy)
      /\ filer' = [filer EXCEPT ![f].step = "memo"]
      /\ UNCHANGED <<recorder, reportLock, reporting, github, published, failures, unsure, deaths>>
  BY DEF MergeLedger, FStep, ghost
<1>3. "memo" \in FilerSteps
  BY DEF FilerSteps
<1> DEFINE w == Stepped(f, "memo")
<1>4. /\ filer' = [filer EXCEPT ![f] = w]
      /\ w \in FilerWork /\ w.step = "memo" /\ w.copy = filer[f].copy
  BY <1>1, <1>2, <1>3, FilerSteppedIs
<1> HIDE DEF w
<1>5. filer'[f] = w /\ (\A g \in Filers \ {f} : filer'[g] = filer[g]) /\ filer' \in [Filers -> FilerWork]
  BY <1>1, <1>4 DEF MemoTyped
<1>6. ASSUME NEW c \in Classes
      PROVE  /\ ledger'[c] \in Entries
             /\ ledger'[c].count = ledger[c].count /\ ledger'[c].sample = ledger[c].sample
             /\ ledger'[c].url = filer[f].copy[c].url /\ ledger'[c].commented = filer[f].copy[c].commented
  <2>1. ledger[c] \in Entries /\ filer[f].copy[c].url \in BOOLEAN /\ filer[f].copy[c].commented \in Nat
    BY <1>1, EntryFields
  <2>2. ledger'[c] = [ledger[c] EXCEPT !.url = filer[f].copy[c].url, !.commented = filer[f].copy[c].commented]
    BY <1>2 DEF Merged
  <2>3. PICK x : x = [ledger[c] EXCEPT !.url = filer[f].copy[c].url, !.commented = filer[f].copy[c].commented]
    OBVIOUS
  <2>4. x = [count |-> ledger[c].count, sample |-> ledger[c].sample, url |-> filer[f].copy[c].url,
             commented |-> filer[f].copy[c].commented]
    BY <2>1, <2>3 DEF Entries
  <2>5. /\ x \in Entries /\ x.count = ledger[c].count /\ x.sample = ledger[c].sample
        /\ x.url = filer[f].copy[c].url /\ x.commented = filer[f].copy[c].commented
    BY <2>1, <2>4 DEF Entries
  <2>6. ledger'[c] = x
    BY <2>2, <2>3
  <2> QED BY <2>5, <2>6
<1>7. ledger' \in [Classes -> Entries]
  <2>1. ledger' = [c \in Classes |-> ledger'[c]]
    BY <1>2 DEF Merged
  <2> QED BY <1>6, <2>1
<1>8. MemoTyped'
  BY <1>1, <1>2, <1>5, <1>7 DEF MemoTyped
<1>9. EntriesAreSound'
  <2>1. ASSUME NEW c \in Classes PROVE SoundEntry(ledger'[c])
    <3>1. SoundEntry(ledger[c]) /\ SoundEntry(filer[f].copy[c]) /\ Brings(ledger[c], filer[f].copy[c])
      BY <1>1 DEF MemoIInv, EntriesAreSound, CopyHolds
    <3>2. /\ ledger[c].count \in Nat /\ filer[f].copy[c].count \in Nat /\ filer[f].copy[c].commented \in Nat
      BY <1>1, EntryFields
    <3>3. filer[f].copy[c].count <= ledger[c].count /\ filer[f].copy[c].commented <= filer[f].copy[c].count
      BY <3>1 DEF Brings, SoundEntry
    <3>4. filer[f].copy[c].commented <= ledger[c].count
      BY <3>2, <3>3
    <3>5. filer[f].copy[c].url => ledger[c].count > 0
      <4>1. filer[f].copy[c].url => filer[f].copy[c].count > 0
        BY <3>1 DEF SoundEntry
      <4> QED BY <3>2, <3>3, <4>1
    <3>6. ~filer[f].copy[c].url => filer[f].copy[c].commented = 0
      BY <3>1 DEF SoundEntry
    <3>7. ledger[c].count > 0 => ledger[c].sample \in Samples
      BY <3>1 DEF SoundEntry
    <3> QED BY <1>6, <3>4, <3>5, <3>6, <3>7 DEF SoundEntry
  <2>2. ASSUME NEW c \in Classes, NEW g \in Filers PROVE SoundEntry(filer'[g].copy[c])
    <3>1. filer'[g].copy = filer[g].copy
      BY <1>4, <1>5
    <3> QED BY <3>1 DEF MemoIInv, EntriesAreSound
  <2> QED BY <2>1, <2>2 DEF EntriesAreSound
<1>10. OneFiler'
  BY <1>1, <1>2, <1>5 DEF MemoIInv, OneFiler, AtWork
<1>11. CountsAreKept'
  BY <1>2, <1>6 DEF MemoIInv, CountsAreKept
<1>12. ASSUME NEW g \in Filers PROVE CopyHolds(g)'
  <2>1. CASE g = f
    BY <1>4, <1>5, <1>6, <2>1 DEF CopyHolds
  <2>2. CASE g # f
    <3>1. ~AtWork(g) /\ filer'[g] = filer[g] /\ CopyHolds(g)
      BY <1>1, <1>5, <2>2, OthersHaveNothing DEF MemoIInv
    <3> QED BY <3>1 DEF CopyHolds, AtWork
  <2> QED BY <2>1, <2>2
<1>13. ASSUME NEW c \in Classes \ unsure' PROVE IssueIsKnown(c)' /\ CommentsAreDue(c)'
  <2>1. c \in Classes \ unsure /\ github' = github
    BY <1>2
  <2>2. /\ github[c].issues = 0 \/ github[c].issues = 1
        /\ github[c].issues = 0 \/ filer[f].copy[c].url
        /\ github[c].comments <= Cardinality(ReachedAt(filer[f].copy[c].commented))
    BY <1>1, <2>1, WorkerKnows
  <2>3. IssueIsKnown(c)'
    BY <1>6, <2>1, <2>2 DEF IssueIsKnown
  <2>4. CommentsAreDue(c)'
    BY <1>6, <2>1, <2>2 DEF CommentsAreDue
  <2> QED BY <2>3, <2>4
<1>14. published' \cap Private = {}
  BY <1>2 DEF MemoIInv
<1> QED BY <1>8, <1>9, <1>10, <1>11, <1>12, <1>13, <1>14 DEF MemoIInv

\* A filer that is gone, by itself or killed: what it knew is in the ledger or was lost.
LEMMA FilerGoneKeeps ==
  ASSUME MemoIInv, NEW f \in Filers, filer' = [filer EXCEPT ![f] = Off],
         UNCHANGED <<ledger, recorder, reporting, github, published, failures>>,
         ledgerLock' \in Recorders \cup Filers \cup {NoProcess}, deaths' \in 0..MaxDeaths,
         reportLock' = IF reportLock = f THEN NoProcess ELSE reportLock,
         unsure \subseteq unsure', unsure' \subseteq Classes,
         \A c \in Classes \ unsure' : filer[f].copy[c].commented <= ledger[c].commented
  PROVE  MemoIInv'
<1>1. MemoTyped /\ filer[f] \in FilerWork
  BY EntryFields DEF MemoIInv
<1>2. Off \in FilerWork /\ Off.step = "off" /\ Off.copy = NoEntries /\ filer'[f] = Off
  BY <1>1, NoEntryIs DEF MemoTyped
<1>3. \A c \in Classes : SoundEntry(Off.copy[c])
  BY <1>2, NoEntryIs
<1>4. CopyHolds(f)'
  BY <1>2 DEF CopyHolds
<1>5. ASSUME NEW c \in Classes \ unsure' PROVE IssueIsKnown(c)' /\ CommentsAreDue(c)'
  <2>1. IssueIsKnown(c) /\ CommentsAreDue(c) /\ c \in Classes
    BY DEF MemoIInv
  <2>2. filer[f].copy[c].commented <= ledger[c].commented
    OBVIOUS
  <2>3. filer[f].copy[c].url => ledger[c].url
    <3>1. filer[f].copy[c].commented \in Nat /\ ledger[c].commented \in Nat
      BY <1>1, <2>1, EntryFields
    <3>2. CASE filer[f].step \in {"off", "spawned", "load"}
      BY <2>1, <3>2, NoEntryIs DEF MemoIInv, CopyHolds
    <3>3. CASE filer[f].step \in {"call", "create"}
      <4>1. Brings(ledger[c], filer[f].copy[c])
        BY <2>1, <3>3 DEF MemoIInv, CopyHolds
      <4>2. ~(filer[f].copy[c].commented > ledger[c].commented)
        BY <2>2, <3>1
      <4> QED BY <4>1, <4>2 DEF Brings
    <3>4. CASE filer[f].step = "memo"
      BY <2>1, <3>4 DEF MemoIInv, CopyHolds
    <3> QED BY <1>1, <3>2, <3>3, <3>4 DEF FilerWork, FilerSteps
  <2>4. /\ filer[f].copy[c].url => Off.copy[c].url \/ ledger[c].url
        /\ \/ filer[f].copy[c].commented <= Off.copy[c].commented
           \/ filer[f].copy[c].commented <= ledger[c].commented
    BY <2>2, <2>3
  <2> QED BY <1>2, <2>1, <2>4, ClassStays
<1>6. \A g \in Filers \ {f} : AtWork(g) => reportLock' = g
  BY DEF MemoIInv, OneFiler
<1>7. /\ recorder' \in [Recorders -> RecorderWork]
      /\ \A r \in Recorders : recorder'[r].step = "lock" => recorder'[r].error \in Errors
      /\ reportLock' \in Filers \cup {NoProcess} /\ reporting' \in BOOLEAN
      /\ github' \in [Classes -> Issues] /\ published' \cap Private = {}
  BY <1>1 DEF MemoTyped, MemoIInv
<1>8. Off.step \notin {"load", "call", "create", "memo"}
  BY <1>2
<1> QED BY <1>2, <1>3, <1>4, <1>5, <1>6, <1>7, <1>8, FilerMoves

\* The filer leaves once the ledger has what it learned.
LEMMA LeaveFilerKeeps ==
  ASSUME MemoIInv, NEW f \in Filers, LeaveFiler(f)
  PROVE  MemoIInv'
<1>1. MemoTyped
  BY DEF MemoIInv
<1>2. /\ filer[f].step = "memo" /\ ledgerLock' = NoProcess
      /\ reportLock' = IF reportLock = f THEN NoProcess ELSE reportLock
      /\ filer' = [filer EXCEPT ![f] = Off]
      /\ UNCHANGED <<ledger, recorder, reporting, github, published, failures, unsure, deaths>>
  BY DEF LeaveFiler, ghost
<1>3. ASSUME NEW c \in Classes PROVE filer[f].copy[c].commented <= ledger[c].commented
  <2>1. filer[f].copy[c].commented = ledger[c].commented
    BY <1>2 DEF MemoIInv, CopyHolds
  <2>2. ledger[c].commented \in Nat
    BY <1>1, EntryFields
  <2> QED BY <2>1, <2>2
<1>4. unsure \subseteq unsure' /\ unsure' \subseteq Classes /\ deaths' \in 0..MaxDeaths
  BY <1>1, <1>2 DEF MemoTyped
<1>5. ledgerLock' \in Recorders \cup Filers \cup {NoProcess}
  BY <1>2
<1> QED BY <1>2, <1>3, <1>4, <1>5, FilerGoneKeeps

\* The filer is killed: what it had learned and not saved is unsure.
LEMMA FilerDiesKeeps ==
  ASSUME MemoIInv, NEW f \in Filers, FilerDies(f)
  PROVE  MemoIInv'
<1>1. MemoTyped
  BY DEF MemoIInv
<1> DEFINE unsaved == {c \in Classes : filer[f].copy[c].commented > ledger[c].commented}
<1>2. /\ deaths < MaxDeaths /\ deaths' = deaths + 1 /\ unsure' = unsure \cup unsaved
      /\ ledgerLock' = Released(ledgerLock, f)
      /\ reportLock' = IF reportLock = f THEN NoProcess ELSE reportLock
      /\ filer' = [filer EXCEPT ![f] = Off]
      /\ UNCHANGED <<ledger, recorder, reporting, github, published, failures>>
  BY DEF FilerDies, files, Released
<1>3. ASSUME NEW c \in Classes \ unsure' PROVE filer[f].copy[c].commented <= ledger[c].commented
  <2>1. filer[f].copy[c].commented \in Nat /\ ledger[c].commented \in Nat /\ c \in Classes
    BY <1>1, EntryFields
  <2>2. ~(filer[f].copy[c].commented > ledger[c].commented)
    BY <1>2
  <2> QED BY <2>1, <2>2
<1>4. unsure \subseteq unsure' /\ unsure' \subseteq Classes
  BY <1>1, <1>2 DEF MemoTyped
<1>5. ledgerLock' \in Recorders \cup Filers \cup {NoProcess}
  BY <1>1, <1>2 DEF Released, MemoTyped
<1>6. deaths' \in 0..MaxDeaths
  <2>1. MaxDeaths \in Nat /\ deaths \in 0..MaxDeaths
    BY <1>1, MemoConstants DEF MemoTyped
  <2> QED BY <1>2, <2>1
<1> QED BY <1>2, <1>3, <1>4, <1>5, <1>6, FilerGoneKeeps

\* The other steps of a recorder move it on and change no entry.
LEMMA RecorderKeeps ==
  ASSUME MemoIInv, NEW r \in Recorders, Fail(r) \/ WriteMemo(r) \/ RecorderDies(r)
  PROVE  MemoIInv'
<1>1. MemoTyped
  BY DEF MemoIInv
<1>2. /\ UNCHANGED <<ledger, filer, reportLock, reporting, github, published, failures, unsure>>
      /\ ledgerLock' \in Recorders \cup Filers \cup {NoProcess}
  <2>1. CASE Fail(r)
    BY <1>1, <2>1 DEF Fail, files, MemoTyped
  <2>2. CASE WriteMemo(r)
    BY <1>1, <2>2 DEF WriteMemo, ghost, MemoTyped
  <2>3. CASE RecorderDies(r)
    BY <1>1, <2>3 DEF RecorderDies, files, Released, MemoTyped
  <2> QED BY <2>1, <2>2, <2>3
<1>3. deaths' \in 0..MaxDeaths
  <2>1. MaxDeaths \in Nat /\ deaths \in 0..MaxDeaths
    BY <1>1, MemoConstants DEF MemoTyped
  <2>2. deaths' = deaths \/ (deaths < MaxDeaths /\ deaths' = deaths + 1)
    BY DEF Fail, WriteMemo, RecorderDies, ghost
  <2> QED BY <2>1, <2>2
<1>4. \E w \in RecorderWork : recorder' = [recorder EXCEPT ![r] = w] /\ (w.step = "lock" => w.error \in Errors)
  <2>1. CASE Fail(r)
    <3>1. PICK e \in Errors : recorder' = [recorder EXCEPT ![r] = [step |-> "lock", error |-> e]]
      BY <2>1 DEF Fail
    <3>2. [step |-> "lock", error |-> e] \in RecorderWork
      BY DEF RecorderWork
    <3> QED BY <3>1, <3>2
  <2>2. CASE WriteMemo(r)
    <3>1. recorder' = [recorder EXCEPT ![r] = [step |-> "spawn", error |-> <<>>]]
      BY <2>2 DEF WriteMemo
    <3>2. [step |-> "spawn", error |-> <<>>] \in RecorderWork
      BY DEF RecorderWork
    <3> QED BY <3>1, <3>2
  <2>3. CASE RecorderDies(r)
    <3>1. recorder' = [recorder EXCEPT ![r] = Idle]
      BY <2>3 DEF RecorderDies
    <3>2. Idle \in RecorderWork /\ Idle.step # "lock"
      BY DEF Idle, RecorderWork
    <3> QED BY <3>1, <3>2
  <2> QED BY <2>1, <2>2, <2>3
<1> QED BY <1>2, <1>3, <1>4, RecorderMoves

\* Every step of recorders, filers and GitHub keeps the invariant.
LEMMA MemoStepStays ==
  ASSUME MemoIInv, MemoNext
  PROVE  MemoIInv'
<1>1. ASSUME NEW r \in Recorders, Fail(r) \/ CountFailure(r) \/ WriteMemo(r) \/ SpawnFiler(r) \/ RecorderDies(r)
      PROVE  MemoIInv'
  BY <1>1, CountFailureKeeps, SpawnFilerKeeps, RecorderKeeps
<1>2. ASSUME NEW f \in Filers,
             \/ TakeReportLock(f) \/ LoadLedger(f) \/ Search(f) \/ Create(f) \/ Comment(f)
             \/ MergeLedger(f) \/ LeaveFiler(f) \/ FilerDies(f)
      PROVE  MemoIInv'
  BY <1>2, TakeReportLockKeeps, LoadLedgerKeeps, SearchKeeps, CreateKeeps, CommentKeeps, MergeLedgerKeeps,
     LeaveFilerKeeps, FilerDiesKeeps
<1> QED BY <1>1, <1>2, OutsideKeeps DEF MemoNext

\* A step of another part keeps it.
LEMMA MemoStutters ==
  ASSUME MemoIInv, UNCHANGED memoVars
  PROVE  MemoIInv'
<1>1. /\ ledger' = ledger /\ recorder' = recorder /\ filer' = filer /\ ledgerLock' = ledgerLock
      /\ reportLock' = reportLock /\ reporting' = reporting /\ github' = github /\ published' = published
      /\ failures' = failures /\ unsure' = unsure /\ deaths' = deaths
  BY DEF memoVars, ghost
<1>2. MemoTyped'
  BY <1>1 DEF MemoIInv, MemoTyped
<1>3. \A c : (IssueIsKnown(c) <=> IssueIsKnown(c)') /\ (CommentsAreDue(c) <=> CommentsAreDue(c)')
  BY <1>1 DEF IssueIsKnown, CommentsAreDue
<1>4. \A f : CopyHolds(f) <=> CopyHolds(f)'
  BY <1>1 DEF CopyHolds
<1> QED BY <1>1, <1>2, <1>3, <1>4 DEF MemoIInv, EntriesAreSound, OneFiler, AtWork, CountsAreKept

\* It holds when nothing has failed yet.
LEMMA MemoStart ==
  ASSUME MemoInit
  PROVE  MemoIInv
<1>1. /\ ledger = NoEntries /\ filer = [f \in Filers |-> Off] /\ recorder = [r \in Recorders |-> Idle]
      /\ github = [c \in Classes |-> [issues |-> 0, found |-> FALSE, comments |-> 0]]
      /\ failures = [c \in Classes |-> 0]
  BY DEF MemoInit, NoEntries
<1>2. Idle \in RecorderWork /\ Idle.step = "idle"
  BY DEF Idle, RecorderWork
<1>3. [issues |-> 0, found |-> FALSE, comments |-> 0] \in Issues
  BY DEF Issues
<1>4. MemoTyped
  <2>1. ledger \in [Classes -> Entries] /\ failures \in [Classes -> Nat] /\ github \in [Classes -> Issues]
    BY <1>1, <1>3, NoEntryIs
  <2>2. filer \in [Filers -> FilerWork] /\ recorder \in [Recorders -> RecorderWork]
    BY <1>1, <1>2, NoEntryIs
  <2>3. \A r \in Recorders : recorder[r].step # "lock"
    BY <1>1, <1>2
  <2>4. deaths \in 0..MaxDeaths
    <3>1. MaxDeaths \in Nat /\ deaths = 0
      BY MemoConstants DEF MemoInit
    <3> QED BY <3>1
  <2> QED BY <2>1, <2>2, <2>3, <2>4 DEF MemoTyped, MemoInit
<1>5. \A c \in Classes : ledger[c] = NoEntry /\ \A f \in Filers : filer[f].copy[c] = NoEntry
  BY <1>1, NoEntryIs
<1>6. EntriesAreSound
  BY <1>5, NoEntryIs DEF EntriesAreSound
<1>7. \A f \in Filers : filer[f].step = "off" /\ filer[f].copy = NoEntries
  BY <1>1, NoEntryIs
<1>8. OneFiler /\ \A f \in Filers : CopyHolds(f)
  BY <1>7 DEF OneFiler, AtWork, CopyHolds
<1>9. CountsAreKept
  BY <1>1, <1>5, NoEntryIs DEF CountsAreKept
<1>10. ASSUME NEW c \in Classes PROVE IssueIsKnown(c) /\ CommentsAreDue(c)
  <2>1. github[c].issues = 0 /\ github[c].comments = 0
    BY <1>1
  <2>2. ledger[c].commented = 0
    BY <1>5, NoEntryIs
  <2>3. Cardinality(ReachedAt(0)) \in Nat
    <3>1. 0 \in Nat /\ 0 <= 0
      OBVIOUS
    <3> QED BY <3>1, DueGrows
  <2>4. 0 <= Cardinality(ReachedAt(0))
    BY <2>3
  <2> QED BY <2>1, <2>2, <2>4 DEF IssueIsKnown, CommentsAreDue
<1>11. published \cap Private = {}
  BY DEF MemoInit
<1> QED BY <1>4, <1>6, <1>8, <1>9, <1>10, <1>11 DEF MemoIInv

\* It implies what is promised of the memo.
LEMMA MemoPromise ==
  ASSUME MemoIInv
  PROVE  MemoInv
<1>1. MemoTyped /\ CountsAreKept
  BY DEF MemoIInv
<1>2. MemoTypeOK
  <2>1. ASSUME NEW c \in Classes
        PROVE  /\ ledger[c].count \in Nat /\ ledger[c].url \in BOOLEAN
               /\ ledger[c].commented \in 0..ledger[c].count
               /\ ledger[c].url \/ ledger[c].count > 0 => ledger[c].sample # <<>>
               /\ github[c].issues \in 0..2 /\ github[c].found \in BOOLEAN /\ github[c].comments \in Nat
    <3>1. /\ ledger[c].count \in Nat /\ ledger[c].url \in BOOLEAN /\ ledger[c].commented \in Nat
          /\ github[c] \in Issues
      BY <1>1, EntryFields
    <3>2. github[c].issues \in 0..2 /\ github[c].found \in BOOLEAN /\ github[c].comments \in Nat
      BY <3>1, <1>1, EntryFields
    <3>3. SoundEntry(ledger[c])
      BY DEF MemoIInv, EntriesAreSound
    <3>4. ledger[c].commented \in 0..ledger[c].count
      BY <3>1, <3>3 DEF SoundEntry
    <3>5. ledger[c].url \/ ledger[c].count > 0 => ledger[c].sample # <<>>
      BY <3>3, SampleIsClean DEF SoundEntry, Samples
    <3> QED BY <3>1, <3>2, <3>4, <3>5
  <2>2. \A r \in Recorders : recorder[r].step \in {"idle", "lock", "memo", "spawn"}
    BY <1>1 DEF MemoTyped, RecorderWork
  <2>3. \A f \in Filers : filer[f].step \in {"off", "spawned", "load", "call", "create", "merge", "memo"}
    BY <1>1 DEF MemoTyped, FilerWork, FilerSteps
  <2> QED BY <1>1, <2>1, <2>2, <2>3 DEF MemoTypeOK, MemoTyped
<1>3. OneIssuePerFailure
  <2> SUFFICES ASSUME NEW c \in Classes, github[c].issues > 1, c \notin unsure PROVE FALSE
    BY DEF OneIssuePerFailure
  <2>1. github[c].issues <= 1 /\ github[c].issues \in 0..2
    BY <1>1, EntryFields DEF MemoIInv, IssueIsKnown
  <2> QED BY <2>1
<1>4. CommentsAtMilestones
  <2> SUFFICES ASSUME NEW c \in Classes, c \notin unsure
               PROVE  github[c].comments <= Cardinality(ReachedAt(failures[c]))
    BY DEF CommentsAtMilestones, ReachedAt
  <2>1. /\ ledger[c].count = failures[c] /\ ledger[c].count \in Nat /\ ledger[c].commented \in Nat
        /\ ledger[c].commented <= ledger[c].count /\ github[c].comments \in Nat
    BY <1>1, EntryFields DEF MemoIInv, CountsAreKept, EntriesAreSound, SoundEntry
  <2>2. \A n \in Nat : n <= ledger[c].count =>
           /\ Cardinality(ReachedAt(n)) <= Cardinality(ReachedAt(ledger[c].count))
           /\ Cardinality(ReachedAt(n)) \in Nat /\ Cardinality(ReachedAt(ledger[c].count)) \in Nat
    BY <2>1, DueGrows
  <2>3. ASSUME NEW f \in Filers
        PROVE  filer[f].copy[c].commented \in Nat /\ filer[f].copy[c].commented <= ledger[c].count
    <3>1. /\ filer[f].copy[c].commented \in Nat /\ filer[f].copy[c].count \in Nat
          /\ filer[f].copy[c].commented <= filer[f].copy[c].count /\ CopyHolds(f) /\ filer[f] \in FilerWork
      BY <1>1, EntryFields DEF MemoIInv, EntriesAreSound, SoundEntry
    <3>2. CASE filer[f].step \in {"off", "spawned", "load"}
      <4>1. filer[f].copy[c].commented = 0
        BY <3>1, <3>2, NoEntryIs DEF CopyHolds
      <4> QED BY <2>1, <4>1
    <3>3. CASE filer[f].step \in {"call", "create"}
      <4>1. filer[f].copy[c].count <= ledger[c].count
        BY <3>1, <3>3 DEF CopyHolds, Brings
      <4> QED BY <2>1, <3>1, <4>1
    <3>4. CASE filer[f].step = "memo"
      <4>1. filer[f].copy[c].commented = ledger[c].commented
        BY <3>1, <3>4 DEF CopyHolds
      <4> QED BY <2>1, <4>1
    <3> QED BY <3>1, <3>2, <3>3, <3>4 DEF FilerWork, FilerSteps
  <2>4. CASE github[c].comments <= Cardinality(ReachedAt(ledger[c].commented))
    BY <2>1, <2>2, <2>4
  <2>5. CASE \E f \in Filers : github[c].comments <= Cardinality(ReachedAt(filer[f].copy[c].commented))
    <3>1. PICK f \in Filers : github[c].comments <= Cardinality(ReachedAt(filer[f].copy[c].commented))
      BY <2>5
    <3> DEFINE n == filer[f].copy[c].commented
    <3>2. n \in Nat /\ n <= ledger[c].count
      BY <2>3
    <3> HIDE DEF n
    <3>3. github[c].comments <= Cardinality(ReachedAt(n))
      BY <3>1 DEF n
    <3> QED BY <2>1, <2>2, <3>2, <3>3
  <2> QED BY <2>4, <2>5 DEF MemoIInv, CommentsAreDue
<1>5. NothingPrivateLeaves
  BY DEF MemoIInv, NothingPrivateLeaves, Private
<1> QED BY <1>1, <1>2, <1>3, <1>4, <1>5 DEF MemoInv

-----------------------------------------------------------------------------
(* brgr's line in front of the user's.                                          *)

Originals == OwnLines \cup {<<>>}
Values == Originals \cup {Chained(e, o) : e \in Executables, o \in Originals}
Member == [key : {"statusLine", "theme"}, value : Values]
Files == {f \in Seq(Member) : \A i, j \in 1..Len(f) : IsLine(f[i]) /\ IsLine(f[j]) => i = j}
Receipts == {[command |-> Chained(e, o), original |-> o] : e \in Executables, o \in Originals}
LineCommand ==
    [step : {"idle", "install", "receipt", "restore", "remove"}, exe : Executables \cup {""}, file : Files,
     old : Receipts \cup {Absent}, new : Receipts \cup {Absent}, stale : BOOLEAN]

LineTyped ==
    /\ settings \in Files /\ mine \in Files /\ (HasLine(mine) => Line(mine) \in OwnLines)
    /\ lineReceipt \in Receipts \cup {Absent}
    /\ lineCmd \in [Commands -> LineCommand]
    /\ \A c \in Commands :
          /\ lineCmd[c].step \in {"install", "receipt"} => lineCmd[c].new \in Receipts
          /\ lineCmd[c].step = "restore" => lineCmd[c].old \in Receipts
    /\ disturbed \in BOOLEAN /\ overwritten \in BOOLEAN
    /\ starts \in 0..MaxStarts /\ edits \in 0..MaxEdits /\ kills \in 0..MaxKills

\* A file is the user's own, or has brgr in front of the user's line.
Wraps(f) == f = mine \/ \E e \in Executables : f = WithStatusLine(mine, Chained(e, Line(mine)))
NotStale(c) == ~lineCmd[c].stale
CommandsWrap ==
    \A c \in Commands :
        /\ lineCmd[c].step = "install" /\ NotStale(c) => Wraps(lineCmd[c].file) /\ lineCmd[c].new.original = Line(mine)
        /\ lineCmd[c].step = "restore" /\ NotStale(c) =>
              /\ \E e \in Executables : lineCmd[c].file = WithStatusLine(mine, Chained(e, Line(mine)))
              /\ lineCmd[c].old.original = Line(mine)

\* Without brgr's line, or with the one a receipt tells of.
Known(r) == settings = mine \/ (r # Absent /\ Line(settings) = r.command)
OneAtATime ==
    /\ \A c, d \in Commands : BusyLine(c) /\ BusyLine(d) => c = d
    /\ \A c \in Commands : lineCmd[c].step = "receipt" => Known(lineCmd[c].new)
    /\ \A c \in Commands : lineCmd[c].step = "remove" => settings = mine
    /\ (\A c \in Commands : lineCmd[c].step \notin {"receipt", "remove"}) => Known(lineReceipt)

LineIInv ==
    /\ LineTyped
    /\ ~overwritten => Wraps(settings) /\ CommandsWrap
    /\ ~overwritten /\ ~disturbed => OneAtATime
-----------------------------------------------------------------------------
\* Where the status line is: at the one member that is one, or nowhere.
LEMMA LineIsAt ==
  ASSUME NEW f \in Files
  PROVE  /\ f \in Seq(Member) /\ Len(f) \in Nat /\ \A i \in 1..Len(f) : f[i] \in Member
         /\ \A k \in 1..Len(f) : IsLine(f[k]) => LineAt(f) = k
         /\ (\A k \in 1..Len(f) : ~IsLine(f[k])) => LineAt(f) = 0
         /\ HasLine(f) => LineAt(f) \in 1..Len(f) /\ IsLine(f[LineAt(f)])
         /\ HasLine(f) => Line(f) = f[LineAt(f)].value
<1> DEFINE I == {i \in 1..Len(f) : IsLine(f[i])}
<1>1. LineAt(f) = IF I # {} THEN Min(I) ELSE 0
  BY DEF LineAt, SelectInSeq
<1>2. f \in Seq(Member) /\ Len(f) \in Nat /\ \A i \in 1..Len(f) : f[i] \in Member
  BY DEF Files
<1>3. ASSUME NEW k \in 1..Len(f), IsLine(f[k]) PROVE LineAt(f) = k
  <2>1. I = {k}
    BY <1>3 DEF Files
  <2>2. k \in Int
    BY <1>2
  <2>3. k \in {k} /\ k <= k /\ \A y \in {k} : k <= y
    BY <2>2
  <2>4. \A x \in {k} : x = k
    OBVIOUS
  <2> HIDE DEF I
  <2>5. Min({k}) = k
    BY <2>3, <2>4 DEF Min
  <2> QED BY <1>1, <2>1, <2>5
<1>4. ASSUME \A k \in 1..Len(f) : ~IsLine(f[k]) PROVE LineAt(f) = 0
  BY <1>1, <1>4
<1>5. ASSUME HasLine(f) PROVE LineAt(f) \in 1..Len(f) /\ IsLine(f[LineAt(f)])
  <2>1. PICK k \in 1..Len(f) : IsLine(f[k])
    BY <1>4, <1>5 DEF HasLine
  <2> QED BY <1>3, <2>1
<1>6. HasLine(f) => Line(f) = f[LineAt(f)].value
  BY DEF Line
<1> QED BY <1>2, <1>3, <1>4, <1>5, <1>6

\* Two files are the same when they have the same members.
LEMMA SameSettings ==
  ASSUME NEW f \in Files, NEW g \in Files, Len(f) = Len(g), \A i \in 1..Len(f) : f[i] = g[i]
  PROVE  f = g
<1>1. f \in Seq(Member) /\ g \in Seq(Member)
  BY DEF Files
<1> QED BY <1>1, SeqEqual

\* The status line with a value.
Own(v) == [key |-> "statusLine", value |-> v]

\* A file with the line v: the one it has is changed, or there is one in front.
LEMMA WithIs ==
  ASSUME NEW f \in Files, NEW v \in Values
  PROVE  LET w == WithStatusLine(f, v)
         IN  /\ w \in Files /\ HasLine(w) /\ Line(w) = v
             /\ HasLine(f) => /\ Len(w) = Len(f) /\ LineAt(w) = LineAt(f)
                              /\ \A i \in 1..Len(f) : w[i] = IF i = LineAt(f) THEN Own(v) ELSE f[i]
             /\ ~HasLine(f) => /\ Len(w) = Len(f) + 1 /\ LineAt(w) = 1 /\ w[1] = Own(v)
                               /\ \A i \in 1..Len(f) : w[i + 1] = f[i]
<1> DEFINE w == WithStatusLine(f, v)
<1>1. f \in Seq(Member) /\ Len(f) \in Nat /\ \A i \in 1..Len(f) : f[i] \in Member
  BY LineIsAt
<1>2. Own(v) \in Member /\ IsLine(Own(v)) /\ Own(v).value = v
  BY DEF Own, Member, IsLine
<1>3. CASE HasLine(f)
  <2> DEFINE k == LineAt(f)
  <2>1. k \in 1..Len(f) /\ IsLine(f[k])
    BY <1>3, LineIsAt
  <2>2. f[k] \in Member
    BY <1>1, <2>1
  <2>3. [f[k] EXCEPT !.value = v] = Own(v)
    BY <2>1, <2>2 DEF Member, IsLine, Own
  <2>4. w = [f EXCEPT ![k] = Own(v)]
    BY <1>3, <2>3 DEF WithStatusLine
  <2> HIDE DEF k, w
  <2>5. w \in Seq(Member) /\ Len(w) = Len(f) /\ \A i \in 1..Len(f) : w[i] = IF i = k THEN Own(v) ELSE f[i]
    BY <1>1, <1>2, <2>1, <2>4
  <2>6. \A i, j \in 1..Len(f) : IsLine(w[i]) /\ IsLine(w[j]) => i = j
    <3>1. \A i \in 1..Len(f) : IsLine(w[i]) => i = k
      <4> SUFFICES ASSUME NEW i \in 1..Len(f), IsLine(w[i]), i # k PROVE FALSE
        OBVIOUS
      <4>1. IsLine(f[i])
        BY <2>5
      <4> QED BY <2>1, <4>1 DEF Files
    <3> QED BY <3>1
  <2>7. w \in Files
    BY <2>5, <2>6 DEF Files
  <2>8. LineAt(w) = k
    BY <1>2, <2>1, <2>5, <2>7, LineIsAt
  <2>9. HasLine(w) /\ Line(w) = v
    BY <1>2, <2>1, <2>5, <2>8 DEF HasLine, Line
  <2> QED BY <1>3, <2>5, <2>7, <2>8, <2>9 DEF k, w
<1>4. CASE ~HasLine(f)
  <2>1. w = <<Own(v)>> \o f
    BY <1>4 DEF WithStatusLine, Own
  <2>2. <<Own(v)>> \in Seq(Member) /\ Len(<<Own(v)>>) = 1
    BY <1>2
  <2>3. /\ w \in Seq(Member) /\ Len(w) = 1 + Len(f)
        /\ \A i \in 1..1 + Len(f) : w[i] = IF i <= 1 THEN <<Own(v)>>[i] ELSE f[i - 1]
    BY <1>1, <2>1, <2>2, ConcatProperties
  <2> HIDE DEF w
  <2>4. w[1] = Own(v) /\ Len(w) = Len(f) + 1
    BY <1>1, <2>3
  <2>5. ASSUME NEW i \in 1..Len(f) PROVE w[i + 1] = f[i]
    <3>1. i + 1 \in 1..1 + Len(f) /\ ~(i + 1 <= 1) /\ (i + 1) - 1 = i
      BY <1>1
    <3> QED BY <2>3, <3>1
  <2>6. ASSUME NEW i \in 1..Len(w), IsLine(w[i]) PROVE i = 1
    <3> SUFFICES ASSUME i # 1 PROVE FALSE
      OBVIOUS
    <3>1. i - 1 \in 1..Len(f) /\ (i - 1) + 1 = i
      BY <1>1, <2>4
    <3>2. IsLine(f[i - 1])
      BY <2>5, <2>6, <3>1
    <3> QED BY <1>4, <3>1, <3>2, LineIsAt DEF HasLine
  <2>7. w \in Files
    BY <2>3, <2>6 DEF Files
  <2>8. 1 \in 1..Len(w)
    BY <1>1, <2>4
  <2>9. LineAt(w) = 1
    BY <1>2, <2>4, <2>7, <2>8, LineIsAt
  <2>10. HasLine(w) /\ Line(w) = v
    BY <1>2, <2>4, <2>9 DEF HasLine, Line
  <2> QED BY <1>4, <2>4, <2>5, <2>7, <2>9, <2>10 DEF w
<1> QED BY <1>3, <1>4

\* A file without its line: the others move up.
LEMMA WithoutIs ==
  ASSUME NEW f \in Files
  PROVE  LET u == WithoutStatusLine(f)
         IN  /\ u \in Files /\ ~HasLine(u)
             /\ HasLine(f) => /\ Len(u) = Len(f) - 1
                              /\ \A i \in 1..Len(f) - 1 : u[i] = IF i < LineAt(f) THEN f[i] ELSE f[i + 1]
             /\ ~HasLine(f) => u = f
<1> DEFINE u == WithoutStatusLine(f)
<1>1. f \in Seq(Member) /\ Len(f) \in Nat /\ \A i \in 1..Len(f) : f[i] \in Member
  BY LineIsAt
<1>2. CASE ~HasLine(f)
  BY <1>2 DEF WithoutStatusLine
<1>3. CASE HasLine(f)
  <2> DEFINE k == LineAt(f)
             a == SubSeq(f, 1, k - 1)
             b == SubSeq(f, k + 1, Len(f))
  <2>1. k \in 1..Len(f) /\ IsLine(f[k])
    BY <1>3, LineIsAt
  <2>2. u = a \o b
    BY <1>3 DEF WithoutStatusLine, RemoveAt
  <2> HIDE DEF k, u
  <2>3. a \in Seq(Member) /\ Len(a) = k - 1 /\ \A i \in 1..k - 1 : a[i] = f[i]
    <3>1. 1 \in Int /\ k - 1 \in Int /\ \A i \in 1..k - 1 : f[i] \in Member
      BY <1>1, <2>1
    <3>2. /\ a \in Seq(Member)
          /\ Len(a) = IF 1 <= k - 1 THEN (k - 1) - 1 + 1 ELSE 0
          /\ \A i \in 1..(k - 1) - 1 + 1 : a[i] = f[1 + i - 1]
      BY <3>1, SubSeqProperties
    <3> HIDE DEF a
    <3>3. Len(a) = k - 1
      BY <1>1, <2>1, <3>2
    <3>4. ASSUME NEW i \in 1..k - 1 PROVE a[i] = f[i]
      <4>1. i \in 1..(k - 1) - 1 + 1 /\ 1 + i - 1 = i
        BY <1>1, <2>1
      <4> QED BY <3>2, <4>1
    <3> QED BY <3>2, <3>3, <3>4
  <2>4. b \in Seq(Member) /\ Len(b) = Len(f) - k /\ \A i \in 1..Len(f) - k : b[i] = f[k + i]
    <3>1. k + 1 \in Int /\ Len(f) \in Int /\ \A i \in k + 1..Len(f) : f[i] \in Member
      BY <1>1, <2>1
    <3>2. /\ b \in Seq(Member)
          /\ Len(b) = IF k + 1 <= Len(f) THEN Len(f) - (k + 1) + 1 ELSE 0
          /\ \A i \in 1..Len(f) - (k + 1) + 1 : b[i] = f[(k + 1) + i - 1]
      BY <3>1, SubSeqProperties
    <3> HIDE DEF b
    <3>3. Len(b) = Len(f) - k
      BY <1>1, <2>1, <3>2
    <3>4. ASSUME NEW i \in 1..Len(f) - k PROVE b[i] = f[k + i]
      <4>1. i \in 1..Len(f) - (k + 1) + 1 /\ (k + 1) + i - 1 = k + i
        BY <1>1, <2>1
      <4> QED BY <3>2, <4>1
    <3> QED BY <3>2, <3>3, <3>4
  <2> HIDE DEF a, b
  <2>5. /\ u \in Seq(Member) /\ Len(u) = Len(a) + Len(b)
        /\ \A i \in 1..Len(a) + Len(b) : u[i] = IF i <= Len(a) THEN a[i] ELSE b[i - Len(a)]
    BY <2>2, <2>3, <2>4, ConcatProperties
  <2>6. Len(u) = Len(f) - 1
    BY <1>1, <2>1, <2>3, <2>4, <2>5
  <2>7. ASSUME NEW i \in 1..Len(f) - 1 PROVE u[i] = IF i < k THEN f[i] ELSE f[i + 1]
    <3>1. i \in 1..Len(a) + Len(b)
      BY <1>1, <2>1, <2>3, <2>4
    <3>2. CASE i < k
      <4>1. i <= Len(a) /\ i \in 1..k - 1
        BY <1>1, <2>1, <2>3, <3>2
      <4> QED BY <2>3, <2>5, <3>1, <3>2, <4>1
    <3>3. CASE ~(i < k)
      <4>1. ~(i <= Len(a)) /\ i - Len(a) \in 1..Len(f) - k /\ k + (i - Len(a)) = i + 1
        BY <1>1, <2>1, <2>3, <3>3
      <4> QED BY <2>4, <2>5, <3>1, <3>3, <4>1
    <3> QED BY <3>2, <3>3
  <2>8. ASSUME NEW i \in 1..Len(u) PROVE ~IsLine(u[i])
    <3>1. \A j \in 1..Len(f) : IsLine(f[j]) => j = k
      BY <2>1 DEF Files
    <3>2. i \in 1..Len(f) - 1 /\ i \in 1..Len(f) /\ i + 1 \in 1..Len(f)
      BY <1>1, <2>6
    <3>3. CASE i < k
      <4>1. i # k
        BY <2>1, <3>2, <3>3
      <4> QED BY <2>7, <3>1, <3>2, <3>3, <4>1
    <3>4. CASE ~(i < k)
      <4>1. i + 1 # k
        BY <2>1, <3>2, <3>4
      <4> QED BY <2>7, <3>1, <3>2, <3>4, <4>1
    <3> QED BY <3>3, <3>4
  <2>9. u \in Files
    BY <2>5, <2>8 DEF Files
  <2>10. ~HasLine(u)
    BY <2>8, <2>9, LineIsAt DEF HasLine
  <2> QED BY <1>3, <2>6, <2>7, <2>9, <2>10 DEF k, u
<1> QED BY <1>2, <1>3

\* What is put into a file comes out again, and the rest is as it was.
LEMMA LineComesOut ==
  ASSUME NEW f \in Files, NEW v \in Values
  PROVE  /\ WithoutStatusLine(WithStatusLine(f, v)) = WithoutStatusLine(f)
         /\ ~HasLine(f) => WithoutStatusLine(f) = f
         /\ HasLine(f) /\ v = Line(f) => WithStatusLine(f, v) = f
         /\ \A x \in Values : WithStatusLine(WithStatusLine(f, v), x) = WithStatusLine(f, x)
<1> DEFINE w == WithStatusLine(f, v)
           n == Len(f)
           k == LineAt(f)
<1>1. /\ w \in Files /\ HasLine(w)
      /\ HasLine(f) => /\ Len(w) = n /\ LineAt(w) = k
                       /\ \A i \in 1..n : w[i] = IF i = k THEN Own(v) ELSE f[i]
      /\ ~HasLine(f) => /\ Len(w) = n + 1 /\ LineAt(w) = 1 /\ w[1] = Own(v)
                        /\ \A i \in 1..n : w[i + 1] = f[i]
  BY WithIs
<1>2. n \in Nat /\ (HasLine(f) => k \in 1..n /\ f[k] \in Member /\ IsLine(f[k]) /\ Line(f) = f[k].value)
  BY LineIsAt
<1> HIDE DEF w
<1>3. WithoutStatusLine(w) = WithoutStatusLine(f)
  <2> DEFINE u == WithoutStatusLine(w)
             z == WithoutStatusLine(f)
  <2>1. /\ u \in Files /\ Len(u) = Len(w) - 1
        /\ \A i \in 1..Len(w) - 1 : u[i] = IF i < LineAt(w) THEN w[i] ELSE w[i + 1]
    BY <1>1, WithoutIs
  <2>2. /\ z \in Files
        /\ HasLine(f) => /\ Len(z) = n - 1
                         /\ \A i \in 1..n - 1 : z[i] = IF i < k THEN f[i] ELSE f[i + 1]
        /\ ~HasLine(f) => z = f
    BY WithoutIs
  <2> HIDE DEF u, z, n, k
  <2>3. CASE HasLine(f)
    <3>1. Len(u) = Len(z) /\ Len(u) = n - 1
      BY <1>1, <1>2, <2>1, <2>2, <2>3
    <3>2. ASSUME NEW i \in 1..n - 1 PROVE u[i] = z[i]
      <4>1. i \in 1..n /\ i + 1 \in 1..n /\ (i < k => i # k) /\ (~(i < k) => i + 1 # k)
        BY <1>2, <2>3
      <4>2. CASE i < k
        <5>1. u[i] = w[i] /\ z[i] = f[i] /\ w[i] = f[i]
          BY <1>1, <2>1, <2>2, <2>3, <4>1, <4>2
        <5> QED BY <5>1
      <4>3. CASE ~(i < k)
        <5>1. u[i] = w[i + 1] /\ z[i] = f[i + 1] /\ w[i + 1] = f[i + 1]
          BY <1>1, <2>1, <2>2, <2>3, <4>1, <4>3
        <5> QED BY <5>1
      <4> QED BY <4>2, <4>3
    <3> QED BY <2>1, <2>2, <3>1, <3>2, SameSettings DEF u, z
  <2>4. CASE ~HasLine(f)
    <3>1. Len(u) = n /\ z = f
      BY <1>1, <1>2, <2>1, <2>2, <2>4
    <3>2. ASSUME NEW i \in 1..n PROVE u[i] = f[i]
      <4>1. i \in 1..Len(w) - 1 /\ ~(i < 1)
        BY <1>1, <1>2, <2>4
      <4> QED BY <1>1, <2>1, <2>4, <4>1
    <3> QED BY <2>1, <2>2, <3>1, <3>2, SameSettings DEF u, z, n
  <2> QED BY <2>3, <2>4
<1>4. ~HasLine(f) => WithoutStatusLine(f) = f
  BY WithoutIs
<1>5. ASSUME HasLine(f), v = Line(f) PROVE w = f
  <2>1. Own(v) = f[k]
    BY <1>2, <1>5 DEF Own, Member, IsLine
  <2> HIDE DEF k, n
  <2>2. \A i \in 1..n : w[i] = f[i]
    BY <1>1, <1>5, <2>1
  <2> QED BY <1>1, <1>5, <2>2, SameSettings DEF n
<1>6. ASSUME NEW x \in Values PROVE WithStatusLine(w, x) = WithStatusLine(f, x)
  <2> DEFINE y == WithStatusLine(w, x)
             z == WithStatusLine(f, x)
  <2>1. /\ y \in Files /\ Len(y) = Len(w)
        /\ \A i \in 1..Len(w) : y[i] = IF i = LineAt(w) THEN Own(x) ELSE w[i]
    BY <1>1, WithIs
  <2>2. /\ z \in Files
        /\ HasLine(f) => /\ Len(z) = n
                         /\ \A i \in 1..n : z[i] = IF i = k THEN Own(x) ELSE f[i]
        /\ ~HasLine(f) => /\ Len(z) = n + 1 /\ z[1] = Own(x)
                          /\ \A i \in 1..n : z[i + 1] = f[i]
    BY WithIs
  <2> HIDE DEF y, z, n, k
  <2>3. CASE HasLine(f)
    <3>1. \A i \in 1..n : y[i] = z[i]
      BY <1>1, <2>1, <2>2, <2>3
    <3> QED BY <1>1, <2>1, <2>2, <2>3, <3>1, SameSettings DEF y, z
  <2>4. CASE ~HasLine(f)
    <3>1. Len(y) = n + 1 /\ Len(z) = n + 1
      BY <1>1, <2>1, <2>2, <2>4
    <3>2. ASSUME NEW i \in 1..n + 1 PROVE y[i] = z[i]
      <4>1. CASE i = 1
        BY <1>1, <1>2, <2>1, <2>2, <2>4, <4>1
      <4>2. CASE i # 1
        <5>1. i - 1 \in 1..n /\ (i - 1) + 1 = i
          BY <1>2, <4>2
        <5>2. y[i] = w[i]
          BY <1>1, <2>1, <2>4, <4>2
        <5>3. w[i] = f[i - 1] /\ z[i] = f[i - 1]
          BY <1>1, <2>2, <2>4, <5>1
        <5> QED BY <5>2, <5>3
      <4> QED BY <4>1, <4>2
    <3> QED BY <2>1, <2>2, <3>1, <3>2, SameSettings DEF y, z
  <2> QED BY <2>3, <2>4
<1> QED BY <1>3, <1>4, <1>5, <1>6 DEF w

\* Another member at the end leaves the line as it is.
LEMMA ThemeIsBeside ==
  ASSUME NEW f \in Files
  PROVE  /\ Append(f, Theme) \in Files /\ (HasLine(Append(f, Theme)) <=> HasLine(f))
         /\ Line(Append(f, Theme)) = Line(f)
         /\ \A v \in Values : Append(WithStatusLine(f, v), Theme) = WithStatusLine(Append(f, Theme), v)
<1>1. Theme \in Member /\ ~IsLine(Theme)
  BY DEF Theme, Member, IsLine, Values, Originals
<1>2. ASSUME NEW g \in Files
      PROVE  /\ Append(g, Theme) \in Files /\ Len(Append(g, Theme)) = Len(g) + 1
             /\ Append(g, Theme)[Len(g) + 1] = Theme /\ \A i \in 1..Len(g) : Append(g, Theme)[i] = g[i]
             /\ LineAt(Append(g, Theme)) = LineAt(g)
             /\ (HasLine(Append(g, Theme)) <=> HasLine(g)) /\ Line(Append(g, Theme)) = Line(g)
  <2> DEFINE a == Append(g, Theme)
             n == Len(g)
  <2>1. g \in Seq(Member) /\ n \in Nat
    BY LineIsAt
  <2>2. /\ a \in Seq(Member) /\ Len(a) = n + 1 /\ a[n + 1] = Theme /\ \A i \in 1..n : a[i] = g[i]
    BY <1>1, <2>1, AppendProperties
  <2> HIDE DEF a
  <2>3. ASSUME NEW i \in 1..n + 1, IsLine(a[i]) PROVE i \in 1..n /\ IsLine(g[i])
    <3>1. i # n + 1
      BY <1>1, <2>2, <2>3
    <3>2. i \in 1..n
      BY <2>1, <3>1
    <3> QED BY <2>2, <2>3, <3>2
  <2>4. a \in Files
    <3>1. \A i, j \in 1..n : IsLine(g[i]) /\ IsLine(g[j]) => i = j
      BY DEF Files
    <3>2. \A i, j \in 1..n + 1 : IsLine(a[i]) /\ IsLine(a[j]) => i = j
      BY <2>3, <3>1
    <3> QED BY <2>2, <3>2 DEF Files
  <2>5. LineAt(a) = LineAt(g)
    <3>1. CASE HasLine(g)
      <4>1. LineAt(g) \in 1..n /\ IsLine(g[LineAt(g)])
        BY <3>1, LineIsAt
      <4>2. LineAt(g) \in 1..n + 1 /\ IsLine(a[LineAt(g)])
        BY <2>1, <2>2, <4>1
      <4> QED BY <2>2, <2>4, <4>2, LineIsAt
    <3>2. CASE ~HasLine(g)
      <4>1. \A k \in 1..n : ~IsLine(g[k])
        BY <3>2, LineIsAt DEF HasLine
      <4>2. \A k \in 1..n + 1 : ~IsLine(a[k])
        BY <2>3, <4>1
      <4> QED BY <2>2, <2>4, <3>2, <4>2, LineIsAt DEF HasLine
    <3> QED BY <3>1, <3>2
  <2>6. HasLine(a) <=> HasLine(g)
    BY <2>5 DEF HasLine
  <2>7. Line(a) = Line(g)
    <3>1. HasLine(g) => LineAt(g) \in 1..n
      BY LineIsAt
    <3> QED BY <2>2, <2>5, <2>6, <3>1 DEF Line
  <2> QED BY <2>2, <2>4, <2>5, <2>6, <2>7 DEF a
<1>3. ASSUME NEW v \in Values PROVE Append(WithStatusLine(f, v), Theme) = WithStatusLine(Append(f, Theme), v)
  <2> DEFINE w == WithStatusLine(f, v)
             a == Append(f, Theme)
             x == Append(w, Theme)
             y == WithStatusLine(a, v)
             n == Len(f)
             k == LineAt(f)
  <2>1. /\ w \in Files
        /\ HasLine(f) => /\ Len(w) = n
                         /\ \A i \in 1..n : w[i] = IF i = k THEN Own(v) ELSE f[i]
        /\ ~HasLine(f) => /\ Len(w) = n + 1 /\ w[1] = Own(v)
                          /\ \A i \in 1..n : w[i + 1] = f[i]
    BY WithIs
  <2>2. n \in Nat /\ (HasLine(f) => k \in 1..n)
    BY LineIsAt
  <2>3. /\ a \in Files /\ Len(a) = n + 1 /\ a[n + 1] = Theme /\ (\A i \in 1..n : a[i] = f[i])
        /\ LineAt(a) = k /\ (HasLine(a) <=> HasLine(f))
    BY <1>2
  <2> HIDE DEF w, a
  <2>4. x \in Files /\ Len(x) = Len(w) + 1 /\ x[Len(w) + 1] = Theme /\ \A i \in 1..Len(w) : x[i] = w[i]
    BY <1>2, <2>1
  <2>5. /\ y \in Files
        /\ HasLine(a) => /\ Len(y) = n + 1
                         /\ \A i \in 1..n + 1 : y[i] = IF i = k THEN Own(v) ELSE a[i]
        /\ ~HasLine(a) => /\ Len(y) = (n + 1) + 1 /\ y[1] = Own(v)
                          /\ \A i \in 1..n + 1 : y[i + 1] = a[i]
    BY <2>3, WithIs
  <2> HIDE DEF x, y, n, k
  <2>6. ASSUME HasLine(f) PROVE x = y
    <3>1. Len(x) = n + 1 /\ Len(y) = n + 1
      BY <2>1, <2>3, <2>4, <2>5, <2>6
    <3>2. ASSUME NEW i \in 1..n + 1 PROVE x[i] = y[i]
      <4>1. CASE i = n + 1
        <5>1. i # k
          BY <2>2, <2>6, <4>1
        <5> QED BY <2>1, <2>3, <2>4, <2>5, <2>6, <4>1, <5>1
      <4>2. CASE i # n + 1
        <5>1. i \in 1..n
          BY <2>2, <4>2
        <5>2. x[i] = IF i = k THEN Own(v) ELSE f[i]
          BY <2>1, <2>4, <2>6, <5>1
        <5>3. y[i] = IF i = k THEN Own(v) ELSE a[i]
          BY <2>3, <2>5, <2>6
        <5> QED BY <2>3, <5>1, <5>2, <5>3
      <4> QED BY <4>1, <4>2
    <3>3. \A i \in 1..Len(x) : x[i] = y[i]
      BY <3>1, <3>2
    <3>4. x \in Files /\ y \in Files /\ Len(x) = Len(y)
      BY <2>3, <2>4, <2>5, <3>1
    <3> QED BY <3>3, <3>4, SameSettings
  <2>7. ASSUME ~HasLine(f) PROVE x = y
    <3>1. Len(w) = n + 1 /\ Len(x) = n + 2 /\ Len(y) = n + 2 /\ 1 \in 1..n + 1
      BY <2>1, <2>2, <2>3, <2>4, <2>5, <2>7
    <3>2. ASSUME NEW i \in 1..n + 2 PROVE x[i] = y[i]
      <4>1. CASE i = 1
        <5>1. x[1] = Own(v) /\ y[1] = Own(v)
          BY <2>1, <2>3, <2>4, <2>5, <2>7, <3>1
        <5> QED BY <4>1, <5>1
      <4>2. CASE i = n + 2
        <5>1. x[n + 2] = Theme
          <6>1. Len(w) + 1 = n + 2
            BY <2>2, <3>1
          <6> QED BY <2>4, <6>1
        <5>2. y[n + 2] = a[n + 1]
          <6>1. n + 1 \in 1..n + 1 /\ (n + 1) + 1 = n + 2
            BY <2>2
          <6> QED BY <2>3, <2>5, <2>7, <6>1
        <5> QED BY <2>3, <4>2, <5>1, <5>2
      <4>3. CASE i # 1 /\ i # n + 2
        <5>1. i - 1 \in 1..n /\ i - 1 \in 1..n + 1 /\ (i - 1) + 1 = i /\ i \in 1..n + 1
          BY <2>2, <4>3
        <5>2. x[i] = w[i] /\ w[i] = f[i - 1]
          BY <2>1, <2>4, <2>7, <3>1, <5>1
        <5>3. y[i] = a[i - 1] /\ a[i - 1] = f[i - 1]
          BY <2>3, <2>5, <2>7, <5>1
        <5> QED BY <5>2, <5>3
      <4> QED BY <4>1, <4>2, <4>3
    <3>3. \A i \in 1..Len(x) : x[i] = y[i]
      BY <3>1, <3>2
    <3>4. x \in Files /\ y \in Files /\ Len(x) = Len(y)
      BY <2>3, <2>4, <2>5, <3>1
    <3> QED BY <3>3, <3>4, SameSettings
  <2>8. x = y
    BY <2>6, <2>7
  <2> QED BY <2>8 DEF x, y, w, a
<1> QED BY <1>2, <1>3
\* brgr's lines and the user's are told apart, and what brgr's wraps is found in it.
LEMMA LinesAreTold ==
  /\ \A o \in Originals : o \in Values /\ ~RunsBrgr(o)
  /\ \A o \in OwnLines : o \in Originals /\ o # <<>>
  /\ \A e \in Executables, o \in Originals :
        /\ Chained(e, o) \in Values /\ RunsBrgr(Chained(e, o)) /\ Chained(e, o) # <<>>
        /\ Tail(Chained(e, o)) = o
<1>1. \A l \in OwnLines : l = <<l[1]>> /\ l[1] \notin Executables
  BY LineConstants
<1>2. ASSUME NEW o \in OwnLines PROVE o # <<>> /\ ~RunsBrgr(o)
  <2>1. o = <<o[1]>> /\ o[1] \notin Executables
    BY <1>1
  <2>2. <<o[1]>> # <<>>
    OBVIOUS
  <2> QED BY <2>1, <2>2 DEF RunsBrgr
<1>3. ~RunsBrgr(<<>>)
  BY DEF RunsBrgr
<1>4. ASSUME NEW e \in Executables, NEW o \in Originals
      PROVE  Chained(e, o) # <<>> /\ Chained(e, o)[1] = e /\ Tail(Chained(e, o)) = o
  <2>1. CASE o = <<>>
    <3>1. <<e>> \o <<>> = <<e>>
      OBVIOUS
    <3>2. <<e>> # <<>> /\ <<e>>[1] = e /\ Tail(<<e>>) = <<>>
      OBVIOUS
    <3> QED BY <2>1, <3>1, <3>2 DEF Chained
  <2>2. CASE o # <<>>
    <3>1. o = <<o[1]>>
      BY <1>1, <2>2 DEF Originals
    <3> DEFINE x == o[1]
    <3>2. <<e>> \o <<x>> = <<e, x>>
      <4> DEFINE s == <<e>> \o <<x>>
      <4>1. <<e>> \in Seq({e, x}) /\ <<x>> \in Seq({e, x}) /\ Len(<<e>>) = 1 /\ Len(<<x>>) = 1
        OBVIOUS
      <4>2. /\ s \in Seq({e, x}) /\ Len(s) = 1 + 1
            /\ \A i \in 1..1 + 1 : s[i] = IF i <= 1 THEN <<e>>[i] ELSE <<x>>[i - 1]
        BY <4>1, ConcatProperties
      <4> HIDE DEF s
      <4>3. Len(s) = 2 /\ s[1] = e /\ s[2] = x
        BY <4>2
      <4>4. <<e, x>> \in Seq({e, x}) /\ Len(<<e, x>>) = 2 /\ \A i \in 1..2 : s[i] = <<e, x>>[i]
        BY <4>3
      <4>5. s = <<e, x>>
        BY <4>2, <4>3, <4>4, SeqEqual
      <4> QED BY <4>5 DEF s
    <3>3. <<e, x>> # <<>> /\ <<e, x>>[1] = e /\ Tail(<<e, x>>) = <<x>>
      OBVIOUS
    <3>4. o = <<x>>
      BY <3>1
    <3> HIDE DEF x
    <3>5. Chained(e, o) = <<e, x>>
      BY <3>2, <3>4 DEF Chained
    <3> QED BY <3>3, <3>4, <3>5
  <2> QED BY <2>1, <2>2
<1>5. \A e \in Executables, o \in Originals : Chained(e, o) \in Values
  BY DEF Values
<1>6. \A e \in Executables, o \in Originals : RunsBrgr(Chained(e, o))
  <2> SUFFICES ASSUME NEW e \in Executables, NEW o \in Originals PROVE RunsBrgr(Chained(e, o))
    OBVIOUS
  <2>1. Chained(e, o) # <<>> /\ Chained(e, o)[1] = e
    BY <1>4
  <2> QED BY <2>1 DEF RunsBrgr
<1>7. \A o \in Originals : o \in Values
  BY DEF Values
<1>8. \A o \in Originals : ~RunsBrgr(o)
  BY <1>2, <1>3 DEF Originals
<1>9. \A o \in OwnLines : o \in Originals
  BY DEF Originals
<1> QED BY <1>2, <1>4, <1>5, <1>6, <1>7, <1>8, <1>9

\* A receipt names brgr's line and the user's in it.
LEMMA ReceiptsTell ==
  /\ Absent \notin Receipts
  /\ \A r \in Receipts : /\ r.original \in Originals
                         /\ \E e \in Executables : r.command = Chained(e, r.original)
<1>1. Absent \notin Receipts
  <2> SUFFICES ASSUME Absent \in Receipts PROVE FALSE
    OBVIOUS
  <2>1. PICK e \in Executables, o \in Originals : Absent = [command |-> Chained(e, o), original |-> o]
    BY DEF Receipts
  <2>2. Absent = [command |-> <<e>> \o o, original |-> o] /\ o \in OwnLines \cup {<<>>}
    BY <2>1 DEF Chained, Originals
  <2>3. Absent # [command |-> <<e>> \o o, original |-> o]
    BY <2>2, LineConstants
  <2> QED BY <2>2, <2>3
<1>2. ASSUME NEW r \in Receipts PROVE /\ r.original \in Originals
                                      /\ \E e \in Executables : r.command = Chained(e, r.original)
  <2>1. PICK e \in Executables, o \in Originals : r = [command |-> Chained(e, o), original |-> o]
    BY DEF Receipts
  <2>2. r.command = Chained(e, o) /\ r.original = o
    BY <2>1
  <2> QED BY <2>2
<1> QED BY <1>1, <1>2

\* The user's file has the user's line, or none.
LEMMA MineIsMine ==
  ASSUME LineTyped
  PROVE  /\ Line(mine) \in Originals /\ ~RunsBrgr(Line(mine))
         /\ HasLine(mine) <=> Line(mine) # <<>>
         /\ \A e \in Executables : Chained(e, Line(mine)) \in Values
<1>1. CASE HasLine(mine)
  BY <1>1, LinesAreTold DEF LineTyped
<1>2. CASE ~HasLine(mine)
  <2>1. Line(mine) = <<>>
    BY <1>2 DEF Line
  <2> QED BY <1>2, <2>1, LinesAreTold DEF Originals
<1> QED BY <1>1, <1>2

\* What a file with brgr in front of the user's line is.
LEMMA WrappedIs ==
  ASSUME LineTyped, NEW e \in Executables
  PROVE  LET w == WithStatusLine(mine, Chained(e, Line(mine)))
         IN  /\ w \in Files /\ HasLine(w) /\ Line(w) = Chained(e, Line(mine)) /\ RunsBrgr(Line(w))
             /\ Tail(Line(w)) = Line(mine) /\ WithoutStatusLine(w) = WithoutStatusLine(mine)
             /\ \A v \in Values : WithStatusLine(w, v) = WithStatusLine(mine, v)
<1>1. mine \in Files /\ Chained(e, Line(mine)) \in Values /\ Line(mine) \in Originals
  BY MineIsMine DEF LineTyped
<1> QED BY <1>1, WithIs, LineComesOut, LinesAreTold

\* A command goes on: what it has to see to, the rest staying as it is.
LEMMA CommandGoesOn ==
  ASSUME LineIInv, NEW c \in Commands, NEW w \in LineCommand, lineCmd' = [lineCmd EXCEPT ![c] = w],
         w.step \in {"install", "receipt"} => w.new \in Receipts, w.step = "restore" => w.old \in Receipts,
         mine' = mine, settings' \in Files, lineReceipt' \in Receipts \cup {Absent},
         disturbed' \in BOOLEAN, overwritten' \in BOOLEAN, overwritten => overwritten', disturbed => disturbed',
         starts' \in 0..MaxStarts, edits' \in 0..MaxEdits, kills' \in 0..MaxKills,
         ~overwritten' =>
            /\ Wraps(settings')
            /\ w.step = "install" /\ ~w.stale => Wraps(w.file) /\ w.new.original = Line(mine)
            /\ w.step = "restore" /\ ~w.stale =>
                  /\ \E e \in Executables : w.file = WithStatusLine(mine, Chained(e, Line(mine)))
                  /\ w.old.original = Line(mine),
         ~overwritten' /\ ~disturbed' =>
            /\ \A d \in Commands \ {c} : ~BusyLine(d)
            /\ w.step = "receipt" => settings' = mine \/ (w.new # Absent /\ Line(settings') = w.new.command)
            /\ w.step = "remove" => settings' = mine
            /\ w.step \notin {"receipt", "remove"} =>
                  settings' = mine \/ (lineReceipt' # Absent /\ Line(settings') = lineReceipt'.command)
  PROVE  LineIInv'
<1>1. LineTyped /\ lineCmd \in [Commands -> LineCommand]
  BY DEF LineIInv, LineTyped
<1>2. lineCmd' \in [Commands -> LineCommand] /\ lineCmd'[c] = w /\ \A d \in Commands \ {c} : lineCmd'[d] = lineCmd[d]
  BY <1>1
<1>3. HasLine(mine)' = HasLine(mine) /\ Line(mine)' = Line(mine)
  BY DEF HasLine, Line
<1>4. LineTyped'
  <2>1. \A d \in Commands :
          /\ lineCmd'[d].step \in {"install", "receipt"} => lineCmd'[d].new \in Receipts
          /\ lineCmd'[d].step = "restore" => lineCmd'[d].old \in Receipts
    BY <1>1, <1>2 DEF LineTyped
  <2> QED BY <1>1, <1>2, <1>3, <2>1 DEF LineTyped
<1>5. ASSUME ~overwritten' PROVE Wraps(settings)' /\ CommandsWrap'
  <2>1. Wraps(settings)'
    BY <1>5 DEF Wraps
  <2>2. ASSUME NEW d \in Commands, d # c
        PROVE /\ lineCmd'[d].step = "install" /\ ~lineCmd'[d].stale =>
                    Wraps(lineCmd'[d].file) /\ lineCmd'[d].new.original = Line(mine)
              /\ lineCmd'[d].step = "restore" /\ ~lineCmd'[d].stale =>
                    /\ \E e \in Executables : lineCmd'[d].file = WithStatusLine(mine, Chained(e, Line(mine)))
                    /\ lineCmd'[d].old.original = Line(mine)
    BY <1>2, <1>5, <2>2 DEF LineIInv, CommandsWrap, NotStale
  <2>3. CommandsWrap'
    BY <1>2, <1>5, <2>2 DEF CommandsWrap, NotStale, Wraps
  <2> QED BY <2>1, <2>3
<1>6. ASSUME ~overwritten', ~disturbed' PROVE OneAtATime'
  <2>1. \A d \in Commands \ {c} : lineCmd'[d].step = "idle"
    BY <1>2, <1>6 DEF BusyLine
  <2>2. \A d, f \in Commands : BusyLine(d)' /\ BusyLine(f)' => d = f
    BY <2>1 DEF BusyLine
  <2> QED BY <1>2, <1>6, <2>1, <2>2 DEF OneAtATime, Known
<1> QED BY <1>4, <1>5, <1>6 DEF LineIInv

\* A command's fields, and an idle one's.
LEMMA CommandIs ==
  ASSUME LineTyped, NEW c \in Commands
  PROVE  /\ lineCmd[c] \in LineCommand
         /\ lineCmd[c] = [step |-> lineCmd[c].step, exe |-> lineCmd[c].exe, file |-> lineCmd[c].file,
                          old |-> lineCmd[c].old, new |-> lineCmd[c].new, stale |-> lineCmd[c].stale]
         /\ lineCmd[c].exe \in Executables \cup {""} /\ lineCmd[c].file \in Files /\ lineCmd[c].stale \in BOOLEAN
         /\ lineCmd[c].old \in Receipts \cup {Absent} /\ lineCmd[c].new \in Receipts \cup {Absent}
<1>1. lineCmd[c] \in LineCommand
  BY DEF LineTyped
<1> QED BY <1>1 DEF LineCommand

\* A command that begins finds the files as they are.
LEMMA BeginningIsAlone ==
  ASSUME LineIInv, NEW c \in Commands, Starts(c), overwritten' = overwritten
  PROVE  /\ disturbed' \in BOOLEAN /\ (disturbed => disturbed') /\ starts' \in 0..MaxStarts
         /\ ~overwritten' /\ ~disturbed' => (\A d \in Commands \ {c} : ~BusyLine(d)) /\ Known(lineReceipt)
<1>1. /\ ~BusyLine(c) /\ starts < MaxStarts /\ starts' = starts + 1
      /\ disturbed' = (disturbed \/ \E d \in Commands \ {c} : BusyLine(d))
      /\ disturbed \in BOOLEAN /\ starts \in 0..MaxStarts
  BY DEF Starts, LineIInv, LineTyped
<1>2. MaxStarts \in Nat
  BY LineConstants
<1>3. starts' \in 0..MaxStarts
  <2>1. starts < MaxStarts /\ starts' = starts + 1 /\ starts \in 0..MaxStarts
    BY <1>1
  <2> QED BY ONLY <1>2, <2>1
<1>4. disturbed' \in BOOLEAN /\ (disturbed => disturbed')
  BY <1>1
<1>5. ASSUME ~overwritten, ~disturbed' PROVE (\A d \in Commands \ {c} : ~BusyLine(d)) /\ Known(lineReceipt)
  <2>1. \A d \in Commands : ~BusyLine(d)
    BY <1>1, <1>5
  <2>2. OneAtATime
    BY <1>1, <1>5 DEF LineIInv
  <2> QED BY <2>1, <2>2 DEF OneAtATime, BusyLine
<1> QED BY <1>3, <1>4, <1>5

\* What an idle command is made of.
LEMMA IdleIs ==
  /\ LineIdle \in LineCommand
  /\ LineIdle.step = "idle" /\ LineIdle.exe = "" /\ LineIdle.old = Absent /\ LineIdle.new = Absent
  /\ LineIdle.stale = FALSE
<1>1. <<>> \in Files
  BY DEF Files
<1> QED BY <1>1 DEF LineIdle, LineCommand

\* An install reads the settings and decides what it will write.
LEMMA BeginInstallKeeps ==
  ASSUME LineIInv, NEW c \in Commands, BeginInstall(c)
  PROVE  LineIInv'
<1>1. /\ LineTyped /\ UNCHANGED <<settings, lineReceipt, mine, overwritten, edits, kills>> /\ Starts(c)
      /\ settings \in Files /\ lineReceipt \in Receipts \cup {Absent}
  BY DEF BeginInstall, LineIInv, LineTyped
<1> DEFINE v == Line(settings)
           o == Original(v, lineReceipt)
<1>2. PICK exe \in Executables :
          /\ MayInstall(v, lineReceipt)
          /\ lineCmd' = [lineCmd EXCEPT ![c] =
                    [LineIdle EXCEPT !.step = "install", !.exe = exe, !.file = settings,
                        !.new = [command |-> Chained(exe, o), original |-> o]]]
  BY DEF BeginInstall
<1> DEFINE w == [step |-> "install", exe |-> exe, file |-> settings, old |-> Absent,
                 new |-> [command |-> Chained(exe, o), original |-> o], stale |-> FALSE]
<1>3. lineCmd' = [lineCmd EXCEPT ![c] = w]
  <2>1. PICK x : x = [LineIdle EXCEPT !.step = "install", !.exe = exe, !.file = settings,
                        !.new = [command |-> Chained(exe, o), original |-> o]]
    OBVIOUS
  <2>2. x = w
    BY <2>1 DEF LineIdle
  <2> QED BY <1>2, <2>1, <2>2
<1>4. RunsBrgr(v) => lineReceipt \in Receipts /\ lineReceipt.command = v
  <2>1. v = <<>> \/ v \in OwnLines \/ (lineReceipt # Absent /\ lineReceipt.command = v)
    BY <1>2, LineConstants DEF MayInstall, Chainable
  <2>2. v = <<>> \/ v \in OwnLines => ~RunsBrgr(v)
    BY LinesAreTold DEF Originals
  <2> QED BY <1>1, <2>1, <2>2
<1>5. ~RunsBrgr(v) => v \in Originals
  <2>1. v = <<>> \/ v \in OwnLines \/ RunsBrgr(v)
    BY <1>2, LineConstants DEF MayInstall, Chainable
  <2> QED BY <2>1 DEF Originals
<1>6. o \in Originals
  BY <1>4, <1>5, ReceiptsTell DEF Original
<1>7. ~overwritten => o = Line(mine)
  <2> SUFFICES ASSUME ~overwritten PROVE o = Line(mine)
    OBVIOUS
  <2>1. Wraps(settings)
    BY DEF LineIInv
  <2>2. CASE settings = mine
    BY <1>1, <2>2, MineIsMine DEF Original
  <2>3. CASE settings # mine
    <3>1. PICK e \in Executables : settings = WithStatusLine(mine, Chained(e, Line(mine)))
      BY <2>1, <2>3 DEF Wraps
    <3>2. RunsBrgr(v) /\ Tail(v) = Line(mine)
      BY <1>1, <3>1, WrappedIs
    <3>3. lineReceipt \in Receipts /\ lineReceipt.command = v
      BY <1>4, <3>2
    <3>4. Tail(v) = lineReceipt.original
      BY <3>3, ReceiptsTell, LinesAreTold
    <3> QED BY <3>2, <3>4 DEF Original
  <2> QED BY <2>2, <2>3
<1>8. w.new \in Receipts /\ w.new.original = o /\ w.step = "install" /\ w.file = settings
  BY <1>6 DEF Receipts
<1>9. w \in LineCommand
  BY <1>1, <1>8 DEF LineCommand
<1> HIDE DEF w, v, o
<1>10. edits' \in 0..MaxEdits /\ kills' \in 0..MaxKills /\ overwritten' \in BOOLEAN
  BY <1>1 DEF LineTyped
<1>11. ~overwritten' => Wraps(settings') /\ Wraps(w.file) /\ w.new.original = Line(mine)
  BY <1>1, <1>7, <1>8 DEF LineIInv
<1>12. /\ disturbed' \in BOOLEAN /\ (disturbed => disturbed') /\ starts' \in 0..MaxStarts
       /\ ~overwritten' /\ ~disturbed' => (\A d \in Commands \ {c} : ~BusyLine(d)) /\ Known(lineReceipt)
  BY <1>1, BeginningIsAlone
<1>13. ~overwritten' /\ ~disturbed' => settings' = mine \/ (lineReceipt' # Absent /\ Line(settings') = lineReceipt'.command)
  BY <1>1, <1>12 DEF Known
<1> QED BY <1>1, <1>3, <1>8, <1>9, <1>10, <1>11, <1>12, <1>13, CommandGoesOn

\* An uninstall reads the receipt and the settings.
LEMMA BeginUninstallKeeps ==
  ASSUME LineIInv, NEW c \in Commands, BeginUninstall(c)
  PROVE  LineIInv'
<1>1. /\ LineTyped /\ UNCHANGED <<settings, lineReceipt, mine, overwritten, edits, kills>> /\ Starts(c)
      /\ settings \in Files /\ lineReceipt \in Receipts
  BY DEF BeginUninstall, LineIInv, LineTyped
<1> DEFINE to == IF Intact(settings, lineReceipt) THEN "restore" ELSE "remove"
           w == [step |-> to, exe |-> "", file |-> settings, old |-> lineReceipt, new |-> Absent, stale |-> FALSE]
<1>2. lineCmd' = [lineCmd EXCEPT ![c] = w]
  <2>1. PICK x : x = [LineIdle EXCEPT !.step = to, !.file = settings, !.old = lineReceipt]
    OBVIOUS
  <2>2. x = w
    <3> HIDE DEF to
    <3> QED BY <2>1 DEF LineIdle
  <2>3. lineCmd' = [lineCmd EXCEPT ![c] =
                       [LineIdle EXCEPT !.step = to, !.file = settings, !.old = lineReceipt]]
    BY DEF BeginUninstall
  <2> QED BY <2>1, <2>2, <2>3
<1>3. to \in {"restore", "remove"} /\ (to = "restore" <=> Line(settings) = lineReceipt.command)
  BY DEF Intact
<1> HIDE DEF to
<1>4. w \in LineCommand /\ w.old = lineReceipt /\ w.step = to /\ w.file = settings
  BY <1>1, <1>3 DEF LineCommand
<1> HIDE DEF w
<1>5. edits' \in 0..MaxEdits /\ kills' \in 0..MaxKills /\ overwritten' \in BOOLEAN
  BY <1>1 DEF LineTyped
<1>6. /\ disturbed' \in BOOLEAN /\ (disturbed => disturbed') /\ starts' \in 0..MaxStarts
      /\ ~overwritten' /\ ~disturbed' => (\A d \in Commands \ {c} : ~BusyLine(d)) /\ Known(lineReceipt)
  BY <1>1, BeginningIsAlone
<1>7. ASSUME ~overwritten, to = "restore"
      PROVE  /\ \E e \in Executables : settings = WithStatusLine(mine, Chained(e, Line(mine)))
             /\ lineReceipt.original = Line(mine)
  <2>1. RunsBrgr(Line(settings)) /\ Tail(Line(settings)) = lineReceipt.original
    BY <1>1, <1>3, <1>7, ReceiptsTell, LinesAreTold
  <2>2. PICK e \in Executables : settings = WithStatusLine(mine, Chained(e, Line(mine)))
    BY <1>1, <1>7, <2>1, MineIsMine DEF LineIInv, Wraps
  <2>3. Tail(Line(settings)) = Line(mine)
    BY <1>1, <2>2, WrappedIs
  <2> QED BY <2>1, <2>2, <2>3
<1>8. ~overwritten' => Wraps(settings')
  BY <1>1 DEF LineIInv
<1>9. ~overwritten' /\ ~disturbed' /\ to = "remove" => settings' = mine
  BY <1>1, <1>3, <1>6 DEF Known
<1>10. ~overwritten' /\ ~disturbed' => settings' = mine \/ (lineReceipt' # Absent /\ Line(settings') = lineReceipt'.command)
  BY <1>1, <1>6 DEF Known
<1>11. w.step \notin {"install", "receipt"}
  BY <1>3, <1>4
<1> QED BY <1>1, <1>2, <1>4, <1>5, <1>6, <1>7, <1>8, <1>9, <1>10, <1>11, CommandGoesOn
\* A busy command that nothing has disturbed is alone.
LEMMA BusyIsAlone ==
  ASSUME LineIInv, NEW c \in Commands, BusyLine(c), ~overwritten, ~disturbed
  PROVE  /\ \A d \in Commands \ {c} : ~BusyLine(d)
         /\ lineCmd[c].step = "receipt" => Known(lineCmd[c].new)
         /\ lineCmd[c].step = "remove" => settings = mine
         /\ lineCmd[c].step \notin {"receipt", "remove"} => Known(lineReceipt)
<1>1. OneAtATime
  BY DEF LineIInv
<1>2. \A d \in Commands \ {c} : ~BusyLine(d)
  BY <1>1 DEF OneAtATime
<1>3. lineCmd[c].step \notin {"receipt", "remove"} =>
         \A d \in Commands : lineCmd[d].step \notin {"receipt", "remove"}
  BY <1>2 DEF BusyLine
<1> QED BY <1>1, <1>2, <1>3 DEF OneAtATime

\* The settings are written with the line.
LEMMA WriteSettingsKeeps ==
  ASSUME LineIInv, NEW c \in Commands, WriteSettings(c)
  PROVE  LineIInv'
<1>1. /\ lineCmd[c].step = "install"
      /\ settings' = WithStatusLine(lineCmd[c].file, lineCmd[c].new.command)
      /\ overwritten' = (overwritten \/ lineCmd[c].stale)
      /\ lineCmd' = [lineCmd EXCEPT ![c].step = "receipt"]
      /\ UNCHANGED <<lineReceipt, mine, disturbed, starts, edits, kills>>
      /\ LineTyped
  BY DEF WriteSettings, LineIInv
<1>2. /\ lineCmd[c] \in LineCommand /\ lineCmd[c].file \in Files /\ lineCmd[c].stale \in BOOLEAN
  BY <1>1, CommandIs
<1>3. lineCmd[c].new \in Receipts
  BY <1>1 DEF LineTyped
<1> DEFINE w == [lineCmd[c] EXCEPT !.step = "receipt"]
           r == lineCmd[c].new
<1>4. lineCmd' = [lineCmd EXCEPT ![c] = w]
  BY <1>1 DEF LineTyped
<1>5. w \in LineCommand /\ w.step = "receipt" /\ w.new = r
  BY <1>2 DEF LineCommand
<1> HIDE DEF w
<1>6. r.original \in Originals /\ \E e \in Executables : r.command = Chained(e, r.original)
  BY <1>3, ReceiptsTell
<1>7. r.command \in Values
  BY <1>6, LinesAreTold
<1>8. settings' \in Files /\ Line(settings') = r.command
  BY <1>1, <1>2, <1>7, WithIs
<1>9. ASSUME ~overwritten' PROVE Wraps(settings')
  <2>1. ~overwritten /\ ~lineCmd[c].stale
    BY <1>1, <1>9
  <2>2. Wraps(lineCmd[c].file) /\ r.original = Line(mine)
    BY <1>1, <2>1 DEF LineIInv, CommandsWrap, NotStale
  <2>3. PICK e \in Executables : r.command = Chained(e, Line(mine))
    BY <1>6, <2>2
  <2>4. settings' = WithStatusLine(mine, Chained(e, Line(mine)))
    <3>1. CASE lineCmd[c].file = mine
      BY <1>1, <2>3, <3>1
    <3>2. CASE lineCmd[c].file # mine
      <4>1. PICK x \in Executables : lineCmd[c].file = WithStatusLine(mine, Chained(x, Line(mine)))
        BY <2>2, <3>2 DEF Wraps
      <4>2. Chained(e, Line(mine)) \in Values
        BY <1>1, MineIsMine
      <4> QED BY <1>1, <2>3, <4>1, <4>2, WrappedIs
    <3> QED BY <3>1, <3>2
  <2> QED BY <2>4 DEF Wraps
<1>10. ASSUME ~overwritten', ~disturbed' PROVE \A d \in Commands \ {c} : ~BusyLine(d)
  <2>1. ~overwritten /\ ~disturbed
    BY <1>1, <1>10
  <2>2. BusyLine(c)
    BY <1>1 DEF BusyLine
  <2> QED BY <2>1, <2>2, BusyIsAlone
<1>11. overwritten' \in BOOLEAN /\ (overwritten => overwritten')
  BY <1>1, <1>2 DEF LineTyped
<1>12. r # Absent
  BY <1>3, ReceiptsTell
<1>13. /\ disturbed' \in BOOLEAN /\ (disturbed => disturbed') /\ lineReceipt' \in Receipts \cup {Absent}
       /\ starts' \in 0..MaxStarts /\ edits' \in 0..MaxEdits /\ kills' \in 0..MaxKills
  BY <1>1 DEF LineTyped
<1> HIDE DEF r
<1>14. w.new \in Receipts /\ w.new # Absent /\ Line(settings') = w.new.command
  BY <1>3, <1>5, <1>8, <1>12 DEF r
<1> QED BY <1>1, <1>4, <1>5, <1>8, <1>9, <1>10, <1>11, <1>13, <1>14, CommandGoesOn

\* The receipt follows the settings.
LEMMA WriteReceiptKeeps ==
  ASSUME LineIInv, NEW c \in Commands, WriteReceipt(c)
  PROVE  LineIInv'
<1>1. /\ lineCmd[c].step = "receipt" /\ lineReceipt' = lineCmd[c].new /\ lineCmd' = [lineCmd EXCEPT ![c] = LineIdle]
      /\ UNCHANGED <<settings, mine, disturbed, overwritten, starts, edits, kills>>
      /\ LineTyped /\ BusyLine(c)
  BY DEF WriteReceipt, LineIInv, lineGhost, BusyLine
<1>2. lineReceipt' \in Receipts
  BY <1>1 DEF LineTyped
<1>3. ~overwritten' => Wraps(settings')
  BY <1>1 DEF LineIInv
<1>4. ~overwritten' /\ ~disturbed' =>
         /\ \A d \in Commands \ {c} : ~BusyLine(d)
         /\ settings' = mine \/ (lineReceipt' # Absent /\ Line(settings') = lineReceipt'.command)
  BY <1>1, BusyIsAlone DEF Known
<1>5. /\ disturbed' \in BOOLEAN /\ overwritten' \in BOOLEAN /\ settings' \in Files
      /\ starts' \in 0..MaxStarts /\ edits' \in 0..MaxEdits /\ kills' \in 0..MaxKills
  BY <1>1 DEF LineTyped
<1>6. LineIdle.step \notin {"install", "receipt", "restore", "remove"}
  BY IdleIs
<1> QED BY <1>1, <1>2, <1>3, <1>4, <1>5, <1>6, IdleIs, CommandGoesOn

\* The settings get the line back that was there before.
LEMMA RestoreSettingsKeeps ==
  ASSUME LineIInv, NEW c \in Commands, RestoreSettings(c)
  PROVE  LineIInv'
<1> DEFINE f == lineCmd[c].file
           o == lineCmd[c].old.original
           w == [lineCmd[c] EXCEPT !.step = "remove"]
<1>1. /\ lineCmd[c].step = "restore"
      /\ settings' = IF o = <<>> THEN WithoutStatusLine(f) ELSE WithStatusLine(f, o)
      /\ overwritten' = (overwritten \/ lineCmd[c].stale)
      /\ lineCmd' = [lineCmd EXCEPT ![c].step = "remove"]
      /\ UNCHANGED <<lineReceipt, mine, disturbed, starts, edits, kills>>
      /\ LineTyped
  BY DEF RestoreSettings, LineIInv
<1>2. lineCmd[c] \in LineCommand /\ f \in Files /\ lineCmd[c].stale \in BOOLEAN
  BY <1>1, CommandIs
<1>3. o \in Originals /\ o \in Values
  BY <1>1, ReceiptsTell, LinesAreTold DEF LineTyped
<1>4. lineCmd' = [lineCmd EXCEPT ![c] = w]
  BY <1>1 DEF LineTyped
<1>5. w \in LineCommand /\ w.step = "remove"
  BY <1>2 DEF LineCommand
<1>6. settings' \in Files
  BY <1>1, <1>2, <1>3, WithIs, WithoutIs
<1>7. ASSUME ~overwritten' PROVE settings' = mine
  <2>1. ~overwritten /\ ~lineCmd[c].stale
    BY <1>1, <1>7
  <2>2. (\E e \in Executables : f = WithStatusLine(mine, Chained(e, Line(mine)))) /\ o = Line(mine)
    BY <1>1, <2>1 DEF LineIInv, CommandsWrap, NotStale
  <2>3. PICK e \in Executables : f = WithStatusLine(mine, Chained(e, Line(mine)))
    BY <2>2
  <2>4. WithoutStatusLine(f) = WithoutStatusLine(mine) /\ WithStatusLine(f, o) = WithStatusLine(mine, o)
    BY <1>1, <1>3, <2>3, WrappedIs
  <2>5. HasLine(mine) <=> o # <<>>
    BY <1>1, <2>2, MineIsMine
  <2>6. mine \in Files
    BY <1>1 DEF LineTyped
  <2> QED BY <1>1, <1>3, <2>2, <2>4, <2>5, <2>6, LineComesOut
<1> HIDE DEF w, f, o
<1>8. ASSUME ~overwritten', ~disturbed' PROVE \A d \in Commands \ {c} : ~BusyLine(d)
  <2>1. ~overwritten /\ ~disturbed
    BY <1>1, <1>8
  <2>2. BusyLine(c)
    BY <1>1 DEF BusyLine
  <2> QED BY <2>1, <2>2, BusyIsAlone
<1>9. overwritten' \in BOOLEAN /\ (overwritten => overwritten')
  BY <1>1, <1>2 DEF LineTyped
<1>10. /\ disturbed' \in BOOLEAN /\ (disturbed => disturbed') /\ lineReceipt' \in Receipts \cup {Absent}
       /\ starts' \in 0..MaxStarts /\ edits' \in 0..MaxEdits /\ kills' \in 0..MaxKills
  BY <1>1 DEF LineTyped
<1>11. ~overwritten' => Wraps(settings')
  BY <1>7 DEF Wraps
<1> QED BY <1>1, <1>4, <1>5, <1>6, <1>7, <1>8, <1>9, <1>10, <1>11, CommandGoesOn

\* The receipt goes last.
LEMMA RemoveReceiptKeeps ==
  ASSUME LineIInv, NEW c \in Commands, RemoveReceipt(c)
  PROVE  LineIInv'
<1>1. /\ lineCmd[c].step = "remove" /\ lineReceipt' = Absent /\ lineCmd' = [lineCmd EXCEPT ![c] = LineIdle]
      /\ UNCHANGED <<settings, mine, disturbed, overwritten, starts, edits, kills>>
      /\ LineTyped /\ BusyLine(c)
  BY DEF RemoveReceipt, LineIInv, lineGhost, BusyLine
<1>2. ~overwritten' => Wraps(settings')
  BY <1>1 DEF LineIInv
<1>3. ~overwritten' /\ ~disturbed' => (\A d \in Commands \ {c} : ~BusyLine(d)) /\ settings' = mine
  BY <1>1, BusyIsAlone
<1>4. /\ disturbed' \in BOOLEAN /\ overwritten' \in BOOLEAN /\ settings' \in Files
      /\ starts' \in 0..MaxStarts /\ edits' \in 0..MaxEdits /\ kills' \in 0..MaxKills
  BY <1>1 DEF LineTyped
<1>5. LineIdle.step \notin {"install", "receipt", "restore", "remove"}
  BY IdleIs
<1> QED BY <1>1, <1>2, <1>3, <1>4, <1>5, IdleIs, CommandGoesOn

\* A command is killed between two writes.
LEMMA CommandEndsKeeps ==
  ASSUME LineIInv, NEW c \in Commands, CommandEnds(c)
  PROVE  LineIInv'
<1>1. /\ BusyLine(c) /\ kills < MaxKills /\ kills' = kills + 1 /\ lineCmd' = [lineCmd EXCEPT ![c] = LineIdle]
      /\ disturbed' = (disturbed \/ lineCmd[c].step = "receipt")
      /\ UNCHANGED <<settings, lineReceipt, mine, overwritten, starts, edits>>
      /\ LineTyped /\ disturbed \in BOOLEAN /\ kills \in 0..MaxKills
  BY DEF CommandEnds, LineIInv, LineTyped
<1>2. kills' \in 0..MaxKills
  <2>1. kills < MaxKills /\ kills' = kills + 1 /\ kills \in 0..MaxKills
    BY <1>1
  <2>2. MaxKills \in Nat
    BY LineConstants
  <2> QED BY ONLY <2>1, <2>2
<1>3. ~overwritten' => Wraps(settings')
  BY <1>1 DEF LineIInv
<1>4. disturbed' \in BOOLEAN /\ (disturbed => disturbed')
  BY <1>1
<1>5. ASSUME ~overwritten', ~disturbed'
      PROVE  /\ \A d \in Commands \ {c} : ~BusyLine(d)
             /\ settings' = mine \/ (lineReceipt' # Absent /\ Line(settings') = lineReceipt'.command)
  <2>1. ~overwritten /\ ~disturbed /\ lineCmd[c].step # "receipt"
    BY <1>1, <1>5
  <2>2. /\ \A d \in Commands \ {c} : ~BusyLine(d)
        /\ settings = mine \/ Known(lineReceipt)
    BY <1>1, <2>1, BusyIsAlone
  <2> QED BY <1>1, <2>2 DEF Known
<1>6. /\ overwritten' \in BOOLEAN /\ settings' \in Files /\ lineReceipt' \in Receipts \cup {Absent}
      /\ starts' \in 0..MaxStarts /\ edits' \in 0..MaxEdits
  BY <1>1 DEF LineTyped
<1>7. LineIdle.step \notin {"install", "receipt", "restore", "remove"}
  BY IdleIs
<1> QED BY <1>1, <1>2, <1>3, <1>4, <1>5, <1>6, <1>7, IdleIs, CommandGoesOn

\* What every edit of the user's leaves: commands that wrote what they read before are stale.
LEMMA EditKeeps ==
  ASSUME LineIInv, NEW new \in Files, NEW users \in Files, HasLine(users) => Line(users) \in OwnLines,
         EditsFile(new, users),
         ~overwritten => new = users \/ \E e \in Executables : new = WithStatusLine(users, Chained(e, Line(users))),
         settings = mine => new = users, \A r : Known(r) => new = users \/ (r # Absent /\ Line(new) = r.command)
  PROVE  LineIInv'
<1>1. /\ edits < MaxEdits /\ edits' = edits + 1 /\ settings' = new /\ mine' = users
      /\ UNCHANGED <<lineReceipt, disturbed, overwritten, starts, kills>>
      /\ LineTyped /\ edits \in 0..MaxEdits /\ lineCmd \in [Commands -> LineCommand]
  BY DEF EditsFile, LineIInv, LineTyped
<1>2. edits' \in 0..MaxEdits
  <2>1. edits < MaxEdits /\ edits' = edits + 1 /\ edits \in 0..MaxEdits
    BY <1>1
  <2>2. MaxEdits \in Nat
    BY LineConstants
  <2> QED BY ONLY <2>1, <2>2
<1>3. /\ lineCmd' \in [Commands -> LineCommand]
      /\ \A c \in Commands : /\ lineCmd'[c].step = lineCmd[c].step /\ lineCmd'[c].new = lineCmd[c].new
                             /\ lineCmd'[c].old = lineCmd[c].old
                             /\ lineCmd[c].step \in {"install", "restore"} => lineCmd'[c].stale
  <2> DEFINE go(c) == IF lineCmd[c].step \in {"install", "restore"} THEN [lineCmd[c] EXCEPT !.stale = TRUE] ELSE lineCmd[c]
  <2>1. lineCmd' = [c \in Commands |-> go(c)]
    BY DEF EditsFile
  <2>2. ASSUME NEW c \in Commands
        PROVE  /\ go(c) \in LineCommand /\ go(c).step = lineCmd[c].step /\ go(c).new = lineCmd[c].new
               /\ go(c).old = lineCmd[c].old
               /\ lineCmd[c].step \in {"install", "restore"} => go(c).stale
    <3>1. lineCmd[c] \in LineCommand
      BY <1>1
    <3>2. PICK x : x = [lineCmd[c] EXCEPT !.stale = TRUE]
      OBVIOUS
    <3>3. x \in LineCommand /\ x.step = lineCmd[c].step /\ x.new = lineCmd[c].new /\ x.old = lineCmd[c].old /\ x.stale = TRUE
      BY <3>1, <3>2 DEF LineCommand
    <3> QED BY <3>1, <3>2, <3>3
  <2> HIDE DEF go
  <2> QED BY <2>1, <2>2
<1>4. LineTyped'
  <2>1. \A c \in Commands :
          /\ lineCmd'[c].step \in {"install", "receipt"} => lineCmd'[c].new \in Receipts
          /\ lineCmd'[c].step = "restore" => lineCmd'[c].old \in Receipts
    BY <1>1, <1>3 DEF LineTyped
  <2>2. HasLine(mine)' => Line(mine)' \in OwnLines
    BY <1>1 DEF HasLine, Line
  <2> QED BY <1>1, <1>2, <1>3, <2>1, <2>2 DEF LineTyped
<1>5. CommandsWrap'
  BY <1>3 DEF CommandsWrap, NotStale
<1>6. ~overwritten' => Wraps(settings)'
  BY <1>1 DEF Wraps
<1>7. ASSUME OneAtATime PROVE OneAtATime'
  <2>1. ASSUME NEW r, Known(r) PROVE settings' = mine' \/ (r # Absent /\ Line(settings') = r.command)
    BY <1>1, <2>1
  <2>2. \A c, d \in Commands : BusyLine(c)' /\ BusyLine(d)' => c = d
    BY <1>3, <1>7 DEF OneAtATime, BusyLine
  <2>3. \A c \in Commands : lineCmd'[c].step = "receipt" => Known(lineCmd[c].new)'
    BY <1>3, <1>7, <2>1 DEF OneAtATime, Known
  <2>4. \A c \in Commands : lineCmd'[c].step = "remove" => settings' = mine'
    BY <1>1, <1>3, <1>7 DEF OneAtATime
  <2>5. (\A c \in Commands : lineCmd'[c].step \notin {"receipt", "remove"}) => Known(lineReceipt)'
    BY <1>1, <1>3, <1>7, <2>1 DEF OneAtATime, Known
  <2> QED BY <2>2, <2>3, <2>4, <2>5 DEF OneAtATime
<1>8. ~overwritten' /\ ~disturbed' => OneAtATime'
  BY <1>1, <1>7 DEF LineIInv
<1> QED BY <1>4, <1>5, <1>6, <1>8 DEF LineIInv

\* The user puts a line of their own, takes the line out, or writes beside it.
LEMMA UserKeeps ==
  ASSUME LineIInv, UserEdits
  PROVE  LineIInv'
<1>1. LineTyped /\ settings \in Files /\ mine \in Files
  BY DEF LineIInv, LineTyped
<1>2. ASSUME NEW l \in OwnLines, EditsFile(WithStatusLine(settings, l), WithStatusLine(settings, l)) PROVE LineIInv'
  <2> DEFINE new == WithStatusLine(settings, l)
  <2>1. l \in Values
    BY LinesAreTold
  <2>2. new \in Files /\ Line(new) = l
    BY <1>1, <2>1, WithIs
  <2>3. EditsFile(new, new)
    BY <1>2
  <2> HIDE DEF new
  <2> QED BY <2>2, <2>3, EditKeeps
<1>3. ASSUME EditsFile(WithoutStatusLine(settings), WithoutStatusLine(settings)) PROVE LineIInv'
  <2> DEFINE new == WithoutStatusLine(settings)
  <2>1. new \in Files /\ ~HasLine(new)
    BY <1>1, WithoutIs
  <2>2. EditsFile(new, new)
    BY <1>3
  <2> HIDE DEF new
  <2> QED BY <2>1, <2>2, EditKeeps
<1>4. ASSUME EditsFile(Append(settings, Theme), Append(mine, Theme)) PROVE LineIInv'
  <2> DEFINE new == Append(settings, Theme)
             users == Append(mine, Theme)
  <2>1. /\ new \in Files /\ users \in Files /\ Line(new) = Line(settings) /\ Line(users) = Line(mine)
        /\ (HasLine(users) <=> HasLine(mine))
        /\ \A v \in Values : Append(WithStatusLine(mine, v), Theme) = WithStatusLine(users, v)
    BY <1>1, ThemeIsBeside
  <2>2. HasLine(users) => Line(users) \in OwnLines
    BY <1>1, <2>1 DEF LineTyped
  <2>3. EditsFile(new, users)
    BY <1>4
  <2>4. settings = mine => new = users
    OBVIOUS
  <2>5. \A r : Known(r) => new = users \/ (r # Absent /\ Line(new) = r.command)
    BY <2>1, <2>4 DEF Known
  <2>6. ASSUME ~overwritten PROVE new = users \/ \E e \in Executables : new = WithStatusLine(users, Chained(e, Line(users)))
    <3>1. Wraps(settings)
      BY <2>6 DEF LineIInv
    <3>2. CASE settings = mine
      BY <3>2
    <3>3. CASE settings # mine
      <4>1. PICK e \in Executables : settings = WithStatusLine(mine, Chained(e, Line(mine)))
        BY <3>1, <3>3 DEF Wraps
      <4>2. Chained(e, Line(mine)) \in Values
        BY <1>1, MineIsMine
      <4>3. new = WithStatusLine(users, Chained(e, Line(mine)))
        BY <2>1, <4>1, <4>2
      <4> QED BY <2>1, <4>3
    <3> QED BY <3>2, <3>3
  <2> HIDE DEF new, users
  <2> QED BY <2>1, <2>2, <2>3, <2>4, <2>5, <2>6, EditKeeps
<1> QED BY <1>2, <1>3, <1>4 DEF UserEdits

\* Every command's step, and the user's.
LEMMA LineStepStays ==
  ASSUME LineIInv, LineNext
  PROVE  LineIInv'
BY BeginInstallKeeps, WriteSettingsKeeps, WriteReceiptKeeps, BeginUninstallKeeps, RestoreSettingsKeeps,
   RemoveReceiptKeeps, CommandEndsKeeps, UserKeeps DEF LineNext

\* When nothing of it moves, it stays.
LEMMA LineStutters ==
  ASSUME LineIInv, UNCHANGED lineVars
  PROVE  LineIInv'
<1>1. UNCHANGED <<settings, lineReceipt, lineCmd, mine, disturbed, overwritten, starts, edits, kills>>
  BY DEF lineVars, lineGhost
<1>2. LineTyped'
  BY <1>1 DEF LineIInv, LineTyped, HasLine, Line
<1>3. ~overwritten' => Wraps(settings)' /\ CommandsWrap'
  BY <1>1 DEF LineIInv, Wraps, CommandsWrap, NotStale
<1>4. ~overwritten' /\ ~disturbed' => OneAtATime'
  BY <1>1 DEF LineIInv, OneAtATime, Known, BusyLine
<1> QED BY <1>2, <1>3, <1>4 DEF LineIInv

\* It holds of a file brgr has not seen.
LEMMA LineStart ==
  ASSUME LineInit
  PROVE  LineIInv
<1>1. PICK l \in OwnLines \cup {<<>>} :
          settings \in IF l = <<>> THEN {<<>>, <<Theme>>}
                       ELSE {<<Own(l)>>, <<Theme, Own(l)>>, <<Own(l), Theme>>}
  BY DEF LineInit, Own
<1>2. /\ mine = settings /\ lineReceipt = Absent /\ lineCmd = [c \in Commands |-> LineIdle]
      /\ disturbed = FALSE /\ overwritten = FALSE /\ starts = 0 /\ edits = 0 /\ kills = 0
  BY DEF LineInit
<1>3. l \in Values /\ Own(l) \in Member /\ IsLine(Own(l)) /\ Own(l).value = l
  BY <1>1, LinesAreTold DEF Own, Member, IsLine, Originals, Values
<1>4. Theme \in Member /\ ~IsLine(Theme)
  BY DEF Theme, Member, IsLine, Values, Originals
<1>5. settings \in Files /\ (HasLine(settings) => Line(settings) \in OwnLines)
  <2> DEFINE t == Theme
             o == Own(l)
  <2>1. t \in Member /\ o \in Member /\ ~IsLine(t) /\ IsLine(o) /\ o.value = l
    BY <1>3, <1>4
  <2>2. settings \in IF l = <<>> THEN {<<>>, <<t>>} ELSE {<<o>>, <<t, o>>, <<o, t>>}
    BY <1>1
  <2> HIDE DEF t, o
  <2>3. /\ settings \in Seq(Member) /\ \A i \in 1..Len(settings) : settings[i] \in {t, o}
        /\ \A i, j \in 1..Len(settings) : settings[i] = o /\ settings[j] = o => i = j
        /\ l = <<>> => \A i \in 1..Len(settings) : settings[i] = t
    <3>1. t # o
      BY <2>1
    <3>2. CASE settings = <<>>
      BY <3>2
    <3>3. CASE settings = <<t>> /\ l = <<>>
      BY <2>1, <3>1, <3>3
    <3>4. CASE settings = <<o>> /\ l # <<>>
      BY <2>1, <3>1, <3>4
    <3>5. CASE settings = <<t, o>> /\ l # <<>>
      BY <2>1, <3>1, <3>5
    <3>6. CASE settings = <<o, t>> /\ l # <<>>
      BY <2>1, <3>1, <3>6
    <3> QED BY <2>2, <3>2, <3>3, <3>4, <3>5, <3>6
  <2>4. \A i \in 1..Len(settings) : IsLine(settings[i]) => settings[i] = o
    BY <2>1, <2>3
  <2>5. settings \in Files
    BY <2>3, <2>4 DEF Files
  <2>6. ASSUME HasLine(settings) PROVE Line(settings) \in OwnLines
    <3>1. LineAt(settings) \in 1..Len(settings) /\ IsLine(settings[LineAt(settings)])
      BY <2>5, <2>6, LineIsAt
    <3>2. settings[LineAt(settings)] = o /\ l # <<>>
      BY <2>1, <2>3, <2>4, <3>1
    <3>3. Line(settings) = l
      BY <2>1, <2>5, <2>6, <3>2, LineIsAt
    <3> QED BY <1>1, <3>2, <3>3
  <2> QED BY <2>5, <2>6
<1>6. LineIdle \in LineCommand /\ LineIdle.step = "idle" /\ LineIdle.step \notin {"install", "receipt", "restore", "remove"}
  BY IdleIs
<1>7. lineCmd \in [Commands -> LineCommand] /\ \A c \in Commands : lineCmd[c] = LineIdle
  BY <1>2, <1>6
<1>8. starts \in 0..MaxStarts /\ edits \in 0..MaxEdits /\ kills \in 0..MaxKills
  BY <1>2, LineConstants
<1>9. LineTyped
  BY <1>2, <1>5, <1>6, <1>7, <1>8 DEF LineTyped
<1>10. Wraps(settings) /\ CommandsWrap
  BY <1>2, <1>6, <1>7 DEF Wraps, CommandsWrap
<1>11. OneAtATime
  BY <1>2, <1>6, <1>7 DEF OneAtATime, Known, BusyLine
<1> QED BY <1>9, <1>10, <1>11 DEF LineIInv

\* What the invariant holds is what the status line promises.
LEMMA LinePromise ==
  ASSUME LineIInv
  PROVE  LineInv
<1>1. LineTyped
  BY DEF LineIInv
<1>2. LineTypeOK
  <2>1. \A i, j \in DOMAIN settings : IsLine(settings[i]) /\ IsLine(settings[j]) => i = j
    BY <1>1 DEF LineTyped, Files
  <2>2. lineReceipt # Absent => RunsBrgr(lineReceipt.command) /\ ~RunsBrgr(lineReceipt.original)
    BY <1>1, ReceiptsTell, LinesAreTold DEF LineTyped
  <2>3. \A c \in Commands : lineCmd[c].step \in {"idle", "install", "receipt", "restore", "remove"}
    BY <1>1, CommandIs DEF LineCommand
  <2> QED BY <1>1, <2>1, <2>2, <2>3 DEF LineTyped, LineTypeOK
<1>3. OwnLineRuns
  <2> SUFFICES ASSUME ~overwritten
               PROVE  /\ Line(settings) = Line(mine) \/ (RunsBrgr(Line(settings)) /\ Tail(Line(settings)) = Line(mine))
                      /\ WithoutStatusLine(settings) = WithoutStatusLine(mine)
    BY DEF OwnLineRuns
  <2>1. Wraps(settings)
    BY DEF LineIInv
  <2> QED BY <1>1, <2>1, WrappedIs DEF Wraps
<1>4. RoundTrip
  BY DEF LineIInv, OneAtATime, RoundTrip, Known, BusyLine
<1> QED BY <1>2, <1>3, <1>4 DEF LineInv

-----------------------------------------------------------------------------
(* Hooks and skill.                                                             *)

\* What a command remembers while it is at work.
HookSteps ==
    {"idle", "skill", "hooks", "receipt", "unhook", "unskill", "forget", "put back", "skill back"}
HookWork ==
    [step : HookSteps, release : Releases \cup {Missing},
     oldHooks : SUBSET (OwnHooks \cup Releases), oldSkill : Releases \cup {Missing},
     newHooks : SUBSET (OwnHooks \cup Releases), stale : SUBSET {"hooks", "skill"}]

HooksTyped ==
    /\ side \in {"codex", "claude"}
    /\ hooks \subseteq OwnHooks \cup Releases /\ own \subseteq OwnHooks
    /\ skill \in Releases \cup {Missing, "edited"}
    /\ hookReceipt \in Releases \cup {Missing}
    /\ inst \in [Installers -> HookWork]
    /\ mixed \in BOOLEAN /\ lost \in BOOLEAN
    /\ setups \in 0..MaxSetups /\ changes \in 0..MaxChanges /\ faults \in 0..MaxFaults

\* Claude Code has no hooks of brgr's.
WithoutHooks(w) == w.step \in {"idle", "skill", "receipt", "unskill", "forget"}
ClaudeHasNoHooks ==
    side = "claude" =>
        /\ hooks = own
        /\ \A i \in Installers : WithoutHooks(inst[i])

\* What a command is about to write keeps the user's hooks, unless it was told too late.
SetsUp(w) == w.step \in {"skill", "hooks", "receipt", "put back", "skill back"}
KeepsOwnHooks(w) ==
    side = "codex" /\ "hooks" \notin w.stale =>
        /\ w.step \in {"skill", "hooks", "unhook"} => w.newHooks \cap OwnHooks = own
        /\ SetsUp(w) => w.oldHooks \cap OwnHooks = own

HasRelease(w) == w.step \notin {"idle", "put back", "skill back"} => w.release \in Releases

\* A command that sets up found no edited skill.
FoundNoEdit(w) == SetsUp(w) /\ skill = "edited" => "skill" \in w.stale

\* What a command that works alone has written so far, and what it would put back.
Named(r) == IF side = "codex" THEN {r} \ {Missing} ELSE {}
PutsBack(w) ==
    /\ w.oldSkill \in {hookReceipt, Missing}
    /\ side = "codex" => w.oldHooks \cap Releases = Named(hookReceipt)
Halfway(w) ==
    LET held == hooks \cap Releases
    IN  /\ w.step = "skill" =>
              held = Named(hookReceipt) /\ skill \in {hookReceipt, Missing, "edited"}
        /\ w.step = "hooks" =>
              held = Named(hookReceipt) /\ skill \in {w.release, Missing, "edited"}
        /\ w.step = "receipt" =>
              held = Named(w.release) /\ skill \in {w.release, Missing, "edited"}
        /\ w.step \in {"skill", "hooks"} /\ side = "codex" =>
              w.newHooks \cap Releases = {w.release}
        /\ SetsUp(w) => PutsBack(w)
        /\ w.step = "skill back" => held = Named(hookReceipt)
        /\ w.step \in {"unhook", "unskill", "forget"} => w.release = hookReceipt
        /\ w.step = "unhook" =>
              held = {hookReceipt} /\ w.newHooks \cap Releases = {}
        /\ w.step \in {"unskill", "forget"} => held = {}
        /\ w.step \in {"unhook", "unskill"} => skill \in {hookReceipt, Missing, "edited"}
        /\ w.step = "forget" => skill \in {Missing, "edited"}

\* The receipt names all that is there.
NamesAll == hooks \cap Releases = Named(hookReceipt) /\ skill \in {hookReceipt, Missing, "edited"}

AtWorkAlone == \A i, j \in Installers : Working(i) /\ Working(j) => i = j

HooksIInv ==
    /\ HooksTyped /\ ClaudeHasNoHooks /\ OwnHooksStay
    /\ \A i \in Installers : FoundNoEdit(inst[i])
    /\ \A i \in Installers : HasRelease(inst[i])
    /\ ~lost => \A i \in Installers : KeepsOwnHooks(inst[i])
    /\ ~mixed => AtWorkAlone
    /\ ~mixed /\ ~lost => (\A i \in Installers : Halfway(inst[i])) /\ ReceiptNamesAll

-----------------------------------------------------------------------------
\* What one command's step has to show of itself, for the others to stay as they are.
LEMMA HooksOneSteps ==
  ASSUME HooksIInv, NEW i \in Installers,
         inst' \in [Installers -> HookWork],
         \A j \in Installers \ {i} : inst'[j] = inst[j],
         side' = side, own' = own, hooks' \subseteq OwnHooks \cup Releases,
         skill' \in Releases \cup {Missing, "edited"},
         hookReceipt' \in Releases \cup {Missing},
         mixed' \in BOOLEAN, lost' \in BOOLEAN,
         setups' \in 0..MaxSetups, changes' \in 0..MaxChanges, faults' \in 0..MaxFaults,
         skill' = "edited" => skill = "edited",
         ~lost' => ~lost,
         ~mixed' => ~mixed /\ \A j \in Installers \ {i} : inst[j].step = "idle",
         side = "claude" => hooks' = own /\ WithoutHooks(inst'[i]),
         HasRelease(inst'[i]),
         FoundNoEdit(inst[i])',
         ~lost' => hooks' \cap OwnHooks = own,
         ~lost' => KeepsOwnHooks(inst[i])',
         ~mixed' /\ ~lost' => Halfway(inst[i])',
         ~mixed' /\ ~lost' /\ inst'[i].step = "idle" => NamesAll'
  PROVE  HooksIInv'
<1>0. HooksTyped /\ ClaudeHasNoHooks /\ OwnHooksStay
  BY DEF HooksIInv
<1>1. HooksTyped'
  BY <1>0 DEF HooksTyped
<1>2. ClaudeHasNoHooks'
  BY <1>0 DEF ClaudeHasNoHooks
<1>3. OwnHooksStay'
  BY DEF OwnHooksStay
<1>4. \A j \in Installers : FoundNoEdit(inst[j])'
  <2> TAKE j \in Installers
  <2>1. CASE j = i
    BY <2>1
  <2>2. CASE j # i
    <3>1. FoundNoEdit(inst[j])
      BY DEF HooksIInv
    <3>2. inst'[j] = inst[j]
      BY <2>2
    <3> QED BY <3>1, <3>2 DEF FoundNoEdit, SetsUp
  <2> QED BY <2>1, <2>2
<1>5. \A j \in Installers : HasRelease(inst'[j])
  BY DEF HooksIInv
<1>6. ASSUME ~lost' PROVE \A j \in Installers : KeepsOwnHooks(inst[j])'
  <2> TAKE j \in Installers
  <2>1. CASE j = i
    BY <1>6, <2>1
  <2>2. CASE j # i
    <3>1. KeepsOwnHooks(inst[j])
      BY <1>6 DEF HooksIInv
    <3>2. inst'[j] = inst[j]
      BY <2>2
    <3> QED BY <3>1, <3>2 DEF KeepsOwnHooks, SetsUp
  <2> QED BY <2>1, <2>2
<1>7. ~mixed' => AtWorkAlone'
  BY DEF AtWorkAlone, Working
<1>8. ASSUME ~mixed', ~lost' PROVE \A j \in Installers : Halfway(inst[j])'
  <2> TAKE j \in Installers
  <2>1. CASE j = i
    BY <1>8, <2>1
  <2>2. CASE j # i
    <3>1. inst'[j].step = "idle"
      BY <1>8, <2>2
    <3> QED BY <3>1 DEF Halfway, SetsUp
  <2> QED BY <2>1, <2>2
<1>9. ASSUME ~mixed', ~lost' PROVE ReceiptNamesAll'
  BY <1>9 DEF NamesAll, Named, ReceiptNamesAll, Working
<1> QED BY <1>1, <1>2, <1>3, <1>4, <1>5, <1>6, <1>7, <1>8, <1>9 DEF HooksIInv

\* A command at work that works alone has the others idle.
LEMMA HooksAlone ==
  ASSUME HooksIInv, ~mixed, NEW i \in Installers, inst[i].step # "idle"
  PROVE  \A j \in Installers \ {i} : inst[j].step = "idle"
BY DEF HooksIInv, AtWorkAlone, Working

\* Every step of the installers and of the user.
LEMMA HooksStepStays ==
  ASSUME HooksIInv, HooksNext
  PROVE  HooksIInv'
<1>1. /\ side \in {"codex", "claude"} /\ hooks \subseteq OwnHooks \cup Releases /\ own \subseteq OwnHooks
      /\ skill \in Releases \cup {Missing, "edited"} /\ hookReceipt \in Releases \cup {Missing}
      /\ inst \in [Installers -> HookWork] /\ mixed \in BOOLEAN /\ lost \in BOOLEAN
  BY DEF HooksIInv, HooksTyped
<1>2. setups \in 0..MaxSetups /\ changes \in 0..MaxChanges /\ faults \in 0..MaxFaults
  BY DEF HooksIInv, HooksTyped
<1>3. side = "claude" => hooks = own /\ \A i \in Installers : WithoutHooks(inst[i])
  BY DEF HooksIInv, ClaudeHasNoHooks
<1>4. ~lost => hooks \cap OwnHooks = own
  BY DEF HooksIInv, OwnHooksStay
<1>5. \A i \in Installers : /\ inst[i].step \in HookSteps
                            /\ inst[i].release \in Releases \cup {Missing}
                            /\ inst[i].oldHooks \subseteq OwnHooks \cup Releases
                            /\ inst[i].oldSkill \in Releases \cup {Missing}
                            /\ inst[i].newHooks \subseteq OwnHooks \cup Releases
  BY <1>1 DEF HookWork
<1>6. \A i \in Installers : FoundNoEdit(inst[i]) /\ HasRelease(inst[i])
  BY DEF HooksIInv
<1>7. ~lost => \A i \in Installers : KeepsOwnHooks(inst[i])
  BY DEF HooksIInv
<1>8. ~mixed /\ ~lost => \A i \in Installers : Halfway(inst[i])
  BY DEF HooksIInv
<1>9. ~mixed /\ ~lost /\ (\A i \in Installers : inst[i].step = "idle") => NamesAll
  BY DEF HooksIInv, ReceiptNamesAll, NamesAll, Named, Working

<1>10. ASSUME NEW i \in Installers, BeginSetup(i) PROVE HooksIInv'
  <2>p. PICK r \in Releases :
          MayReplaceSkill(r) /\ inst' = [inst EXCEPT ![i] = [step |-> "skill", release |-> r, oldHooks |-> hooks, oldSkill |-> skill,
              newHooks |-> (hooks \ Obsolete(r)) \cup {r}, stale |-> {}]]
    BY <1>10 DEF BeginSetup
  <2>1. inst[i].step = "idle" /\ side = "codex" /\ MayReplaceSkill(r)
    BY <1>10, <2>p DEF BeginSetup, SetsOut, Working
  <2>c. (hooks \ Obsolete(r)) \cup {r} \subseteq OwnHooks \cup Releases /\ skill \in Releases \cup {Missing}
    BY <1>1, <2>1, HooksConstants DEF Obsolete, MayReplaceSkill
  <2>d. /\ [step |-> "skill", release |-> r, oldHooks |-> hooks, oldSkill |-> skill,
            newHooks |-> (hooks \ Obsolete(r)) \cup {r}, stale |-> {}] \in HookWork
    BY <1>1, <2>c DEF HookWork, HookSteps
  <2>2. /\ inst' \in [Installers -> HookWork] /\ \A j \in Installers \ {i} : inst'[j] = inst[j]
        /\ inst'[i].step = "skill" /\ inst'[i].release = r /\ inst'[i].oldHooks = hooks
        /\ inst'[i].oldSkill = skill /\ inst'[i].newHooks = (hooks \ Obsolete(r)) \cup {r} /\ inst'[i].stale = {}
    BY <1>1, <2>p, <2>d
  <2>3. /\ side' = side /\ own' = own /\ hooks' = hooks
        /\ skill' = skill /\ hookReceipt' = hookReceipt
    BY <1>10, <2>p DEF BeginSetup, SetsOut, Working
  <2>4. setups' \in 0..MaxSetups /\ changes' \in 0..MaxChanges /\ faults' \in 0..MaxFaults
    BY <1>2, HooksConstants, <1>10, <2>p DEF BeginSetup, SetsOut, Working
  <2>5. /\ mixed' \in BOOLEAN /\ lost' \in BOOLEAN
        /\ ~lost' => ~lost
    BY <1>1, <1>10, <2>p DEF BeginSetup, SetsOut, Working
  <2>6. ~mixed' => ~mixed /\ \A j \in Installers \ {i} : inst[j].step = "idle"
    BY <1>1, <1>10, <2>p DEF BeginSetup, SetsOut, Working
  <2>7. /\ hooks' \subseteq OwnHooks \cup Releases /\ skill' \in Releases \cup {Missing, "edited"}
        /\ hookReceipt' \in Releases \cup {Missing} /\ (skill' = "edited" => skill = "edited")
    BY <1>1, <1>5, <1>6, <2>1, <2>3, HooksConstants DEF HasRelease
  <2>8. side = "claude" => hooks' = own /\ WithoutHooks(inst'[i])
    BY <1>3, <2>1, <2>2, <2>3 DEF WithoutHooks
  <2>9. HasRelease(inst'[i])
    BY <1>1, <1>6, <2>1, <2>2 DEF HasRelease
  <2>10. FoundNoEdit(inst[i])'
    BY <2>3, <2>c, HooksConstants DEF FoundNoEdit
  <2>11. ~lost' => hooks' \cap OwnHooks = own
    BY <1>1, <1>3, <1>4, <1>7, <2>1, <2>3, <2>5 DEF KeepsOwnHooks, SetsUp, WithoutHooks
  <2>12. ~lost' => KeepsOwnHooks(inst[i])'
    <3>1. ~lost' => ((hooks \ Obsolete(r)) \cup {r}) \cap OwnHooks = own
      BY <1>1, <1>4, <2>5, HooksConstants DEF Obsolete
    <3> QED BY <1>4, <2>2, <2>3, <2>5, <3>1 DEF KeepsOwnHooks
  <2>13. ~mixed' /\ ~lost' => Halfway(inst[i])'
    <3>1. ~mixed' /\ ~lost' => NamesAll
      BY <1>9, <2>1, <2>5, <2>6
    <3> QED BY <1>1, <3>1, <2>1, <2>2, <2>3, HooksConstants DEF Halfway, SetsUp, PutsBack, Named, NamesAll, Obsolete, MayReplaceSkill
  <2>14. ~mixed' /\ ~lost' /\ inst'[i].step = "idle" => NamesAll'
    BY <1>1, <2>2
  <2> QED BY <2>2, <2>3, <2>4, <2>5, <2>6, <2>7, <2>8, <2>9, <2>10, <2>11, <2>12, <2>13, <2>14, HooksOneSteps
<1>11. ASSUME NEW i \in Installers, SetUpClaude(i) PROVE HooksIInv'
  <2>p. PICK r \in Releases :
          MayReplaceSkill(r) /\ inst' = [inst EXCEPT ![i] = [NoWork EXCEPT !.step = "skill", !.release = r]]
    BY <1>11 DEF SetUpClaude
  <2>1. inst[i].step = "idle" /\ side = "claude" /\ MayReplaceSkill(r)
    BY <1>11, <2>p DEF SetUpClaude, SetsOut, Working, NoWork
  <2>2. /\ inst' \in [Installers -> HookWork] /\ \A j \in Installers \ {i} : inst'[j] = inst[j]
        /\ inst'[i].step = "skill" /\ inst'[i].release = r /\ inst'[i].oldHooks = {}
        /\ inst'[i].oldSkill = Missing /\ inst'[i].newHooks = {} /\ inst'[i].stale = {}
    BY <1>1, <2>1, <1>11, <2>p, HooksConstants DEF SetUpClaude, SetsOut, Working, NoWork, HookWork, HookSteps, MayReplaceSkill, Obsolete
  <2>3. /\ side' = side /\ own' = own /\ hooks' = hooks
        /\ skill' = skill /\ hookReceipt' = hookReceipt
    BY <1>11, <2>p DEF SetUpClaude, SetsOut, Working, NoWork
  <2>4. setups' \in 0..MaxSetups /\ changes' \in 0..MaxChanges /\ faults' \in 0..MaxFaults
    BY <1>2, HooksConstants, <1>11, <2>p DEF SetUpClaude, SetsOut, Working, NoWork
  <2>5. /\ mixed' \in BOOLEAN /\ lost' \in BOOLEAN
        /\ ~lost' => ~lost
    BY <1>1, <1>11, <2>p DEF SetUpClaude, SetsOut, Working, NoWork
  <2>6. ~mixed' => ~mixed /\ \A j \in Installers \ {i} : inst[j].step = "idle"
    BY <1>1, <1>11, <2>p DEF SetUpClaude, SetsOut, Working, NoWork
  <2>7. /\ hooks' \subseteq OwnHooks \cup Releases /\ skill' \in Releases \cup {Missing, "edited"}
        /\ hookReceipt' \in Releases \cup {Missing} /\ (skill' = "edited" => skill = "edited")
    BY <1>1, <1>5, <1>6, <2>1, <2>3, HooksConstants DEF HasRelease
  <2>8. side = "claude" => hooks' = own /\ WithoutHooks(inst'[i])
    BY <1>3, <2>1, <2>2, <2>3 DEF WithoutHooks
  <2>9. HasRelease(inst'[i])
    BY <1>1, <1>6, <2>1, <2>2 DEF HasRelease
  <2>10. FoundNoEdit(inst[i])'
    BY <1>1, <1>5, <1>6, <2>1, <2>2, <2>3, HooksConstants DEF FoundNoEdit, SetsUp, MayReplaceSkill
  <2>11. ~lost' => hooks' \cap OwnHooks = own
    BY <1>1, <1>3, <1>4, <1>7, <2>1, <2>3, <2>5 DEF KeepsOwnHooks, SetsUp, WithoutHooks
  <2>12. ~lost' => KeepsOwnHooks(inst[i])'
    BY <1>1, <1>4, <1>7, <2>1, <2>2, <2>3, <2>5, HooksConstants DEF KeepsOwnHooks, SetsUp, Obsolete
  <2>13. ~mixed' /\ ~lost' => Halfway(inst[i])'
    <3>1. ~mixed' /\ ~lost' => NamesAll
      BY <1>9, <2>1, <2>5, <2>6
    <3> QED BY <1>1, <3>1, <2>1, <2>2, <2>3, HooksConstants DEF Halfway, SetsUp, PutsBack, Named, NamesAll, Obsolete, MayReplaceSkill
  <2>14. ~mixed' /\ ~lost' /\ inst'[i].step = "idle" => NamesAll'
    BY <1>1, <2>2
  <2> QED BY <2>2, <2>3, <2>4, <2>5, <2>6, <2>7, <2>8, <2>9, <2>10, <2>11, <2>12, <2>13, <2>14, HooksOneSteps
<1>12. ASSUME NEW i \in Installers, WriteSkill(i) PROVE HooksIInv'
  <2>1. inst[i].step = "skill"
    BY <1>12 DEF WriteSkill, ToStep
  <2>2. /\ inst' \in [Installers -> HookWork] /\ \A j \in Installers \ {i} : inst'[j] = inst[j]
        /\ inst'[i].step = (IF side = "codex" THEN "hooks" ELSE "receipt") /\ inst'[i].release = inst[i].release /\ inst'[i].oldHooks = inst[i].oldHooks
        /\ inst'[i].oldSkill = inst[i].oldSkill /\ inst'[i].newHooks = inst[i].newHooks /\ inst'[i].stale = inst[i].stale
    BY <1>1, <2>1, <1>12 DEF WriteSkill, ToStep, HookWork, HookSteps
  <2>3. /\ side' = side /\ own' = own /\ hooks' = hooks
        /\ skill' = inst[i].release /\ hookReceipt' = hookReceipt
    BY <1>12 DEF WriteSkill, ToStep
  <2>4. setups' \in 0..MaxSetups /\ changes' \in 0..MaxChanges /\ faults' \in 0..MaxFaults
    BY <1>2, HooksConstants, <1>12 DEF WriteSkill, ToStep
  <2>5. /\ mixed' \in BOOLEAN /\ lost' \in BOOLEAN
        /\ ~lost' => ~lost /\ "skill" \notin inst[i].stale
    BY <1>1, <1>12 DEF WriteSkill, ToStep
  <2>m. ~mixed' => ~mixed
    BY <1>1, <1>12 DEF WriteSkill, ToStep
  <2>6. ~mixed' => ~mixed /\ \A j \in Installers \ {i} : inst[j].step = "idle"
    BY <2>1, <2>m, HooksAlone
  <2>7. /\ hooks' \subseteq OwnHooks \cup Releases /\ skill' \in Releases \cup {Missing, "edited"}
        /\ hookReceipt' \in Releases \cup {Missing} /\ (skill' = "edited" => skill = "edited")
    BY <1>1, <1>5, <1>6, <2>1, <2>3, HooksConstants DEF HasRelease
  <2>8. side = "claude" => hooks' = own /\ WithoutHooks(inst'[i])
    BY <1>3, <2>1, <2>2, <2>3 DEF WithoutHooks
  <2>9. HasRelease(inst'[i])
    BY <1>1, <1>6, <2>1, <2>2 DEF HasRelease
  <2>10. FoundNoEdit(inst[i])'
    BY <1>1, <1>5, <1>6, <2>1, <2>2, <2>3, HooksConstants DEF FoundNoEdit, SetsUp
  <2>11. ~lost' => hooks' \cap OwnHooks = own
    BY <1>1, <1>3, <1>4, <1>7, <2>1, <2>3, <2>5 DEF KeepsOwnHooks, SetsUp, WithoutHooks
  <2>12. ~lost' => KeepsOwnHooks(inst[i])'
    BY <1>1, <1>4, <1>7, <2>1, <2>2, <2>3, <2>5, HooksConstants DEF KeepsOwnHooks, SetsUp
  <2>13. ASSUME ~mixed', ~lost' PROVE Halfway(inst[i])'
    <3>1. Halfway(inst[i]) /\ inst[i].release \in Releases
      BY <1>6, <1>8, <2>1, <2>5, <2>6, <2>13 DEF HasRelease
    <3>2. PutsBack(inst[i])'
      BY <2>1, <2>2, <2>3, <3>1 DEF Halfway, SetsUp, PutsBack, Named
    <3>3. CASE side = "codex"
      BY <2>1, <2>2, <2>3, <3>1, <3>2, <3>3 DEF Halfway, Named
    <3>4. CASE side = "claude"
      BY <2>1, <2>2, <2>3, <3>1, <3>2, <3>4 DEF Halfway, Named
    <3> QED BY <1>1, <3>3, <3>4
  <2>14. ~mixed' /\ ~lost' /\ inst'[i].step = "idle" => NamesAll'
    BY <1>1, <2>2
  <2> QED BY <2>2, <2>3, <2>4, <2>5, <2>6, <2>7, <2>8, <2>9, <2>10, <2>11, <2>12, <2>13, <2>14, HooksOneSteps
<1>13. ASSUME NEW i \in Installers, WriteHooks(i) PROVE HooksIInv'
  <2>1. inst[i].step = "hooks"
    BY <1>13 DEF WriteHooks, ToStep
  <2>2. /\ inst' \in [Installers -> HookWork] /\ \A j \in Installers \ {i} : inst'[j] = inst[j]
        /\ inst'[i].step = "receipt" /\ inst'[i].release = inst[i].release /\ inst'[i].oldHooks = inst[i].oldHooks
        /\ inst'[i].oldSkill = inst[i].oldSkill /\ inst'[i].newHooks = inst[i].newHooks /\ inst'[i].stale = inst[i].stale
    BY <1>1, <2>1, <1>13 DEF WriteHooks, ToStep, HookWork, HookSteps
  <2>3. /\ side' = side /\ own' = own /\ hooks' = inst[i].newHooks
        /\ skill' = skill /\ hookReceipt' = hookReceipt
    BY <1>13 DEF WriteHooks, ToStep
  <2>4. setups' \in 0..MaxSetups /\ changes' \in 0..MaxChanges /\ faults' \in 0..MaxFaults
    BY <1>2, HooksConstants, <1>13 DEF WriteHooks, ToStep
  <2>5. /\ mixed' \in BOOLEAN /\ lost' \in BOOLEAN
        /\ ~lost' => ~lost /\ "hooks" \notin inst[i].stale
    BY <1>1, <1>13 DEF WriteHooks, ToStep
  <2>m. ~mixed' => ~mixed
    BY <1>1, <1>13 DEF WriteHooks, ToStep
  <2>6. ~mixed' => ~mixed /\ \A j \in Installers \ {i} : inst[j].step = "idle"
    BY <2>1, <2>m, HooksAlone
  <2>7. /\ hooks' \subseteq OwnHooks \cup Releases /\ skill' \in Releases \cup {Missing, "edited"}
        /\ hookReceipt' \in Releases \cup {Missing} /\ (skill' = "edited" => skill = "edited")
    BY <1>1, <1>5, <1>6, <2>1, <2>3, HooksConstants DEF HasRelease
  <2>8. side = "claude" => hooks' = own /\ WithoutHooks(inst'[i])
    BY <1>3, <2>1, <2>2, <2>3 DEF WithoutHooks
  <2>9. HasRelease(inst'[i])
    BY <1>1, <1>6, <2>1, <2>2 DEF HasRelease
  <2>10. FoundNoEdit(inst[i])'
    BY <1>1, <1>5, <1>6, <2>1, <2>2, <2>3, HooksConstants DEF FoundNoEdit, SetsUp
  <2>11. ~lost' => hooks' \cap OwnHooks = own
    BY <1>1, <1>3, <1>4, <1>7, <2>1, <2>3, <2>5 DEF KeepsOwnHooks, SetsUp, WithoutHooks
  <2>12. ~lost' => KeepsOwnHooks(inst[i])'
    BY <1>1, <1>4, <1>7, <2>1, <2>2, <2>3, <2>5, HooksConstants DEF KeepsOwnHooks, SetsUp
  <2>13. ASSUME ~mixed', ~lost' PROVE Halfway(inst[i])'
    <3>1. side = "codex"
      BY <1>1, <1>3, <2>1 DEF WithoutHooks
    <3>2. Halfway(inst[i]) /\ inst[i].release \in Releases
      BY <1>6, <1>8, <2>1, <2>5, <2>6, <2>13 DEF HasRelease
    <3>3. PutsBack(inst[i])'
      BY <2>1, <2>2, <2>3, <3>2 DEF Halfway, SetsUp, PutsBack, Named
    <3>4. hooks' \cap Releases = Named(inst[i].release)
      BY <2>1, <2>3, <3>1, <3>2, HooksConstants DEF Halfway, Named
    <3> QED BY <2>1, <2>2, <2>3, <3>2, <3>3, <3>4 DEF Halfway, Named
  <2>14. ~mixed' /\ ~lost' /\ inst'[i].step = "idle" => NamesAll'
    BY <1>1, <2>2
  <2> QED BY <2>2, <2>3, <2>4, <2>5, <2>6, <2>7, <2>8, <2>9, <2>10, <2>11, <2>12, <2>13, <2>14, HooksOneSteps
<1>14. ASSUME NEW i \in Installers, WriteHookReceipt(i) PROVE HooksIInv'
  <2>1. inst[i].step = "receipt"
    BY <1>14 DEF WriteHookReceipt, hookGhost, NoWork
  <2>2. /\ inst' \in [Installers -> HookWork] /\ \A j \in Installers \ {i} : inst'[j] = inst[j]
        /\ inst'[i].step = "idle"
    BY <1>1, <2>1, <1>14 DEF WriteHookReceipt, hookGhost, NoWork, HookWork, HookSteps
  <2>3. /\ side' = side /\ own' = own /\ hooks' = hooks
        /\ skill' = skill /\ hookReceipt' = inst[i].release
    BY <1>14 DEF WriteHookReceipt, hookGhost, NoWork
  <2>4. setups' \in 0..MaxSetups /\ changes' \in 0..MaxChanges /\ faults' \in 0..MaxFaults
    BY <1>2, HooksConstants, <1>14 DEF WriteHookReceipt, hookGhost, NoWork
  <2>5. /\ mixed' \in BOOLEAN /\ lost' \in BOOLEAN
        /\ ~lost' => ~lost
    BY <1>1, <1>14 DEF WriteHookReceipt, hookGhost, NoWork
  <2>m. ~mixed' => ~mixed
    BY <1>1, <1>14 DEF WriteHookReceipt, hookGhost, NoWork
  <2>6. ~mixed' => ~mixed /\ \A j \in Installers \ {i} : inst[j].step = "idle"
    BY <2>1, <2>m, HooksAlone
  <2>7. /\ hooks' \subseteq OwnHooks \cup Releases /\ skill' \in Releases \cup {Missing, "edited"}
        /\ hookReceipt' \in Releases \cup {Missing} /\ (skill' = "edited" => skill = "edited")
    BY <1>1, <1>5, <1>6, <2>1, <2>3, HooksConstants DEF HasRelease
  <2>8. side = "claude" => hooks' = own /\ WithoutHooks(inst'[i])
    BY <1>3, <2>1, <2>2, <2>3 DEF WithoutHooks
  <2>9. HasRelease(inst'[i])
    BY <1>1, <1>6, <2>1, <2>2 DEF HasRelease
  <2>10. FoundNoEdit(inst[i])'
    BY <2>2 DEF FoundNoEdit, SetsUp
  <2>11. ~lost' => hooks' \cap OwnHooks = own
    BY <1>1, <1>3, <1>4, <1>7, <2>1, <2>3, <2>5 DEF KeepsOwnHooks, SetsUp, WithoutHooks
  <2>12. ~lost' => KeepsOwnHooks(inst[i])'
    BY <2>2 DEF KeepsOwnHooks, SetsUp
  <2>13. ~mixed' /\ ~lost' => Halfway(inst[i])'
    BY <2>2 DEF Halfway, SetsUp
  <2>14. ~mixed' /\ ~lost' /\ inst'[i].step = "idle" => NamesAll'
    BY <1>1, <1>3, <1>6, <1>8, <2>1, <2>3, <2>5, <2>6, HooksConstants DEF Halfway, SetsUp, PutsBack, Named, NamesAll, HasRelease, WithoutHooks
  <2> QED BY <2>2, <2>3, <2>4, <2>5, <2>6, <2>7, <2>8, <2>9, <2>10, <2>11, <2>12, <2>13, <2>14, HooksOneSteps
<1>15. ASSUME NEW i \in Installers, WriteFails(i) PROVE HooksIInv'
  <2>1. side = "codex" /\ inst[i].step \in {"skill", "hooks", "receipt"}
    BY <1>15 DEF WriteFails, ToStep
  <2>2. /\ inst' \in [Installers -> HookWork] /\ \A j \in Installers \ {i} : inst'[j] = inst[j]
        /\ inst'[i].step = "put back" /\ inst'[i].release = inst[i].release /\ inst'[i].oldHooks = inst[i].oldHooks
        /\ inst'[i].oldSkill = inst[i].oldSkill /\ inst'[i].newHooks = inst[i].newHooks /\ inst'[i].stale = inst[i].stale
    BY <1>1, <2>1, <1>15 DEF WriteFails, ToStep, HookWork, HookSteps
  <2>3. /\ side' = side /\ own' = own /\ hooks' = hooks
        /\ skill' = skill /\ hookReceipt' = hookReceipt
    BY <1>15 DEF WriteFails, ToStep
  <2>4. setups' \in 0..MaxSetups /\ changes' \in 0..MaxChanges /\ faults' \in 0..MaxFaults
    <3>1. faults < MaxFaults /\ faults' = faults + 1 /\ setups' = setups /\ changes' = changes
      BY <1>15 DEF WriteFails, ToStep
    <3> QED BY <1>2, <3>1, HooksConstants
  <2>5. /\ mixed' \in BOOLEAN /\ lost' \in BOOLEAN
        /\ ~lost' => ~lost
    BY <1>1, <1>15 DEF WriteFails, ToStep
  <2>m. ~mixed' => ~mixed
    BY <1>1, <1>15 DEF WriteFails, ToStep
  <2>6. ~mixed' => ~mixed /\ \A j \in Installers \ {i} : inst[j].step = "idle"
    BY <2>1, <2>m, HooksAlone
  <2>7. /\ hooks' \subseteq OwnHooks \cup Releases /\ skill' \in Releases \cup {Missing, "edited"}
        /\ hookReceipt' \in Releases \cup {Missing} /\ (skill' = "edited" => skill = "edited")
    BY <1>1, <1>5, <1>6, <2>1, <2>3, HooksConstants DEF HasRelease
  <2>8. side = "claude" => hooks' = own /\ WithoutHooks(inst'[i])
    BY <1>3, <2>1, <2>2, <2>3 DEF WithoutHooks
  <2>9. HasRelease(inst'[i])
    BY <1>1, <1>6, <2>1, <2>2 DEF HasRelease
  <2>10. FoundNoEdit(inst[i])'
    BY <1>1, <1>5, <1>6, <2>1, <2>2, <2>3, HooksConstants DEF FoundNoEdit, SetsUp
  <2>11. ~lost' => hooks' \cap OwnHooks = own
    BY <1>1, <1>3, <1>4, <1>7, <2>1, <2>3, <2>5 DEF KeepsOwnHooks, SetsUp, WithoutHooks
  <2>12. ~lost' => KeepsOwnHooks(inst[i])'
    BY <1>1, <1>4, <1>7, <2>1, <2>2, <2>3, <2>5, HooksConstants DEF KeepsOwnHooks, SetsUp
  <2>13. ~mixed' /\ ~lost' => Halfway(inst[i])'
    BY <1>1, <1>3, <1>6, <1>8, <2>1, <2>2, <2>3, <2>5, <2>6, HooksConstants DEF Halfway, SetsUp, PutsBack, Named, HasRelease, WithoutHooks
  <2>14. ~mixed' /\ ~lost' /\ inst'[i].step = "idle" => NamesAll'
    BY <1>1, <2>2
  <2> QED BY <2>2, <2>3, <2>4, <2>5, <2>6, <2>7, <2>8, <2>9, <2>10, <2>11, <2>12, <2>13, <2>14, HooksOneSteps
<1>16. ASSUME NEW i \in Installers, PutHooksBack(i) PROVE HooksIInv'
  <2>1. inst[i].step = "put back"
    BY <1>16 DEF PutHooksBack, ToStep
  <2>2. /\ inst' \in [Installers -> HookWork] /\ \A j \in Installers \ {i} : inst'[j] = inst[j]
        /\ inst'[i].step = "skill back" /\ inst'[i].release = inst[i].release /\ inst'[i].oldHooks = inst[i].oldHooks
        /\ inst'[i].oldSkill = inst[i].oldSkill /\ inst'[i].newHooks = inst[i].newHooks /\ inst'[i].stale = inst[i].stale
    BY <1>1, <2>1, <1>16 DEF PutHooksBack, ToStep, HookWork, HookSteps
  <2>3. /\ side' = side /\ own' = own /\ hooks' = inst[i].oldHooks
        /\ skill' = skill /\ hookReceipt' = hookReceipt
    BY <1>16 DEF PutHooksBack, ToStep
  <2>4. setups' \in 0..MaxSetups /\ changes' \in 0..MaxChanges /\ faults' \in 0..MaxFaults
    BY <1>2, HooksConstants, <1>16 DEF PutHooksBack, ToStep
  <2>5. /\ mixed' \in BOOLEAN /\ lost' \in BOOLEAN
        /\ ~lost' => ~lost /\ "hooks" \notin inst[i].stale
    BY <1>1, <1>16 DEF PutHooksBack, ToStep
  <2>m. ~mixed' => ~mixed
    BY <1>1, <1>16 DEF PutHooksBack, ToStep
  <2>6. ~mixed' => ~mixed /\ \A j \in Installers \ {i} : inst[j].step = "idle"
    BY <2>1, <2>m, HooksAlone
  <2>7. /\ hooks' \subseteq OwnHooks \cup Releases /\ skill' \in Releases \cup {Missing, "edited"}
        /\ hookReceipt' \in Releases \cup {Missing} /\ (skill' = "edited" => skill = "edited")
    BY <1>1, <1>5, <1>6, <2>1, <2>3, HooksConstants DEF HasRelease
  <2>8. side = "claude" => hooks' = own /\ WithoutHooks(inst'[i])
    BY <1>3, <2>1, <2>2, <2>3 DEF WithoutHooks
  <2>9. HasRelease(inst'[i])
    BY <1>1, <1>6, <2>1, <2>2 DEF HasRelease
  <2>10. FoundNoEdit(inst[i])'
    BY <1>1, <1>5, <1>6, <2>1, <2>2, <2>3, HooksConstants DEF FoundNoEdit, SetsUp
  <2>11. ~lost' => hooks' \cap OwnHooks = own
    BY <1>1, <1>3, <1>4, <1>7, <2>1, <2>3, <2>5 DEF KeepsOwnHooks, SetsUp, WithoutHooks
  <2>12. ~lost' => KeepsOwnHooks(inst[i])'
    BY <1>1, <1>4, <1>7, <2>1, <2>2, <2>3, <2>5, HooksConstants DEF KeepsOwnHooks, SetsUp
  <2>13. ~mixed' /\ ~lost' => Halfway(inst[i])'
    BY <1>1, <1>3, <1>6, <1>8, <2>1, <2>2, <2>3, <2>5, <2>6, HooksConstants DEF Halfway, SetsUp, PutsBack, Named, HasRelease, WithoutHooks
  <2>14. ~mixed' /\ ~lost' /\ inst'[i].step = "idle" => NamesAll'
    BY <1>1, <2>2
  <2> QED BY <2>2, <2>3, <2>4, <2>5, <2>6, <2>7, <2>8, <2>9, <2>10, <2>11, <2>12, <2>13, <2>14, HooksOneSteps
<1>17. ASSUME NEW i \in Installers, PutSkillBack(i) PROVE HooksIInv'
  <2>1. inst[i].step = "skill back"
    BY <1>17 DEF PutSkillBack, NoWork
  <2>2. /\ inst' \in [Installers -> HookWork] /\ \A j \in Installers \ {i} : inst'[j] = inst[j]
        /\ inst'[i].step = "idle"
    BY <1>1, <2>1, <1>17 DEF PutSkillBack, NoWork, HookWork, HookSteps
  <2>3. /\ side' = side /\ own' = own /\ hooks' = hooks
        /\ skill' = inst[i].oldSkill /\ hookReceipt' = hookReceipt
    BY <1>17 DEF PutSkillBack, NoWork
  <2>4. setups' \in 0..MaxSetups /\ changes' \in 0..MaxChanges /\ faults' \in 0..MaxFaults
    BY <1>2, HooksConstants, <1>17 DEF PutSkillBack, NoWork
  <2>5. /\ mixed' \in BOOLEAN /\ lost' \in BOOLEAN
        /\ ~lost' => ~lost /\ "skill" \notin inst[i].stale
    BY <1>1, <1>17 DEF PutSkillBack, NoWork
  <2>m. ~mixed' => ~mixed
    BY <1>1, <1>17 DEF PutSkillBack, NoWork
  <2>6. ~mixed' => ~mixed /\ \A j \in Installers \ {i} : inst[j].step = "idle"
    BY <2>1, <2>m, HooksAlone
  <2>7. /\ hooks' \subseteq OwnHooks \cup Releases /\ skill' \in Releases \cup {Missing, "edited"}
        /\ hookReceipt' \in Releases \cup {Missing} /\ (skill' = "edited" => skill = "edited")
    BY <1>1, <1>5, <1>6, <2>1, <2>3, HooksConstants DEF HasRelease
  <2>8. side = "claude" => hooks' = own /\ WithoutHooks(inst'[i])
    BY <1>3, <2>1, <2>2, <2>3 DEF WithoutHooks
  <2>9. HasRelease(inst'[i])
    BY <1>1, <1>6, <2>1, <2>2 DEF HasRelease
  <2>10. FoundNoEdit(inst[i])'
    BY <2>2 DEF FoundNoEdit, SetsUp
  <2>11. ~lost' => hooks' \cap OwnHooks = own
    BY <1>1, <1>3, <1>4, <1>7, <2>1, <2>3, <2>5 DEF KeepsOwnHooks, SetsUp, WithoutHooks
  <2>12. ~lost' => KeepsOwnHooks(inst[i])'
    BY <2>2 DEF KeepsOwnHooks, SetsUp
  <2>13. ~mixed' /\ ~lost' => Halfway(inst[i])'
    BY <2>2 DEF Halfway, SetsUp
  <2>14. ~mixed' /\ ~lost' /\ inst'[i].step = "idle" => NamesAll'
    BY <1>1, <1>3, <1>6, <1>8, <2>1, <2>3, <2>5, <2>6, HooksConstants DEF Halfway, SetsUp, PutsBack, Named, NamesAll, HasRelease, WithoutHooks
  <2> QED BY <2>2, <2>3, <2>4, <2>5, <2>6, <2>7, <2>8, <2>9, <2>10, <2>11, <2>12, <2>13, <2>14, HooksOneSteps
<1>18. ASSUME NEW i \in Installers, BeginRemoval(i) PROVE HooksIInv'
  <2>1. inst[i].step = "idle" /\ side = "codex" /\ hookReceipt # Missing
    BY <1>18 DEF BeginRemoval, SetsOut, Working, NoWork
  <2>2. /\ inst' \in [Installers -> HookWork] /\ \A j \in Installers \ {i} : inst'[j] = inst[j]
        /\ inst'[i].step = "unhook" /\ inst'[i].release = hookReceipt /\ inst'[i].oldHooks = {}
        /\ inst'[i].oldSkill = Missing /\ inst'[i].newHooks = hooks \ {hookReceipt} /\ inst'[i].stale = {}
    BY <1>1, <2>1, <1>18, HooksConstants DEF BeginRemoval, SetsOut, Working, NoWork, HookWork, HookSteps
  <2>3. /\ side' = side /\ own' = own /\ hooks' = hooks
        /\ skill' = skill /\ hookReceipt' = hookReceipt
    BY <1>18 DEF BeginRemoval, SetsOut, Working, NoWork
  <2>4. setups' \in 0..MaxSetups /\ changes' \in 0..MaxChanges /\ faults' \in 0..MaxFaults
    BY <1>2, HooksConstants, <1>18 DEF BeginRemoval, SetsOut, Working, NoWork
  <2>5. /\ mixed' \in BOOLEAN /\ lost' \in BOOLEAN
        /\ ~lost' => ~lost
    BY <1>1, <1>18 DEF BeginRemoval, SetsOut, Working, NoWork
  <2>6. ~mixed' => ~mixed /\ \A j \in Installers \ {i} : inst[j].step = "idle"
    BY <1>1, <1>18 DEF BeginRemoval, SetsOut, Working, NoWork
  <2>7. /\ hooks' \subseteq OwnHooks \cup Releases /\ skill' \in Releases \cup {Missing, "edited"}
        /\ hookReceipt' \in Releases \cup {Missing} /\ (skill' = "edited" => skill = "edited")
    BY <1>1, <1>5, <1>6, <2>1, <2>3, HooksConstants DEF HasRelease
  <2>8. side = "claude" => hooks' = own /\ WithoutHooks(inst'[i])
    BY <1>3, <2>1, <2>2, <2>3 DEF WithoutHooks
  <2>9. HasRelease(inst'[i])
    BY <1>1, <1>6, <2>1, <2>2 DEF HasRelease
  <2>10. FoundNoEdit(inst[i])'
    BY <1>1, <1>5, <1>6, <2>1, <2>2, <2>3, HooksConstants DEF FoundNoEdit, SetsUp
  <2>11. ~lost' => hooks' \cap OwnHooks = own
    BY <1>1, <1>3, <1>4, <1>7, <2>1, <2>3, <2>5 DEF KeepsOwnHooks, SetsUp, WithoutHooks
  <2>12. ~lost' => KeepsOwnHooks(inst[i])'
    <3>1. ~lost' => (hooks \ {hookReceipt}) \cap OwnHooks = own
      BY <1>1, <1>4, <2>1, <2>5, HooksConstants
    <3> QED BY <2>2, <2>3, <3>1 DEF KeepsOwnHooks, SetsUp
  <2>13. ~mixed' /\ ~lost' => Halfway(inst[i])'
    <3>1. ~mixed' /\ ~lost' => NamesAll
      BY <1>9, <2>1, <2>5, <2>6
    <3> QED BY <1>1, <3>1, <2>1, <2>2, <2>3, HooksConstants DEF Halfway, SetsUp, PutsBack, Named, NamesAll
  <2>14. ~mixed' /\ ~lost' /\ inst'[i].step = "idle" => NamesAll'
    BY <1>1, <2>2
  <2> QED BY <2>2, <2>3, <2>4, <2>5, <2>6, <2>7, <2>8, <2>9, <2>10, <2>11, <2>12, <2>13, <2>14, HooksOneSteps
<1>19. ASSUME NEW i \in Installers, RemoveFromClaude(i) PROVE HooksIInv'
  <2>1. inst[i].step = "idle" /\ side = "claude" /\ hookReceipt # Missing
    BY <1>19 DEF RemoveFromClaude, SetsOut, Working, NoWork
  <2>2. /\ inst' \in [Installers -> HookWork] /\ \A j \in Installers \ {i} : inst'[j] = inst[j]
        /\ inst'[i].step = "unskill" /\ inst'[i].release = hookReceipt /\ inst'[i].oldHooks = {}
        /\ inst'[i].oldSkill = Missing /\ inst'[i].newHooks = {} /\ inst'[i].stale = {}
    BY <1>1, <2>1, <1>19, HooksConstants DEF RemoveFromClaude, SetsOut, Working, NoWork, HookWork, HookSteps
  <2>3. /\ side' = side /\ own' = own /\ hooks' = hooks
        /\ skill' = skill /\ hookReceipt' = hookReceipt
    BY <1>19 DEF RemoveFromClaude, SetsOut, Working, NoWork
  <2>4. setups' \in 0..MaxSetups /\ changes' \in 0..MaxChanges /\ faults' \in 0..MaxFaults
    BY <1>2, HooksConstants, <1>19 DEF RemoveFromClaude, SetsOut, Working, NoWork
  <2>5. /\ mixed' \in BOOLEAN /\ lost' \in BOOLEAN
        /\ ~lost' => ~lost
    BY <1>1, <1>19 DEF RemoveFromClaude, SetsOut, Working, NoWork
  <2>6. ~mixed' => ~mixed /\ \A j \in Installers \ {i} : inst[j].step = "idle"
    BY <1>1, <1>19 DEF RemoveFromClaude, SetsOut, Working, NoWork
  <2>7. /\ hooks' \subseteq OwnHooks \cup Releases /\ skill' \in Releases \cup {Missing, "edited"}
        /\ hookReceipt' \in Releases \cup {Missing} /\ (skill' = "edited" => skill = "edited")
    BY <1>1, <1>5, <1>6, <2>1, <2>3, HooksConstants DEF HasRelease
  <2>8. side = "claude" => hooks' = own /\ WithoutHooks(inst'[i])
    BY <1>3, <2>1, <2>2, <2>3 DEF WithoutHooks
  <2>9. HasRelease(inst'[i])
    BY <1>1, <1>6, <2>1, <2>2 DEF HasRelease
  <2>10. FoundNoEdit(inst[i])'
    BY <1>1, <1>5, <1>6, <2>1, <2>2, <2>3, HooksConstants DEF FoundNoEdit, SetsUp
  <2>11. ~lost' => hooks' \cap OwnHooks = own
    BY <1>1, <1>3, <1>4, <1>7, <2>1, <2>3, <2>5 DEF KeepsOwnHooks, SetsUp, WithoutHooks
  <2>12. ~lost' => KeepsOwnHooks(inst[i])'
    BY <1>1, <1>4, <1>7, <2>1, <2>2, <2>3, <2>5, HooksConstants DEF KeepsOwnHooks, SetsUp
  <2>13. ~mixed' /\ ~lost' => Halfway(inst[i])'
    <3>1. ~mixed' /\ ~lost' => NamesAll
      BY <1>9, <2>1, <2>5, <2>6
    <3> QED BY <1>1, <3>1, <2>1, <2>2, <2>3, HooksConstants DEF Halfway, SetsUp, PutsBack, Named, NamesAll
  <2>14. ~mixed' /\ ~lost' /\ inst'[i].step = "idle" => NamesAll'
    BY <1>1, <2>2
  <2> QED BY <2>2, <2>3, <2>4, <2>5, <2>6, <2>7, <2>8, <2>9, <2>10, <2>11, <2>12, <2>13, <2>14, HooksOneSteps
<1>20. ASSUME NEW i \in Installers, RemoveHooks(i) PROVE HooksIInv'
  <2>1. inst[i].step = "unhook"
    BY <1>20 DEF RemoveHooks, ToStep
  <2>2. /\ inst' \in [Installers -> HookWork] /\ \A j \in Installers \ {i} : inst'[j] = inst[j]
        /\ inst'[i].step = "unskill" /\ inst'[i].release = inst[i].release /\ inst'[i].oldHooks = inst[i].oldHooks
        /\ inst'[i].oldSkill = inst[i].oldSkill /\ inst'[i].newHooks = inst[i].newHooks /\ inst'[i].stale = inst[i].stale
    BY <1>1, <2>1, <1>20 DEF RemoveHooks, ToStep, HookWork, HookSteps
  <2>3. /\ side' = side /\ own' = own /\ hooks' = inst[i].newHooks
        /\ skill' = skill /\ hookReceipt' = hookReceipt
    BY <1>20 DEF RemoveHooks, ToStep
  <2>4. setups' \in 0..MaxSetups /\ changes' \in 0..MaxChanges /\ faults' \in 0..MaxFaults
    BY <1>2, HooksConstants, <1>20 DEF RemoveHooks, ToStep
  <2>5. /\ mixed' \in BOOLEAN /\ lost' \in BOOLEAN
        /\ ~lost' => ~lost /\ "hooks" \notin inst[i].stale
    BY <1>1, <1>20 DEF RemoveHooks, ToStep
  <2>m. ~mixed' => ~mixed
    BY <1>1, <1>20 DEF RemoveHooks, ToStep
  <2>6. ~mixed' => ~mixed /\ \A j \in Installers \ {i} : inst[j].step = "idle"
    BY <2>1, <2>m, HooksAlone
  <2>7. /\ hooks' \subseteq OwnHooks \cup Releases /\ skill' \in Releases \cup {Missing, "edited"}
        /\ hookReceipt' \in Releases \cup {Missing} /\ (skill' = "edited" => skill = "edited")
    BY <1>1, <1>5, <1>6, <2>1, <2>3, HooksConstants DEF HasRelease
  <2>8. side = "claude" => hooks' = own /\ WithoutHooks(inst'[i])
    BY <1>3, <2>1, <2>2, <2>3 DEF WithoutHooks
  <2>9. HasRelease(inst'[i])
    BY <1>1, <1>6, <2>1, <2>2 DEF HasRelease
  <2>10. FoundNoEdit(inst[i])'
    BY <1>1, <1>5, <1>6, <2>1, <2>2, <2>3, HooksConstants DEF FoundNoEdit, SetsUp
  <2>11. ~lost' => hooks' \cap OwnHooks = own
    BY <1>1, <1>3, <1>4, <1>7, <2>1, <2>3, <2>5 DEF KeepsOwnHooks, SetsUp, WithoutHooks
  <2>12. ~lost' => KeepsOwnHooks(inst[i])'
    BY <1>1, <1>4, <1>7, <2>1, <2>2, <2>3, <2>5, HooksConstants DEF KeepsOwnHooks, SetsUp
  <2>13. ~mixed' /\ ~lost' => Halfway(inst[i])'
    BY <1>1, <1>3, <1>6, <1>8, <2>1, <2>2, <2>3, <2>5, <2>6, HooksConstants DEF Halfway, SetsUp, PutsBack, Named, HasRelease, WithoutHooks
  <2>14. ~mixed' /\ ~lost' /\ inst'[i].step = "idle" => NamesAll'
    BY <1>1, <2>2
  <2> QED BY <2>2, <2>3, <2>4, <2>5, <2>6, <2>7, <2>8, <2>9, <2>10, <2>11, <2>12, <2>13, <2>14, HooksOneSteps
<1>21. ASSUME NEW i \in Installers, RemoveSkill(i) PROVE HooksIInv'
  <2>1. inst[i].step = "unskill"
    BY <1>21 DEF RemoveSkill, ToStep, hookGhost
  <2>2. /\ inst' \in [Installers -> HookWork] /\ \A j \in Installers \ {i} : inst'[j] = inst[j]
        /\ inst'[i].step = "forget" /\ inst'[i].release = inst[i].release /\ inst'[i].oldHooks = inst[i].oldHooks
        /\ inst'[i].oldSkill = inst[i].oldSkill /\ inst'[i].newHooks = inst[i].newHooks /\ inst'[i].stale = inst[i].stale
    BY <1>1, <2>1, <1>21 DEF RemoveSkill, ToStep, hookGhost, HookWork, HookSteps
  <2>3. /\ side' = side /\ own' = own /\ hooks' = hooks
        /\ skill' = (IF skill = inst[i].release THEN Missing ELSE skill) /\ hookReceipt' = hookReceipt
    BY <1>21 DEF RemoveSkill, ToStep, hookGhost
  <2>4. setups' \in 0..MaxSetups /\ changes' \in 0..MaxChanges /\ faults' \in 0..MaxFaults
    BY <1>2, HooksConstants, <1>21 DEF RemoveSkill, ToStep, hookGhost
  <2>5. /\ mixed' \in BOOLEAN /\ lost' \in BOOLEAN
        /\ ~lost' => ~lost
    BY <1>1, <1>21 DEF RemoveSkill, ToStep, hookGhost
  <2>m. ~mixed' => ~mixed
    BY <1>1, <1>21 DEF RemoveSkill, ToStep, hookGhost
  <2>6. ~mixed' => ~mixed /\ \A j \in Installers \ {i} : inst[j].step = "idle"
    BY <2>1, <2>m, HooksAlone
  <2>7. /\ hooks' \subseteq OwnHooks \cup Releases /\ skill' \in Releases \cup {Missing, "edited"}
        /\ hookReceipt' \in Releases \cup {Missing} /\ (skill' = "edited" => skill = "edited")
    BY <1>1, <1>5, <1>6, <2>1, <2>3, HooksConstants DEF HasRelease
  <2>8. side = "claude" => hooks' = own /\ WithoutHooks(inst'[i])
    BY <1>3, <2>1, <2>2, <2>3 DEF WithoutHooks
  <2>9. HasRelease(inst'[i])
    BY <1>1, <1>6, <2>1, <2>2 DEF HasRelease
  <2>10. FoundNoEdit(inst[i])'
    BY <1>1, <1>5, <1>6, <2>1, <2>2, <2>3, HooksConstants DEF FoundNoEdit, SetsUp
  <2>11. ~lost' => hooks' \cap OwnHooks = own
    BY <1>1, <1>3, <1>4, <1>7, <2>1, <2>3, <2>5 DEF KeepsOwnHooks, SetsUp, WithoutHooks
  <2>12. ~lost' => KeepsOwnHooks(inst[i])'
    BY <1>1, <1>4, <1>7, <2>1, <2>2, <2>3, <2>5, HooksConstants DEF KeepsOwnHooks, SetsUp
  <2>13. ~mixed' /\ ~lost' => Halfway(inst[i])'
    BY <1>1, <1>3, <1>6, <1>8, <2>1, <2>2, <2>3, <2>5, <2>6, HooksConstants DEF Halfway, SetsUp, PutsBack, Named, HasRelease, WithoutHooks
  <2>14. ~mixed' /\ ~lost' /\ inst'[i].step = "idle" => NamesAll'
    BY <1>1, <2>2
  <2> QED BY <2>2, <2>3, <2>4, <2>5, <2>6, <2>7, <2>8, <2>9, <2>10, <2>11, <2>12, <2>13, <2>14, HooksOneSteps
<1>22. ASSUME NEW i \in Installers, RemoveHookReceipt(i) PROVE HooksIInv'
  <2>1. inst[i].step = "forget"
    BY <1>22 DEF RemoveHookReceipt, hookGhost, NoWork
  <2>2. /\ inst' \in [Installers -> HookWork] /\ \A j \in Installers \ {i} : inst'[j] = inst[j]
        /\ inst'[i].step = "idle"
    BY <1>1, <2>1, <1>22 DEF RemoveHookReceipt, hookGhost, NoWork, HookWork, HookSteps
  <2>3. /\ side' = side /\ own' = own /\ hooks' = hooks
        /\ skill' = skill /\ hookReceipt' = Missing
    BY <1>22 DEF RemoveHookReceipt, hookGhost, NoWork
  <2>4. setups' \in 0..MaxSetups /\ changes' \in 0..MaxChanges /\ faults' \in 0..MaxFaults
    BY <1>2, HooksConstants, <1>22 DEF RemoveHookReceipt, hookGhost, NoWork
  <2>5. /\ mixed' \in BOOLEAN /\ lost' \in BOOLEAN
        /\ ~lost' => ~lost
    BY <1>1, <1>22 DEF RemoveHookReceipt, hookGhost, NoWork
  <2>m. ~mixed' => ~mixed
    BY <1>1, <1>22 DEF RemoveHookReceipt, hookGhost, NoWork
  <2>6. ~mixed' => ~mixed /\ \A j \in Installers \ {i} : inst[j].step = "idle"
    BY <2>1, <2>m, HooksAlone
  <2>7. /\ hooks' \subseteq OwnHooks \cup Releases /\ skill' \in Releases \cup {Missing, "edited"}
        /\ hookReceipt' \in Releases \cup {Missing} /\ (skill' = "edited" => skill = "edited")
    BY <1>1, <1>5, <1>6, <2>1, <2>3, HooksConstants DEF HasRelease
  <2>8. side = "claude" => hooks' = own /\ WithoutHooks(inst'[i])
    BY <1>3, <2>1, <2>2, <2>3 DEF WithoutHooks
  <2>9. HasRelease(inst'[i])
    BY <1>1, <1>6, <2>1, <2>2 DEF HasRelease
  <2>10. FoundNoEdit(inst[i])'
    BY <2>2 DEF FoundNoEdit, SetsUp
  <2>11. ~lost' => hooks' \cap OwnHooks = own
    BY <1>1, <1>3, <1>4, <1>7, <2>1, <2>3, <2>5 DEF KeepsOwnHooks, SetsUp, WithoutHooks
  <2>12. ~lost' => KeepsOwnHooks(inst[i])'
    BY <2>2 DEF KeepsOwnHooks, SetsUp
  <2>13. ~mixed' /\ ~lost' => Halfway(inst[i])'
    BY <2>2 DEF Halfway, SetsUp
  <2>14. ~mixed' /\ ~lost' /\ inst'[i].step = "idle" => NamesAll'
    BY <1>1, <1>3, <1>6, <1>8, <2>1, <2>3, <2>5, <2>6, HooksConstants DEF Halfway, SetsUp, PutsBack, Named, NamesAll, HasRelease, WithoutHooks
  <2> QED BY <2>2, <2>3, <2>4, <2>5, <2>6, <2>7, <2>8, <2>9, <2>10, <2>11, <2>12, <2>13, <2>14, HooksOneSteps
<1>23. ASSUME NEW i \in Installers, InstallerDies(i) PROVE HooksIInv'
  <2>1. inst[i].step # "idle"
    BY <1>23 DEF InstallerDies, Working, NoWork
  <2>2. /\ inst' \in [Installers -> HookWork] /\ \A j \in Installers \ {i} : inst'[j] = inst[j]
        /\ inst'[i].step = "idle"
    BY <1>1, <2>1, <1>23 DEF InstallerDies, Working, NoWork, HookWork, HookSteps
  <2>3. /\ side' = side /\ own' = own /\ hooks' = hooks
        /\ skill' = skill /\ hookReceipt' = hookReceipt
    BY <1>23 DEF InstallerDies, Working, NoWork
  <2>4. setups' \in 0..MaxSetups /\ changes' \in 0..MaxChanges /\ faults' \in 0..MaxFaults
    BY <1>2, HooksConstants, <1>23 DEF InstallerDies, Working, NoWork
  <2>5. /\ mixed' \in BOOLEAN /\ lost' \in BOOLEAN
        /\ ~lost' => ~lost
    BY <1>1, <1>23 DEF InstallerDies, Working, NoWork
  <2>m. ~mixed' => ~mixed /\ inst[i].step \in {"skill", "unhook"}
    BY <1>1, <1>23 DEF InstallerDies, Working, NoWork
  <2>6. ~mixed' => ~mixed /\ \A j \in Installers \ {i} : inst[j].step = "idle"
    BY <2>1, <2>m, HooksAlone
  <2>7. /\ hooks' \subseteq OwnHooks \cup Releases /\ skill' \in Releases \cup {Missing, "edited"}
        /\ hookReceipt' \in Releases \cup {Missing} /\ (skill' = "edited" => skill = "edited")
    BY <1>1, <1>5, <1>6, <2>1, <2>3, HooksConstants DEF HasRelease
  <2>8. side = "claude" => hooks' = own /\ WithoutHooks(inst'[i])
    BY <1>3, <2>1, <2>2, <2>3 DEF WithoutHooks
  <2>9. HasRelease(inst'[i])
    BY <1>1, <1>6, <2>1, <2>2 DEF HasRelease
  <2>10. FoundNoEdit(inst[i])'
    BY <2>2 DEF FoundNoEdit, SetsUp
  <2>11. ~lost' => hooks' \cap OwnHooks = own
    BY <1>1, <1>3, <1>4, <1>7, <2>1, <2>3, <2>5 DEF KeepsOwnHooks, SetsUp, WithoutHooks
  <2>12. ~lost' => KeepsOwnHooks(inst[i])'
    BY <2>2 DEF KeepsOwnHooks, SetsUp
  <2>13. ~mixed' /\ ~lost' => Halfway(inst[i])'
    BY <2>2 DEF Halfway, SetsUp
  <2>14. ~mixed' /\ ~lost' /\ inst'[i].step = "idle" => NamesAll'
    BY <1>1, <1>3, <1>6, <1>8, <2>1, <2>3, <2>5, <2>6, <2>m, HooksConstants DEF Halfway, SetsUp, PutsBack, Named, NamesAll, HasRelease, WithoutHooks
  <2> QED BY <2>2, <2>3, <2>4, <2>5, <2>6, <2>7, <2>8, <2>9, <2>10, <2>11, <2>12, <2>13, <2>14, HooksOneSteps
<1>24. ASSUME UserChanges PROVE HooksIInv'
  <2>1. PICK what \in {"hooks", "skill"} :
          /\ Changes(what)
          /\ \/ /\ what = "hooks" /\ UNCHANGED skill
                /\ \E h \in OwnHooks : \/ own' = own \cup {h} /\ hooks' = hooks \cup {h}
                                       \/ own' = own \ {h} /\ hooks' = hooks \ {h}
             \/ what = "skill" /\ skill' \in {"edited", Missing} /\ UNCHANGED <<hooks, own>>
    BY <1>24 DEF UserChanges
  <2>2. inst' = [i \in Installers |->
            IF inst[i].step # "idle" THEN [inst[i] EXCEPT !.stale = @ \cup {what}] ELSE inst[i]]
    BY <2>1 DEF Changes, Working
  <2>3. \A w \in HookWork :
          LET v == [w EXCEPT !.stale = @ \cup {what}]
          IN  v \in HookWork /\ v.step = w.step /\ v.release = w.release /\ v.oldHooks = w.oldHooks
              /\ v.oldSkill = w.oldSkill /\ v.newHooks = w.newHooks /\ v.stale = w.stale \cup {what}
    BY DEF HookWork
  <2>4. /\ inst' \in [Installers -> HookWork]
        /\ \A j \in Installers :
              /\ inst'[j].step = inst[j].step /\ inst'[j].release = inst[j].release
              /\ inst'[j].oldHooks = inst[j].oldHooks /\ inst'[j].oldSkill = inst[j].oldSkill
              /\ inst'[j].newHooks = inst[j].newHooks
              /\ inst'[j].step # "idle" => inst'[j].stale = inst[j].stale \cup {what}
    BY <1>1, <2>2, <2>3
  <2>5. /\ side' = side /\ hookReceipt' = hookReceipt /\ mixed' = mixed /\ lost' = lost
        /\ setups' \in 0..MaxSetups /\ changes' \in 0..MaxChanges /\ faults' \in 0..MaxFaults
    BY <1>2, <2>1, HooksConstants DEF Changes
  <2>6. /\ hooks' \subseteq OwnHooks \cup Releases /\ own' \subseteq OwnHooks
        /\ hooks' \cap Releases = hooks \cap Releases
        /\ hooks \cap OwnHooks = own => hooks' \cap OwnHooks = own'
        /\ hooks = own => hooks' = own'
        /\ what # "hooks" => hooks' = hooks /\ own' = own
    BY <1>1, <2>1, HooksConstants
  <2>7. skill' \in {skill, "edited", Missing} /\ (what # "skill" => skill' = skill)
    BY <2>1
  <2>8. HooksTyped'
    BY <1>1, <2>4, <2>5, <2>6, <2>7 DEF HooksTyped
  <2>9. ClaudeHasNoHooks' /\ OwnHooksStay'
    BY <1>3, <1>4, <2>4, <2>5, <2>6 DEF ClaudeHasNoHooks, WithoutHooks, OwnHooksStay
  <2>10. ASSUME NEW j \in Installers PROVE FoundNoEdit(inst[j])' /\ HasRelease(inst[j])'
    <3>1. FoundNoEdit(inst[j]) /\ HasRelease(inst[j])
      BY <1>6
    <3>2. SetsUp(inst[j])' <=> SetsUp(inst[j])
      BY <2>4 DEF SetsUp
    <3>3. SetsUp(inst[j]) => inst'[j].stale = inst[j].stale \cup {what}
      BY <2>4 DEF SetsUp
    <3> QED BY <2>4, <2>7, <2>1, <3>1, <3>2, <3>3 DEF FoundNoEdit, HasRelease
  <2>11. ASSUME ~lost', NEW j \in Installers PROVE KeepsOwnHooks(inst[j])'
    <3>1. KeepsOwnHooks(inst[j])
      BY <1>7, <2>5, <2>11
    <3>2. SetsUp(inst[j])' <=> SetsUp(inst[j])
      BY <2>4 DEF SetsUp
    <3>3. CASE inst[j].step = "idle"
      BY <2>4, <3>2, <3>3 DEF KeepsOwnHooks, SetsUp
    <3>4. CASE inst[j].step # "idle"
      <4>1. inst'[j].stale = inst[j].stale \cup {what}
        BY <2>4, <3>4
      <4>2. CASE what = "hooks"
        BY <4>1, <4>2 DEF KeepsOwnHooks
      <4>3. CASE what # "hooks"
        BY <2>4, <2>5, <2>6, <3>1, <3>2, <4>1, <4>3 DEF KeepsOwnHooks
      <4> QED BY <4>2, <4>3
    <3> QED BY <3>3, <3>4
  <2>12. ~mixed' => AtWorkAlone'
    BY <2>4, <2>5 DEF HooksIInv, AtWorkAlone, Working
  <2>13. ASSUME ~mixed', ~lost', NEW j \in Installers PROVE Halfway(inst[j])'
    <3>1. Halfway(inst[j])
      BY <1>8, <2>5, <2>13
    <3>2. SetsUp(inst[j])' <=> SetsUp(inst[j])
      BY <2>4 DEF SetsUp
    <3>3. PutsBack(inst[j]) => PutsBack(inst[j])'
      BY <2>4, <2>5 DEF PutsBack, Named
    <3>4. (SetsUp(inst[j]) => PutsBack(inst[j]))'
      BY <3>1, <3>2, <3>3 DEF Halfway
    <3>5. \A r : Named(r)' = Named(r)
      BY <2>5 DEF Named
    <3>6. CASE inst[j].step \in {"skill", "hooks", "receipt"}
      BY <2>4, <2>5, <2>6, <2>7, <3>1, <3>4, <3>5, <3>6 DEF Halfway
    <3>7. CASE inst[j].step \in {"unhook", "unskill", "forget"}
      BY <2>4, <2>5, <2>6, <2>7, <3>1, <3>4, <3>5, <3>7 DEF Halfway
    <3>8. CASE inst[j].step \in {"idle", "put back", "skill back"}
      BY <2>4, <2>5, <2>6, <2>7, <3>1, <3>4, <3>5, <3>8 DEF Halfway
    <3> QED BY <1>5, <3>6, <3>7, <3>8 DEF HookSteps
  <2>14. ~mixed' /\ ~lost' => ReceiptNamesAll'
    BY <1>9, <2>4, <2>5, <2>6, <2>7 DEF NamesAll, Named, Working, ReceiptNamesAll
  <2> QED BY <2>8, <2>9, <2>10, <2>11, <2>12, <2>13, <2>14 DEF HooksIInv
<1> QED BY <1>10, <1>11, <1>12, <1>13, <1>14, <1>15, <1>16, <1>17, <1>18, <1>19, <1>20, <1>21, <1>22, <1>23, <1>24 DEF HooksNext

\* It holds before the first setup.
LEMMA HooksStart ==
  ASSUME HooksInit
  PROVE  HooksIInv
<1>1. NoWork \in HookWork /\ NoWork.step = "idle"
  BY DEF NoWork, HookWork, HookSteps
<1>2. inst \in [Installers -> HookWork] /\ \A i \in Installers : inst[i].step = "idle"
  BY <1>1 DEF HooksInit
<1>3. HooksTyped
  <2>1. setups \in 0..MaxSetups /\ changes \in 0..MaxChanges /\ faults \in 0..MaxFaults
    BY HooksConstants DEF HooksInit
  <2> QED BY <1>2, <2>1 DEF HooksInit, HooksTyped
<1>4. ClaudeHasNoHooks /\ OwnHooksStay
  BY <1>2 DEF HooksInit, ClaudeHasNoHooks, WithoutHooks, OwnHooksStay
<1>5. \A i \in Installers : FoundNoEdit(inst[i]) /\ HasRelease(inst[i]) /\ KeepsOwnHooks(inst[i]) /\ Halfway(inst[i])
  BY <1>2 DEF FoundNoEdit, HasRelease, KeepsOwnHooks, Halfway, SetsUp
<1>6. AtWorkAlone
  BY <1>2 DEF AtWorkAlone, Working
<1>7. ReceiptNamesAll
  BY HooksConstants DEF HooksInit, ReceiptNamesAll
<1> QED BY <1>3, <1>4, <1>5, <1>6, <1>7 DEF HooksIInv

\* A step of another part keeps it.
LEMMA HooksStutters ==
  ASSUME HooksIInv, UNCHANGED hookVars
  PROVE  HooksIInv'
<1>1. /\ side' = side /\ hooks' = hooks /\ skill' = skill /\ hookReceipt' = hookReceipt /\ inst' = inst
      /\ own' = own /\ mixed' = mixed /\ lost' = lost
      /\ setups' = setups /\ changes' = changes /\ faults' = faults
  BY DEF hookVars, hookGhost
<1>2. HooksTyped' /\ ClaudeHasNoHooks' /\ OwnHooksStay'
  BY <1>1 DEF HooksIInv, HooksTyped, ClaudeHasNoHooks, WithoutHooks, OwnHooksStay
<1>3. \A i \in Installers : FoundNoEdit(inst[i])' /\ HasRelease(inst[i])'
  BY <1>1 DEF HooksIInv, FoundNoEdit, HasRelease, SetsUp
<1>4. ~lost' => \A i \in Installers : KeepsOwnHooks(inst[i])'
  BY <1>1 DEF HooksIInv, KeepsOwnHooks, SetsUp
<1>5. ~mixed' => AtWorkAlone'
  BY <1>1 DEF HooksIInv, AtWorkAlone, Working
<1>6. ~mixed' /\ ~lost' => \A i \in Installers : Halfway(inst[i])'
  <2> SUFFICES ASSUME ~mixed', ~lost', NEW i \in Installers PROVE Halfway(inst[i])'
    OBVIOUS
  <2>1. Halfway(inst[i])
    BY <1>1 DEF HooksIInv
  <2> QED BY <1>1, <2>1 DEF Halfway, SetsUp, PutsBack, Named
<1>7. ~mixed' /\ ~lost' => ReceiptNamesAll'
  BY <1>1 DEF HooksIInv, ReceiptNamesAll, Working
<1> QED BY <1>2, <1>3, <1>4, <1>5, <1>6, <1>7 DEF HooksIInv

\* It implies what is promised of hooks and skill.
LEMMA HooksPromise ==
  ASSUME HooksIInv
  PROVE  HooksInv
<1>1. HooksTypeOK
  BY DEF HooksIInv, HooksTyped, ClaudeHasNoHooks, HooksTypeOK, HookWork, HookSteps
<1>2. ReceiptNamesAll
  BY DEF HooksIInv, ReceiptNamesAll
<1> QED BY <1>1, <1>2 DEF HooksInv, HooksIInv

\* An edited skill goes only by the user's hand or under a command it came in between of.
LEMMA HooksLeaveEdited ==
  ASSUME HooksIInv, HooksNext, skill = "edited", skill' # "edited"
  PROVE  changes' # changes \/ lost'
<1>1. inst \in [Installers -> HookWork] /\ \A i \in Installers : FoundNoEdit(inst[i]) /\ HasRelease(inst[i])
  BY DEF HooksIInv, HooksTyped
<1>2. changes \in Nat
  BY HooksConstants DEF HooksIInv, HooksTyped
<1>3. ASSUME NEW i \in Installers, WriteSkill(i) PROVE lost'
  BY <1>1, <1>3 DEF WriteSkill, FoundNoEdit, SetsUp
<1>4. ASSUME NEW i \in Installers, PutSkillBack(i) PROVE lost'
  BY <1>1, <1>4 DEF PutSkillBack, FoundNoEdit, SetsUp
<1>5. ASSUME NEW i \in Installers, RemoveSkill(i) PROVE FALSE
  BY <1>1, <1>5, HooksConstants DEF RemoveSkill, HasRelease
<1>6. ASSUME UserChanges PROVE changes' # changes
  BY <1>2, <1>6 DEF UserChanges, Changes
<1> QED BY <1>3, <1>4, <1>5, <1>6 DEF HooksNext, BeginSetup, SetUpClaude, WriteHooks, WriteHookReceipt,
       WriteFails, PutHooksBack, BeginRemoval, RemoveFromClaude, RemoveHooks, RemoveHookReceipt, InstallerDies

-----------------------------------------------------------------------------
(* The note of what a head was told.                                            *)

Moment == (0..now) \cup {Never}
NoteState == [armed : BOOLEAN, at : Moment]
HeadReport == [at : Moment, five : Levels, seven : Levels]
NoteWork == [step : {"idle", "save", "speak"}, state : NoteState, verdict : {"nothing", "note", "handoff"}]

NoteTyped ==
    /\ now \in 0..MaxTime /\ reports \in 0..MaxReports /\ losses \in 0..MaxLosses
    /\ report \in HeadReport /\ others \in [Others -> HeadReport]
    /\ note \in NoteState /\ noteCmd \in [HeadCommands -> NoteWork] /\ told \in Moment
    /\ isHead \in BOOLEAN /\ handing \in BOOLEAN /\ auto \in BOOLEAN
    /\ below \in BOOLEAN /\ crossed \in BOOLEAN /\ nagged \in BOOLEAN

\* A state that knows of the last telling: armed again only when usage was well below since.
KnowsTelling(state) == told # Never => state.at = told /\ (state.armed => below)
Saving(c) == noteCmd[c].step = "save"

\* While no two commands cross, one at most has read the state and not written it, and
\* what will be read next knows of the last telling.
StateKnows ==
    /\ \A c, d \in HeadCommands : Saving(c) /\ Saving(d) => c = d
    /\ \A c \in HeadCommands : Saving(c) => KnowsTelling(noteCmd[c].state)
    /\ (\A c \in HeadCommands : ~Saving(c)) => KnowsTelling(note)

NoteIInv ==
    /\ NoteTyped /\ ToldOncePerCrossing
    /\ Quota(report) = "low" => below
    /\ ~crossed => StateKnows
-----------------------------------------------------------------------------
\* What a reading of the state decides, and what it would write.
LEMMA VerdictIsSound ==
  ASSUME NoteTyped, NEW t \in BOOLEAN
  PROVE  LET v == Verdict(note, t)
         IN  /\ v \in NoteWork /\ v.step = "save"
             /\ v.verdict # "nothing" =>
                  /\ Quota(report) = "over" /\ (note.armed \/ Due(note))
                  /\ v.state.at = now /\ ~v.state.armed
             /\ v.verdict = "nothing" =>
                  v.state.at = note.at /\ (v.state.armed => note.armed \/ Quota(report) = "low")
<1>1. note \in NoteState /\ now \in Moment
  BY NoteConstants DEF NoteTyped, Moment
<1>2. note.armed \in BOOLEAN /\ note.at \in Moment
  BY <1>1 DEF NoteState
<1> DEFINE level == Quota(report)
           armed == note.armed \/ Rearmed(level)
           told1 == [armed |-> FALSE, at |-> now]
           saved == [note EXCEPT !.armed = armed]
<1>3. armed \in BOOLEAN
  BY <1>2 DEF Rearmed
<1>4. saved \in NoteState /\ saved.at = note.at /\ saved.armed = armed
  BY <1>1, <1>3 DEF NoteState
<1>5. told1 \in NoteState
  BY <1>1 DEF NoteState
<1>6. armed => note.armed \/ level = "low"
  BY DEF Rearmed
<1>7. CASE level = "over" /\ (armed \/ Due(note))
  <2>1. Verdict(note, t) = [step |-> "save", state |-> told1, verdict |-> IF t THEN "note" ELSE "handoff"]
    BY <1>7 DEF Verdict
  <2>2. note.armed \/ Due(note)
    BY <1>6, <1>7
  <2> HIDE DEF level, armed, saved
  <2> QED BY <1>5, <1>7, <2>1, <2>2 DEF NoteWork, level
<1>8. CASE ~(level = "over" /\ (armed \/ Due(note)))
  <2>1. Verdict(note, t) = [step |-> "save", state |-> saved, verdict |-> "nothing"]
    BY <1>8 DEF Verdict
  <2> HIDE DEF level, armed, saved
  <2> QED BY <1>4, <1>6, <2>1 DEF NoteWork, level
<1> QED BY <1>7, <1>8

\* Time only adds moments.
LEMMA MomentsGrow ==
  ASSUME now \in Nat, now' = now + 1
  PROVE  \A x \in Moment : x \in Moment'
BY DEF Moment

\* A command at work goes on to its next step with what it had.
LEMMA NoteGoesOn ==
  ASSUME NoteTyped, NEW c \in HeadCommands, AfterSave(c)
  PROVE  /\ noteCmd' \in [HeadCommands -> NoteWork] /\ noteCmd'[c].step # "save"
         /\ \A d \in HeadCommands \ {c} : noteCmd'[d] = noteCmd[d]
<1>1. noteCmd \in [HeadCommands -> NoteWork]
  BY DEF NoteTyped
<1>2. NoteIdle \in NoteWork /\ NoteIdle.step = "idle"
  BY DEF NoteIdle, NoteWork, NoteState, Moment
<1>3. \A w \in NoteWork : [w EXCEPT !.step = "speak"] \in NoteWork /\ [w EXCEPT !.step = "speak"].step = "speak"
  BY DEF NoteWork
<1> QED BY <1>1, <1>2, <1>3 DEF AfterSave

\* Every step of head, hooks and time.
LEMMA NoteStepStays ==
  ASSUME NoteIInv, NoteNext
  PROVE  NoteIInv'
<1>1. NoteTyped /\ (nagged => crossed) /\ (Quota(report) = "low" => below) /\ (~crossed => StateKnows)
  BY DEF NoteIInv, ToldOncePerCrossing
<1>2. /\ now \in 0..MaxTime /\ reports \in 0..MaxReports /\ losses \in 0..MaxLosses
      /\ report \in HeadReport /\ others \in [Others -> HeadReport]
      /\ note \in NoteState /\ noteCmd \in [HeadCommands -> NoteWork] /\ told \in Moment
      /\ isHead \in BOOLEAN /\ handing \in BOOLEAN /\ auto \in BOOLEAN
      /\ below \in BOOLEAN /\ crossed \in BOOLEAN /\ nagged \in BOOLEAN
  BY <1>1 DEF NoteTyped
<1>3. now \in Nat /\ now \in Moment /\ (told # Never => told \in 0..now)
  BY <1>2, NoteConstants DEF Moment
<1>4. NoteIdle \in NoteWork /\ NoteIdle.step = "idle"
  BY DEF NoteIdle, NoteWork, NoteState, Moment
<1>5. ASSUME NEW c \in HeadCommands, ReadCondition(c) PROVE NoteIInv'
  <2> DEFINE over == "over" \in LatestQuota
             v == Verdict(note, over)
             speaks == v.verdict # "nothing"
  <2>a. over \in BOOLEAN
    OBVIOUS
  <2> HIDE DEF over
  <2>1. /\ v \in NoteWork /\ v.step = "save"
        /\ speaks => /\ Quota(report) = "over" /\ (note.armed \/ Due(note))
                     /\ v.state.at = now /\ ~v.state.armed
        /\ ~speaks => v.state.at = note.at /\ (v.state.armed => note.armed \/ Quota(report) = "low")
    BY <1>1, <2>a, VerdictIsSound
  <2>2. /\ noteCmd' = [noteCmd EXCEPT ![c] = v]
        /\ told' = IF speaks THEN now ELSE told
        /\ nagged' = (nagged \/ (speaks /\ told # Never /\ now - told < RepeatAfter /\ ~below))
        /\ below' = (below /\ ~speaks)
        /\ crossed' = (crossed \/ \E d \in HeadCommands \ {c} : noteCmd[d].step = "save")
        /\ noteCmd[c].step = "idle"
    BY <1>5 DEF ReadCondition, over
  <2>3. /\ now' = now /\ report' = report /\ others' = others /\ note' = note /\ isHead' = isHead
        /\ handing' = handing /\ auto' = auto /\ reports' = reports /\ losses' = losses
    BY <1>5 DEF ReadCondition
  <2> HIDE DEF v, speaks
  <2>4. noteCmd' \in [HeadCommands -> NoteWork] /\ noteCmd'[c] = v
        /\ \A d \in HeadCommands \ {c} : noteCmd'[d] = noteCmd[d]
    BY <1>2, <2>1, <2>2
  <2>5. Moment' = Moment
    BY <2>3 DEF Moment
  <2>6. NoteTyped'
    <3>1. HeadReport' = HeadReport /\ NoteState' = NoteState /\ NoteWork' = NoteWork
      BY <2>5 DEF HeadReport, NoteState, NoteWork
    <3>2. told' \in Moment /\ below' \in BOOLEAN /\ crossed' \in BOOLEAN /\ nagged' \in BOOLEAN
      BY <1>2, <1>3, <2>2
    <3> QED BY <1>2, <2>3, <2>4, <2>5, <3>1, <3>2 DEF NoteTyped
  <2>7. Quota(report)' = Quota(report)
    BY <2>3 DEF Quota
  <2>8. (Quota(report) = "low" => below)'
    BY <1>1, <2>1, <2>2, <2>7
  <2>9. ASSUME ~crossed' PROVE StateKnows' /\ ~nagged'
    <3>1. ~crossed /\ \A d \in HeadCommands : noteCmd[d].step # "save"
      BY <1>2, <2>2, <2>9
    <3>2. KnowsTelling(note)
      BY <1>1, <3>1 DEF StateKnows, Saving
    <3>3. ASSUME speaks, told # Never, now - told < RepeatAfter, ~below PROVE FALSE
      <4>1. note.at = told /\ ~note.armed
        BY <3>2, <3>3 DEF KnowsTelling
      <4>2. now - told >= RepeatAfter
        BY <2>1, <3>3, <4>1 DEF Due
      <4> QED BY <1>3, <3>3, <4>2, NoteConstants
    <3>4. ~nagged'
      BY <1>1, <1>2, <2>2, <3>1, <3>3
    <3>5. told' # Never => v.state.at = told' /\ (v.state.armed => below')
      <4>1. CASE speaks
        BY <2>1, <2>2, <4>1
      <4>2. CASE ~speaks
        <5>1. told' = told /\ below' = below
          BY <1>2, <2>2, <4>2
        <5> QED BY <1>1, <2>1, <3>2, <4>2, <5>1 DEF KnowsTelling
      <4> QED BY <4>1, <4>2
    <3>6. StateKnows'
      BY <2>1, <2>4, <3>1, <3>5 DEF StateKnows, Saving, KnowsTelling
    <3> QED BY <3>4, <3>6
  <2> QED BY <2>6, <2>8, <2>9 DEF NoteIInv, ToldOncePerCrossing
<1>6. ASSUME NEW c \in HeadCommands, SaveState(c) \/ StateIsLost(c) PROVE NoteIInv'
  <2>1. /\ noteCmd' \in [HeadCommands -> NoteWork] /\ noteCmd'[c].step # "save"
        /\ \A d \in HeadCommands \ {c} : noteCmd'[d] = noteCmd[d]
    BY <1>1, <1>6, NoteGoesOn DEF SaveState, StateIsLost
  <2>2. /\ now' = now /\ report' = report /\ others' = others /\ isHead' = isHead /\ handing' = handing
        /\ auto' = auto /\ told' = told /\ below' = below /\ nagged' = nagged /\ reports' = reports
        /\ Saving(c)
    BY <1>6 DEF SaveState, StateIsLost, noteGhost, Saving
  <2>3. noteCmd[c] \in NoteWork /\ noteCmd[c].state \in NoteState
    BY <1>2 DEF NoteWork
  <2>4. losses' \in 0..MaxLosses
    BY <1>2, <1>6, NoteConstants DEF SaveState, StateIsLost, noteGhost
  <2>5. crossed' \in BOOLEAN /\ note' \in NoteState
    BY <1>2, <1>6, <2>3 DEF SaveState, StateIsLost, noteGhost
  <2>a. ~crossed' => ~crossed /\ note' = noteCmd[c].state
    BY <1>2, <1>6 DEF SaveState, StateIsLost, noteGhost
  <2>b. nagged' => crossed'
    BY <1>1, <1>2, <2>2, <2>5, <2>a
  <2>6. Moment' = Moment
    BY <2>2 DEF Moment
  <2>7. NoteTyped'
    <3>1. HeadReport' = HeadReport /\ NoteState' = NoteState /\ NoteWork' = NoteWork
      BY <2>6 DEF HeadReport, NoteState, NoteWork
    <3>2. noteCmd' \in [HeadCommands -> NoteWork']
      BY <2>1, <3>1
    <3> QED BY <1>2, <2>2, <2>4, <2>5, <2>6, <3>1, <3>2 DEF NoteTyped
  <2>8. (Quota(report) = "low" => below)'
    BY <1>1, <2>2 DEF Quota
  <2>9. ~crossed' => StateKnows'
    <3>1. SUFFICES ASSUME ~crossed' PROVE StateKnows'
      OBVIOUS
    <3>a. ~crossed /\ note' = noteCmd[c].state
      BY <2>a, <3>1
    <3>2. StateKnows /\ note' = noteCmd[c].state
      BY <1>1, <3>a
    <3>3. \A d \in HeadCommands : ~Saving(d)'
      BY <2>1, <2>2, <3>2 DEF StateKnows, Saving
    <3>4. KnowsTelling(note)'
      BY <2>2, <3>2 DEF StateKnows, KnowsTelling
    <3> QED BY <3>3, <3>4 DEF StateKnows, Saving
  <2> QED BY <2>b, <2>7, <2>8, <2>9 DEF NoteIInv, ToldOncePerCrossing
<1>7. ASSUME NEW c \in HeadCommands, Speak(c) PROVE NoteIInv'
  <2>1. /\ noteCmd' \in [HeadCommands -> NoteWork] /\ noteCmd'[c].step # "save" /\ noteCmd[c].step # "save"
        /\ \A d \in HeadCommands \ {c} : noteCmd'[d] = noteCmd[d]
    BY <1>2, <1>4, <1>7 DEF Speak
  <2>2. /\ now' = now /\ report' = report /\ others' = others /\ isHead' = isHead /\ note' = note
        /\ auto' = auto /\ told' = told /\ below' = below /\ nagged' = nagged /\ reports' = reports
        /\ losses' = losses /\ crossed' = crossed
    BY <1>7 DEF Speak, noteGhost
  <2>3. handing' \in BOOLEAN
    BY <1>7 DEF Speak
  <2>4. Moment' = Moment
    BY <2>2 DEF Moment
  <2>5. NoteTyped'
    <3>1. HeadReport' = HeadReport /\ NoteState' = NoteState /\ NoteWork' = NoteWork
      BY <2>4 DEF HeadReport, NoteState, NoteWork
    <3> QED BY <1>2, <2>1, <2>2, <2>3, <2>4, <3>1 DEF NoteTyped
  <2>6. (Quota(report) = "low" => below)' /\ (nagged => crossed)'
    BY <1>1, <2>2 DEF Quota
  <2>7. \A d \in HeadCommands : (Saving(d)' <=> Saving(d)) /\ (Saving(d) => noteCmd'[d] = noteCmd[d])
    BY <2>1 DEF Saving
  <2>8. ~crossed' => StateKnows'
    BY <1>1, <2>2, <2>7 DEF StateKnows, KnowsTelling
  <2> QED BY <2>5, <2>6, <2>8 DEF NoteIInv, ToldOncePerCrossing
<1>8. ASSUME Report PROVE NoteIInv'
  <2>5. reports' \in 0..MaxReports
    <3>1. reports < MaxReports /\ reports' = reports + 1
      BY <1>8 DEF Report
    <3>2. reports \in 0..MaxReports
      BY <1>2
    <3> QED BY <3>1, <3>2, NoteConstants
  <2>1. PICK five \in {"no percentage", "low", "near", "over"}, seven \in {"no percentage", "low", "over"} :
          report' = [at |-> now, five |-> Measured(five), seven |-> Measured(seven)]
    BY <1>8 DEF Report
  <2>2. Measured(five) \in Levels /\ Measured(seven) \in Levels
    BY DEF Measured, Levels
  <2>3. /\ now' = now /\ others' = others /\ isHead' = isHead /\ note' = note /\ handing' = handing
        /\ auto' = auto /\ told' = told /\ nagged' = nagged /\ losses' = losses /\ crossed' = crossed
        /\ noteCmd' = noteCmd /\ below' = (below \/ Quota(report') = "low")
        /\ reports < MaxReports /\ reports' = reports + 1
    BY <1>8 DEF Report
  <2>4. Moment' = Moment
    BY <2>3 DEF Moment
  <2>6. report' \in HeadReport
    BY <1>3, <2>1, <2>2 DEF HeadReport
  <2>7. below' \in BOOLEAN /\ (Quota(report') = "low" => below') /\ (below => below')
    BY <1>2, <2>3
  <2>8. NoteTyped'
    <3>1. HeadReport' = HeadReport /\ NoteState' = NoteState /\ NoteWork' = NoteWork
      BY <2>4 DEF HeadReport, NoteState, NoteWork
    <3> QED BY <1>2, <2>3, <2>4, <2>5, <2>6, <2>7, <3>1 DEF NoteTyped
  <2>9. ~crossed' => StateKnows'
    BY <1>1, <2>3, <2>7 DEF StateKnows, KnowsTelling, Saving
  <2>10. (Quota(report) = "low" => below)'
    BY <2>7 DEF Quota
  <2> QED BY <1>1, <2>3, <2>8, <2>9, <2>10 DEF NoteIInv, ToldOncePerCrossing
<1>9. ASSUME OthersReport PROVE NoteIInv'
  <2>1. /\ now' = now /\ report' = report /\ isHead' = isHead /\ note' = note /\ handing' = handing
        /\ auto' = auto /\ told' = told /\ nagged' = nagged /\ losses' = losses /\ crossed' = crossed
        /\ noteCmd' = noteCmd /\ below' = below /\ reports < MaxReports /\ reports' = reports + 1
    BY <1>9 DEF OthersReport
  <2>2. PICK s \in Others, l \in {"low", "over"} :
          others' = [others EXCEPT ![s] = [at |-> now, five |-> l, seven |-> "none"]]
    BY <1>9 DEF OthersReport
  <2>3. [at |-> now, five |-> l, seven |-> "none"] \in HeadReport
    BY <1>3 DEF HeadReport, Levels
  <2>4. others' \in [Others -> HeadReport]
    BY <1>2, <2>2, <2>3
  <2>5. Moment' = Moment
    BY <2>1 DEF Moment
  <2>6. reports' \in 0..MaxReports
    BY <1>2, <2>1, NoteConstants
  <2>7. NoteTyped'
    <3>1. HeadReport' = HeadReport /\ NoteState' = NoteState /\ NoteWork' = NoteWork
      BY <2>5 DEF HeadReport, NoteState, NoteWork
    <3> QED BY <1>2, <2>1, <2>4, <2>5, <2>6, <3>1 DEF NoteTyped
  <2> QED BY <1>1, <2>1, <2>7 DEF NoteIInv, ToldOncePerCrossing, StateKnows, KnowsTelling, Saving, Quota
<1>10. ASSUME HandingEnds \/ HeadReturns PROVE NoteIInv'
  <2>1. /\ now' = now /\ report' = report /\ others' = others /\ note' = note
        /\ auto' = auto /\ told' = told /\ nagged' = nagged /\ losses' = losses /\ crossed' = crossed
        /\ noteCmd' = noteCmd /\ below' = below /\ reports' = reports
    BY <1>10 DEF HandingEnds, HeadReturns, noteGhost
  <2>2. isHead' \in BOOLEAN /\ handing' \in BOOLEAN
    BY <1>2, <1>10 DEF HandingEnds, HeadReturns
  <2>3. Moment' = Moment
    BY <2>1 DEF Moment
  <2>4. NoteTyped'
    <3>1. HeadReport' = HeadReport /\ NoteState' = NoteState /\ NoteWork' = NoteWork
      BY <2>3 DEF HeadReport, NoteState, NoteWork
    <3> QED BY <1>2, <2>1, <2>2, <2>3, <3>1 DEF NoteTyped
  <2> QED BY <1>1, <2>1, <2>4 DEF NoteIInv, ToldOncePerCrossing, StateKnows, KnowsTelling, Saving, Quota
<1>11. ASSUME TimePasses PROVE NoteIInv'
  <2>1. /\ report' = report /\ others' = others /\ note' = note /\ isHead' = isHead /\ handing' = handing
        /\ auto' = auto /\ told' = told /\ nagged' = nagged /\ losses' = losses /\ crossed' = crossed
        /\ noteCmd' = noteCmd /\ below' = below /\ reports' = reports
        /\ now < MaxTime /\ now' = now + 1
    BY <1>11 DEF TimePasses, noteGhost
  <2>2. \A x \in Moment : x \in Moment'
    BY <1>3, <2>1, MomentsGrow
  <2>3. /\ \A s \in NoteState : s \in NoteState'
        /\ \A r \in HeadReport : r \in HeadReport'
    BY <2>2 DEF NoteState, HeadReport
  <2>4. \A w \in NoteWork : w \in NoteWork'
    BY <2>3 DEF NoteWork
  <2>5. noteCmd' \in [HeadCommands -> NoteWork'] /\ others' \in [Others -> HeadReport']
    BY <1>2, <2>1, <2>3, <2>4
  <2>6. now' \in 0..MaxTime
    BY <1>2, <2>1, NoteConstants
  <2>7. NoteTyped'
    BY <1>2, <2>1, <2>2, <2>3, <2>5, <2>6 DEF NoteTyped
  <2> QED BY <1>1, <2>1, <2>7 DEF NoteIInv, ToldOncePerCrossing, StateKnows, KnowsTelling, Saving, Quota
<1> QED BY <1>5, <1>6, <1>7, <1>8, <1>9, <1>10, <1>11 DEF NoteNext

\* A step of another part keeps it.
LEMMA NoteStutters ==
  ASSUME NoteIInv, UNCHANGED noteVars
  PROVE  NoteIInv'
<1>1. /\ now' = now /\ report' = report /\ others' = others /\ note' = note /\ isHead' = isHead
      /\ handing' = handing /\ auto' = auto /\ told' = told /\ nagged' = nagged /\ losses' = losses
      /\ crossed' = crossed /\ noteCmd' = noteCmd /\ below' = below /\ reports' = reports
  BY DEF noteVars, noteGhost
<1>2. NoteTyped'
  BY <1>1 DEF NoteIInv, NoteTyped, NoteWork, NoteState, HeadReport, Moment
<1> QED BY <1>1, <1>2 DEF NoteIInv, ToldOncePerCrossing, StateKnows, KnowsTelling, Saving, Quota

\* It holds before the first report.
LEMMA NoteStart ==
  ASSUME NoteInit
  PROVE  NoteIInv
<1>1. NoReport \in HeadReport /\ NoteIdle \in NoteWork /\ NoteIdle.state \in NoteState /\ NoteIdle.step = "idle"
  BY DEF NoReport, HeadReport, NoteIdle, NoteWork, NoteState, Moment, Levels
<1>2. NoteTyped
  <2>1. now \in 0..MaxTime /\ reports \in 0..MaxReports /\ losses \in 0..MaxLosses
    BY NoteConstants DEF NoteInit
  <2>2. report \in HeadReport /\ others \in [Others -> HeadReport] /\ told \in Moment
    BY <1>1 DEF NoteInit, Moment
  <2>3. note \in NoteState /\ noteCmd \in [HeadCommands -> NoteWork]
    BY <1>1 DEF NoteInit
  <2> QED BY <2>1, <2>2, <2>3 DEF NoteInit, NoteTyped
<1>3. Quota(report) # "low" /\ ~nagged
  BY DEF NoteInit, NoReport, Quota
<1>4. StateKnows
  BY <1>1 DEF NoteInit, StateKnows, KnowsTelling, Saving
<1> QED BY <1>2, <1>3, <1>4 DEF NoteIInv, ToldOncePerCrossing

\* It implies what is promised of the note.
LEMMA NotePromise ==
  ASSUME NoteIInv
  PROVE  NoteInv
<1>1. NoteTyped
  BY DEF NoteIInv
<1>2. \A r \in {report} \cup {others[s] : s \in Others} :
         r.at \in (0..now) \cup {Never} /\ r.five \in Levels /\ r.seven \in Levels
  BY <1>1 DEF NoteTyped, HeadReport, Moment
<1>3. NoteTypeOK
  BY <1>1, <1>2 DEF NoteTyped, NoteTypeOK, NoteState, NoteWork, Moment
<1> QED BY <1>3 DEF NoteIInv, NoteInv

-----------------------------------------------------------------------------
(* All parts together.                                                         *)

HomeIInv ==
    /\ ProcessIInv /\ StreamIInv /\ PatchIInv /\ SealIInv
    /\ MemoIInv /\ LineIInv /\ HooksIInv /\ NoteIInv

\* A part no behaviour is about begins as one of its own.
LEMMA HomeStart ==
  ASSUME HomeInit
  PROVE  HomeIInv
<1>1. ProcessInit
  BY DEF HomeInit, FreshProcess
<1>2. StreamInit
  BY DEF HomeInit, FreshStream
<1>3. SealInit
  BY DEF HomeInit, FreshObjects
<1>4. PatchInit
  BY DEF HomeInit, FreshPatch
<1>5. MemoInit
  BY DEF HomeInit, FreshMemo
<1>6. LineInit
  BY DEF HomeInit, FreshLine
<1>7. HooksInit
  BY DEF HomeInit, FreshHooks
<1>8. NoteInit
  BY DEF HomeInit, FreshNote
<1> QED BY <1>1, <1>2, <1>3, <1>4, <1>5, <1>6, <1>7, <1>8, ProcessStart, StreamStart, SealStart, PatchStart,
       MemoStart, LineStart, HooksStart, NoteStart DEF HomeIInv

\* A step is one of a single part, and the others stay as they are.
LEMMA OnePartMoves ==
  ASSUME [HomeNext]_homeVars
  PROVE  /\ ProcessNext \/ UNCHANGED processVars
         /\ StreamNext \/ UNCHANGED streamVars
         /\ PatchNext \/ UNCHANGED patchVars
         /\ SealNext \/ UNCHANGED sealVars
         /\ MemoNext \/ UNCHANGED memoVars
         /\ LineNext \/ UNCHANGED lineVars
         /\ HooksNext \/ UNCHANGED hookVars
         /\ NoteNext \/ UNCHANGED noteVars
BY DEF HomeNext, homeVars, resultVars, lineAndHookVars

\* Every step keeps what holds of each part.
LEMMA HomeStepStays ==
  ASSUME HomeIInv, [HomeNext]_homeVars
  PROVE  HomeIInv'
<1>1. ProcessIInv'
  BY OnePartMoves, ProcessStepStays, ProcessStutters DEF HomeIInv
<1>2. StreamIInv'
  BY OnePartMoves, StreamStepStays, StreamStutters DEF HomeIInv
<1>3. PatchIInv'
  BY OnePartMoves, PatchStepStays, PatchStutters DEF HomeIInv
<1>4. SealIInv'
  BY OnePartMoves, SealStepStays, SealStutters DEF HomeIInv
<1>5. MemoIInv'
  BY OnePartMoves, MemoStepStays, MemoStutters DEF HomeIInv
<1>6. LineIInv'
  BY OnePartMoves, LineStepStays, LineStutters DEF HomeIInv
<1>7. HooksIInv'
  BY OnePartMoves, HooksStepStays, HooksStutters DEF HomeIInv
<1>8. NoteIInv'
  BY OnePartMoves, NoteStepStays, NoteStutters DEF HomeIInv
<1> QED BY <1>1, <1>2, <1>3, <1>4, <1>5, <1>6, <1>7, <1>8 DEF HomeIInv

(* The inductive invariant of the files outside the database.                  *)
THEOREM HomeInvariant == HomeSpec => []HomeIInv
<1>1. HomeInit => HomeIInv
  BY HomeStart
<1>2. HomeIInv /\ [HomeNext]_homeVars => HomeIInv'
  BY HomeStepStays
<1> QED BY <1>1, <1>2, PTL DEF HomeSpec

(* A result is what the worker said and did and stays what it was: processes   *)
(* are waited for in bounded time and collected whole or not at all, nothing   *)
(* an answer depends on is lost in capture, the patch holds the whole work,    *)
(* and what a committed result names stays readable.                           *)
THEOREM ResultsAreWholeHolds == HomeSpec => []ResultsAreWhole
<1>1. HomeIInv => ResultsAreWhole
  BY ProcessPromise, StreamPromise, PatchPromise, SealPromise DEF HomeIInv, ResultsAreWhole
<1> QED BY <1>1, HomeInvariant, PTL

(* A failure is counted and filed once and without what is private, a crossed  *)
(* limit is told once, and what was put into a settings file is found and      *)
(* taken out again while the user's own part stays.                            *)
THEOREM HomeInvHolds == HomeSpec => []HomeInv
<1>1. HomeIInv => HomeInv
  BY MemoPromise, NotePromise, LinePromise, HooksPromise DEF HomeIInv, HomeInv
<1> QED BY <1>1, HomeInvariant, PTL

(* A skill the user has changed is neither replaced nor removed, unless it was *)
(* changed under a command at work.                                            *)
THEOREM EditedSkillStaysHolds == HomeSpec => EditedSkillStays
<1>1. HomeIInv /\ [HomeNext]_homeVars =>
         [skill = "edited" /\ skill' # "edited" => changes' # changes \/ lost']_hookVars
  BY OnePartMoves, HooksLeaveEdited DEF HomeIInv
<1> QED BY <1>1, HomeInvariant, PTL DEF HomeSpec, EditedSkillStays
=============================================================================
