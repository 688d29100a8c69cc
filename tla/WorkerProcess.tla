---------------------------- MODULE WorkerProcess ----------------------------
(***************************************************************************)
(* One process brgr waits for (crates/brgr-runner/src/lib.rs): a worker's  *)
(* run, or a probe of a harness.  It leads a process group and writes to   *)
(* two pipes; what it starts may stay in the group or leave it, outlive it *)
(* and keep the pipes open.  brgr reads the pipes up to a limit, stops the *)
(* whole group when it must, and is back in bounded time.                  *)
(*                                                                         *)
(* Time is counted in half seconds, the grace brgr gives a stopped group   *)
(* and a probe's pipes.  brgr and its readers are prompt: time passes only *)
(* when they have nothing to do.                                           *)
(***************************************************************************)
EXTENDS Naturals, FiniteSets

CONSTANTS
    Descendants,   \* processes the first one may start
    Deadline,      \* RunRequest.deadline
    PipeLimit      \* bytes kept of each pipe

ASSUME ProcessConstants == Deadline \in Nat /\ PipeLimit \in Nat

VARIABLES
    call,          \* "run" or "probe"
    procs,         \* each process: is it alive, in the group, which pipes it holds
    pipes,         \* each pipe: bytes written, bytes taken, and its reader
    waiting,       \* what brgr waits for
    ticks, since,  \* time, and when this wait began
    marker,        \* the cancel marker is there
    exit,          \* how the first process ended
    found,         \* timed out, cancelled, overflow, truncated
    gave,          \* what the call gave back
    stopped        \* history: brgr has stopped the group

processVars == <<call, procs, pipes, waiting, ticks, since, marker, exit, found, gave, stopped>>
outsideVars == <<call, waiting, ticks, since, found, gave, stopped>>

Streams == {"stdout", "stderr"}
Procs == {"leader"} \cup Descendants
Leads(p) == p = "leader"
Alive(p) == procs[p].alive
Holders(s) == {p \in Procs : Alive(p) /\ s \in procs[p].holds}
Group == {p \in Procs : Alive(p) /\ procs[p].group}
Dead == [alive |-> FALSE, group |-> FALSE, holds |-> {}]

ProcessInit ==
    /\ call \in {"run", "probe"}
    /\ procs = [p \in Procs |->
                  IF Leads(p) THEN [alive |-> TRUE, group |-> TRUE, holds |-> Streams] ELSE Dead]
    /\ pipes = [s \in Streams |-> [written |-> 0, taken |-> 0, reader |-> "reads"]]
    /\ waiting = "exit" /\ ticks = 0 /\ since = 0 /\ marker = FALSE /\ exit = "none"
    /\ found = [timed |-> FALSE, cancelled |-> FALSE, overflow |-> FALSE]
    /\ gave = "nothing" /\ stopped = FALSE

----------------------------------------------------------------------------
(* The processes.                                                           *)

Dies(p) == procs' = [procs EXCEPT ![p] = Dead]

Exits(p) ==
    /\ Alive(p) /\ Dies(p)
    /\ exit' \in IF Leads(p) THEN {"success", "failure"} ELSE {exit}
    /\ UNCHANGED <<outsideVars, pipes, marker>>

Spawns(p, q) ==
    /\ Alive(p) /\ ~Alive(q) /\ ~Leads(q)
    /\ \E holds \in SUBSET procs[p].holds, stays \in BOOLEAN :
          /\ stays => procs[p].group
          /\ procs' = [procs EXCEPT ![q] = [alive |-> TRUE, group |-> stays, holds |-> holds]]
    /\ UNCHANGED <<outsideVars, pipes, marker, exit>>

Closes(p, s) ==
    /\ s \in procs[p].holds /\ procs' = [procs EXCEPT ![p].holds = @ \ {s}]
    /\ UNCHANGED <<outsideVars, pipes, marker, exit>>

\* A pipe that nobody reads ends who writes to it.
Writes(p, s) ==
    /\ s \in procs[p].holds
    /\ IF pipes[s].reader = "reads"
       THEN /\ pipes[s].written < PipeLimit + 2
            /\ pipes' = [pipes EXCEPT ![s].written = @ + 1]
            /\ UNCHANGED <<procs, exit>>
       ELSE Dies(p) /\ exit' = (IF Leads(p) THEN "failure" ELSE exit) /\ UNCHANGED pipes
    /\ UNCHANGED <<outsideVars, marker>>

OwnerCancels ==
    /\ call = "run" /\ ~marker /\ waiting # "over" /\ marker' = TRUE
    /\ UNCHANGED <<outsideVars, procs, pipes, exit>>

----------------------------------------------------------------------------
(* What brgr does to them.                                                  *)

KillGroup ==
    /\ procs' = [p \in Procs |-> IF p \in Group THEN Dead ELSE procs[p]]
    /\ exit' = IF Alive("leader") THEN "failure" ELSE exit
    /\ stopped' = TRUE
Spares == UNCHANGED <<procs, exit, stopped>>

WaitFor(what) == waiting' = what /\ since' = ticks
GraceIsOver == ticks > since
GiveUp(ss) == pipes' = [s \in Streams |->
    IF s \in ss /\ pipes[s].reader = "reads" THEN [pipes[s] EXCEPT !.reader = "gone"] ELSE pipes[s]]

HasRead(s) == pipes[s].reader # "reads"
AtEof(s) == pipes[s].taken = pipes[s].written /\ Holders(s) = {}

\* read_bounded; a flooding probe is stopped by its reader, a flooding run by who waits for it.
Reads(s) ==
    /\ pipes[s].reader = "reads"
    /\ LET taken == pipes[s].taken + 1 IN
       \/ /\ AtEof(s) /\ pipes' = [pipes EXCEPT ![s].reader = "eof"]
          /\ Spares /\ UNCHANGED found
       \/ /\ taken <= pipes[s].written
          /\ IF taken <= PipeLimit
             THEN /\ pipes' = [pipes EXCEPT ![s].taken = taken]
                  /\ Spares /\ UNCHANGED found
             ELSE /\ pipes' = [pipes EXCEPT ![s].taken = PipeLimit, ![s].reader = "over"]
                  /\ found' = [found EXCEPT !.overflow = TRUE]
                  /\ IF call = "probe" THEN KillGroup ELSE Spares
    /\ UNCHANGED <<call, waiting, ticks, since, marker, gave>>

\* Mistake: that the streams were cut is not looked at.
CollectsCut == ~found.cancelled /\ ~found.timed /\ exit = "success"
\* can_collect_result
MayCollect ==
    /\ ~found.cancelled /\ ~found.timed /\ ~found.overflow
    /\ \A s \in Streams : pipes[s].reader = "eof"
    /\ exit = "success"

Returns == WaitFor("over") /\ gave' = IF MayCollect THEN "result" ELSE "none"

----------------------------------------------------------------------------
(* A run: wait_for_exit, stop_process_group, and the captures.               *)

MustStop == marker \/ ticks >= Deadline \/ found.overflow

\* Mistake: the group is left alone when its leader has gone.
LeaderIsEnough == Alive("leader")
\* The leader may have gone; what it left in the group is stopped all the same.
StopsGroup == TRUE

RunStops ==
    /\ call = "run" /\ waiting = "exit" /\ MustStop
    /\ found' = [found EXCEPT !.timed = ticks >= Deadline, !.cancelled = marker]
    /\ WaitFor("grace") /\ stopped' = TRUE
    /\ UNCHANGED <<call, procs, pipes, ticks, marker, exit, gave>>

GraceEnds ==
    /\ waiting = "grace" /\ GraceIsOver
    /\ WaitFor("captures")
    /\ IF StopsGroup THEN KillGroup ELSE Spares
    /\ UNCHANGED <<call, pipes, ticks, marker, found, gave>>

RunExits ==
    /\ call = "run" /\ waiting = "exit" /\ ~MustStop /\ ~Alive("leader")
    /\ WaitFor("captures")
    /\ UNCHANGED <<call, procs, pipes, ticks, marker, exit, found, gave, stopped>>

Captured ==
    /\ waiting = "captures" /\ (\A s \in Streams : HasRead(s)) /\ Returns
    /\ UNCHANGED <<call, procs, pipes, ticks, marker, exit, found, stopped>>

\* Mistake: the pipes are read to their end, however long somebody keeps them.
WaitsForPipes == FALSE
OutOfTime == ticks >= Deadline

CapturesTimeOut ==
    /\ waiting = "captures" /\ OutOfTime /\ \E s \in Streams : ~HasRead(s)
    /\ KillGroup /\ GiveUp(Streams) /\ WaitFor("over") /\ gave' = "error"
    /\ UNCHANGED <<call, ticks, marker, found>>

----------------------------------------------------------------------------
(* A probe: wait_for_probe_exit, then join_probe_pipe of either pipe.        *)

ProbeExits ==
    /\ call = "probe" /\ waiting = "exit"
    /\ \/ ~Alive("leader") /\ Spares /\ UNCHANGED found
       \/ ticks >= Deadline /\ KillGroup /\ found' = [found EXCEPT !.timed = TRUE]
    /\ WaitFor("stdout")
    /\ UNCHANGED <<call, pipes, ticks, marker, gave>>

Again(s) == IF s = "stdout" THEN "stdout again" ELSE "stderr again"
AfterPipe(s) == IF s = "stdout" THEN WaitFor("stderr") /\ UNCHANGED gave ELSE Returns

PipeJoined(s) ==
    /\ waiting = s /\ HasRead(s) /\ AfterPipe(s)
    /\ UNCHANGED <<call, procs, pipes, ticks, marker, exit, found, stopped>>

\* Mistake: a pipe that stays open is given up, and nobody is stopped.
LeavesThem == Spares
StopsHolders == KillGroup
PipeStaysOpen(s) ==
    /\ waiting = s /\ ~HasRead(s) /\ GraceIsOver
    /\ StopsHolders /\ WaitFor(Again(s))
    /\ UNCHANGED <<call, pipes, ticks, marker, found, gave>>

\* What is read now is cut short, and what still is not read is not waited for.
PipeGivenUp(s) ==
    /\ waiting = Again(s) /\ (HasRead(s) \/ GraceIsOver)
    /\ GiveUp({s}) /\ found' = [found EXCEPT !.overflow = TRUE]
    /\ IF s = "stdout" THEN WaitFor("stderr") /\ UNCHANGED gave
       ELSE WaitFor("over") /\ gave' = "none"
    /\ UNCHANGED <<call, procs, ticks, marker, exit, stopped>>

----------------------------------------------------------------------------
IsReading(s) == pipes[s].reader = "reads" /\ (AtEof(s) \/ pipes[s].taken < pipes[s].written)
RunHasWork ==
    \/ waiting = "exit" /\ (MustStop \/ ~Alive("leader"))
    \/ waiting = "captures" /\ (OutOfTime \/ \A s \in Streams : HasRead(s))
ProbeHasWork ==
    \/ waiting = "exit" /\ (ticks >= Deadline \/ ~Alive("leader"))
    \/ \E s \in Streams : waiting \in {s, Again(s)} /\ HasRead(s)
Waits ==
    /\ waiting # "over" /\ \A s \in Streams : ~IsReading(s)
    /\ ~(waiting # "exit" /\ waiting # "captures" /\ GraceIsOver)
    /\ ~(IF call = "run" THEN RunHasWork ELSE ProbeHasWork)

HalfSecond ==
    /\ Waits /\ ticks' = ticks + 1 /\ ticks < Deadline + 6
    /\ UNCHANGED <<call, procs, pipes, waiting, since, marker, exit, found, gave, stopped>>

ProcessNext ==
    \/ \E p \in Procs : Exits(p) \/ \E q \in Procs : Spawns(p, q)
    \/ \E p \in Procs, s \in Streams : Closes(p, s) \/ Writes(p, s)
    \/ OwnerCancels \/ HalfSecond
    \/ \E s \in Streams : Reads(s) \/ PipeJoined(s) \/ PipeStaysOpen(s) \/ PipeGivenUp(s)
    \/ RunStops \/ GraceEnds \/ RunExits \/ Captured \/ CapturesTimeOut \/ ProbeExits

----------------------------------------------------------------------------
(* What a call collects is all that anybody wrote, of a process that ended  *)
(* by itself, and nothing was stopped for it.                               *)
WholeOrNothing ==
    gave = "result" =>
        /\ \A s \in Streams : pipes[s].taken = pipes[s].written /\ pipes[s].written <= PipeLimit
        /\ exit = "success" /\ ~stopped

(* brgr is back in time, whoever keeps the pipes or does not heed a signal. *)
BackInTime ==
    waiting # "over" => ticks <= Deadline + IF call = "run" THEN 1 ELSE 4

(* When brgr has stopped a call, nobody of its group runs on; and nobody of *)
(* a probe's group is left at a pipe.                                       *)
NobodyRunsOn ==
    waiting = "over" =>
        /\ stopped => Group = {}
        /\ call = "probe" => \A s \in Streams : Holders(s) \cap Group = {}

ProcessInv ==
    /\ waiting \in Streams \cup {"exit", "grace", "captures", "stdout again", "stderr again", "over"}
    /\ WholeOrNothing /\ BackInTime /\ NobodyRunsOn
=============================================================================
