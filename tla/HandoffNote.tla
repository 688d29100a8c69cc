---------------------------- MODULE HandoffNote ----------------------------
(***************************************************************************)
(* Telling a head that its plan is nearly used up                          *)
(* (crates/brgr-cli/src/handoff_condition.rs): every command a head runs   *)
(* ends by reading what the head's status line reported last               *)
(* (context_signal.rs), and once per crossing of the limit it prints the   *)
(* command that hands the head on, or runs it.  What was said is kept in a *)
(* file of the session, read and written without a lock by every command.  *)
(*                                                                         *)
(* A figure is a level: below the limit by REARM_GAP or more, below it by  *)
(* less, at or over it, or not measured.                                   *)
(***************************************************************************)
EXTENDS Integers, FiniteSets, FiniteSetsExt

CONSTANTS
    HeadCommands,   \* brgr commands of the head's session
    Others,         \* sessions of the harness to hand off to
    MaxAge,         \* MAX_AGE
    RepeatAfter,    \* REPEAT_AFTER
    MaxTime,        \* bound: the clock
    MaxReports,     \* bound: reports
    MaxLosses,      \* bound: state files not written
    Never

ASSUME NoteConstants ==
    MaxTime \in Nat /\ MaxReports \in Nat /\ MaxLosses \in Nat /\ RepeatAfter \in Nat

VARIABLES
    now,
    report,         \* context/<session>.json: the head's last report
    others,         \* those of the other harness's sessions
    note,           \* context/<session>.note.json
    noteCmd,        \* what each command is doing
    isHead,         \* the session is bound as head
    handing,        \* a takeover of it is open
    auto,           \* handoff.auto
    told,           \* history: when a command last decided to speak
    below,          \* history: usage was reported well below since
    crossed,        \* history: a command read the state while another was about to write it
    nagged,         \* history: somebody spoke out of turn
    reports, losses

noteGhost == <<told, below, crossed, nagged, reports, losses>>
noteVars == <<now, report, others, note, noteCmd, isHead, handing, auto, noteGhost>>

Levels == {"none", "low", "near", "over"}
Rank(l) == CASE l = "none" -> 0 [] l = "low" -> 1 [] l = "near" -> 2 [] l = "over" -> 3
NoteIdle == [step |-> "idle", state |-> [armed |-> TRUE, at |-> Never], verdict |-> "nothing"]

-----------------------------------------------------------------------------
(* context_signal.rs                                                            *)

\* A figure that is no percentage is not measured.
Measured(figure) == IF figure = "no percentage" THEN "none" ELSE figure

\* The higher of the two plan windows.
Quota(r) == IF Rank(r.five) > Rank(r.seven) THEN r.five ELSE r.seven

Fresh(r) == r.at # Never /\ now - r.at <= MaxAge

\* The newest fresh report that carries a figure; the plan is the account's.
LatestQuota ==
    LET known == {s \in Others : Fresh(others[s]) /\ Quota(others[s]) # "none"}
    IN  {Quota(others[s]) : s \in {x \in known : \A y \in known : others[y].at <= others[x].at}}

-----------------------------------------------------------------------------
(* evaluate                                                                     *)

\* Mistake: a figure nobody measured counts as well below.
RearmedUnmeasured(level) == level \in {"low", "none"}

Rearmed(level) == level = "low"

\* When this session was told is not known to a file that was never written.
Due(state) == state.at = Never \/ now - state.at >= RepeatAfter

Verdict(state, targetOver) ==
    LET level == Quota(report)
        armed == state.armed \/ Rearmed(level)
    IN  IF level = "over" /\ (armed \/ Due(state))
        THEN [step |-> "save", state |-> [armed |-> FALSE, at |-> now],
              verdict |-> IF targetOver THEN "note" ELSE "handoff"]
        ELSE [step |-> "save", state |-> [state EXCEPT !.armed = armed], verdict |-> "nothing"]

-----------------------------------------------------------------------------
NoteTypeOK ==
    /\ now \in 0..MaxTime
    /\ \A r \in {report} \cup {others[s] : s \in Others} :
          r.at \in (0..now) \cup {Never} /\ r.five \in Levels /\ r.seven \in Levels
    /\ note.armed \in BOOLEAN /\ note.at \in (0..now) \cup {Never}
    /\ \A c \in HeadCommands :
          noteCmd[c].step \in {"idle", "save", "speak"} /\ noteCmd[c].verdict \in {"nothing", "note", "handoff"}
    /\ {isHead, handing, auto, below, crossed, nagged} \subseteq BOOLEAN
    /\ told \in (0..now) \cup {Never} /\ losses \in 0..MaxLosses /\ reports \in 0..MaxReports

NoReport == [at |-> Never, five |-> "none", seven |-> "none"]
NoteInit ==
    /\ now = 0 /\ report = NoReport /\ others = [s \in Others |-> NoReport]
    /\ note = NoteIdle.state
    /\ noteCmd = [c \in HeadCommands |-> NoteIdle]
    /\ isHead = TRUE /\ handing = FALSE /\ auto \in BOOLEAN
    /\ told = Never /\ below = FALSE /\ crossed = FALSE /\ nagged = FALSE /\ reports = 0 /\ losses = 0

\* The head's status line is drawn: the file is replaced as a whole.
Report ==
    /\ reports < MaxReports /\ reports' = reports + 1
    /\ \E five \in {"no percentage", "low", "near", "over"}, seven \in {"no percentage", "low", "over"} :
          report' = [at |-> now, five |-> Measured(five), seven |-> Measured(seven)]
    /\ below' = (below \/ Quota(report') = "low")
    /\ UNCHANGED <<now, others, note, noteCmd, isHead, handing, auto, told, crossed, nagged, losses>>

OthersReport ==
    /\ reports < MaxReports /\ reports' = reports + 1
    /\ \E s \in Others, l \in {"low", "over"} :
          others' = [others EXCEPT ![s] = [at |-> now, five |-> l, seven |-> "none"]]
    /\ UNCHANGED <<now, report, note, noteCmd, isHead, handing, auto, told, below, crossed, nagged, losses>>

\* Only the bound head is told, and not while a handoff is open.
ReadCondition(c) ==
    /\ noteCmd[c].step = "idle" /\ isHead /\ ~handing /\ Fresh(report)
    /\ LET v == Verdict(note, "over" \in LatestQuota)
           speaks == v.verdict # "nothing"
       IN  /\ noteCmd' = [noteCmd EXCEPT ![c] = v]
           /\ told' = IF speaks THEN now ELSE told
           /\ nagged' = (nagged \/ (speaks /\ told # Never /\ now - told < RepeatAfter /\ ~below))
           /\ below' = (below /\ ~speaks)
    /\ crossed' = (crossed \/ \E d \in HeadCommands \ {c} : noteCmd[d].step = "save")
    /\ UNCHANGED <<now, report, others, note, isHead, handing, auto, reports, losses>>

AfterSave(c) ==
    noteCmd' = [noteCmd EXCEPT ![c] = IF @.verdict = "nothing" THEN NoteIdle ELSE [@ EXCEPT !.step = "speak"]]

SaveState(c) ==
    /\ noteCmd[c].step = "save"
    /\ note' = noteCmd[c].state
    /\ AfterSave(c)
    /\ UNCHANGED <<now, report, others, isHead, handing, auto, noteGhost>>

\* A file that cannot be written is let go, and a command may be killed here.
StateIsLost(c) ==
    /\ noteCmd[c].step = "save" /\ losses < MaxLosses /\ losses' = losses + 1
    /\ AfterSave(c)
    /\ crossed' = TRUE
    /\ UNCHANGED <<now, report, others, note, isHead, handing, auto, told, below, nagged, reports>>

\* auto_handoff: the store refuses a second open takeover, and one of a session that is
\* not head any more.
HandsOver(c) == auto /\ noteCmd[c].verdict = "handoff" /\ isHead

Speak(c) ==
    /\ noteCmd[c].step = "speak"
    /\ handing' = (handing \/ HandsOver(c))
    /\ noteCmd' = [noteCmd EXCEPT ![c] = NoteIdle]
    /\ UNCHANGED <<now, report, others, note, isHead, auto, noteGhost>>

\* The takeover ends, at the other head or back here.
HandingEnds ==
    /\ handing /\ handing' = FALSE
    /\ isHead' \in BOOLEAN
    /\ UNCHANGED <<now, report, others, note, noteCmd, auto, noteGhost>>

HeadReturns ==
    /\ ~isHead /\ isHead' = TRUE
    /\ UNCHANGED <<now, report, others, note, noteCmd, handing, auto, noteGhost>>

TimePasses ==
    /\ now < MaxTime /\ now' = now + 1
    /\ UNCHANGED <<report, others, note, noteCmd, isHead, handing, auto, noteGhost>>

NoteNext ==
    \/ \E c \in HeadCommands : ReadCondition(c) \/ SaveState(c) \/ StateIsLost(c) \/ Speak(c)
    \/ Report \/ OthersReport \/ HandingEnds \/ HeadReturns \/ TimePasses

-----------------------------------------------------------------------------
(* A head hears of its usage once per crossing: again only when it has stayed    *)
(* over for RepeatAfter or was well below in between; a stale or unmeasured      *)
(* figure is neither.  Two commands that read the state at once may both speak.  *)
ToldOncePerCrossing == nagged => crossed

NoteInv == NoteTypeOK /\ ToldOncePerCrossing
=============================================================================
