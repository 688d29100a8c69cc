----------------------------- MODULE StatusLine -----------------------------
(***************************************************************************)
(* brgr's recorder in front of a harness's status line, and back           *)
(* (crates/brgr-cli/src/statusline_install.rs, for Claude Code and Cursor  *)
(* alike).  The settings file belongs to the user, who may edit it at any  *)
(* moment; brgr replaces one member of it, chains to the command that was  *)
(* there, and keeps that member verbatim in a receipt.  An install reads   *)
(* both files, then writes the settings, then the receipt; an uninstall    *)
(* reads both, writes the settings, then removes the receipt.  Commands    *)
(* may overlap and may be killed between two writes.                       *)
(*                                                                         *)
(* The file is a sequence of members; the value of the status line is the  *)
(* chain of commands it runs: <<"b1", "mine">> is brgr's first executable  *)
(* in front of the user's own command.                                     *)
(***************************************************************************)
EXTENDS Integers, Sequences, FiniteSets, SequencesExt

CONSTANTS
    Commands,      \* `brgr integrate ...` processes
    Executables,   \* paths brgr was installed at, one after the other
    OwnLines,      \* status lines the user may have: chains of one command
    Wrappable,     \* those brgr agrees to chain to
    MaxStarts,     \* bound: commands
    MaxEdits,      \* bound: edits by the user
    MaxKills,      \* bound: commands that are killed
    Absent         \* no receipt

\* The user's own command is one, and none of brgr's.
ASSUME LineConstants ==
    /\ Wrappable \subseteq OwnLines
    /\ \A l \in OwnLines : l = <<l[1]>> /\ l[1] \notin Executables
    /\ \A e \in Executables, o \in OwnLines \cup {<<>>} : Absent # [command |-> <<e>> \o o, original |-> o]
    /\ {MaxStarts, MaxEdits, MaxKills} \subseteq Nat

VARIABLES
    settings,      \* settings.json, cli-config.json
    lineReceipt,   \* claude-statusline.json, cursor-statusline.json
    lineCmd,       \* what each command is doing
    mine,          \* history: the file as it would be without brgr
    disturbed,     \* history: a command was killed, or met another one
    overwritten,   \* history: an edit was made between a command's read and its write
    starts, edits, kills

lineGhost == <<mine, disturbed, overwritten, starts, edits, kills>>
lineVars == <<settings, lineReceipt, lineCmd, lineGhost>>

-----------------------------------------------------------------------------
(* The file as text: only the statusLine member changes.                       *)

IsLine(m) == m.key = "statusLine"
LineAt(file) == SelectInSeq(file, IsLine)
HasLine(file) == LineAt(file) # 0
Line(file) == IF HasLine(file) THEN file[LineAt(file)].value ELSE <<>>

\* Replaces the member's value, or adds it as the first member.
WithStatusLine(file, v) ==
    IF HasLine(file) THEN [file EXCEPT ![LineAt(file)].value = v]
    ELSE <<[key |-> "statusLine", value |-> v]>> \o file

WithoutStatusLine(file) == IF HasLine(file) THEN RemoveAt(file, LineAt(file)) ELSE file

\* A member brgr will not wrap: no plain command, shell operators, a variable.
Chainable(v) == v \in Wrappable

\* MARKER: some brgr runs in front.
RunsBrgr(v) == v # <<>> /\ v[1] \in Executables

-----------------------------------------------------------------------------
LineIdle == [step |-> "idle", exe |-> "", file |-> <<>>, old |-> Absent, new |-> Absent,
             stale |-> FALSE]
BusyLine(c) == lineCmd[c].step # "idle"

LineTypeOK ==
    /\ \A i, j \in DOMAIN settings : IsLine(settings[i]) /\ IsLine(settings[j]) => i = j
    /\ lineReceipt # Absent =>
          /\ RunsBrgr(lineReceipt.command)
          /\ ~RunsBrgr(lineReceipt.original)
    /\ \A c \in Commands : lineCmd[c].step \in {"idle", "install", "receipt", "restore", "remove"}
    /\ {disturbed, overwritten} \subseteq BOOLEAN
    /\ starts \in 0..MaxStarts /\ edits \in 0..MaxEdits /\ kills \in 0..MaxKills

\* The other members, and at which side of the status line they are.
Theme == [key |-> "theme", value |-> <<>>]
LineInit ==
    /\ \E l \in OwnLines \cup {<<>>} :
          LET own == [key |-> "statusLine", value |-> l]
          IN  settings \in IF l = <<>> THEN {<<>>, <<Theme>>} ELSE {<<own>>, <<Theme, own>>, <<own, Theme>>}
    /\ mine = settings
    /\ lineReceipt = Absent
    /\ lineCmd = [c \in Commands |-> LineIdle]
    /\ disturbed = FALSE /\ overwritten = FALSE /\ starts = 0 /\ edits = 0 /\ kills = 0

-----------------------------------------------------------------------------
(* install *)

\* The line may be wrapped, or is brgr's already and its receipt tells what it replaced.
MayInstall(v, r) ==
    \/ v = <<>> \/ Chainable(v)
    \/ RunsBrgr(v) /\ r # Absent /\ r.command = v

\* Mistake: what runs now is what is restored, brgr's own line as well.
KeepsCurrent(v, r) == v

\* previous_status_line: what is to be restored later and is chained to now.
Original(v, r) == IF RunsBrgr(v) THEN r.original ELSE v

Chained(exe, original) == <<exe>> \o original

\* Nothing to do: this very command is there and its receipt names it.
Installed(command, v, r) == r # Absent /\ r.command = command /\ v = command

\* A command starts, maybe beside another one that is still at work.
Starts(c) ==
    /\ ~BusyLine(c) /\ starts < MaxStarts /\ starts' = starts + 1
    /\ disturbed' = (disturbed \/ \E d \in Commands \ {c} : BusyLine(d))

\* The files are read; a line brgr will not touch, or has put there already, ends the command.
BeginInstall(c) ==
    /\ Starts(c)
    /\ \E exe \in Executables :
          LET v == Line(settings)
              o == Original(v, lineReceipt)
              command == Chained(exe, o)
          IN  /\ MayInstall(v, lineReceipt)
              /\ ~Installed(command, v, lineReceipt)
              /\ lineCmd' = [lineCmd EXCEPT ![c] =
                    [LineIdle EXCEPT !.step = "install", !.exe = exe, !.file = settings,
                        !.new = [command |-> command, original |-> o]]]
    /\ UNCHANGED <<settings, lineReceipt, mine, overwritten, edits, kills>>

\* The copy in backups/ is written first; then the file that was read, with its new member.
WriteSettings(c) ==
    /\ lineCmd[c].step = "install"
    /\ settings' = WithStatusLine(lineCmd[c].file, lineCmd[c].new.command)
    /\ overwritten' = (overwritten \/ lineCmd[c].stale)
    /\ lineCmd' = [lineCmd EXCEPT ![c].step = "receipt"]
    /\ UNCHANGED <<lineReceipt, mine, disturbed, starts, edits, kills>>

WriteReceipt(c) ==
    /\ lineCmd[c].step = "receipt"
    /\ lineReceipt' = lineCmd[c].new
    /\ lineCmd' = [lineCmd EXCEPT ![c] = LineIdle]
    /\ UNCHANGED <<settings, lineGhost>>

-----------------------------------------------------------------------------
(* uninstall *)

\* Mistake: the original is put back whatever the user has set since.
AlwaysIntact(file, r) == HasLine(file)

\* The line is still the one the receipt names.
Intact(file, r) == Line(file) = r.command

BeginUninstall(c) ==
    /\ Starts(c) /\ lineReceipt # Absent
    /\ lineCmd' = [lineCmd EXCEPT ![c] =
          [LineIdle EXCEPT !.step = IF Intact(settings, lineReceipt) THEN "restore" ELSE "remove",
              !.file = settings, !.old = lineReceipt]]
    /\ UNCHANGED <<settings, lineReceipt, mine, overwritten, edits, kills>>

\* The original member comes back verbatim; where there was none, the member goes.
RestoreSettings(c) ==
    /\ lineCmd[c].step = "restore"
    /\ LET original == lineCmd[c].old.original
       IN  settings' = IF original = <<>> THEN WithoutStatusLine(lineCmd[c].file)
                       ELSE WithStatusLine(lineCmd[c].file, original)
    /\ overwritten' = (overwritten \/ lineCmd[c].stale)
    /\ lineCmd' = [lineCmd EXCEPT ![c].step = "remove"]
    /\ UNCHANGED <<lineReceipt, mine, disturbed, starts, edits, kills>>

\* A receipt another uninstall removed already is an error.
RemoveReceipt(c) ==
    /\ lineCmd[c].step = "remove"
    /\ lineReceipt' = Absent
    /\ lineCmd' = [lineCmd EXCEPT ![c] = LineIdle]
    /\ UNCHANGED <<settings, lineGhost>>

-----------------------------------------------------------------------------
(* The user, and commands that are killed or fail half way.                    *)

EditsFile(new, own) ==
    /\ edits < MaxEdits /\ edits' = edits + 1
    /\ settings' = new /\ mine' = own
    /\ lineCmd' = [c \in Commands |->
          IF lineCmd[c].step \in {"install", "restore"} THEN [lineCmd[c] EXCEPT !.stale = TRUE]
          ELSE lineCmd[c]]
    /\ UNCHANGED <<lineReceipt, disturbed, overwritten, starts, kills>>

UserEdits ==
    \/ \E l \in OwnLines : EditsFile(WithStatusLine(settings, l), WithStatusLine(settings, l))
    \/ HasLine(settings) /\ EditsFile(WithoutStatusLine(settings), WithoutStatusLine(settings))
    \/ ~Contains(settings, Theme) /\ EditsFile(Append(settings, Theme), Append(mine, Theme))

CommandEnds(c) ==
    /\ BusyLine(c) /\ kills < MaxKills /\ kills' = kills + 1
    /\ lineCmd' = [lineCmd EXCEPT ![c] = LineIdle]
    /\ disturbed' = (disturbed \/ lineCmd[c].step = "receipt")
    /\ UNCHANGED <<settings, lineReceipt, mine, overwritten, starts, edits>>

LineNext ==
    \/ \E c \in Commands :
          \/ BeginInstall(c) \/ WriteSettings(c) \/ WriteReceipt(c)
          \/ BeginUninstall(c) \/ RestoreSettings(c) \/ RemoveReceipt(c) \/ CommandEnds(c)
    \/ UserEdits

-----------------------------------------------------------------------------
(* The user's own command is what runs, alone or behind brgr's, and the rest of  *)
(* the file is as the user left it: at every moment, whatever was killed, unless *)
(* an edit fell between a command's read and its write.                          *)
OwnLineRuns ==
    ~overwritten =>
        /\ Line(settings) = Line(mine) \/ (RunsBrgr(Line(settings)) /\ Tail(Line(settings)) = Line(mine))
        /\ WithoutStatusLine(settings) = WithoutStatusLine(mine)

(* After an uninstall the file is what the user would have had without brgr, to  *)
(* the last member, however often brgr was installed again or moved.             *)
RoundTrip ==
    ~overwritten /\ ~disturbed /\ lineReceipt = Absent /\ (\A c \in Commands : ~BusyLine(c))
        => settings = mine

(* brgr's hold on the status line can be undone and hides nothing.               *)
LineInv == LineTypeOK /\ OwnLineRuns /\ RoundTrip
=============================================================================
