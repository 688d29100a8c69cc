----------------------------- MODULE PaneScreens -----------------------------
(***************************************************************************)
(* What the pane runner presses so that a worker never waits for a person  *)
(* (crates/brgr-cli/src/pane_adapter/screens.rs and the polling loops of   *)
(* pane_adapter.rs): it reads the agent's status from Herdr, then the      *)
(* screen, chooses keys by what the screen says, and sends them.  Between  *)
(* these steps the owner may press keys, and what Herdr shows may lag      *)
(* behind what the agent is at.  A screen no rule answers is told to the   *)
(* owner and fails the run once it has stood too long.                     *)
(*                                                                         *)
(* A screen is what it is (kind), the phrases a rule may look for on it    *)
(* (says), its options in order and the one its cursor is at, 0: none.     *)
(***************************************************************************)
EXTENDS Integers, Sequences, FiniteSets, SequencesExt

CONSTANTS
  Courses,      \* bound: the screens an agent stops at, one after the other
  Outputs,      \* screens of an agent at work; they may look like a menu
  PressLimit,   \* PRESS_BUDGET
  MaxHands,     \* bound: what the owner presses
  MaxSlow       \* bound: screens that are drawn later than REDRAW

VARIABLES
  host,         \* "herdr": Herdr knows the agent's status; "native": it does not
  todo,         \* the screens the agent will still stop at
  dialog,       \* what the agent is at
  drawn,        \* what Herdr shows
  watch,        \* the runner
  asked,        \* Notices.outstanding is not empty
  \* history
  told,         \* the owner has been told of something
  choices,      \* what brgr chose, and where
  missed,       \* keys reached another screen than the one they were chosen for
  hands, slow

screenVars == <<host, todo, dialog, drawn, watch, asked, told, choices, missed, hands, slow>>
pressGhost == <<choices, missed, hands, slow>>

Says(s, phrase) == phrase \in s.says
Screen(kind, says, options, at) == [kind |-> kind, says |-> says, options |-> options, at |-> at]
Blank == Screen("shell", {}, <<>>, 0)
ShellOffer == Screen("shell offer", {"shell offer"}, <<>>, 0)
Editor == Screen("ready", {}, <<>>, 0)
AtWork == dialog.kind = "work"
Ready == dialog.kind = "ready"

\* What the harnesses draw: a menu has its cursor on an option, anything else has neither.  Claude's
\* trust prompt has its "yes", the second one where options have no numbers; only the task's own
\* folder is trusted through a gate, and Cursor's box says nothing else.
Dialogs == UNION {{course[i] : i \in DOMAIN course} : course \in Courses}
IsScreen(s) ==
  /\ s = Screen(s.kind, s.says, s.options, s.at) /\ s.options \in Seq(Range(s.options))
  /\ s.at \in 0..Len(s.options) /\ (s.at = 0 <=> s.options = <<>>)
IsDialog(s) ==
  /\ IsScreen(s) /\ s.kind \notin {"ready", "work"}
  /\ {"claude trust", "own folder"} \subseteq s.says => \E i \in DOMAIN s.options : s.options[i] = "yes"
  /\ {"claude trust", "own folder", "unnumbered"} \subseteq s.says => s.options = <<"no", "yes">>
  /\ s.kind = "menu trust" /\ Says(s, "gate") => Says(s, "own folder")
  /\ s.kind = "box" => s.says \subseteq {"cursor trust", "own box"}

ASSUME ScreenConstants ==
  /\ PressLimit \in Nat /\ MaxHands \in Nat /\ MaxSlow \in Nat
  /\ Courses \subseteq Seq(Dialogs) /\ \A s \in Dialogs : IsDialog(s)
  /\ Outputs # {} /\ \A s \in Outputs : IsScreen(s) /\ s.kind = "work"

----------------------------------------------------------------------------
(* classify: the rules, in the order they are tried *)

\* the cursor presses that move from one option to another
Between(from, to) ==
  [i \in 1..(IF to > from THEN to - from ELSE from - to) |-> IF to > from THEN "down" ELSE "up"]

\* menu_options; 0 when there is no such option
Position(s, option) == SelectInSeq(s.options, LAMBDA x : x = option)
Selects(s, to) == Between(IF s.at = 0 THEN to ELSE s.at, to) \o <<"enter">>

Nothing == [act |-> "clear", rule |-> "none", keys |-> <<>>]
NoRule == [Nothing EXCEPT !.act = "unknown"]
Resolves(rule, keys) == [act |-> "resolve", rule |-> rule, keys |-> keys]

\* Claude's prompt for this very workspace; without numbers the cursor tells the keys
ClaudeTrust(s) ==
  Resolves("workspace-trust",
    IF Says(s, "unnumbered")
      THEN IF s.at = Position(s, "yes") THEN <<"enter">> ELSE <<"down", "enter">>
      ELSE Selects(s, Position(s, "yes")))

\* codex_trust, copilot_trust: the folder shown must be the task's own
TrustChoice(s) ==
  IF Says(s, "own folder") /\ Position(s, "yes") # 0
    THEN Resolves("folder-trust", Selects(s, Position(s, "yes"))) ELSE NoRule

\* Cursor's box has no menu; once answered it stays drawn above the agent's screen
CursorTrust(s) ==
  IF Says(s, "own box") THEN Resolves("cursor-trust", <<"a">>) ELSE NoRule

\* Mistake: the box counts as long as it is drawn.
BoxIsDrawn(s) == Says(s, "cursor trust")
CursorAsks(s) == Says(s, "cursor trust") /\ ~Says(s, "trusting")

\* accepting_option: a harness's own gates in front of a run
AcceptingOption(s) == IF Says(s, "gate") THEN Position(s, "yes") ELSE 0

\* an update or another offer is declined, wherever the cursor is
SkipOption(s) == IF Says(s, "offer") THEN Position(s, "skip") ELSE 0

\* Mistake: "press Enter" is taken at its word on any screen.
AnyNotice(s) == Says(s, "notice")
\* has_continue_notice counts only where nothing is selected
ContinueNotice(s) == Says(s, "notice") /\ s.at = 0

Classify(s) ==
  IF Says(s, "claude trust") /\ Says(s, "own folder") THEN ClaudeTrust(s)
  ELSE IF Says(s, "menu trust") THEN TrustChoice(s)
  ELSE IF CursorAsks(s) THEN CursorTrust(s)
  ELSE IF Says(s, "claude trust") THEN NoRule
  ELSE IF Says(s, "updated") THEN Resolves("update-applied", <<"esc">>)
  ELSE IF ContinueNotice(s) THEN Resolves("continue-notice", <<"enter">>)
  ELSE IF s.at = 0 THEN Nothing
  ELSE IF AcceptingOption(s) # 0 THEN Resolves("gate", Selects(s, AcceptingOption(s)))
  ELSE IF SkipOption(s) # 0 THEN Resolves("offer-skip", Selects(s, SkipOption(s)))
  ELSE NoRule

Rules == {"workspace-trust", "folder-trust", "cursor-trust", "update-applied", "continue-notice",
          "gate", "offer-skip"}

----------------------------------------------------------------------------
(* The agent: what keys do to it, and what it shows next. *)

Count(keys, key) == Cardinality({i \in DOMAIN keys : keys[i] = key})
\* The cursor stays within the options.
Cursor(s, keys) ==
  LET at == s.at + Count(keys, "down") - Count(keys, "up")
  IN  IF at < 1 THEN 1 ELSE IF at > Len(s.options) THEN Len(s.options) ELSE at

\* What a batch of keys chooses on the screen it reaches.
Chosen(s, keys) ==
  LET key == Last(keys) IN
  CASE s.kind \in {"ready", "work"}    -> "typed"
    [] key = "a" /\ s.kind = "box"     -> "yes"
    [] key = "enter" /\ s.options # <<>> -> s.options[Cursor(s, keys)]
    [] OTHER                           -> key

\* Cursor's box stays drawn above what comes next.
Under(s, next) == IF s.kind = "box" THEN [next EXCEPT !.says = @ \cup s.says \cup {"trusting"}] ELSE next

\* A dialog that is dealt with: another one, the editor, or the agent goes on working.
Leaves(s) ==
  \/ dialog' \in {Under(s, o) : o \in IF watch.stage = "work" THEN Outputs ELSE {Editor}} /\ UNCHANGED todo
  \/ watch.stage # "work" /\ todo # <<>> /\ dialog' = Under(s, Head(todo)) /\ todo' = Tail(todo)

----------------------------------------------------------------------------
NoPresses == [r \in Rules |-> 0]
Watch(stage, pc) ==
  [stage |-> stage, pc |-> pc, status |-> "none", seen |-> Blank, since |-> FALSE,
   presses |-> NoPresses, blocked |-> FALSE]

ScreenInit ==
  /\ host \in {"herdr", "native"}
  /\ todo \in Courses
  /\ dialog \in {Blank, ShellOffer} /\ drawn = Blank
  /\ watch = Watch("shell", "read")
  /\ asked = FALSE /\ told = FALSE
  /\ choices = {} /\ missed = FALSE /\ hands = 0 /\ slow = 0

Over == watch.pc \in {"failed", "done"}
Goto(pc) == watch' = [watch EXCEPT !.pc = pc]

Redraw ==
  /\ drawn # dialog
  /\ drawn' = dialog
  /\ UNCHANGED <<host, todo, dialog, watch, asked, told, pressGhost>>

\* Mistake: the screen is read again as soon as the keys are sent.
ReadAtOnce == UNCHANGED slow
\* REDRAW and the polls give the agent time to draw; now and then it is slower.
Drawn ==
  \/ drawn = dialog /\ UNCHANGED slow
  \/ drawn # dialog /\ slow < MaxSlow /\ slow' = slow + 1

----------------------------------------------------------------------------
(* The new pane's shell, then the agent. *)

\* settle_shell: one "n" for a shell's own update offer; nothing is typed before the shell is quiet.
SettleShell ==
  /\ watch.stage = "shell" /\ watch.pc = "read"
  /\ Drawn
  /\ IF drawn = ShellOffer THEN dialog' = Blank /\ UNCHANGED watch
     ELSE Goto("launch") /\ UNCHANGED dialog
  /\ UNCHANGED <<host, todo, drawn, asked, told, choices, missed, hands>>

\* The command is typed into the shell: one that still asks something takes it for the answer.
Launch ==
  /\ watch.pc = "launch"
  /\ IF dialog = ShellOffer
       THEN Goto("failed") /\ missed' = TRUE /\ UNCHANGED <<todo, dialog>>
       ELSE /\ watch' = Watch("start", "status") /\ UNCHANGED missed
            /\ Leaves(Blank)
  /\ UNCHANGED <<host, drawn, asked, told, choices, hands, slow>>

Fails ==
  /\ Goto("failed")
  /\ UNCHANGED <<host, todo, dialog, drawn, asked, told, pressGhost>>

\* Herdr refuses, or the native host does not come up.
LaunchFails == watch.pc = "launch" /\ Fails

----------------------------------------------------------------------------
(* One poll of settle, start_native, send_first_prompt, drive and poll_unclassified. *)

\* What Herdr calls the agent; while it starts, a menu may be called idle.
Statuses ==
  IF host = "native" THEN {"unknown"}
  ELSE CASE AtWork -> {"working"}
         [] Ready  -> {"idle"}
         [] OTHER  -> IF watch.stage = "start" /\ dialog.at # 0 THEN {"blocked", "idle"} ELSE {"blocked"}

\* Mistake: a screen is read whether it stands still or moves.
ReadsMoving == TRUE
\* Stillness: an agent at work redraws, so what stands for STILL_POLLS is not its output.
Stands == ~AtWork /\ drawn = dialog
\* What is acted on: while it works, an agent that is blocked or, unclassified, stands still.
Attends(status) ==
  CASE status = "working" -> FALSE
    [] watch.stage # "work" -> TRUE
    [] OTHER -> IF host = "native" THEN Stands ELSE status = "blocked"

\* watch.reset; an agent that merely moved keeps its counts (restart_clock).
Resets(w) == [w EXCEPT !.since = FALSE, !.presses = IF host = "native" /\ w.stage = "work" THEN @ ELSE NoPresses]

\* An agent at work that is not attended to was dealt with in the pane: notices are withdrawn.
ReadStatus ==
  /\ watch.pc = "status"
  /\ \E s \in Statuses :
        IF Attends(s)
          THEN /\ watch' = [watch EXCEPT !.status = s, !.pc = "screen"]
               /\ UNCHANGED asked
          ELSE /\ watch' = [Resets(watch) EXCEPT !.blocked = FALSE]
               /\ asked' = (asked /\ ~(watch.stage = "work" /\ watch.blocked))
  /\ UNCHANGED <<host, todo, dialog, drawn, told, pressGhost>>

\* resolve reads the screen and classifies it
ReadScreen ==
  /\ watch.pc = "screen"
  /\ Drawn
  /\ watch' = [watch EXCEPT !.seen = drawn, !.pc = Classify(drawn).act]
  /\ UNCHANGED <<host, todo, dialog, drawn, asked, told, choices, missed, hands>>

\* The keys go to whatever is there by now; a screen need not react to them.
PressKeys ==
  LET keys   == Classify(watch.seen).keys
      choice == Chosen(dialog, keys)
  IN  /\ watch.pc = "resolve"
      /\ choices' = choices \cup {[kind |-> dialog.kind, choice |-> choice,
                     own |-> Says(dialog, IF dialog.kind = "box" THEN "own box" ELSE "own folder")]}
      /\ missed' = (missed \/ dialog # watch.seen)
      /\ (choice # "typed" /\ Leaves(dialog)) \/ UNCHANGED <<todo, dialog>>
      /\ watch' = [watch EXCEPT !.pc = "count", !.blocked = FALSE]
      /\ asked' = (asked /\ ~(watch.stage = "work" /\ (watch.blocked \/ host = "herdr")))
      /\ UNCHANGED <<host, drawn, told, hands, slow>>

\* ScreenWatch::pressed, after the press
MayPress(n) == n <= PressLimit

CountPress ==
  LET rule == Classify(watch.seen).rule IN
  /\ watch.pc = "count"
  /\ watch' = [watch EXCEPT !.pc = IF MayPress(watch.presses[rule] + 1) THEN "status" ELSE "failed",
                            !.presses[rule] = @ + 1]
  /\ UNCHANGED <<host, todo, dialog, drawn, asked, told, pressGhost>>

\* Once per standing screen the owner is told; the runner waits from the first such poll on.
Tells == IF watch.blocked THEN UNCHANGED <<asked, told>> ELSE asked' = TRUE /\ told' = TRUE
\* Mistake: every poll starts the clock anew.
StartsAnew(b) == watch' = [watch EXCEPT !.blocked = b, !.since = TRUE, !.pc = "status"]
Waits(b) ==
  watch' = [watch EXCEPT !.blocked = b, !.since = TRUE,
                         !.pc = IF watch.since THEN "stuck" ELSE IF watch.stage = "prompt" THEN "prompt" ELSE "status"]

\* A menu no rule answers
MeetsUnknown ==
  /\ watch.pc = "unknown"
  /\ IF watch.stage = "prompt" THEN UNCHANGED <<asked, told>> ELSE Tells
  /\ Waits(watch.stage # "prompt")
  /\ UNCHANGED <<host, todo, dialog, drawn, pressGhost>>

\* Herdr says blocked, and the screen shows no menu: while it starts, nobody is told.
MeetsBlocked ==
  /\ watch.pc = "clear" /\ watch.status = "blocked" /\ watch.stage # "prompt"
  /\ IF watch.stage = "start" THEN UNCHANGED <<asked, told>> ELSE Tells
  /\ Waits(watch.blocked \/ watch.stage = "work")
  /\ UNCHANGED <<host, todo, dialog, drawn, pressGhost>>

\* An editor nothing stands over: the notices of a start are withdrawn, those of a native one stay.
MeetsReady ==
  /\ watch.pc = "clear" /\ watch.stage = "start" /\ watch.status # "blocked"
  /\ watch.status = "idle" \/ Ready
  /\ asked' = (asked /\ host = "native")
  /\ watch' = Watch("prompt", "prompt")
  /\ UNCHANGED <<host, todo, dialog, drawn, told, pressGhost>>

\* A native agent that starts with neither a dialog nor its editor: the owner hears of it in time.
MeetsNothing ==
  /\ watch.pc = "clear" /\ watch.stage = "start" /\ watch.status = "unknown" /\ ~Ready
  /\ Tells
  /\ watch' = [Resets(watch) EXCEPT !.blocked = TRUE, !.pc = "status"]
  /\ UNCHANGED <<host, todo, dialog, drawn, pressGhost>>

\* Nothing stands over the prompt that was refused, or over an unclassified agent at work.
GoesOn ==
  /\ watch.pc = "clear"
  /\ watch.stage = "prompt" \/ (watch.stage = "work" /\ watch.status = "unknown")
  /\ watch' = [Resets(watch) EXCEPT !.pc = IF watch.stage = "prompt" THEN "prompt" ELSE "status"]
  /\ UNCHANGED <<host, todo, dialog, drawn, asked, told, pressGhost>>

StillWaits ==
  /\ watch.pc = "stuck" /\ Goto("status")
  /\ UNCHANGED <<host, todo, dialog, drawn, asked, told, pressGhost>>

\* The screen has stood for SCREEN_DEADLINE.
ScreenDeadline == watch.pc = "stuck" /\ Fails

\* send_prompt is refused while something stands over the editor; then the screen is looked at.
FirstPrompt ==
  /\ watch.pc = "prompt"
  /\ IF Ready THEN /\ watch' = Watch("work", "status")
                   /\ dialog' \in Outputs
              ELSE Goto("status") /\ UNCHANGED dialog
  /\ UNCHANGED <<host, todo, drawn, asked, told, pressGhost>>

\* SHELL_READY has passed.
PromptRefused == watch.pc = "prompt" /\ ~Ready /\ Fails

ReportIsThere ==
  /\ watch.stage = "work" /\ watch.pc = "status" /\ AtWork
  /\ Goto("done")
  /\ UNCHANGED <<host, todo, dialog, drawn, asked, told, pressGhost>>

----------------------------------------------------------------------------
(* The agent and the owner. *)

StopsToAsk ==
  /\ watch.stage = "work" /\ ~Over /\ AtWork /\ todo # <<>>
  /\ dialog' = Head(todo) /\ todo' = Tail(todo)
  /\ UNCHANGED <<host, drawn, watch, asked, told, pressGhost>>

\* brgr input, or a key in the pane
OwnerInput ==
  /\ hands < MaxHands /\ hands' = hands + 1
  /\ watch.stage \in {"start", "prompt", "work"} /\ ~Over /\ ~Ready /\ ~AtWork
  /\ \/ Leaves(dialog)
     \/ \E at \in DOMAIN dialog.options : dialog' = [dialog EXCEPT !.at = at] /\ UNCHANGED todo
  /\ UNCHANGED <<host, drawn, watch, asked, told, choices, missed, slow>>

Runs ==
  \/ SettleShell \/ Launch \/ ReadStatus \/ ReadScreen \/ PressKeys \/ CountPress
  \/ MeetsUnknown \/ MeetsBlocked \/ MeetsReady \/ MeetsNothing \/ GoesOn \/ StillWaits \/ FirstPrompt
ScreenNext ==
  \/ Runs \/ LaunchFails \/ ScreenDeadline \/ PromptRefused \/ ReportIsThere
  \/ Redraw \/ StopsToAsk \/ OwnerInput

----------------------------------------------------------------------------
(* Properties. *)

ScreenTypeOK ==
  /\ host \in {"herdr", "native"} /\ {asked, told, missed} \subseteq BOOLEAN
  /\ dialog.at \in 0..Len(dialog.options) /\ drawn.at \in 0..Len(drawn.options)
  /\ watch.stage \in {"shell", "start", "prompt", "work"}
  /\ watch.pc \in {"read", "launch", "status", "screen", "clear", "resolve", "unknown", "count", "stuck",
                   "prompt", "failed", "done"}
  /\ \A r \in Rules : watch.presses[r] \in 0..(PressLimit + 1)
  /\ hands \in 0..MaxHands /\ slow \in 0..MaxSlow

\* Keys reach the screen they were chosen for, and no other: only the owner's own keys in between,
\* or an agent that draws later than REDRAW allows, can lead them elsewhere.
KeysReachTheirScreen == missed => hands > 0 \/ slow > 0

\* Left alone, brgr trusts the task's own folder and nothing else, remembers nothing, installs no
\* update, accepts no offer, and types nothing into an agent.
OnlySafeAnswers ==
  missed \/ hands > 0 \/ \A c \in choices :
     /\ c.choice = "yes" /\ c.kind \in {"menu trust", "box"} => c.own
     /\ c.choice \notin {"remember", "update", "no", "typed"}

\* A run that fails on a screen has told its owner of one before, except for what only Herdr calls
\* a block while the agent starts.
OwnerIsTold == watch.pc = "stuck" => told \/ watch.stage # "work"

\* A notice is outstanding only as long as the runner waits for the owner; a native start leaves
\* its notices behind.
NoticesAreWithdrawn ==
  asked => watch.blocked \/ watch.stage \in {"shell", "start"} \/ host = "native"

\* What brgr presses of its own accord is safe, and the owner hears of the rest.
ScreenInv ==
  ScreenTypeOK /\ KeysReachTheirScreen /\ OnlySafeAnswers /\ OwnerIsTold /\ NoticesAreWithdrawn

\* In the end no screen holds the run: it is answered, or the run has failed.  Only a native agent
\* that shows neither dialog nor editor is left to the task's own deadline.
ScreensHavePassed == Over \/ (host = "native" /\ Classify(dialog).act = "clear" /\ ~Ready /\ ~AtWork)
=============================================================================
