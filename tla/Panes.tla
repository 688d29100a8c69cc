-------------------------------- MODULE Panes --------------------------------
(***************************************************************************)
(* Workers in Herdr panes: how a run lives through the loss of any of its  *)
(* processes (PaneRun), how the runner gets the agent past the screens     *)
(* that stop it (PaneScreens), and the panes another launcher opens        *)
(* (OmpPane).  PaneRun knows of a screen only that it is there, and the    *)
(* other launcher's panes have a receipt of their own; they share nothing  *)
(* else, so one behaviour is about one of the three.                       *)
(***************************************************************************)
EXTENDS PaneRun, PaneScreens, OmpPane

VARIABLE subject     \* what this behaviour is about

panesVars == <<subject, vars, screenVars, ompVars>>

\* The parts a behaviour is not about: a run that ended without a pane, a runner that is done, a
\* task that was settled and whose pane is closed.
RunIsOver ==
  /\ scene = {}
  /\ attempt = [state |-> "failed", bytes |-> 0, why |-> "none"]
  /\ settled = FALSE /\ cancel = FALSE /\ late = FALSE
  /\ pane = "none" /\ agent = [at |-> "none", sealing |-> 0]
  /\ report = 0 /\ archive = 0 /\ hook = "own"
  /\ receipt = [made |-> FALSE, cleanup |-> "none", digest |-> 0, fin |-> "no",
                archived |-> FALSE, refused |-> FALSE]
  /\ sup = "done" /\ runner = [pc |-> "err", bytes |-> 0, reminded |-> FALSE, presses |-> 0]
  /\ helper = [h \in Helpers |-> Idle] /\ lock = Free
RunnerIsDone ==
  /\ host = "herdr" /\ todo = <<>> /\ dialog = Editor /\ drawn = Editor
  /\ watch = Watch("work", "done")
  /\ asked = FALSE /\ told = FALSE /\ choices = {} /\ missed = FALSE /\ hands = 0 /\ slow = 0

PaneIsClosed ==
  /\ task = <<DealtWith, NotAdmitted>> /\ revises = FALSE /\ moves = MaxMoves
  /\ child = <<[NoChild EXCEPT !.at = "gone"], NoChild>> /\ written = <<"nobody", "nobody">>
  /\ wrapper = <<"ended", "none">> /\ note = [of |-> 1, state |-> "closed", result |-> 1]
  /\ keeps = FALSE /\ act = [c \in OmpCommands |-> NoCommand]
  /\ shut = <<"settled", "no">> /\ harm = {}

PanesInit ==
  \/ subject = "run" /\ Init /\ RunnerIsDone /\ PaneIsClosed
  \/ subject = "screens" /\ ScreenInit /\ RunIsOver /\ PaneIsClosed
  \/ subject = "omp" /\ OmpInit /\ RunIsOver /\ RunnerIsDone

InRun(A) == subject = "run" /\ A /\ UNCHANGED <<screenVars, ompVars>>
InScreens(A) == subject = "screens" /\ A /\ UNCHANGED <<vars, ompVars>>
InOmp(A) == subject = "omp" /\ A /\ UNCHANGED <<vars, screenVars>>

PanesNext ==
  /\ UNCHANGED subject
  /\ InRun(Next) \/ InScreens(ScreenNext) \/ InOmp(OmpNext)

parts == <<vars, screenVars, ompVars>>
\* Every process goes on unless it is killed; the deadlines come; brgr is used; a runner polls and
\* the agent draws; an agent at work gets done.
PanesSpec ==
  /\ PanesInit /\ [][PanesNext]_panesVars
  /\ WF_parts(InRun(Runner \/ Conclude \/ CloseLeftover) \/ InScreens(Runs))
  /\ WF_parts(InRun(Agent) \/ InScreens(Redraw))
  /\ WF_vars(subject = "run" /\ (Deadline \/ HerdrIsBack))
  /\ \A h \in Helpers : WF_vars(subject = "run" /\ Reconcile(h))
  /\ SF_screenVars(subject = "screens" /\ (ScreenDeadline \/ PromptRefused \/ ReportIsThere))
  /\ \A c \in OmpCommands : WF_ompVars(subject = "omp" /\ CommandWorks(c))
  /\ \A c \in Reconcilers : WF_ompVars(subject = "omp" /\ Reconciles(c))

----------------------------------------------------------------------------
\* What is on a screen stays there as long as somebody needs it: no pane is closed before what its
\* agent left is read (UnreadPaneStays), or before its result is settled and unless it is the very
\* agent's (OmpInv).
PanesStay == UnreadPaneStays /\ OmpInv

\* Nothing is left open for ever: neither the run nor, once it is dealt with, its pane, nor a screen
\* that stops the agent.  The owner may settle a result late, so it holds again and again.
NothingIsLeftOpen ==
  []<>(RunHasEnded /\ PaneReclaimed /\ ScreensHavePassed /\ EligibleIsClosed)
=============================================================================
