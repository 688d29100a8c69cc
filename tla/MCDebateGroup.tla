---------------------------- MODULE MCDebateGroup ----------------------------
EXTENDS DebateGroup, TLC
CONSTANTS a, b, q, r, session, runner
\* a asks b, b answers
AskAndAnswer ==
  q :> [from |-> a, to |-> b, answers |-> None] @@ r :> [from |-> b, to |-> a, answers |-> q]
AllScenes ==
  {<<{"pane", "crash", "restart", "revise"}, {}>>, <<{"pane", "stop", "wait"}, {q}>>,
   <<{"pane", "wait", "revise"}, {}>>, <<{"pane", "runner", "crash"}, {q}>>,
   <<{"pane", "runner", "wait"}, {}>>, <<{"pane", "runner", "revise"}, {}>>,
   <<{"revise", "stop"}, {q, r}>>, <<{"revise", "restart"}, {q}>>, <<{"wait", "revise", "stop"}, {q}>>,
   <<{"wait", "restart"}, {q, r}>>}
=============================================================================
