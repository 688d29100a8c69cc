---------------------------- MODULE MCWorkflowRun ----------------------------
EXTENDS WorkflowRun, TLC
CONSTANTS d1, d2, a, b
OneRetry == a :> 1 @@ b :> 0
FirstOfA == {<<a, 1>>}
EachFirst == {<<a, 1>>, <<b, 1>>}
AllScenes ==
  {<<{"crash", "resume", "deadline"}, {a}, 1>>, <<{"crash", "resume", "revise"}, {a}, 2>>,
   <<{"crash", "resume", "question"}, {a}, 1>>, <<{"crash", "resume", "cancel"}, {a}, 1>>,
   <<{"resume", "hand"}, {a}, 1>>,
   <<{"crash", "resume"}, {a, b}, 1>>, <<{"resume", "cancel"}, {a, b}, 1>>,
   <<{"cancel", "revise"}, {a, b}, 1>>, <<{"question", "hand"}, {a, b}, 1>>, <<{"revise", "deadline"}, {a, b}, 1>>}
=============================================================================
