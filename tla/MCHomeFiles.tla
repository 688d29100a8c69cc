---------------------------- MODULE MCHomeFiles ----------------------------
(* Small instances of the files outside the database.                         *)
EXTENDS HomeFiles

CONSTANTS p1, p2, q1, q2

Message(text, error, model, size) ==
    [type |-> "message_end", text |-> text, error |-> error, model |-> model,
     stop |-> "-", size |-> size]
Event(type, stop, size) ==
    [type |-> type, text |-> "", error |-> "", model |-> "", stop |-> stop, size |-> size]

SomeLines ==
    { Message("a", "", "m1", 2), Message("a", "", "m2", 2), Message("b", "", "", 2),
      Message("", "long error", "m1", 3), Message("", "", "m1", 1),
      Event("agent_end", "completed", 1), Event("agent_end", "error", 1),
      Event("agent_end", "", 1), Event("agent_end", "other", 1),
      Event("turn_end", "-", 1), Event("garbled", "-", 1), Event("update", "-", 2) }

\* One error quotes the worker twice, the other one ends in a screen and has a colon
\* before it.
SomeErrors ==
    { <<"word", "id", "path", "last error event", "quoted", "last stderr", "quoted">>,
      <<"other", "label", "colon", "count", "secret", "unknown screen", "colon", "quoted">> }

TwoLines == {<<"mine">>, <<"mine | more">>}
Plain == {<<"mine">>}

Processes == Permutations({p1, p2}) \cup Permutations({q1, q2})
=============================================================================
