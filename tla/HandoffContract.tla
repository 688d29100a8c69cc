--------------------------- MODULE HandoffContract ---------------------------
(***************************************************************************)
(* What a handoff of an owner's head promises, without the steps that      *)
(* carry it out: the head moves one epoch at a time; at most one handoff   *)
(* is open; a handoff moves the head once, and only if nobody moved it     *)
(* since the handoff began; what replaces an open handoff replaces only    *)
(* one that has moved the head.                                            *)
(***************************************************************************)
EXTENDS Naturals

CONSTANTS Sessions, Keys, NoSession, NoKey

VARIABLES
    head,    \* the session that is the owner's head, or NoSession
    epoch,   \* how often the head has moved
    open,    \* the open handoff, or NoKey
    began,   \* the epoch at which it began, 0 if none is open
    used,    \* handoffs that were ever begun
    moved    \* handoffs that moved the head

vars == <<head, epoch, open, began, used, moved>>

Init ==
    /\ head = NoSession /\ epoch = 0
    /\ open = NoKey /\ began = 0
    /\ used = {} /\ moved = {}

MoveHead(s) ==
    /\ head # s
    /\ head' = s
    /\ epoch' = epoch + 1

\* `brgr bind`, and the first binding of an owner.
Bind(s) ==
    /\ MoveHead(s)
    /\ UNCHANGED <<open, began, used, moved>>

Begin(k) ==
    /\ open = NoKey /\ k \notin used
    /\ head # NoSession
    /\ open' = k /\ began' = epoch /\ used' = used \cup {k}
    /\ UNCHANGED <<head, epoch, moved>>

Move(k, s) ==
    /\ open = k /\ k \notin moved
    /\ began = epoch
    /\ MoveHead(s)
    /\ moved' = moved \cup {k}
    /\ UNCHANGED <<open, began, used>>

\* Takes the head without its consent, in one step.
Seize(k, s) ==
    /\ open = NoKey \/ (open \in moved /\ epoch = began + 1)
    /\ k \notin used
    /\ head # NoSession
    /\ MoveHead(s)
    /\ open' = k /\ began' = epoch
    /\ used' = used \cup {k} /\ moved' = moved \cup {k}

\* Retired after the move, aborted before it.
Close ==
    /\ open # NoKey
    /\ open' = NoKey /\ began' = 0
    /\ UNCHANGED <<head, epoch, used, moved>>

Next ==
    \/ \E s \in Sessions : Bind(s)
    \/ \E k \in Keys : Begin(k)
    \/ \E k \in Keys, s \in Sessions : Move(k, s) \/ Seize(k, s)
    \/ Close

Spec == Init /\ [][Next]_vars
=============================================================================
