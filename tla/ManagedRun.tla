----------------------------- MODULE ManagedRun -----------------------------
(***************************************************************************)
(* What a managed task promises its owner, without attempts, supervisors,  *)
(* recovery or files: each admitted revision reports a bounded number of   *)
(* results, only a failure can be followed by another result, a candidate  *)
(* is decided once, and a new revision replaces only a rejected candidate, *)
(* a failure or a lost run.                                                *)
(***************************************************************************)
EXTENDS Naturals

CONSTANTS MaxRevisions, MaxAttempts

Revisions == 1..MaxRevisions
Outcomes  == {"candidate", "failed", "cancelled", "lost"}

VARIABLES admitted,   \* revisions 1..admitted exist
          latest,     \* latest[r]: outcome of r's latest result, or "none"
          results,    \* results[r]: number of results r has reported
          decision    \* decision[r]: the owner's verdict on the latest result

contract == <<admitted, latest, results, decision>>

Init == /\ admitted = 0
        /\ latest = [r \in Revisions |-> "none"]
        /\ results = [r \in Revisions |-> 0]
        /\ decision = [r \in Revisions |-> "none"]

Replaceable(r) == \/ latest[r] = "candidate" /\ decision[r] = "rejected"
                  \/ latest[r] \in {"failed", "lost"}

Admit == /\ admitted < MaxRevisions
         /\ admitted > 0 => Replaceable(admitted)
         /\ admitted' = admitted + 1
         /\ UNCHANGED <<latest, results, decision>>

Report(r, o) == /\ r <= admitted
                /\ results[r] < MaxAttempts
                /\ latest[r] \in {"none", "failed"}
                /\ latest' = [latest EXCEPT ![r] = o]
                /\ results' = [results EXCEPT ![r] = @ + 1]
                /\ UNCHANGED <<admitted, decision>>

Decide(r, v) == /\ latest[r] = "candidate"
                /\ decision[r] = "none"
                /\ decision' = [decision EXCEPT ![r] = v]
                /\ UNCHANGED <<admitted, latest, results>>

Next == \/ Admit
        \/ \E r \in Revisions : \/ \E o \in Outcomes : Report(r, o)
                                \/ \E v \in {"accepted", "rejected"} : Decide(r, v)

Spec == Init /\ [][Next]_contract
=============================================================================
