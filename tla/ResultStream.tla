---------------------------- MODULE ResultStream ----------------------------
(***************************************************************************)
(* The answer in a worker's event stream.  While the worker runs, its      *)
(* output is reduced line by line to the events the answer can depend on   *)
(* (crates/brgr-runner/src/capture.rs); when it has ended, the answer and  *)
(* the model that gave it are looked for in what was kept (collect.rs).    *)
(* Nobody ever sees the whole stream, so the reduction must not change     *)
(* what would have been found in it.                                       *)
(***************************************************************************)
EXTENDS Naturals, Sequences, SequencesExt

CONSTANTS
    Lines,          \* lines a worker may write: records with a field `type`
    SemanticLimit,  \* result.max_bytes plus the slack for metadata
    TransportLimit, \* JSONL_TRANSPORT_LIMIT_BYTES
    Requests        \* models a task may ask for, "" for any

ASSUME StreamConstants ==
    /\ \A l \in Lines :
          /\ l = [type |-> l.type, text |-> l.text, error |-> l.error, model |-> l.model,
                  stop |-> l.stop, size |-> l.size]
          /\ l.size \in Nat
    /\ SemanticLimit \in Nat

VARIABLES
    kept,           \* what capture retained
    raw,            \* bytes read
    truncated,      \* a limit was reached: the run has failed
    closed,         \* the stream has ended
    requested,      \* RunRequest.model
    written         \* history: every line

streamVars == <<kept, raw, truncated, closed, requested, written>>

-----------------------------------------------------------------------------
(* capture.rs                                                                   *)

\* An error's text is cut, and stays told from no error.
Shortened(error) == IF error = "long error" THEN "error" ELSE error

\* Mistake: the end of a turn says nothing an answer depends on.
DropsTurns(line) == line.type \notin {"update", "turn_end"}

\* A line that is no JSON is kept as it is.
Matters(line) == line.type # "update"

Reduced(line) ==
    IF line.error = "long error" THEN [line EXCEPT !.error = Shortened(@), !.size = @ - 1] ELSE line

\* retained.len(): each line is kept with its end.
RetainedSize(lines) ==
    LET upTo[n \in 0..Len(lines)] == IF n = 0 THEN 0 ELSE upTo[n - 1] + lines[n].size + 1
    IN  upTo[Len(lines)]

\* Mistake: the line's end is not counted.
FitsWithoutEnd(line) == RetainedSize(kept) + Reduced(line).size <= SemanticLimit

Fits(line) == RetainedSize(kept) + Reduced(line).size + 1 <= SemanticLimit

StreamInit ==
    /\ kept = <<>> /\ raw = 0 /\ truncated = FALSE /\ closed = FALSE
    /\ requested \in Requests /\ written = <<>>

\* read_jsonl_semantic: a line is over a limit, is passed over, or is retained.
ReadLine ==
    /\ ~truncated /\ ~closed
    /\ \E line \in Lines :
          /\ written' = Append(written, line)
          /\ raw' = raw + line.size + 1
          /\ truncated' = \/ raw' > TransportLimit \/ line.size > SemanticLimit
                          \/ Matters(line) /\ ~Fits(line)
          /\ kept' = IF truncated' \/ ~Matters(line) THEN kept ELSE Append(kept, Reduced(line))
    /\ UNCHANGED <<closed, requested>>

StreamEnds ==
    /\ ~truncated /\ ~closed /\ closed' = TRUE
    /\ UNCHANGED <<kept, raw, truncated, requested, written>>

StreamNext == ReadLine \/ StreamEnds

-----------------------------------------------------------------------------
(* collect.rs, on any sequence of lines                                         *)

Garbled(lines) == \E i \in DOMAIN lines : lines[i].type = "garbled"
IsMessage(line) == line.type = "message_end"
Ends(lines) == {lines[i].stop : i \in {j \in DOMAIN lines : lines[j].type = "agent_end"}}
LastMessage(lines) == SelectLastInSeq(lines, IsMessage)

\* An end without a reason counts only after a turn of the assistant.
Ended(lines) ==
    \/ {"completed", "error"} \cap Ends(lines) # {}
    \/ "" \in Ends(lines) /\ \E i \in DOMAIN lines : lines[i].type = "turn_end"

\* extract_jsonl_assistant_final: the last message, unless the agent failed.
Answer(lines) ==
    LET last == LastMessage(lines)
        m    == lines[last]
    IN  CASE Garbled(lines) -> <<"refused", "json">>
          [] ~Garbled(lines) /\ ~Ended(lines) -> <<"refused", "no end">>
          [] ~Garbled(lines) /\ Ended(lines) /\ last = 0 -> <<"refused", "no text">>
          [] OTHER ->
               IF m.text # "" /\ "error" \notin Ends(lines) THEN <<"answer", m.text>>
               ELSE IF m.error # "" THEN <<"refused", Shortened(m.error)>>
               ELSE <<"refused", "no text">>

\* observe_jsonl_model: all messages name one model, and it is the one asked for.
Model(lines) ==
    LET said == {lines[i].model : i \in {j \in DOMAIN lines : IsMessage(lines[j])}}
        named == said \ {""}
    IN  IF \E a, b \in named : a # b THEN "mixed"
        ELSE IF "" \in said
             THEN IF requested # "" \/ named # {} THEN "unavailable" ELSE ""
        ELSE IF named = {} THEN IF requested # "" THEN "unavailable" ELSE ""
        ELSE LET m == CHOOSE x \in named : TRUE
             IN  IF requested \notin {"", m} THEN "mismatch" ELSE m

\* collect_result_with_model
Collected(lines) ==
    LET a == Answer(lines)
    IN  IF a[1] = "answer" THEN a \o <<Model(lines)>> ELSE a

-----------------------------------------------------------------------------
(* What is found in the reduced stream is what the whole stream says: the same   *)
(* answer of the same model, or the same reason for none.                        *)
NothingIsLostInCapture == closed => Collected(kept) = Collected(written)

(* A worker that writes without end is stopped: no more is ever kept than the    *)
(* limit allows, however small its lines are.                                    *)
CaptureIsBounded == RetainedSize(kept) <= SemanticLimit

StreamInv ==
    /\ raw \in Nat /\ {truncated, closed} \subseteq BOOLEAN /\ Len(kept) <= Len(written)
    /\ NothingIsLostInCapture /\ CaptureIsBounded
=============================================================================
