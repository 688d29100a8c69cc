----------------------------- MODULE ErrorMemo -----------------------------
(***************************************************************************)
(* The failures brgr has seen (crates/brgr-cli/src/error_memo.rs): every   *)
(* failed or lost run is counted in a ledger under the class of its error, *)
(* and a filer, started behind the back of the run, files one GitHub issue *)
(* per class.  Recorders and filers are processes of their own; the two    *)
(* locks are flocks, which go with their process.  GitHub is outside: a    *)
(* call may fail before or after it took effect, and an issue that was     *)
(* just made is not found at once.                                         *)
(*                                                                         *)
(* An error is a sequence of pieces, by kind: what a run may quote, where  *)
(* quotes begin, and what varies from run to run.                          *)
(***************************************************************************)
EXTENDS Integers, Sequences, FiniteSets, SequencesExt

CONSTANTS
    Errors,          \* errors runs end with: sequences of pieces
    Recorders,       \* processes that end a run
    Filers,          \* processes `brgr errors file`
    MaxFailures,     \* bound: failures altogether
    MinCount,        \* issues.min_count
    Milestones,      \* COMMENT_AT
    MaxDeaths,       \* bound: processes that are killed
    NoProcess

VARIABLES
    ledger,          \* error-ledger.json: class -> entry
    memo,            \* brgr_error_issue_memo.md: the ledger it was written from
    recorder,        \* what each recorder is doing
    filer,           \* what each filer is doing
    ledgerLock,      \* error-ledger.lock
    reportLock,      \* error-report.lock
    reporting,       \* issues.auto_file
    github,          \* class -> issues made and found, comments
    published,       \* kinds of pieces that left the machine
    \* history
    seen,            \* runs that ended failed or lost
    failures,        \* class -> failures that were recorded
    unsure,          \* classes whose call took effect and whose answer was lost
    deaths

files == <<ledger, memo>>
ghost == <<seen, failures, unsure, deaths>>
memoVars == <<ledger, memo, recorder, filer, ledgerLock, reportLock, reporting,
              github, published, ghost>>

-----------------------------------------------------------------------------
(* What becomes of an error's text.                                            *)

\* Where a quote of the worker's output or screen begins.
Quotes == {"progress", "last screen", "last stderr", "last error event"}

\* The first piece of one of the kinds, or nowhere.
FirstOf(e, kinds) == SelectInSeq(e, LAMBDA p : p \in kinds)

\* Mistake: the stderr quote is looked for first.
CutAtStderr(e) ==
    LET at == FirstOf(e, {"last stderr"})
    IN  IF at # 0 THEN SubSeq(e, 1, at - 1)
        ELSE LET any == FirstOf(e, Quotes)
             IN  IF any = 0 THEN e ELSE SubSeq(e, 1, any - 1)

\* Whichever quote comes first: a quote may hold the marker of another one.
BeforeQuotes(e) ==
    LET at == FirstOf(e, Quotes)
    IN  IF at = 0 THEN e ELSE SubSeq(e, 1, at - 1)

\* The reason a screen is unknown stays; what follows the colon after it is the screen.
WithoutFreeText(e) ==
    LET cut    == BeforeQuotes(e)
        screen == FirstOf(cut, {"unknown screen"})
        end    == SelectInSubSeq(cut, screen, Len(cut), LAMBDA p : p = "colon")
    IN  IF screen = 0 \/ end = 0 THEN cut ELSE SubSeq(cut, 1, end - 1)

\* The pane's name begins with the task's own words; every occurrence goes.
Unlabelled(e) == [i \in DOMAIN e |-> IF e[i] = "label" THEN "<pane-name>" ELSE e[i]]

Mask(e, kinds) == [i \in DOMAIN e |-> IF e[i] \in kinds THEN "<masked>" ELSE e[i]]

\* mask_piece: ids, what looks like a token, addresses; whatever else a piece is, it stays.
MaskedSecrets == {"id", "secret", "email"}

\* What must not leave the machine.
Redact(e) == Mask(WithoutFreeText(e), {"path"} \cup MaskedSecrets)

\* What varies from run to run is masked, so that a failure keeps its class.
Classify(e) ==
    LET bar  == FirstOf(e, {"bar"})
        head == IF bar = 0 THEN e ELSE SubSeq(e, 1, bar - 1)
    IN  Mask(WithoutFreeText(head), {"path", "id", "pane", "hex", "count"})

ClassOf(e) == Classify(Unlabelled(e))
SampleOf(e) == Redact(Unlabelled(e))
Classes == {ClassOf(e) : e \in Errors}

\* An error begins with brgr's own words, and it quotes a worker or a screen only behind
\* a marker; a least count of 0 is refused (validate_issue_reporting).
ASSUME MemoConstants ==
    /\ \A e \in Errors :
          /\ e \in Seq(STRING) /\ e # <<>> /\ e[1] \notin Quotes
          /\ \A i \in DOMAIN e : e[i] = "quoted" =>
                \E j \in 1..(i - 1) :
                   \/ e[j] \in Quotes
                   \/ e[j] = "colon" /\ \E k \in 1..j : e[k] = "unknown screen"
    /\ MinCount \in Nat \ {0} /\ Milestones \subseteq Nat /\ IsFiniteSet(Milestones)
    /\ MaxDeaths \in Nat /\ NoProcess \notin Filers

\* issue_text: the class and the sample, and nothing else of the run.
IssueText(c, entry) == ToSet(Redact(c)) \cup ToSet(entry.sample)

-----------------------------------------------------------------------------
NoEntry == [count |-> 0, sample |-> <<>>, url |-> FALSE, commented |-> 0]
Idle == [step |-> "idle", error |-> <<>>]
Off == [step |-> "off", copy |-> [c \in Classes |-> NoEntry], todo |-> {}, at |-> <<>>]

MemoTypeOK ==
    /\ \A c \in Classes :
          /\ ledger[c].count \in Nat /\ ledger[c].url \in BOOLEAN
          /\ ledger[c].commented \in 0..ledger[c].count
          /\ ledger[c].url \/ ledger[c].count > 0 => ledger[c].sample # <<>>
          /\ github[c].issues \in 0..2 /\ github[c].found \in BOOLEAN /\ github[c].comments \in Nat
    /\ \A r \in Recorders :
          /\ recorder[r].step \in {"idle", "lock", "memo", "spawn"}
    /\ \A f \in Filers :
          filer[f].step \in {"off", "spawned", "load", "call", "create", "merge", "memo"}
    /\ ledgerLock \in Recorders \cup Filers \cup {NoProcess}
    /\ reportLock \in Filers \cup {NoProcess}
    /\ reporting \in BOOLEAN /\ unsure \subseteq Classes /\ deaths \in 0..MaxDeaths

MemoInit ==
    /\ ledger = [c \in Classes |-> NoEntry] /\ memo = ledger
    /\ recorder = [r \in Recorders |-> Idle]
    /\ filer = [f \in Filers |-> Off]
    /\ ledgerLock = NoProcess /\ reportLock = NoProcess
    /\ reporting \in BOOLEAN
    /\ github = [c \in Classes |-> [issues |-> 0, found |-> FALSE, comments |-> 0]]
    /\ published = {}
    /\ seen = 0 /\ failures = [c \in Classes |-> 0] /\ unsure = {} /\ deaths = 0

-----------------------------------------------------------------------------
(* record_inner *)

\* A run ends failed or lost.
Fail(r) ==
    /\ recorder[r].step = "idle" /\ seen < MaxFailures
    /\ seen' = seen + 1
    /\ \E e \in Errors : recorder' = [recorder EXCEPT ![r] = [step |-> "lock", error |-> e]]
    /\ UNCHANGED <<files, filer, ledgerLock, reportLock, reporting, github, published, failures, unsure, deaths>>

\* One more of its class; the sample is that of the first.
Counted(entry, e) ==
    [entry EXCEPT !.count = @ + 1, !.sample = IF entry.count = 0 THEN SampleOf(e) ELSE @]

CountFailure(r) ==
    /\ recorder[r].step = "lock" /\ ledgerLock = NoProcess
    /\ ledgerLock' = r
    /\ LET c == ClassOf(recorder[r].error)
       IN  /\ ledger' = [ledger EXCEPT ![c] = Counted(@, recorder[r].error)]
           /\ failures' = [failures EXCEPT ![c] = @ + 1]
    /\ recorder' = [recorder EXCEPT ![r].step = "memo"]
    /\ UNCHANGED <<memo, filer, reportLock, reporting, github, published, seen, unsure, deaths>>

WriteMemo(r) ==
    /\ recorder[r].step = "memo"
    /\ memo' = ledger /\ ledgerLock' = NoProcess
    /\ recorder' = [recorder EXCEPT ![r] = [step |-> "spawn", error |-> <<>>]]
    /\ UNCHANGED <<ledger, filer, reportLock, reporting, github, published, ghost>>

\* The filer is started if reporting is on; that it could not be is nobody's loss.
SpawnFiler(r) ==
    /\ recorder[r].step = "spawn"
    /\ recorder' = [recorder EXCEPT ![r] = Idle]
    /\ \/ UNCHANGED filer
       \/ /\ reporting
          /\ \E f \in Filers :
                filer[f].step = "off" /\ filer' = [filer EXCEPT ![f].step = "spawned"]
    /\ UNCHANGED <<files, ledgerLock, reportLock, reporting, github, published, ghost>>

-----------------------------------------------------------------------------
(* file_issues *)

FStep(f, s) == filer' = [filer EXCEPT ![f].step = s]

\* Mistake: the report lock is opened and not taken.
MayFileAnyway == TRUE

MayFile == reportLock = NoProcess

\* A filer that finds another one at work leaves.
TakeReportLock(f) ==
    /\ filer[f].step = "spawned"
    /\ IF reporting /\ MayFile
       THEN reportLock' = f /\ FStep(f, "load")
       ELSE filer' = [filer EXCEPT ![f] = Off] /\ UNCHANGED reportLock
    /\ UNCHANGED <<files, recorder, ledgerLock, reporting, github, published, ghost>>

ToFile(entry) == ~entry.url /\ entry.count >= MinCount
ToComment(entry) ==
    entry.url /\ \E m \in Milestones : entry.count >= m /\ entry.commented < m

\* Read without the ledger's lock: the file is replaced as a whole.
LoadLedger(f) ==
    /\ filer[f].step = "load"
    /\ filer' = [filer EXCEPT ![f] = [step |-> "call", copy |-> ledger, at |-> <<>>,
                    todo |-> {c \in Classes : ToFile(ledger[c]) \/ ToComment(ledger[c])}]]
    /\ UNCHANGED <<files, recorder, ledgerLock, reportLock, reporting, github, published, ghost>>

FiledEntry(entry) == [entry EXCEPT !.url = TRUE, !.commented = entry.count]
Filed(f, c) ==
    filer' = [filer EXCEPT ![f].step = "call", ![f].todo = @ \ {c}, ![f].copy[c] = FiledEntry(@)]
\* A call that fails must not drop the answers of the others.
Skipped(f, c) == filer' = [filer EXCEPT ![f].step = "call", ![f].todo = @ \ {c}]

\* gh is not there, refuses, or takes the call and then loses the answer.
GhFails(f, c, took) ==
    /\ Skipped(f, c)
    /\ unsure' = IF took THEN unsure \cup {c} ELSE unsure

\* find_or_create: an issue that carries the class's marker is taken for its own.
Search(f) ==
    /\ filer[f].step = "call"
    /\ \E c \in filer[f].todo :
          /\ ToFile(filer[f].copy[c])
          /\ \/ github[c].found /\ Filed(f, c) /\ UNCHANGED unsure
             \/ /\ ~github[c].found /\ UNCHANGED unsure
                /\ filer' = [filer EXCEPT ![f].step = "create", ![f].at = c]
             \/ GhFails(f, c, FALSE)
    /\ UNCHANGED <<files, recorder, ledgerLock, reportLock, reporting, github, published, seen, failures, deaths>>

Create(f) ==
    LET c == filer[f].at
    IN  /\ filer[f].step = "create"
        /\ \/ /\ github[c].issues < 2
              /\ github' = [github EXCEPT ![c].issues = @ + 1]
              /\ published' = published \cup IssueText(c, filer[f].copy[c])
              /\ \/ Filed(f, c) /\ UNCHANGED unsure
                 \/ GhFails(f, c, TRUE)                  \* made, and no address came back
           \/ GhFails(f, c, FALSE) /\ UNCHANGED <<github, published>>
        /\ UNCHANGED <<files, recorder, ledgerLock, reportLock, reporting, seen, failures, deaths>>

Comment(f) ==
    /\ filer[f].step = "call"
    /\ \E c \in filer[f].todo :
          /\ ToComment(filer[f].copy[c])
          /\ \/ /\ github' = [github EXCEPT ![c].comments = @ + 1]
                /\ \/ Filed(f, c) /\ UNCHANGED unsure
                   \/ GhFails(f, c, TRUE)
             \/ GhFails(f, c, FALSE) /\ UNCHANGED github
    /\ UNCHANGED <<files, recorder, ledgerLock, reportLock, reporting, published, seen, failures, deaths>>

\* Mistake: the filer saves the ledger it read.
SavesItsCopy(latest, copy) == copy

\* Counts recorded meanwhile are kept.
Merged(latest, copy) ==
    [c \in Classes |-> [latest[c] EXCEPT !.url = copy[c].url, !.commented = copy[c].commented]]

MergeLedger(f) ==
    /\ filer[f].step = "call" /\ filer[f].todo = {} /\ ledgerLock = NoProcess
    /\ ledgerLock' = f
    /\ ledger' = Merged(ledger, filer[f].copy)
    /\ FStep(f, "memo")
    /\ UNCHANGED <<memo, recorder, reportLock, reporting, github, published, ghost>>

LeaveFiler(f) ==
    /\ filer[f].step = "memo"
    /\ memo' = ledger
    /\ ledgerLock' = NoProcess /\ reportLock' = IF reportLock = f THEN NoProcess ELSE reportLock
    /\ filer' = [filer EXCEPT ![f] = Off]
    /\ UNCHANGED <<ledger, recorder, reporting, github, published, ghost>>

-----------------------------------------------------------------------------
(* GitHub, the owner, and processes that are killed.                           *)

\* The search index catches up.
IssueIsFound ==
    /\ \E c \in Classes :
          /\ github[c].issues > 0 /\ ~github[c].found
          /\ github' = [github EXCEPT ![c].found = TRUE]
    /\ UNCHANGED <<files, recorder, filer, ledgerLock, reportLock, reporting, published, ghost>>

SwitchReportingOff ==
    /\ reporting /\ reporting' = FALSE
    /\ UNCHANGED <<files, recorder, filer, ledgerLock, reportLock, github, published, ghost>>

Released(lock, p) == IF lock = p THEN NoProcess ELSE lock

RecorderDies(r) ==
    /\ recorder[r].step # "idle" /\ deaths < MaxDeaths
    /\ recorder' = [recorder EXCEPT ![r] = Idle]
    /\ ledgerLock' = Released(ledgerLock, r) /\ deaths' = deaths + 1
    /\ UNCHANGED <<files, filer, reportLock, reporting, github, published, seen, failures, unsure>>

\* What it learned from GitHub and had not saved is lost.
FilerDies(f) ==
    /\ filer[f].step # "off" /\ deaths < MaxDeaths
    /\ unsure' = unsure \cup {c \in Classes : filer[f].copy[c].commented > ledger[c].commented}
    /\ filer' = [filer EXCEPT ![f] = Off]
    /\ ledgerLock' = Released(ledgerLock, f) /\ reportLock' = Released(reportLock, f)
    /\ deaths' = deaths + 1
    /\ UNCHANGED <<files, recorder, reporting, github, published, seen, failures>>

MemoNext ==
    \/ \E r \in Recorders : Fail(r) \/ CountFailure(r) \/ WriteMemo(r) \/ SpawnFiler(r) \/ RecorderDies(r)
    \/ \E f \in Filers :
          \/ TakeReportLock(f) \/ LoadLedger(f) \/ Search(f) \/ Create(f) \/ Comment(f)
          \/ MergeLedger(f) \/ LeaveFiler(f) \/ FilerDies(f)
    \/ IssueIsFound \/ SwitchReportingOff

-----------------------------------------------------------------------------
(* No failure is forgotten: what a filer brings back never takes away what       *)
(* other runs recorded while it was talking to GitHub.                           *)
CountsAreKept == \A c \in Classes : ledger[c].count = failures[c]

(* A failure has one issue, unless GitHub's answer was lost: filers exclude each *)
(* other from the reading of the ledger to the merge.                            *)
OneIssuePerFailure ==
    \A c \in Classes : github[c].issues > 1 => c \in unsure

(* An issue hears of a failure again once per milestone, not at every failure.   *)
CommentsAtMilestones ==
    \A c \in Classes :
        c \in unsure \/ github[c].comments <= Cardinality({m \in Milestones : m <= failures[c]})

(* Issues hold the redacted class and sample only: no path, id, secret, address, *)
(* pane name, and nothing a worker or a screen was quoted with.                  *)
NothingPrivateLeaves ==
    published \cap {"path", "id", "secret", "email", "label", "quoted"} = {}

(* The ledger is complete, and what goes out of it goes once and redacted.       *)
MemoInv ==
    MemoTypeOK /\ CountsAreKept /\ OneIssuePerFailure /\ CommentsAtMilestones /\ NothingPrivateLeaves
=============================================================================
