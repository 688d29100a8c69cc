----------------------------- MODULE WorkerPatch -----------------------------
(***************************************************************************)
(* The patch a result is sealed with (crates/brgr-core/src/git_diff.rs,    *)
(* evidence.rs, git_stash.rs).  It is what the worktree holds against the  *)
(* task's base, new files included, so a throwaway copy of the worker's    *)
(* index is made, new files are entered into the copy, and git compares    *)
(* base and worktree by it.  Each git command is bounded in time and       *)
(* output.  What the worker left running may go on changing the worktree.  *)
(*                                                                         *)
(* Git reads a file again only if its index entry may be stale: the entry  *)
(* notes size and time of the file, and is trusted when both are the same  *)
(* and the time is older than the index itself.                            *)
(***************************************************************************)
EXTENDS Integers, FiniteSets

CONSTANTS
    WorkFiles,       \* paths of the worktree
    BaseFiles,       \* those in the base tree
    IgnoredFiles,    \* those .gitignore names
    AskedFiles,      \* requested evidence files
    MaxNow,          \* bound: ticks of the file system's clock
    MaxWork          \* bound: what the worker and its leftovers do

ASSUME PatchConstants == WorkFiles # {} /\ MaxNow \in Nat \ {0}

VARIABLES
    tree,            \* the worktree: each file's text and time
    workIndex,       \* the worker's index
    clock,           \* the file system's time
    stash,           \* its entries of this branch, and of a detached HEAD
    copy,            \* the throwaway index
    seal,            \* the sealing: step, verdict on the run, what it has read
    git,             \* the git command under way
    late,            \* the deadline has passed
    \* history
    work,            \* how much was done
    had,             \* the texts of each file since the sealing began
    begun,           \* the stash when it began
    raced            \* the worker's index was replaced while it was copied

patchVars == <<tree, workIndex, clock, stash, copy, seal, git, late, work, had, begun, raced>>
leftoverVars == <<tree, workIndex, clock, stash, work, had, begun, raced>>

\* "edit" has the size of "base".
Texts == {"none", "base", "edit", "long"}
SizeOf(text) == CASE text \in {"base", "edit"} -> 1 [] text = "long" -> 2 [] OTHER -> 0
Noted(text, time) == [text |-> text, time |-> time]
NotInIndex == Noted("none", 0)
IntentToAdd == Noted("intent", 0)
Smudged(entry) == [entry EXCEPT !.text = "smudged"]

FromBase(f) == IF f \in BaseFiles THEN Noted("base", 0) ELSE NotInIndex
Unread == [f \in WorkFiles |-> "unread"]
NoGit == [at |-> "none", cut |-> FALSE, ok |-> TRUE]

PatchInit ==
    /\ tree = [f \in WorkFiles |-> FromBase(f)]
    /\ clock \in 0..1
    /\ workIndex = [entries |-> [f \in WorkFiles |-> FromBase(f)], time |-> clock]
    /\ stash = [branch |-> 0, detached |-> 0]
    /\ copy = workIndex
    /\ seal \in {[step |-> "work", verdict |-> v, listed |-> {}, patch |-> Unread, note |-> "none"] :
                    v \in {"candidate", "failed"}}
    /\ git = NoGit /\ late = FALSE
    /\ work = 0 /\ had = [f \in WorkFiles |-> {}] /\ begun = 0 /\ raced = FALSE

----------------------------------------------------------------------------
(* Git and its index.                                                       *)

SameStat(entry, file) ==
    file.text # "none" /\ entry.time = file.time /\ SizeOf(entry.text) = SizeOf(file.text)
Trusted(index, f) == SameStat(index.entries[f], tree[f]) /\ index.entries[f].time < index.time

\* An index that is written anew tells the entries that only look unchanged.
Rewritten(index) ==
    [entries |-> [f \in WorkFiles |->
        LET entry == index.entries[f] IN
        IF /\ SameStat(entry, tree[f]) /\ entry.time >= index.time
           /\ entry.text # tree[f].text
        THEN Smudged(entry) ELSE entry],
     time |-> clock]

Tracked(index) == {f \in WorkFiles : index.entries[f] # NotInIndex}
Present(f) == tree[f].text # "none"

\* git diff BASE: what the patch makes of a file
Shown(index, f) ==
    IF f \notin Tracked(index) THEN "none"
    ELSE IF Trusted(index, f) THEN index.entries[f].text ELSE tree[f].text

----------------------------------------------------------------------------
(* The worker, and what it leaves running while the result is sealed.       *)

Sealing == seal.step \notin {"work", "over"}
MayWork == work < MaxWork /\ seal.step # "over" /\ work' = work + 1
Changed(new) ==
    /\ tree' = new
    /\ had' = IF Sealing THEN [f \in WorkFiles |-> had[f] \cup {new[f].text}] ELSE had
Indexed(new) == workIndex' = new /\ raced' = (raced \/ seal.step = "stamp")

Edit(f) ==
    /\ MayWork
    /\ \E text \in Texts \ {tree[f].text} : Changed([tree EXCEPT ![f] = Noted(text, clock)])
    /\ UNCHANGED <<workIndex, clock, stash, copy, seal, git, late, begun, raced>>

\* git add; git rm --cached
Stage(f) ==
    /\ MayWork
    /\ \E entry \in {IF Present(f) THEN tree[f] ELSE NotInIndex, NotInIndex} :
          Indexed([Rewritten(workIndex) EXCEPT !.entries[f] = entry])
    /\ UNCHANGED <<tree, clock, stash, copy, seal, git, late, had, begun>>

\* Tracked files go back to HEAD; the entry names the branch, or none.
Stash ==
    LET clean == [f \in WorkFiles |->
            IF f \in Tracked(workIndex) \cup BaseFiles
            THEN IF f \in BaseFiles THEN Noted("base", clock) ELSE NotInIndex ELSE tree[f]]
    IN  /\ MayWork
        /\ \E f \in Tracked(workIndex) : tree[f].text # "base"
        /\ Changed(clean)
        /\ Indexed([entries |-> [f \in WorkFiles |->
                        IF f \in BaseFiles THEN clean[f] ELSE NotInIndex], time |-> clock])
        /\ \E where \in {"branch", "detached"} : stash' = [stash EXCEPT ![where] = @ + 1]
        /\ UNCHANGED <<clock, copy, seal, git, late, begun>>

Tick ==
    /\ clock < MaxNow /\ clock' = clock + 1
    /\ UNCHANGED <<tree, workIndex, stash, copy, seal, git, late, work, had, begun, raced>>

----------------------------------------------------------------------------
(* One git command (Git::run, collect).                                     *)

GitCommands == {"index", "root", "list", "add", "diff", "branch", "stash"}
Long == seal.step \in {"list", "diff"}
Forth(step) == seal' = [seal EXCEPT !.step = step]

\* Mistake: a diff that cannot be read is only noted.
NotesDiffToo == seal.step \in {"diff", "branch", "stash"}
Noting == seal.step \in {"branch", "stash"}
Retried == ~Noting /\ seal.verdict = "candidate"

\* Mistake: nothing is said of a stash that could not be read.
Silence == "none"
\* could_not_check
NotChecked == "unknown"

\* Without its patch a candidate fails, and a failed run's patch is tried for once, with a
\* deadline of its own.  Notes that cannot be made fail nothing.
Fails ==
    /\ git' = NoGit
    /\ late' = (late /\ ~Retried)
    /\ seal' = IF Noting THEN [seal EXCEPT !.note = NotChecked, !.step = "over"]
               ELSE [seal EXCEPT !.patch = Unread, !.verdict = "failed",
                                 !.step = IF Retried THEN "index" ELSE "branch"]

SpawnGit ==
    /\ seal.step \in GitCommands /\ git = NoGit
    /\ IF late THEN Fails
       ELSE git' = [NoGit EXCEPT !.at = "runs"] /\ UNCHANGED <<seal, late>>
    /\ UNCHANGED <<leftoverVars, copy>>

\* Mistake: files git does not know are passed over.
KnownOnly == {}
\* untracked_to_add
Untracked == {f \in WorkFiles \ (Tracked(copy) \cup IgnoredFiles \cup AskedFiles) : Present(f)}

\* Mistake: every entry of the shared stash counts.
AnyEntry == stash.branch + stash.detached > 0
\* stash_entries_on
LeftBehind == stash.branch > 0

\* What the command has written when its output ends; a command that fails writes less, and one
\* that writes too much is read up to the limit.
Output(whole) ==
    CASE seal.step = "list" -> [seal EXCEPT !.listed = IF whole THEN Untracked ELSE {}]
      [] seal.step = "diff" -> [seal EXCEPT !.patch =
            [f \in WorkFiles |-> IF whole THEN Shown(copy, f) ELSE "cut"]]
      [] seal.step = "stash" -> [seal EXCEPT !.note =
            IF whole /\ LeftBehind THEN "left" ELSE "none"]
      [] OTHER -> seal

GitWrites ==
    /\ git.at = "runs"
    /\ \E cut \in IF Long THEN BOOLEAN ELSE {FALSE}, ok \in BOOLEAN :
          /\ git' = [at |-> "closed", cut |-> cut, ok |-> ok]
          /\ seal' = Output(ok /\ ~cut)
          /\ copy' = IF seal.step = "add" /\ ok
                     THEN LET c == Rewritten(copy) IN [c EXCEPT !.entries =
                             [f \in WorkFiles |-> IF f \in seal.listed THEN IntentToAdd ELSE @[f]]]
                     ELSE copy
    /\ UNCHANGED <<leftoverVars, late>>

\* A process that was not read to its end cannot exit.
GitExits ==
    /\ git.at = "closed" /\ ~git.cut
    /\ git' = [git EXCEPT !.at = "ended"]
    /\ UNCHANGED <<leftoverVars, copy, seal, late>>

DeadlinePasses ==
    /\ Sealing /\ ~late /\ late' = TRUE
    /\ UNCHANGED <<leftoverVars, copy, seal, git>>

After ==
    CASE seal.step = "index" -> "root" [] seal.step = "root" -> "copy"
      [] seal.step = "list" -> IF seal.listed = {} THEN "diff" ELSE "add"
      [] seal.step = "add" -> "diff" [] seal.step = "diff" -> "branch"
      [] seal.step = "branch" -> "stash" [] OTHER -> "over"

\* Mistake: whatever was read is taken, to the limit and from a command that failed.
TakesWhatCame == git.at \in {"closed", "ended"}
Complete == git.at = "ended" /\ git.ok

Collect ==
    /\ \/ Complete /\ Forth(After) /\ git' = NoGit /\ UNCHANGED late
       \/ ~Complete /\ (git.at = "ended" \/ git.cut \/ late) /\ git # NoGit /\ Fails
    /\ UNCHANGED <<leftoverVars, copy>>

----------------------------------------------------------------------------
(* bounded_git_diff_with_executable                                         *)

BeginSealing ==
    /\ seal.step = "work" /\ Forth("index")
    /\ had' = [f \in WorkFiles |-> {tree[f].text}] /\ begun' = stash.branch
    /\ UNCHANGED <<tree, workIndex, clock, stash, copy, git, late, work, raced>>

CopyIndex ==
    /\ seal.step = "copy" /\ Forth("stamp")
    /\ copy' = [workIndex EXCEPT !.time = clock]
    /\ UNCHANGED <<leftoverVars, git, late>>

\* Mistake: the copy keeps the time it was made at.
CopysTime == copy.time
IndexTime == workIndex.time
\* The copy gets the time of the worker's index.
StampCopy ==
    /\ seal.step = "stamp" /\ Forth("list")
    /\ copy' = [copy EXCEPT !.time = IndexTime]
    /\ UNCHANGED <<leftoverVars, git, late>>

PatchNext ==
    \/ \E f \in WorkFiles : Edit(f) \/ Stage(f)
    \/ Stash \/ Tick \/ BeginSealing
    \/ SpawnGit \/ GitWrites \/ GitExits \/ DeadlinePasses \/ Collect
    \/ CopyIndex \/ StampCopy

----------------------------------------------------------------------------
(* A patch that is sealed holds every change of the worktree: whatever the  *)
(* worker staged or did not, new files too, each file as it was at some     *)
(* moment of the sealing.  Ignored files are left out, and so are the files *)
(* asked for as evidence.                                                   *)
PatchIsWhole ==
    seal.step = "over" /\ seal.patch # Unread /\ ~raced =>
        \A f \in WorkFiles \ (IgnoredFiles \cup AskedFiles) : seal.patch[f] \in had[f]

(* A candidate has its patch.                                               *)
CandidateHasItsPatch == seal.step = "over" /\ seal.verdict = "candidate" => seal.patch # Unread

(* What the worker left in the stash on its branch is said, or that nobody  *)
(* could look; and nobody else's entries are taken for it.                  *)
StashIsTold ==
    seal.step = "over" =>
        /\ begun > 0 => seal.note # "none"
        /\ seal.note = "left" => stash.branch > 0

PatchInv ==
    /\ git.at \in {"none", "runs", "closed", "ended"} /\ clock \in 0..MaxNow
    /\ PatchIsWhole /\ CandidateHasItsPatch /\ StashIsTold
=============================================================================
