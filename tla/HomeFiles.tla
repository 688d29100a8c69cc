----------------------------- MODULE HomeFiles -----------------------------
(***************************************************************************)
(* What brgr does outside its database: it waits for processes and reads   *)
(* their output, takes a worktree's patch, seals files into objects, and   *)
(* writes the ledger of failures, the lines put into other programs'       *)
(* configuration, and the note of what a head was told.  None of it is in  *)
(* a transaction: files are read, changed and replaced by processes that   *)
(* may overlap or be killed.  The parts share nothing, so one behaviour is *)
(* about one of them, and the others stay as they are in a fresh home.     *)
(***************************************************************************)
EXTENDS WorkerProcess, ResultStream, WorkerPatch, ArtifactFiles, ErrorMemo, StatusLine, CodexHooks,
        HandoffNote

VARIABLE subject     \* what this behaviour is about

resultVars == <<streamVars, sealVars, patchVars, processVars>>
lineAndHookVars == <<lineVars, hookVars>>
homeVars == <<subject, resultVars, memoVars, lineAndHookVars, noteVars>>

\* The parts a behaviour is not about.
FreshStream == StreamInit /\ requested = ""
FreshObjects == SealInit /\ \A i \in Inodes : inodes[i] = CHOOSE f \in Contents : Len(f) = 1
FreshProcess == ProcessInit /\ call = "run"
FreshPatch == PatchInit /\ clock = 0 /\ seal.verdict = "failed"
FreshMemo == MemoInit /\ ~reporting
FreshLine == LineInit /\ settings = <<>>
FreshHooks == HooksInit /\ side = "claude" /\ own = {} /\ skill = Missing
FreshNote == NoteInit /\ ~auto

HomeInit ==
    /\ subject \in {"process", "stream", "objects", "patch", "memo", "status line", "hooks", "note"}
    /\ IF subject = "process" THEN ProcessInit ELSE FreshProcess
    /\ IF subject = "stream" THEN StreamInit ELSE FreshStream
    /\ IF subject = "objects" THEN SealInit ELSE FreshObjects
    /\ IF subject = "patch" THEN PatchInit ELSE FreshPatch
    /\ IF subject = "memo" THEN MemoInit ELSE FreshMemo
    /\ IF subject = "status line" THEN LineInit ELSE FreshLine
    /\ IF subject = "hooks" THEN HooksInit ELSE FreshHooks
    /\ IF subject = "note" THEN NoteInit ELSE FreshNote

HomeNext ==
    /\ UNCHANGED subject
    /\ \/ /\ subject = "process" /\ ProcessNext
          /\ UNCHANGED <<streamVars, sealVars, patchVars, memoVars, lineAndHookVars, noteVars>>
       \/ /\ subject = "stream" /\ StreamNext
          /\ UNCHANGED <<processVars, sealVars, patchVars, memoVars, lineAndHookVars, noteVars>>
       \/ /\ subject = "objects" /\ SealNext
          /\ UNCHANGED <<processVars, streamVars, patchVars, memoVars, lineAndHookVars, noteVars>>
       \/ /\ subject = "patch" /\ PatchNext
          /\ UNCHANGED <<processVars, streamVars, sealVars, memoVars, lineAndHookVars, noteVars>>
       \/ /\ subject = "memo" /\ MemoNext
          /\ UNCHANGED <<resultVars, lineAndHookVars, noteVars>>
       \/ /\ subject = "status line" /\ LineNext
          /\ UNCHANGED <<resultVars, memoVars, hookVars, noteVars>>
       \/ /\ subject = "hooks" /\ HooksNext
          /\ UNCHANGED <<resultVars, memoVars, lineVars, noteVars>>
       \/ /\ subject = "note" /\ NoteNext
          /\ UNCHANGED <<resultVars, memoVars, lineAndHookVars>>

HomeSpec == HomeInit /\ [][HomeNext]_homeVars

-----------------------------------------------------------------------------
(* A result is what the worker said and did and stays what it was: a process is  *)
(* waited for in bounded time and collected whole or not at all (ProcessInv),    *)
(* nothing an answer depends on is lost in capture (StreamInv), the patch holds  *)
(* the whole work (PatchInv), and what a committed result names stays readable   *)
(* (SealInv).                                                                    *)
ResultsAreWhole == ProcessInv /\ StreamInv /\ PatchInv /\ SealInv

(* What brgr does of its own accord it does once and can undo: a failure is      *)
(* filed once and without what is private (MemoInv), a crossed limit is told     *)
(* once (NoteInv), and what was put into a settings file is found and taken out  *)
(* again while the user's own part stays (LineInv, HooksInv).                    *)
HomeInv == MemoInv /\ NoteInv /\ LineInv /\ HooksInv
=============================================================================
