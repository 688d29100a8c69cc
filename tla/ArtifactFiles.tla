--------------------------- MODULE ArtifactFiles ---------------------------
(***************************************************************************)
(* Sealing results (crates/brgr-store/src/artifact.rs): a file is copied   *)
(* into the store under the digest of its bytes, then a result that names  *)
(* it is committed, which reads it once more.                              *)
(* Sealers are supervisors and commands, each a process of its own; the    *)
(* file they copy lies in a worktree where a worker's leftovers may still  *)
(* write.  The machine may lose power: what was not synced is gone.        *)
(*                                                                         *)
(* Bytes are a sequence of blocks, and a digest is the bytes it is of.     *)
(***************************************************************************)
EXTENDS Integers, Sequences, FiniteSets

CONSTANTS
    Sealers,       \* processes that seal
    Blocks,        \* what a block may hold
    MaxBytes,      \* artifact_contract.max_bytes, in blocks
    MaxWrites,     \* bound: writes to the source
    MaxOutages,    \* bound: power losses, killed sealers, meddling with the store
    NoObject

VARIABLES
    source,        \* the file in the worktree: [kind, inode]
    inodes,        \* what each inode of it holds
    sealer,        \* what each sealer is doing
    objects,       \* artifacts/sha256: digest -> [bytes, synced, linked]
    results,       \* digests committed results name
    borrowed,      \* history: digests a sealer found linked by another one, not yet durable
    meddled,       \* history: digests whose object somebody else changed
    writes, outages

sealGhost == <<borrowed, meddled, writes, outages>>
sealVars == <<source, inodes, sealer, objects, results, sealGhost>>

Inodes == 1..2
Contents == UNION {[1..n -> Blocks] : n \in 0..MaxBytes + 1}
AtRest == [step |-> "idle", inode |-> 0, length |-> 0, copy |-> <<>>]
Torn == <<"torn">>

\* No object is not an object.
ASSUME SealConstants ==
    /\ NoObject \notin [bytes : Contents \cup {Torn}, synced : BOOLEAN, linked : BOOLEAN]
    /\ MaxBytes \in Nat /\ MaxWrites \in Nat /\ MaxOutages \in Nat

SealTypeOK ==
    /\ source.kind \in {"file", "link"} /\ source.inode \in Inodes
    /\ \A i \in Inodes : Len(inodes[i]) <= MaxBytes + 1
    /\ \A s \in Sealers :
          /\ sealer[s].step \in {"idle", "open", "read", "sync", "persist", "link", "verify", "commit"}
          /\ Len(sealer[s].copy) <= MaxBytes + 1
    /\ results \cup borrowed \cup meddled \subseteq Contents
    /\ writes \in 0..MaxWrites /\ outages \in 0..MaxOutages

SealInit ==
    /\ source = [kind |-> "file", inode |-> 1]
    /\ \E b \in Blocks : inodes = [i \in Inodes |-> <<b>>]
    /\ sealer = [s \in Sealers |-> AtRest]
    /\ objects = [d \in Contents |-> NoObject]
    /\ results = {} /\ borrowed = {} /\ meddled = {}
    /\ writes = 0 /\ outages = 0

Gives(s, step) == sealer' = [sealer EXCEPT ![s].step = step]
GivesUp(s) == sealer' = [sealer EXCEPT ![s] = AtRest]

-----------------------------------------------------------------------------
(* seal_path, seal_reader                                                       *)

\* symlink_metadata: a regular file, not too large.
BeginSeal(s) ==
    /\ sealer[s].step = "idle"
    /\ source.kind = "file" /\ Len(inodes[source.inode]) <= MaxBytes
    /\ sealer' = [sealer EXCEPT ![s] = [step |-> "open", inode |-> source.inode,
                     length |-> Len(inodes[source.inode]), copy |-> <<>>]]
    /\ UNCHANGED <<source, inodes, objects, results, sealGhost>>

\* same_regular_file: what was opened is what was looked at, in length too.
SameFile(s) ==
    /\ source.kind = "file" /\ source.inode = sealer[s].inode
    /\ Len(inodes[source.inode]) = sealer[s].length

OpenSource(s) ==
    /\ sealer[s].step = "open"
    /\ IF SameFile(s) THEN Gives(s, "read") ELSE GivesUp(s)
    /\ UNCHANGED <<source, inodes, objects, results, sealGhost>>

\* Mistake: the length seen before is trusted.
TooLongBefore(s) == sealer[s].length > MaxBytes

\* Bytes are counted as they are read.
TooLong(s) == Len(sealer[s].copy) + 1 > MaxBytes

\* One block more of the file as it is by now, or its end.
ReadBlock(s) ==
    LET at == Len(sealer[s].copy) + 1
        bytes == inodes[sealer[s].inode]
    IN  /\ sealer[s].step = "read"
        /\ IF at > Len(bytes) THEN Gives(s, "sync")
           ELSE IF TooLong(s) THEN GivesUp(s)
           ELSE sealer' = [sealer EXCEPT ![s].copy = Append(@, bytes[at])]
        /\ UNCHANGED <<source, inodes, objects, results, sealGhost>>

\* The temporary file is synced before it gets its name.
SyncTemporary(s) ==
    /\ sealer[s].step = "sync"
    /\ Gives(s, "persist")
    /\ UNCHANGED <<source, inodes, objects, results, sealGhost>>

\* Mistake: the name is given first.
NamedFirst(s) == sealer[s].step \in {"sync", "persist"}

MayPersist(s) == sealer[s].step = "persist"

\* persist_noclobber: an object that is there already is not replaced.
Persist(s) ==
    LET d == sealer[s].copy
    IN  /\ MayPersist(s)
        /\ IF objects[d] = NoObject
           THEN /\ objects' = [objects EXCEPT ![d] =
                      [bytes |-> d, synced |-> sealer[s].step = "persist", linked |-> FALSE]]
                /\ Gives(s, "link")
           ELSE UNCHANGED objects /\ Gives(s, "verify")
        /\ UNCHANGED <<source, inodes, results, sealGhost>>

\* Mistake: the directory is left for the system to write.
DirectoryLater(object) == object

\* sync_directory
Linked(object) == [object EXCEPT !.synced = TRUE, !.linked = TRUE]

SyncDirectory(s) ==
    /\ sealer[s].step = "link"
    /\ IF objects[sealer[s].copy] = NoObject THEN UNCHANGED objects
       ELSE objects' = [objects EXCEPT ![sealer[s].copy] = Linked(@)]
    /\ Gives(s, "commit")
    /\ UNCHANGED <<source, inodes, results, sealGhost>>

\* read_verified: by the commit, by the owner's commands and by the decision.
Readable(d) == objects[d] # NoObject /\ objects[d].bytes = d

VerifyExisting(s) ==
    LET d == sealer[s].copy
    IN  /\ sealer[s].step = "verify"
        /\ IF Readable(d)
           THEN /\ Gives(s, "commit")
                /\ borrowed' = IF objects[d].linked THEN borrowed ELSE borrowed \cup {d}
           ELSE GivesUp(s) /\ UNCHANGED borrowed
        /\ UNCHANGED <<source, inodes, objects, results, meddled, writes, outages>>

\* commit_terminal_result_guarded: verify_candidate_artifacts, then the row.
CommitReference(s) ==
    LET d == sealer[s].copy
    IN  /\ sealer[s].step = "commit"
        /\ results' = IF Readable(d) THEN results \cup {d} ELSE results
        /\ GivesUp(s)
        /\ UNCHANGED <<source, inodes, objects, sealGhost>>

-----------------------------------------------------------------------------
(* The worker's leftovers, and what may happen to the machine.                  *)

Write(f) == inodes' = f /\ writes < MaxWrites /\ writes' = writes + 1

WorkerWrites ==
    /\ \E i \in Inodes, b \in Blocks :
          \/ Len(inodes[i]) <= MaxBytes /\ Write([inodes EXCEPT ![i] = Append(@, b)])
          \/ inodes[i] # <<>> /\ Write([inodes EXCEPT ![i][1] = b])
    /\ UNCHANGED <<source, sealer, objects, results, borrowed, meddled, outages>>

\* The file is replaced by another one, or by a link.
WorkerReplaces ==
    /\ source' \in [kind : {"file", "link"}, inode : Inodes] \ {source}
    /\ writes < MaxWrites /\ writes' = writes + 1
    /\ UNCHANGED <<inodes, sealer, objects, results, borrowed, meddled, outages>>

SealerDies(s) ==
    /\ sealer[s].step # "idle" /\ outages < MaxOutages /\ outages' = outages + 1
    /\ GivesUp(s)
    /\ UNCHANGED <<source, inodes, objects, results, borrowed, meddled, writes>>

\* Unsynced bytes are torn, an entry that is not durable may be gone.
AfterOutage(o) ==
    IF o = NoObject THEN {NoObject}
    ELSE LET kept == [o EXCEPT !.bytes = IF o.synced THEN @ ELSE Torn, !.synced = TRUE, !.linked = TRUE]
         IN  IF o.linked THEN {kept} ELSE {kept, NoObject}

PowerLoss ==
    /\ outages < MaxOutages /\ outages' = outages + 1
    /\ objects' \in {f \in [Contents -> UNION {AfterOutage(objects[d]) : d \in Contents}] :
                        \A d \in Contents : f[d] \in AfterOutage(objects[d])}
    /\ sealer' = [s \in Sealers |-> AtRest]
    /\ UNCHANGED <<source, inodes, results, borrowed, meddled, writes>>

\* Someone removes an object or writes over it.
Meddle ==
    /\ outages < MaxOutages /\ outages' = outages + 1
    /\ \E d \in Contents :
          /\ objects[d] # NoObject
          /\ objects' \in {[objects EXCEPT ![d] = NoObject], [objects EXCEPT ![d].bytes = Torn]}
          /\ meddled' = meddled \cup {d}
    /\ UNCHANGED <<source, inodes, sealer, results, borrowed, writes>>

SealNext ==
    \/ \E s \in Sealers :
          \/ BeginSeal(s) \/ OpenSource(s) \/ ReadBlock(s) \/ SyncTemporary(s) \/ Persist(s)
          \/ SyncDirectory(s) \/ VerifyExisting(s) \/ CommitReference(s) \/ SealerDies(s)
    \/ WorkerWrites \/ WorkerReplaces \/ PowerLoss \/ Meddle

-----------------------------------------------------------------------------
(* An object holds the bytes its name is the digest of, also after a power loss: *)
(* a torn file would refuse that content for ever.                               *)
ObjectsAreWhole ==
    \A d \in Contents \ meddled : objects[d] # NoObject => objects[d].bytes = d

(* What a committed result names can be read ever after, unless its sealer       *)
(* relied on an entry another one had not made durable yet.                      *)
ResultsStayReadable == \A d \in results \ (borrowed \cup meddled) : Readable(d)

(* No result is larger than the task allows, however its file grew meanwhile.    *)
ResultsKeepTheLimit == \A d \in results : Len(d) <= MaxBytes

SealInv == SealTypeOK /\ ObjectsAreWhole /\ ResultsStayReadable /\ ResultsKeepTheLimit
=============================================================================
