----------------------------- MODULE CodexHooks -----------------------------
(***************************************************************************)
(* brgr's hooks and skill in Codex, and its skill alone in Claude Code     *)
(* (crates/brgr-cli/src/codex_integration.rs).  Three files are written    *)
(* one after the other: the skill, hooks.json, and the receipt that says   *)
(* what is brgr's; a write that fails puts the first two back.  The user   *)
(* has hooks of their own and may change the skill, which brgr then leaves *)
(* alone.  Another executable is another hook command and, being another   *)
(* release, another skill text.                                            *)
(***************************************************************************)
EXTENDS Naturals, FiniteSets

CONSTANTS
    Installers,    \* `brgr integrate codex|claude install|uninstall` processes
    Releases,      \* executables: each has its hook command and its skill text
    OwnHooks,      \* hooks of the user
    MaxSetups,     \* bound: commands
    MaxChanges,    \* bound: changes by the user
    MaxFaults,     \* bound: failing writes and killed commands
    Missing        \* no such file

\* A user's hook is no command of brgr's, and an edited skill is no release's text.
ASSUME HooksConstants ==
    /\ OwnHooks \cap Releases = {}
    /\ Missing \notin OwnHooks \cup Releases /\ "edited" \notin Releases \cup {Missing}
    /\ MaxSetups \in Nat /\ MaxChanges \in Nat /\ MaxFaults \in Nat

VARIABLES
    side,          \* "codex" or "claude"
    hooks,         \* hooks.json: the commands in it
    skill,         \* skills/brgr/SKILL.md: a release's text, or "edited"
    hookReceipt,   \* codex-integration.json, claude-integration.json
    inst,          \* what each command is doing
    own,           \* history: the user's hooks
    mixed,         \* history: a command was killed half way, or met another one
    lost,          \* history: the user changed what a command had already read
    setups, changes, faults

hookGhost == <<own, mixed, lost, setups, changes, faults>>
hookVars == <<side, hooks, skill, hookReceipt, inst, hookGhost>>

NoWork == [step |-> "idle", release |-> Missing, oldHooks |-> {}, oldSkill |-> Missing,
           newHooks |-> {}, stale |-> {}]
Working(i) == inst[i].step # "idle"
ToStep(i, s) == inst' = [inst EXCEPT ![i].step = s]

HooksTypeOK ==
    /\ side \in {"codex", "claude"}
    /\ hooks \subseteq OwnHooks \cup Releases /\ own \subseteq OwnHooks
    /\ skill \in Releases \cup {Missing, "edited"}
    /\ hookReceipt \in Releases \cup {Missing}
    /\ side = "claude" => hooks = own
    /\ \A i \in Installers : inst[i].step \in
          {"idle", "skill", "hooks", "receipt", "unhook", "unskill", "forget", "put back", "skill back"}
    /\ setups \in 0..MaxSetups /\ changes \in 0..MaxChanges /\ faults \in 0..MaxFaults

HooksInit ==
    /\ side \in {"codex", "claude"}
    /\ own \in {{}, OwnHooks} /\ hooks = own
    /\ skill \in {Missing, "edited"}
    /\ hookReceipt = Missing
    /\ inst = [i \in Installers |-> NoWork]
    /\ mixed = FALSE /\ lost = FALSE /\ setups = 0 /\ changes = 0 /\ faults = 0

-----------------------------------------------------------------------------
(* install, claude_install                                                      *)

\* Mistake: whatever is there is replaced once brgr is installed.
ReplacesAny(r) == skill \in {Missing, r} \/ hookReceipt # Missing

\* load_owned_skill: the text of this release, or the one the receipt names.
MayReplaceSkill(r) == skill \in {Missing, r} \/ skill = hookReceipt

\* Mistake: the hooks of an executable that moved stay.
NoneObsolete(r) == {}

\* remove_obsolete_hooks
Obsolete(r) == {hookReceipt} \ {r}

\* A command starts, maybe beside another one that is still at work.
SetsOut(i) ==
    /\ ~Working(i) /\ setups < MaxSetups /\ setups' = setups + 1
    /\ mixed' = (mixed \/ \E j \in Installers \ {i} : Working(j))

BeginSetup(i) ==
    /\ side = "codex" /\ SetsOut(i)
    /\ \E r \in Releases :
          /\ MayReplaceSkill(r)
          /\ inst' = [inst EXCEPT ![i] =
                [step |-> "skill", release |-> r, oldHooks |-> hooks, oldSkill |-> skill,
                 newHooks |-> (hooks \ Obsolete(r)) \cup {r}, stale |-> {}]]
    /\ UNCHANGED <<side, hooks, skill, hookReceipt, own, lost, changes, faults>>

\* Claude Code has the skill and no hooks.
SetUpClaude(i) ==
    /\ side = "claude" /\ SetsOut(i)
    /\ \E r \in Releases :
          /\ MayReplaceSkill(r)
          /\ inst' = [inst EXCEPT ![i] = [NoWork EXCEPT !.step = "skill", !.release = r]]
    /\ UNCHANGED <<side, hooks, skill, hookReceipt, own, lost, changes, faults>>

WriteSkill(i) ==
    /\ inst[i].step = "skill"
    /\ skill' = inst[i].release
    /\ lost' = (lost \/ "skill" \in inst[i].stale)
    /\ ToStep(i, IF side = "codex" THEN "hooks" ELSE "receipt")
    /\ UNCHANGED <<side, hooks, hookReceipt, own, mixed, setups, changes, faults>>

WriteHooks(i) ==
    /\ inst[i].step = "hooks"
    /\ hooks' = inst[i].newHooks
    /\ lost' = (lost \/ "hooks" \in inst[i].stale)
    /\ ToStep(i, "receipt")
    /\ UNCHANGED <<side, skill, hookReceipt, own, mixed, setups, changes, faults>>

WriteHookReceipt(i) ==
    /\ inst[i].step = "receipt"
    /\ hookReceipt' = inst[i].release
    /\ inst' = [inst EXCEPT ![i] = NoWork]
    /\ UNCHANGED <<side, hooks, skill, hookGhost>>

\* A write fails: what was there is put back, first the hooks, then the skill.
WriteFails(i) ==
    /\ side = "codex" /\ inst[i].step \in {"skill", "hooks", "receipt"}
    /\ faults < MaxFaults /\ faults' = faults + 1
    /\ ToStep(i, "put back")
    /\ UNCHANGED <<side, hooks, skill, hookReceipt, own, mixed, lost, setups, changes>>

PutHooksBack(i) ==
    /\ inst[i].step = "put back"
    /\ hooks' = inst[i].oldHooks
    /\ lost' = (lost \/ "hooks" \in inst[i].stale)
    /\ ToStep(i, "skill back")
    /\ UNCHANGED <<side, skill, hookReceipt, own, mixed, setups, changes, faults>>

PutSkillBack(i) ==
    /\ inst[i].step = "skill back"
    /\ skill' = inst[i].oldSkill
    /\ lost' = (lost \/ "skill" \in inst[i].stale)
    /\ inst' = [inst EXCEPT ![i] = NoWork]
    /\ UNCHANGED <<side, hooks, hookReceipt, own, mixed, setups, changes, faults>>

-----------------------------------------------------------------------------
(* uninstall, claude_uninstall                                                  *)

BeginRemoval(i) ==
    /\ side = "codex" /\ SetsOut(i) /\ hookReceipt # Missing
    /\ inst' = [inst EXCEPT ![i] =
          [NoWork EXCEPT !.step = "unhook", !.release = hookReceipt, !.newHooks = hooks \ {hookReceipt}]]
    /\ UNCHANGED <<side, hooks, skill, hookReceipt, own, lost, changes, faults>>

RemoveFromClaude(i) ==
    /\ side = "claude" /\ SetsOut(i) /\ hookReceipt # Missing
    /\ inst' = [inst EXCEPT ![i] = [NoWork EXCEPT !.step = "unskill", !.release = hookReceipt]]
    /\ UNCHANGED <<side, hooks, skill, hookReceipt, own, lost, changes, faults>>

RemoveHooks(i) ==
    /\ inst[i].step = "unhook"
    /\ hooks' = inst[i].newHooks
    /\ lost' = (lost \/ "hooks" \in inst[i].stale)
    /\ ToStep(i, "unskill")
    /\ UNCHANGED <<side, skill, hookReceipt, own, mixed, setups, changes, faults>>

\* A skill that is no longer the one installed is the user's.
RemoveSkill(i) ==
    /\ inst[i].step = "unskill"
    /\ skill' = IF skill = inst[i].release THEN Missing ELSE skill
    /\ ToStep(i, "forget")
    /\ UNCHANGED <<side, hooks, hookReceipt, hookGhost>>

RemoveHookReceipt(i) ==
    /\ inst[i].step = "forget"
    /\ hookReceipt' = Missing
    /\ inst' = [inst EXCEPT ![i] = NoWork]
    /\ UNCHANGED <<side, hooks, skill, hookGhost>>

-----------------------------------------------------------------------------
(* The user, and commands that are killed.                                      *)

Changes(what) ==
    /\ changes < MaxChanges /\ changes' = changes + 1
    /\ inst' = [i \in Installers |->
          IF Working(i) THEN [inst[i] EXCEPT !.stale = @ \cup {what}] ELSE inst[i]]
    /\ UNCHANGED <<side, hookReceipt, mixed, lost, setups, faults>>

UserChanges ==
    \/ /\ Changes("hooks") /\ UNCHANGED skill
       /\ \E h \in OwnHooks : \/ own' = own \cup {h} /\ hooks' = hooks \cup {h}
                              \/ own' = own \ {h} /\ hooks' = hooks \ {h}
    \/ Changes("skill") /\ skill' \in {"edited", Missing} /\ UNCHANGED <<hooks, own>>

InstallerDies(i) ==
    /\ Working(i) /\ faults < MaxFaults /\ faults' = faults + 1
    /\ mixed' = (mixed \/ inst[i].step \notin {"skill", "unhook"})
    /\ inst' = [inst EXCEPT ![i] = NoWork]
    /\ UNCHANGED <<side, hooks, skill, hookReceipt, own, lost, setups, changes>>

HooksNext ==
    \/ \E i \in Installers :
          \/ BeginSetup(i) \/ SetUpClaude(i) \/ WriteSkill(i) \/ WriteHooks(i) \/ WriteHookReceipt(i)
          \/ WriteFails(i) \/ PutHooksBack(i) \/ PutSkillBack(i)
          \/ BeginRemoval(i) \/ RemoveFromClaude(i) \/ RemoveHooks(i) \/ RemoveSkill(i) \/ RemoveHookReceipt(i)
          \/ InstallerDies(i)
    \/ UserChanges

-----------------------------------------------------------------------------
(* The user's hooks are exactly as the user left them, whatever brgr writes,     *)
(* fails to write or puts back.                                                  *)
OwnHooksStay == ~lost => hooks \cap OwnHooks = own

(* A skill the user has changed is neither replaced nor removed, unless it was   *)
(* changed under a command at work.                                              *)
EditedSkillStays ==
    [][skill = "edited" /\ skill' # "edited" => changes' # changes \/ lost']_hookVars

(* Between commands the receipt names all that is brgr's: after an update no     *)
(* hook of the old executable is left, after a failed install or an uninstall    *)
(* nothing is.                                                                   *)
ReceiptNamesAll ==
    ~mixed /\ ~lost /\ (\A i \in Installers : ~Working(i)) =>
        /\ hooks \cap Releases = IF side = "codex" THEN {hookReceipt} \ {Missing} ELSE {}
        /\ skill \in {hookReceipt, Missing, "edited"}

(* What brgr puts into another program's configuration it can take out again.    *)
HooksInv == HooksTypeOK /\ OwnHooksStay /\ ReceiptNamesAll
=============================================================================
