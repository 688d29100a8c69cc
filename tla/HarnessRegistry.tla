--------------------------- MODULE HarnessRegistry ---------------------------
(* The registry of harnesses (crates/brgr-registry): a recipe for an external  *)
(* CLI, its manifest, becomes usable once a scratch run has certified it.  The *)
(* package is two files, written one after the other and read one after the    *)
(* other by whoever starts a task, while the CLI may be updated underneath and *)
(* a second certification may be under way.                                    *)
(*                                                                             *)
(* The CLI is what brgr can see of it: the digest of its bytes and the digest  *)
(* of what it prints (version and help).  Updates move forward only.           *)
EXTENDS Naturals, FiniteSets

CONSTANTS
    Certifiers,      \* processes that certify: `brgr harness ...`, or a start that may
    MaxCli           \* bound of the CLI's updates

ASSUME MaxCliAssumption == MaxCli \in Nat \ {0}

VARIABLES
    cli,             \* the executable: its bytes and what its probes print
    manifest,        \* manifests/<id>.json
    receipt,         \* activations/<id>.json
    certifier,       \* the certification each process is in
    certified        \* history: what scratch runs have tried, and with which recipe

registryVars == <<cli, manifest, receipt, certifier, certified>>

Clis == [bytes : 1..MaxCli, prints : 1..MaxCli]

\* A generated recipe is a function of the help text; an authored one is the owner's.
Draft(prints) == [by |-> "generated", text |-> prints]
Authored == [by |-> "authored", text |-> 0]
Recipes == {Draft(p) : p \in 1..MaxCli} \cup {Authored}
NoRecipe == [by |-> "nobody", text |-> 0]
Receipt(m, c) == [recipe |-> m, bytes |-> c.bytes, prints |-> c.prints, mode |-> m.by]

Steps == {"idle", "mode", "draft", "digest", "scratch", "reprobe", "redigest",
          "manifest", "receipt", "done", "failed"}
Idle == [step |-> "idle", recipe |-> NoRecipe, before |-> [bytes |-> 1, prints |-> 1],
         after |-> [bytes |-> 1, prints |-> 1]]
NoCertification == [c \in Certifiers |-> Idle]

RegistryTypeOK ==
    /\ cli \in Clis
    /\ manifest \in Recipes
    /\ receipt \in {[recipe |-> m, bytes |-> b, prints |-> p, mode |-> k] :
                        m \in Recipes, b \in 1..MaxCli, p \in 1..MaxCli,
                        k \in {"generated", "authored"}}
    /\ \A c \in Certifiers :
          /\ certifier[c].step \in Steps
          /\ certifier[c].recipe \in Recipes \cup {NoRecipe}
          /\ certifier[c].before \in Clis /\ certifier[c].after \in Clis

\* A registered, healthy harness with the recipe m.
RegistryInit(m) ==
    /\ cli = [bytes |-> 1, prints |-> 1]
    /\ manifest = m
    /\ receipt = Receipt(m, cli)
    /\ certifier = NoCertification
    /\ certified = {[recipe |-> m, bytes |-> 1]}

Move(c, step) == certifier' = [certifier EXCEPT ![c].step = step]
Files == <<cli, manifest, receipt, certified>>

-----------------------------------------------------------------------------
\* Mistake: the receipt's digest of the manifest is not compared.
BelongsByName(m, r) == m \in Recipes

\* What a reader of both files makes of them (validate_package_identity).
Belongs(m, r) == r.recipe = m

\* The installer or a package manager replaces the CLI, or something it depends
\* on, so that it prints something else without a changed byte.
UpdateCli ==
    /\ \E b \in cli.bytes..MaxCli, p \in cli.prints..MaxCli :
          /\ b + p = cli.bytes + cli.prints + 1 \/ (b = cli.bytes + 1 /\ p = cli.prints + 1)
          /\ cli' = [bytes |-> b, prints |-> p]
    /\ UNCHANGED <<manifest, receipt, certifier, certified>>

\* `harness add` drafts a recipe, `harness activate --manifest` brings one.
BeginAdd(c) ==
    /\ certifier[c].step = "idle"
    /\ Move(c, "draft")
    /\ UNCHANGED Files

BeginAuthored(c) ==
    /\ certifier[c].step = "idle"
    /\ certifier' = [certifier EXCEPT ![c].step = "draft", ![c].recipe = Authored]
    /\ UNCHANGED Files

\* `harness recertify`: the receipt says who wrote the recipe, and only then is the
\* manifest read.
BeginRecertify(c) ==
    /\ certifier[c].step = "idle"
    /\ Move(c, IF receipt.mode = "authored" THEN "mode" ELSE "draft")
    /\ UNCHANGED Files

ReadAuthored(c) ==
    /\ certifier[c].step = "mode"
    /\ certifier' = [certifier EXCEPT ![c].step = "draft", ![c].recipe = manifest]
    /\ UNCHANGED Files

\* The first probe: it drafts the recipe unless there is one, and notes what the
\* CLI printed.  (The contract test of a draft is the same probe once more.)
ProbeBefore(c) ==
    /\ certifier[c].step = "draft"
    /\ certifier' = [certifier EXCEPT
            ![c].step = "digest",
            ![c].recipe = IF @ = NoRecipe THEN Draft(cli.prints) ELSE @,
            ![c].before.prints = cli.prints]
    /\ UNCHANGED Files

DigestBefore(c) ==
    /\ certifier[c].step = "digest"
    /\ certifier' = [certifier EXCEPT ![c].step = "scratch", ![c].before.bytes = cli.bytes]
    /\ UNCHANGED Files

\* The paid run: whatever is installed now answers, or fails.
Scratch(c) ==
    /\ certifier[c].step = "scratch"
    /\ \/ /\ Move(c, "reprobe")
          /\ certified' = certified \cup {[recipe |-> certifier[c].recipe, bytes |-> cli.bytes]}
       \/ /\ Move(c, "failed")
          /\ UNCHANGED certified
    /\ UNCHANGED <<cli, manifest, receipt>>

ProbeAfter(c) ==
    /\ certifier[c].step = "reprobe"
    /\ certifier' = [certifier EXCEPT ![c].step = "redigest", ![c].after.prints = cli.prints]
    /\ UNCHANGED Files

\* Mistake: only what the CLI prints is compared.
SamePrints(before, after) == after.prints = before.prints

\* Nothing may have changed since the first probe.
SameCli(before, after) == after = before

DigestAfter(c) ==
    LET after == [certifier[c].after EXCEPT !.bytes = cli.bytes]
    IN  /\ certifier[c].step = "redigest"
        /\ certifier' = [certifier EXCEPT
              ![c].step = IF SameCli(certifier[c].before, after)
                          THEN "manifest" ELSE "failed",
              ![c].after = after]
        /\ UNCHANGED Files

\* persist_activation: one last look at the executable, then the two files.
WriteManifest(c) ==
    /\ certifier[c].step = "manifest"
    /\ IF cli.bytes = certifier[c].after.bytes
       THEN /\ manifest' = certifier[c].recipe
            /\ Move(c, "receipt")
       ELSE Move(c, "failed") /\ UNCHANGED manifest
    /\ UNCHANGED <<cli, receipt, certified>>

WriteReceipt(c) ==
    /\ certifier[c].step = "receipt"
    /\ receipt' = Receipt(certifier[c].recipe, certifier[c].after)
    /\ Move(c, "done")
    /\ UNCHANGED <<cli, manifest, certified>>

Certify(c) ==
    \/ ReadAuthored(c) \/ ProbeBefore(c) \/ DigestBefore(c) \/ Scratch(c)
    \/ ProbeAfter(c) \/ DigestAfter(c) \/ WriteManifest(c) \/ WriteReceipt(c)
=============================================================================
