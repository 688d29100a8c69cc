----------------------- MODULE WorktreeReclaimProofs -----------------------
(***************************************************************************)
(* What is started was certified and keeps its files, a start that ends    *)
(* without its task leaves nothing, and what is reclaimed was worth        *)
(* nothing any more: for any number of starts, revisions, certifications,  *)
(* decisions and deaths, from any plan.                                    *)
(***************************************************************************)
EXTENDS WorktreeReclaim, TLAPS

-----------------------------------------------------------------------------
(* The registry. *)

Certifications == [step : Steps, recipe : Recipes \cup {NoRecipe}, before : Clis, after : Clis]

\* The steps of a certification that has its recipe.
WithRecipe == {"digest", "scratch", "reprobe", "redigest", "manifest", "receipt"}

\* While a certification runs, the CLI it will find after its scratch run is at
\* least as new as the one that was tried, which is at least as new as the one it
\* saw before.
CertificationOK(x, bytes, tried) ==
  /\ x.step \in WithRecipe => x.recipe \in Recipes
  /\ x.step = "scratch" => x.before.bytes <= bytes
  /\ x.step \in {"reprobe", "redigest"} =>
       \E b \in x.before.bytes .. bytes : [recipe |-> x.recipe, bytes |-> b] \in tried
  /\ x.step \in {"manifest", "receipt"} => [recipe |-> x.recipe, bytes |-> x.after.bytes] \in tried

Receipts ==
  {[recipe |-> m, bytes |-> b, prints |-> p, mode |-> k] :
     m \in Recipes, b \in 1..MaxCli, p \in 1..MaxCli, k \in {"generated", "authored"}}

\* The receipt in force names a recipe and bytes that a scratch run has tried.
RegistryInv ==
  /\ cli \in Clis /\ manifest \in Recipes /\ receipt \in Receipts
  /\ certifier \in [Certifiers -> Certifications]
  /\ certified \subseteq [recipe : Recipes, bytes : 1..MaxCli]
  /\ [recipe |-> receipt.recipe, bytes |-> receipt.bytes] \in certified
  /\ \A c \in Certifiers : CertificationOK(certifier[c], cli.bytes, certified)

-----------------------------------------------------------------------------
(* The starts. *)

Starts ==
  [step : StartSteps, end : Over, seen : Recipes \cup {NoRecipe}, pin : Pins, proof : 0..1,
   created : BOOLEAN, wrote : BOOLEAN, auto : BOOLEAN]
Checkouts == [by : Starters \cup {Nobody}, holds : {"nothing", "base", "work"} \cup Starters]
Launches == [by : Starters \cup {Nobody}, pin : Pins]
Rows == [by : Starters \cup {Nobody}, run : {"none", "admitted", "spawned", "left", "running", "over"}]

\* The steps of a start that has its pin, that holds the lock, that makes a task,
\* that has made nothing yet.
Pinned == {"bind", "lock", "steal", "sign", "prepare", "snapshot", "launch"}
Inner == {"sign", "prepare", "snapshot", "launch", "commit", "step", "rollback", "unlock",
          "check", "intent", "patch", "settle"}
Making == {"prepare", "snapshot", "launch", "commit", "step", "rollback"}
Early == {"none", "probe", "receipt", "prints", "certify", "load", "digest", "bind", "lock",
          "sign", "steal", "prepare", "check", "intent", "patch", "settle"}

StartOK(s) ==
  /\ At(s, "none") <=> plan.jobs[s] = NoJob
  /\ starter[s].end # "none" => starter[s].step \in {"unlock"} \cup Over
  /\ At(s, "unlock") => starter[s].end # "none"
  /\ starter[s].step \in Pinned => starter[s].pin \in certified
  /\ starter[s].step \in Making => plan.jobs[s].kind # "apply"
StartTypeInv ==
  /\ plan \in AllPlans /\ broken \in BOOLEAN /\ head \in 0..1
  /\ lock \in [pid : Starters, signed : BOOLEAN] \cup {Nobody}
  /\ starter \in [Starters -> Starts] /\ checkout \in [Slots -> Checkouts]
  /\ launch \in [Slots -> Launches] /\ task \in [Slots -> Rows]
  /\ \A s \in Starters : StartOK(s)
  /\ \A k \in Slots :
       /\ checkout[k].by = Nobody => checkout[k] = NoCheckout
       /\ launch[k].by = Nobody => launch[k] = NoLaunch
       /\ launch[k] # NoLaunch => launch[k].pin \in certified

\* What a start has made of a revision that is not recorded it knows to be its
\* own, and gives back before it ends without its task.
Abandons(s) ==
  \/ At(s, "refused") \/ At(s, "replayed")
  \/ At(s, "unlock") /\ starter[s].end \in {"refused", "replayed"}
MadeInv ==
  /\ \A s \in Starters :
       /\ starter[s].step \in Early => ~starter[s].created
       /\ starter[s].step \in Early \cup {"snapshot", "launch"} => ~starter[s].wrote
  /\ \A s \in Starters, k \in Slots : ~Recorded(k) =>
       /\ checkout[k].by = s => k = Slot(s) /\ starter[s].created /\ ~Abandons(s)
       /\ launch[k].by = s => k = Slot(s) /\ starter[s].wrote /\ ~Abandons(s)

\* Until a live holder has lost it, the lock is whose it says.
LockInv ==
  ~broken => \A s \in Starters : starter[s].step \in Inner => lock # Nobody /\ lock.pid = s

\* A recorded revision that somebody still counts on.
Vital(k) == Recorded(k) /\ task[k].run # "over" /\ starter[task[k].by].end # "refused"

\* Under the lock a start that has made something made it for a revision nobody
\* counted on, and what it is about to record has its files.
FilesInv ==
  ~broken => \A s \in Starters :
    /\ starter[s].step \in {"snapshot", "launch", "commit", "step"} => checkout[Slot(s)] # NoCheckout
    /\ starter[s].step \in {"commit", "step"} => launch[Slot(s)].by = s
    /\ starter[s].step \in {"snapshot", "launch", "commit"} =>
         (starter[s].created \/ starter[s].wrote => ~Vital(Slot(s)))
    /\ starter[s].step = "step" => task[Slot(s)].by = s
    /\ starter[s].step = "rollback" =>
         (starter[s].created \/ starter[s].wrote => ~Vital(Slot(s)) \/ task[Slot(s)].by = s)

StartInv == RegistryInv /\ StartTypeInv /\ MadeInv /\ LockInv /\ FilesInv /\ RecordedHasItsFiles

-----------------------------------------------------------------------------
(* The reclaim. *)

HandStates == [step : HandSteps, force : BOOLEAN]

\* Without a story nothing is reclaimed; with one the revision has run.
StoryInv ==
  /\ story = NoStory =>
       /\ \A h \in Hands : InHand(h, "away")
       /\ decision = Nobody /\ settlement = "open"
       /\ changes = "none" /\ report = "none" /\ worker = "gone" /\ pane = "none"
  /\ story # NoStory => Recorded(Old) /\ task[Old].run = "over"
  /\ settlement = "decided" => story.outcome = "candidate"
  /\ settlement = "acknowledged" => story.outcome = "lost"
  /\ pane = "open" => report = "inside"
  /\ worker = "orphan" => story.outcome = "lost"

\* A decision that was asked to discard ignored files agreed with the recorded one.
Agreed == \E d \in Deciders : Asks(d) /\ Agrees(d)
MarkInv ==
  /\ mark # Nobody => Asks(mark) \/ (mark = decision /\ Agreed)
  /\ \A d \in Deciders : InHand(d, "remark") => Agrees(d)

\* What the gates saw stays so until the checkout goes.
GatesInv ==
  /\ hand \in [Hands -> HandStates]
  /\ hand[Pruner].step \in {"away", "remove", "branch", "dead"}
  /\ \A h \in Hands :
       /\ h # Pruner /\ hand[h].step \in {"newer", "exit", "lock", "assess", "remove"} =>
            Settled /\ pane # "open" /\ report # "inside"
       /\ h # Pruner /\ hand[h].step \in {"lock", "assess", "remove"} => worker = "gone"
       /\ InHand(h, "remove") =>
            /\ Settled /\ pane # "open" /\ report # "inside" /\ worker # "orphan"
            /\ changes \notin {"plain", "nested"}
            /\ ignored => IF h = Pruner THEN story.pruneIgnored ELSE Agreed

\* Of the starts that apply the patch only one is between its receipt's intent and
\* its last word, and the patch has not gone in before.
PatchInv ==
  ~broken =>
    /\ integration \in {"none", "failed"} => applied = 0
    /\ \A s \in Starters :
         /\ At(s, "patch") => integration = "started" /\ applied = 0
         /\ At(s, "settle") => integration = "started"

CheckoutInv ==
  StartInv /\ ReclaimTypeOK /\ StoryInv /\ MarkInv /\ GatesInv /\ PatchInv /\ PatchAppliedOnce

-----------------------------------------------------------------------------
(* A certification does not put into force what no scratch run has tried.    *)

RegistryActs ==
  \/ UpdateCli
  \/ \E c \in Certifiers : BeginAdd(c) \/ BeginAuthored(c) \/ BeginRecertify(c) \/ Certify(c)
  \/ \E c \in Certifiers : certifier' = [certifier EXCEPT ![c] = Idle] /\ UNCHANGED Files
  \/ UNCHANGED registryVars

LEMMA CliTypes ==
  /\ MaxCli \in Nat /\ MaxCli >= 1
  /\ Idle \in Certifications /\ NoRecipe \notin Recipes
  /\ \A m \in Recipes : m.by \in {"generated", "authored"}
  /\ \A c \in Clis : c.bytes \in 1..MaxCli /\ c.prints \in 1..MaxCli /\ c = [bytes |-> c.bytes, prints |-> c.prints]
  /\ Authored \in Recipes /\ \A p \in 1..MaxCli : Draft(p) \in Recipes
<1> USE MaxCliAssumption
<1>1. MaxCli \in Nat /\ MaxCli >= 1
  OBVIOUS
<1>2. Idle \in Certifications
  BY DEF Idle, Certifications, Clis, Steps
<1>3. NoRecipe \notin Recipes /\ \A m \in Recipes : m.by \in {"generated", "authored"}
  <2>1. \A m \in Recipes : m = Authored \/ \E p \in 1..MaxCli : m = Draft(p)
    BY DEF Recipes
  <2>2. Authored.by = "authored" /\ NoRecipe.by = "nobody" /\ \A p \in 1..MaxCli : Draft(p).by = "generated"
    BY DEF Authored, NoRecipe, Draft
  <2> QED BY <2>1, <2>2
<1>4. \A c \in Clis : c.bytes \in 1..MaxCli /\ c.prints \in 1..MaxCli /\ c = [bytes |-> c.bytes, prints |-> c.prints]
  BY DEF Clis
<1>5. Authored \in Recipes /\ \A p \in 1..MaxCli : Draft(p) \in Recipes
  BY DEF Recipes
<1> QED BY <1>1, <1>2, <1>3, <1>4, <1>5

\* It stays true when the CLI grows newer and more is tried.
LEMMA CertificationStays ==
  ASSUME NEW x \in Certifications, NEW b \in 1..MaxCli, NEW b2 \in 1..MaxCli, b <= b2,
         NEW T, NEW T2, T \subseteq T2, CertificationOK(x, b, T)
  PROVE  CertificationOK(x, b2, T2)
<1>1. x.before.bytes \in 1..MaxCli
  BY CliTypes DEF Certifications
<1>2. x.before.bytes .. b \subseteq x.before.bytes .. b2 /\ (x.before.bytes <= b => x.before.bytes <= b2)
  BY <1>1, CliTypes
<1> QED BY <1>2 DEF CertificationOK

LEMMA RegistryStep ==
  ASSUME RegistryInv, RegistryActs
  PROVE  RegistryInv' /\ certified \subseteq certified'
<1>1. /\ cli \in Clis /\ manifest \in Recipes /\ receipt \in Receipts
      /\ certifier \in [Certifiers -> Certifications]
      /\ certified \subseteq [recipe : Recipes, bytes : 1..MaxCli]
      /\ [recipe |-> receipt.recipe, bytes |-> receipt.bytes] \in certified
      /\ \A c \in Certifiers : CertificationOK(certifier[c], cli.bytes, certified)
  BY DEF RegistryInv
<1> DEFINE Good == RegistryInv' /\ certified \subseteq certified'
<1>c. cli.bytes \in 1..MaxCli /\ cli.prints \in 1..MaxCli
  BY <1>1, CliTypes
\* A step of one certification.
<1>2. ASSUME NEW c \in Certifiers, NEW x \in Certifications,
             certifier' = [certifier EXCEPT ![c] = x], UNCHANGED cli,
             certified \subseteq certified', CertificationOK(x, cli.bytes, certified')
      PROVE  /\ certifier' \in [Certifiers -> Certifications]
             /\ \A q \in Certifiers : CertificationOK(certifier'[q], cli'.bytes, certified')
  <2>1. certifier' \in [Certifiers -> Certifications]
    BY <1>1, <1>2
  <2>2. ASSUME NEW q \in Certifiers PROVE CertificationOK(certifier'[q], cli.bytes, certified')
    <3>1. CASE q = c
      BY <1>1, <1>2, <3>1
    <3>2. CASE q # c
      <4>1. certifier'[q] = certifier[q] /\ certifier[q] \in Certifications
        BY <1>1, <1>2, <3>2
      <4>2. CertificationOK(certifier[q], cli.bytes, certified) /\ cli.bytes <= cli.bytes
        BY <1>1, <1>c, CliTypes
      <4> QED BY <1>2, <1>c, <4>1, <4>2, CertificationStays
    <3> QED BY <3>1, <3>2
  <2> QED BY <1>2, <2>1, <2>2
\* One that leaves the files alone.
<1>3. ASSUME NEW c \in Certifiers, NEW x \in Certifications,
             certifier' = [certifier EXCEPT ![c] = x], UNCHANGED Files,
             CertificationOK(x, cli.bytes, certified)
      PROVE  Good
  <2>1. UNCHANGED <<cli, manifest, receipt, certified>>
    BY <1>3 DEF Files
  <2> QED BY <1>1, <1>2, <1>3, <2>1 DEF RegistryInv
<1>4. CASE UpdateCli
  <2>1. cli' \in Clis /\ cli.bytes <= cli'.bytes /\ UNCHANGED <<manifest, receipt, certifier, certified>>
    BY <1>4, <1>c, CliTypes DEF UpdateCli, Clis
  <2>2. cli'.bytes \in 1..MaxCli
    BY <2>1, CliTypes
  <2>3. \A c \in Certifiers : CertificationOK(certifier'[c], cli'.bytes, certified')
    BY <1>1, <1>c, <2>1, <2>2, CertificationStays
  <2> QED BY <1>1, <2>1, <2>3 DEF RegistryInv
<1>5. CASE UNCHANGED registryVars
  BY <1>1, <1>5 DEF registryVars, RegistryInv
<1>6. ASSUME NEW c \in Certifiers,
             \/ BeginAdd(c) \/ BeginAuthored(c) \/ BeginRecertify(c) \/ Certify(c)
             \/ certifier' = [certifier EXCEPT ![c] = Idle] /\ UNCHANGED Files
      PROVE  Good
  <2> DEFINE x == certifier[c]
  <2>1. x \in Certifications /\ CertificationOK(x, cli.bytes, certified)
    BY <1>1
  <2>t. /\ x.step \in Steps /\ x.recipe \in Recipes \cup {NoRecipe} /\ x.before \in Clis /\ x.after \in Clis
        /\ x.before.bytes \in 1..MaxCli /\ x.after.bytes \in 1..MaxCli
    BY <2>1, CliTypes DEF Certifications
  <2>2. CASE BeginAdd(c)
    <3> DEFINE y == [x EXCEPT !.step = "draft"]
    <3>1. y \in Certifications /\ y.step = "draft"
      BY <2>1 DEF Certifications, Steps
    <3>2. certifier' = [certifier EXCEPT ![c] = y] /\ UNCHANGED Files
      BY <1>1, <2>2 DEF BeginAdd, Move
    <3> HIDE DEF y
    <3>3. CertificationOK(y, cli.bytes, certified)
      BY <3>1 DEF CertificationOK, WithRecipe
    <3> QED BY <1>3, <3>1, <3>2, <3>3
  <2>3. CASE BeginAuthored(c)
    <3> DEFINE y == [x EXCEPT !.step = "draft", !.recipe = Authored]
    <3>1. y \in Certifications /\ y.step = "draft"
      BY <2>1, CliTypes DEF Certifications, Steps
    <3>2. certifier' = [certifier EXCEPT ![c] = y] /\ UNCHANGED Files
      BY <1>1, <2>3 DEF BeginAuthored
    <3> HIDE DEF y
    <3>3. CertificationOK(y, cli.bytes, certified)
      BY <3>1 DEF CertificationOK, WithRecipe
    <3> QED BY <1>3, <3>1, <3>2, <3>3
  <2>4. CASE BeginRecertify(c)
    <3> DEFINE y == [x EXCEPT !.step = IF receipt.mode = "authored" THEN "mode" ELSE "draft"]
    <3>1. y \in Certifications /\ y.step \in {"mode", "draft"}
      BY <2>1 DEF Certifications, Steps
    <3>2. certifier' = [certifier EXCEPT ![c] = y] /\ UNCHANGED Files
      BY <1>1, <2>4 DEF BeginRecertify, Move
    <3> HIDE DEF y
    <3>3. CertificationOK(y, cli.bytes, certified)
      BY <3>1 DEF CertificationOK, WithRecipe
    <3> QED BY <1>3, <3>1, <3>2, <3>3
  <2>5. CASE ReadAuthored(c)
    <3> DEFINE y == [x EXCEPT !.step = "draft", !.recipe = manifest]
    <3>1. y \in Certifications /\ y.step = "draft"
      BY <1>1, <2>1 DEF Certifications, Steps
    <3>2. certifier' = [certifier EXCEPT ![c] = y] /\ UNCHANGED Files
      BY <1>1, <2>5 DEF ReadAuthored
    <3> HIDE DEF y
    <3>3. CertificationOK(y, cli.bytes, certified)
      BY <3>1 DEF CertificationOK, WithRecipe
    <3> QED BY <1>3, <3>1, <3>2, <3>3
  <2>6. CASE ProbeBefore(c)
    <3> DEFINE m == IF x.recipe = NoRecipe THEN Draft(cli.prints) ELSE x.recipe
               b == [x.before EXCEPT !.prints = cli.prints]
               y == [x EXCEPT !.step = "digest", !.recipe = m, !.before = b]
    <3>1. m \in Recipes /\ b \in Clis
      BY <1>c, <2>t, CliTypes DEF Clis
    <3>3. certifier' = [certifier EXCEPT ![c] = y] /\ UNCHANGED Files
      BY <1>1, <2>6 DEF ProbeBefore, Certifications
    <3> HIDE DEF m, b
    <3>2. y \in Certifications /\ y.step = "digest" /\ y.recipe = m
      BY <2>1, <3>1 DEF Certifications, Steps
    <3> HIDE DEF y
    <3>4. CertificationOK(y, cli.bytes, certified)
      BY <3>1, <3>2 DEF CertificationOK, WithRecipe
    <3> QED BY <1>3, <3>2, <3>3, <3>4
  <2>7. CASE DigestBefore(c)
    <3> DEFINE b == [x.before EXCEPT !.bytes = cli.bytes]
               y == [x EXCEPT !.step = "scratch", !.before = b]
    <3>1. b \in Clis /\ b.bytes = cli.bytes
      BY <1>c, <2>t, CliTypes DEF Clis
    <3>3. certifier' = [certifier EXCEPT ![c] = y] /\ UNCHANGED Files /\ x.step = "digest"
      BY <1>1, <2>7 DEF DigestBefore, Certifications
    <3> HIDE DEF b
    <3>2. y \in Certifications /\ y.step = "scratch" /\ y.recipe = x.recipe /\ y.before = b
      BY <2>1, <3>1 DEF Certifications, Steps
    <3>4. x.recipe \in Recipes /\ cli.bytes <= cli.bytes
      BY <1>c, <2>1, <3>3, CliTypes DEF CertificationOK, WithRecipe
    <3> HIDE DEF y
    <3>5. CertificationOK(y, cli.bytes, certified)
      BY <3>1, <3>2, <3>4 DEF CertificationOK
    <3> QED BY <1>3, <3>2, <3>3, <3>5
  <2>8. CASE Scratch(c)
    <3>0. x.step = "scratch" /\ x.recipe \in Recipes /\ x.before.bytes <= cli.bytes
      BY <2>1, <2>8 DEF Scratch, CertificationOK, WithRecipe
    <3>1. CASE Move(c, "reprobe") /\ certified' = certified \cup {[recipe |-> x.recipe, bytes |-> cli.bytes]}
      <4> DEFINE y == [x EXCEPT !.step = "reprobe"]
      <4>1. y \in Certifications /\ y.step = "reprobe" /\ y.recipe = x.recipe /\ y.before = x.before
        BY <2>1 DEF Certifications, Steps
      <4>2. certifier' = [certifier EXCEPT ![c] = y] /\ UNCHANGED <<cli, manifest, receipt>>
        BY <1>1, <2>8, <3>1 DEF Scratch, Move
      <4> HIDE DEF y
      <4>3. cli.bytes \in x.before.bytes .. cli.bytes
        BY <1>c, <2>t, <3>0, CliTypes
      <4>4. CertificationOK(y, cli.bytes, certified')
        BY <3>0, <3>1, <4>1, <4>3 DEF CertificationOK, WithRecipe
      <4>5. certified \subseteq certified' /\ certified' \subseteq [recipe : Recipes, bytes : 1..MaxCli]
        BY <1>1, <1>c, <3>0, <3>1
      <4> QED BY <1>1, <1>2, <4>1, <4>2, <4>4, <4>5 DEF RegistryInv
    <3>2. CASE Move(c, "failed") /\ UNCHANGED certified
      <4> DEFINE y == [x EXCEPT !.step = "failed"]
      <4>1. y \in Certifications /\ y.step = "failed"
        BY <2>1 DEF Certifications, Steps
      <4>2. certifier' = [certifier EXCEPT ![c] = y] /\ UNCHANGED Files
        BY <1>1, <2>8, <3>2 DEF Scratch, Move, Files
      <4> HIDE DEF y
      <4>3. CertificationOK(y, cli.bytes, certified)
        BY <4>1 DEF CertificationOK, WithRecipe
      <4> QED BY <1>3, <4>1, <4>2, <4>3
    <3> QED BY <2>8, <3>1, <3>2 DEF Scratch
  <2>9. CASE ProbeAfter(c)
    <3> DEFINE a == [x.after EXCEPT !.prints = cli.prints]
               y == [x EXCEPT !.step = "redigest", !.after = a]
    <3>1. a \in Clis
      BY <1>c, <2>t, CliTypes DEF Clis
    <3>3. certifier' = [certifier EXCEPT ![c] = y] /\ UNCHANGED Files /\ x.step = "reprobe"
      BY <1>1, <2>9 DEF ProbeAfter, Certifications
    <3> HIDE DEF a
    <3>2. y \in Certifications /\ y.step = "redigest" /\ y.recipe = x.recipe /\ y.before = x.before
      BY <2>1, <3>1 DEF Certifications, Steps
    <3> HIDE DEF y
    <3>4. CertificationOK(y, cli.bytes, certified)
      BY <2>1, <3>2, <3>3 DEF CertificationOK, WithRecipe
    <3> QED BY <1>3, <3>2, <3>3, <3>4
  <2>10. CASE DigestAfter(c)
    <3> DEFINE a == [x.after EXCEPT !.bytes = cli.bytes]
               st == IF a = x.before THEN "manifest" ELSE "failed"
               y == [x EXCEPT !.step = st, !.after = a]
    <3>1. a \in Clis /\ a.bytes = cli.bytes /\ st \in {"manifest", "failed"}
      BY <1>c, <2>t, CliTypes DEF Clis
    <3>2. certifier' = [certifier EXCEPT ![c] = y] /\ UNCHANGED Files /\ x.step = "redigest"
      BY <1>1, <2>10 DEF DigestAfter, SameCli
    <3>3. st = "manifest" => [recipe |-> x.recipe, bytes |-> cli.bytes] \in certified /\ x.recipe \in Recipes
      <4> SUFFICES ASSUME st = "manifest"
                   PROVE  [recipe |-> x.recipe, bytes |-> cli.bytes] \in certified /\ x.recipe \in Recipes
        OBVIOUS
      <4>1. PICK b \in x.before.bytes .. cli.bytes : [recipe |-> x.recipe, bytes |-> b] \in certified
        BY <2>1, <3>2 DEF CertificationOK
      <4>2. x.before.bytes = cli.bytes
        BY <3>1
      <4>3. b = cli.bytes
        BY <1>c, <4>1, <4>2, CliTypes
      <4> QED BY <2>1, <3>2, <4>1, <4>3 DEF CertificationOK, WithRecipe
    <3> HIDE DEF a, st
    <3>4. y \in Certifications /\ y.step = st /\ y.recipe = x.recipe /\ y.after = a
      BY <2>1, <3>1 DEF Certifications, Steps
    <3> HIDE DEF y
    <3>5. CertificationOK(y, cli.bytes, certified)
      BY <3>1, <3>3, <3>4 DEF CertificationOK, WithRecipe
    <3> QED BY <1>3, <3>2, <3>4, <3>5
  <2>11. CASE WriteManifest(c)
    <3>0. x.step = "manifest" /\ x.recipe \in Recipes /\ [recipe |-> x.recipe, bytes |-> x.after.bytes] \in certified
      BY <2>1, <2>11 DEF WriteManifest, CertificationOK, WithRecipe
    <3> DEFINE st == IF cli.bytes = x.after.bytes THEN "receipt" ELSE "failed"
               y == [x EXCEPT !.step = st]
    <3>1. y \in Certifications /\ y.step \in {"receipt", "failed"} /\ y.recipe = x.recipe /\ y.after = x.after
      BY <2>1 DEF Certifications, Steps
    <3>2. /\ certifier' = [certifier EXCEPT ![c] = y] /\ UNCHANGED <<cli, receipt, certified>>
          /\ manifest' \in Recipes
      BY <1>1, <2>11, <3>0 DEF WriteManifest, Move
    <3> HIDE DEF y
    <3>3. CertificationOK(y, cli.bytes, certified)
      BY <3>0, <3>1 DEF CertificationOK, WithRecipe
    <3> QED BY <1>1, <1>2, <3>1, <3>2, <3>3 DEF RegistryInv
  <2>12. CASE WriteReceipt(c)
    <3>0. x.step = "receipt" /\ x.recipe \in Recipes /\ [recipe |-> x.recipe, bytes |-> x.after.bytes] \in certified
      BY <2>1, <2>12 DEF WriteReceipt, CertificationOK, WithRecipe
    <3> DEFINE y == [x EXCEPT !.step = "done"]
    <3>1. y \in Certifications /\ y.step = "done"
      BY <2>1 DEF Certifications, Steps
    <3>2. /\ certifier' = [certifier EXCEPT ![c] = y] /\ UNCHANGED <<cli, manifest, certified>>
          /\ receipt' = Receipt(x.recipe, x.after)
      BY <1>1, <2>12 DEF WriteReceipt, Move
    <3> HIDE DEF y
    <3>3. CertificationOK(y, cli.bytes, certified)
      BY <3>1 DEF CertificationOK, WithRecipe
    <3>4. receipt' \in Receipts /\ receipt'.recipe = x.recipe /\ receipt'.bytes = x.after.bytes
      <4> DEFINE m == x.recipe  b == x.after.bytes  q == x.after.prints  k == x.recipe.by
      <4>1. m \in Recipes /\ b \in 1..MaxCli /\ q \in 1..MaxCli /\ k \in {"generated", "authored"}
        BY <2>t, <3>0, CliTypes
      <4>2. receipt' = [recipe |-> m, bytes |-> b, prints |-> q, mode |-> k]
        BY <3>2 DEF Receipt
      <4> HIDE DEF m, b, q, k
      <4>3. [recipe |-> m, bytes |-> b, prints |-> q, mode |-> k] \in Receipts
        BY <4>1 DEF Receipts
      <4> QED BY <4>2, <4>3 DEF m, b
    <3> QED BY <1>1, <1>2, <3>0, <3>1, <3>2, <3>3, <3>4 DEF RegistryInv
  <2>13. CASE certifier' = [certifier EXCEPT ![c] = Idle] /\ UNCHANGED Files
    <3>1. CertificationOK(Idle, cli.bytes, certified)
      BY DEF CertificationOK, WithRecipe, Idle
    <3> QED BY <1>3, <2>13, <3>1, CliTypes
  <2> QED BY <1>6, <2>2, <2>3, <2>4, <2>5, <2>6, <2>7, <2>8, <2>9, <2>10, <2>11, <2>12, <2>13 DEF Certify
<1> QED BY <1>4, <1>5, <1>6 DEF RegistryActs

-----------------------------------------------------------------------------
(* What a step of a start does. *)

Frame(s) ==
  /\ starter' \in [Starters -> Starts] /\ UNCHANGED <<plan, head>>
  /\ \A t \in Starters \ {s} : starter'[t] = starter[t]
Made(s) == starter'[s].created = starter[s].created /\ starter'[s].wrote = starter[s].wrote
Becomes(s, step) ==
  /\ Frame(s) /\ Made(s) /\ starter'[s].end = starter[s].end /\ starter'[s].pin = starter[s].pin
  /\ starter'[s].step = step
Exits(s, end) == Frame(s) /\ Made(s) /\ starter'[s].step = "unlock" /\ starter'[s].end = end

Outer == {"probe", "receipt", "prints", "certify", "load", "digest", "bind", "lock"}
LocksStay == UNCHANGED <<lock, broken>>

\* Before the lock: towards it, or to an end.
Approaches(s) ==
  /\ Frame(s) /\ Made(s) /\ starter'[s].end = starter[s].end
  /\ starter[s].step \in Outer
  /\ starter'[s].step \in Outer \cup {"steal", "refused", "replayed"}
  /\ starter'[s].step \in Pinned => starter'[s].pin \in certified
  /\ LocksStay /\ UNCHANGED <<checkout, launch, task>>
Dies(s) ==
  /\ Becomes(s, "dead") /\ ~At(s, "none")
  /\ LocksStay /\ UNCHANGED <<checkout, launch, task>>
\* The lock.
Takes(s) ==
  /\ At(s, "lock") /\ lock = Nobody /\ Becomes(s, "sign")
  /\ lock' = [pid |-> s, signed |-> FALSE] /\ UNCHANGED <<broken, checkout, launch, task>>
Signs(s) ==
  /\ At(s, "sign")
  /\ Becomes(s, IF plan.jobs[s].kind = "apply" THEN "check" ELSE "prepare")
  /\ lock' = lock \/ (lock # Nobody /\ lock' = [pid |-> lock.pid, signed |-> TRUE])
  /\ UNCHANGED <<broken, checkout, launch, task>>
Drops(s) ==
  /\ (At(s, "steal") /\ Becomes(s, "lock")) \/ (At(s, "unlock") /\ Becomes(s, starter[s].end))
  /\ lock' = Nobody /\ broken' = (broken \/ LosesLock(s)) /\ UNCHANGED <<checkout, launch, task>>
\* The checkout and the launch file.
Prepares(s) ==
  /\ At(s, "prepare") /\ LocksStay /\ UNCHANGED <<launch, task>>
  /\ \/ /\ checkout[Slot(s)] = NoCheckout
        /\ checkout' = [checkout EXCEPT ![Slot(s)] = [by |-> s, holds |-> "base"]]
        /\ Frame(s) /\ starter'[s].created /\ starter'[s].wrote = starter[s].wrote
        /\ starter'[s].end = starter[s].end /\ starter'[s].pin = starter[s].pin
        /\ starter'[s].step \in {"snapshot", "launch"}
     \/ /\ checkout[Slot(s)] # NoCheckout /\ UNCHANGED checkout
        /\ Becomes(s, "snapshot") \/ Becomes(s, "launch") \/ Exits(s, "refused")
Snapshots(s) ==
  /\ At(s, "snapshot") /\ LocksStay /\ UNCHANGED <<launch, task>>
  /\ checkout' = IF checkout[Slot(s)] = NoCheckout THEN checkout
                 ELSE [checkout EXCEPT ![Slot(s)].holds = s]
  /\ \/ checkout[Slot(s)] # NoCheckout /\ Becomes(s, "launch")
     \/ Exits(s, "failed")
Writes(s) ==
  /\ At(s, "launch") /\ LocksStay /\ UNCHANGED <<checkout, task>>
  /\ \/ /\ launch[Slot(s)] = NoLaunch
        /\ launch' = [launch EXCEPT ![Slot(s)] = [by |-> s, pin |-> starter[s].pin]]
        /\ Frame(s) /\ starter'[s].created = starter[s].created /\ starter'[s].wrote
        /\ starter'[s].end = starter[s].end /\ starter'[s].step = "commit"
     \/ /\ launch[Slot(s)] # NoLaunch /\ UNCHANGED launch
        /\ Becomes(s, "rollback")
\* The record.
Records(s) ==
  /\ At(s, "commit") /\ ~Recorded(Slot(s)) /\ LocksStay /\ UNCHANGED <<checkout, launch>>
  /\ task' = [task EXCEPT ![Slot(s)] = [by |-> s, run |-> "admitted"]]
  /\ Exits(s, "started") \/ Becomes(s, "step")
Refrains(s) ==
  /\ LocksStay /\ UNCHANGED <<checkout, launch, task>>
  /\ \/ At(s, "commit") /\ Becomes(s, "rollback")
     \/ At(s, "step") /\ (Becomes(s, "rollback") \/ Exits(s, "started"))
Discards(s) ==
  /\ LocksStay /\ UNCHANGED task /\ Discard(s)
  /\ \/ At(s, "commit") /\ (Exits(s, "replayed") \/ Exits(s, "refused"))
     \/ At(s, "rollback") /\ Exits(s, "refused")
\* The patch.
Patches(s) ==
  /\ LocksStay /\ UNCHANGED <<checkout, launch, task>>
  /\ starter[s].step \in {"check", "intent", "patch", "settle"}
  /\ \/ Becomes(s, "intent") \/ Becomes(s, "patch") \/ Becomes(s, "settle")
     \/ Exits(s, "refused") \/ Exits(s, "applied")

StartActs(s) ==
  \/ Approaches(s) \/ Dies(s) \/ Takes(s) \/ Signs(s) \/ Drops(s) \/ Prepares(s) \/ Snapshots(s)
  \/ Writes(s) \/ Records(s) \/ Refrains(s) \/ Discards(s) \/ Patches(s)

LEMMA GoingOn ==
  ASSUME starter \in [Starters -> Starts], UNCHANGED <<plan, head>>, NEW s \in Starters,
         NEW step \in StartSteps, Go(s, step)
  PROVE  Becomes(s, step)
<1> DEFINE y == [starter[s] EXCEPT !.step = step]
<1>1. starter' = [starter EXCEPT ![s] = y]
  BY DEF Go
<1>2. /\ y \in Starts /\ y.step = step /\ y.end = starter[s].end /\ y.pin = starter[s].pin
      /\ y.created = starter[s].created /\ y.wrote = starter[s].wrote
  BY DEF Starts
<1> HIDE DEF y
<1> QED BY <1>1, <1>2 DEF Becomes, Frame, Made

LEMMA Leaving ==
  ASSUME starter \in [Starters -> Starts], UNCHANGED <<plan, head>>, NEW s \in Starters,
         NEW end \in Over, Leave(s, end)
  PROVE  Exits(s, end)
<1> DEFINE y == [starter[s] EXCEPT !.step = "unlock", !.end = end]
<1>1. starter' = [starter EXCEPT ![s] = y]
  BY DEF Leave
<1>2. /\ y.step = "unlock" /\ y.end = end
      /\ y.created = starter[s].created /\ y.wrote = starter[s].wrote
  BY DEF Starts
<1>3. y \in Starts
  <2>1. "unlock" \in StartSteps
    BY DEF StartSteps
  <2> HIDE DEF y
  <2> QED BY <2>1 DEF Starts, y
<1> HIDE DEF y
<1> QED BY <1>1, <1>2, <1>3 DEF Exits, Frame, Made

\* Any other change of one start.
LEMMA Changing ==
  ASSUME starter \in [Starters -> Starts], UNCHANGED <<plan, head>>, NEW s \in Starters,
         NEW y \in Starts, starter' = [starter EXCEPT ![s] = y]
  PROVE  Frame(s) /\ starter'[s] = y
BY DEF Frame

\* Every step of a start, of the patch, a refusal and a death is one of these.
LEMMA StartStep ==
  ASSUME RegistryInv, StartTypeInv, NEW s \in Starters,
         Start(s) \/ Die(s) \/ NotRevisable(s) \/ Apply(s)
  PROVE  StartActs(s) \/ UNCHANGED admissionVars
<1> DEFINE x == starter[s]
           Going(st) == Go(s, st) /\ UNCHANGED <<plan, head, lock, broken, checkout, launch, task>>
<1>t. /\ starter \in [Starters -> Starts] /\ x \in Starts
      /\ checkout \in [Slots -> Checkouts] /\ launch \in [Slots -> Launches] /\ task \in [Slots -> Rows]
      /\ lock \in [pid : Starters, signed : BOOLEAN] \cup {Nobody}
      /\ (x.step \in Pinned => x.pin \in certified) /\ head \in 0..1
  BY DEF StartTypeInv, StartOK
<1> USE DEF At
<1>a. ASSUME NEW st \in {"receipt", "prints", "certify", "load", "digest", "probe", "refused", "replayed", "steal"},
             Going(st), x.step \in Outer, st = "steal" => x.step = "lock"
      PROVE  Approaches(s)
  <2>1. st \in StartSteps
    BY <1>a DEF StartSteps
  <2>2. Becomes(s, st)
    BY <1>t, <1>a, <2>1, GoingOn
  <2> QED BY <1>t, <1>a, <2>2 DEF Becomes, Approaches, Outer, Pinned, LocksStay
\* A change that keeps everything but the step, what was seen, the proof and auto.
<1>b. ASSUME NEW y \in Starts, starter' = [starter EXCEPT ![s] = y],
             UNCHANGED <<plan, head, lock, broken, checkout, launch, task>>,
             y.end = x.end, y.created = x.created, y.wrote = x.wrote,
             y.step \in Pinned => y.pin \in certified,
             x.step \in Outer, y.step \in Outer \cup {"steal", "refused", "replayed"}
      PROVE  Approaches(s)
  BY <1>t, <1>b, Changing DEF Approaches, Made, LocksStay
<1>1. CASE ReadForProbe(s)
  <2> DEFINE y == [x EXCEPT !.step = "receipt", !.seen = manifest]
  <2>1. y \in Starts /\ y.step = "receipt" /\ y.end = x.end /\ y.created = x.created /\ y.wrote = x.wrote
    BY <1>t DEF Starts, StartSteps, RegistryInv
  <2>2. /\ starter' = [starter EXCEPT ![s] = y] /\ x.step = "probe"
        /\ UNCHANGED <<plan, head, lock, broken, checkout, launch, task>>
    BY <1>1 DEF ReadForProbe, Quiet, Disk
  <2> HIDE DEF y
  <2>3. Approaches(s)
    BY <1>b, <2>1, <2>2 DEF Outer, Pinned
  <2> QED BY <2>3 DEF StartActs
<1>d. ASSUME Drifted(s), UNCHANGED <<plan, head, lock, broken, checkout, launch, task>>, x.step \in Outer
      PROVE  Approaches(s)
  <2> DEFINE st == IF x.auto THEN "certify" ELSE "refused"
             y == [x EXCEPT !.step = st, !.auto = FALSE]
  <2>1. st \in {"certify", "refused"}
    OBVIOUS
  <2>2. starter' = [starter EXCEPT ![s] = y]
    BY <1>d DEF Drifted
  <2> HIDE DEF st
  <2>3. y \in Starts /\ y.step = st /\ y.end = x.end /\ y.created = x.created /\ y.wrote = x.wrote
    BY <1>t, <2>1 DEF Starts, StartSteps
  <2> HIDE DEF y
  <2> QED BY <1>b, <1>d, <2>1, <2>2, <2>3 DEF Outer, Pinned
<1>2. CASE CheckReceipt(s)
  <2>1. x.step = "receipt" /\ UNCHANGED <<plan, head, lock, broken, checkout, launch, task>>
    BY <1>2 DEF CheckReceipt, Quiet, Disk
  <2>2. Go(s, "refused") \/ Drifted(s) \/ Go(s, "prints")
    BY <1>2 DEF CheckReceipt
  <2>3. Approaches(s)
    BY <1>a, <1>d, <2>1, <2>2 DEF Outer
  <2> QED BY <2>3 DEF StartActs
<1>3. CASE CheckPrints(s)
  <2>1. x.step = "prints" /\ UNCHANGED <<plan, head, lock, broken, checkout, launch, task>>
    BY <1>3 DEF CheckPrints, Quiet, Disk
  <2>2. Go(s, "load") \/ Drifted(s) \/ Go(s, "refused")
    BY <1>3 DEF CheckPrints
  <2>3. Approaches(s)
    BY <1>a, <1>d, <2>1, <2>2 DEF Outer
  <2> QED BY <2>3 DEF StartActs
<1>4. CASE Recertify(s)
  <2>1. x.step = "certify" /\ UNCHANGED <<plan, head, lock, broken, checkout, launch, task>>
    BY <1>4 DEF Recertify, Quiet, Disk
  <2>2. UNCHANGED starter \/ Go(s, "probe") \/ Go(s, "refused")
    BY <1>4 DEF Recertify
  <2>3. UNCHANGED admissionVars \/ Approaches(s)
    BY <1>a, <2>1, <2>2 DEF Outer, admissionVars
  <2> QED BY <2>3 DEF StartActs
<1>5. CASE CertifyFor(s)
  BY <1>5 DEF CertifyFor
<1>6. CASE ReadForLaunch(s)
  <2> DEFINE y == [x EXCEPT !.step = "digest", !.seen = manifest]
  <2>1. y \in Starts /\ y.step = "digest" /\ y.end = x.end /\ y.created = x.created /\ y.wrote = x.wrote
    BY <1>t DEF Starts, StartSteps, RegistryInv
  <2>2. /\ starter' = [starter EXCEPT ![s] = y] /\ x.step = "load"
        /\ UNCHANGED <<plan, head, lock, broken, checkout, launch, task>>
    BY <1>6 DEF ReadForLaunch, Quiet, Disk
  <2> HIDE DEF y
  <2>3. Approaches(s)
    BY <1>b, <2>1, <2>2 DEF Outer, Pinned
  <2> QED BY <2>3 DEF StartActs
<1>7. CASE PinHarness(s)
  <2>1. x.step = "digest" /\ UNCHANGED <<plan, head, lock, broken, checkout, launch, task>>
    BY <1>7 DEF PinHarness, Quiet, Disk
  <2>2. CASE Go(s, "refused")
    <3>1. Approaches(s)
      BY <1>a, <2>1, <2>2 DEF Outer
    <3> QED BY <3>1 DEF StartActs
  <2>3. CASE ~Go(s, "refused")
    <3> DEFINE pin == [recipe |-> x.seen, bytes |-> receipt.bytes]
               y == [x EXCEPT !.step = "bind", !.pin = pin]
    <3>1. receipt.recipe = x.seen /\ starter' = [starter EXCEPT ![s] = y]
      BY <1>7, <2>3 DEF PinHarness, Belongs
    <3>2. pin \in certified /\ certified \subseteq [recipe : Recipes, bytes : 1..MaxCli]
      BY <3>1 DEF RegistryInv
    <3>3. pin \in Pins
      <4>1. 1..MaxCli \subseteq 0..MaxCli
        BY CliTypes
      <4> QED BY <3>2, <4>1 DEF Pins
    <3> HIDE DEF pin
    <3>4. y \in Starts /\ y.step = "bind" /\ y.end = x.end /\ y.created = x.created /\ y.wrote = x.wrote /\ y.pin = pin
      BY <1>t, <3>3 DEF Starts, StartSteps
    <3> HIDE DEF y
    <3>5. Approaches(s)
      BY <1>b, <2>1, <3>1, <3>2, <3>4 DEF Outer
    <3> QED BY <3>5 DEF StartActs
  <2> QED BY <2>2, <2>3
<1>8. CASE Prove(s)
  <2>1. x.step = "bind" /\ UNCHANGED <<plan, head, lock, broken, checkout, launch, task>>
    BY <1>8 DEF Prove, Quiet, Disk
  <2>2. CASE Go(s, "refused") \/ Go(s, "replayed")
    <3>1. Approaches(s)
      BY <1>a, <2>1, <2>2 DEF Outer
    <3> QED BY <3>1 DEF StartActs
  <2>3. CASE ~(Go(s, "refused") \/ Go(s, "replayed"))
    <3> DEFINE y == [x EXCEPT !.step = "lock", !.proof = head]
    <3>1. starter' = [starter EXCEPT ![s] = y]
      BY <1>8, <2>3 DEF Prove
    <3>2. y \in Starts /\ y.step = "lock" /\ y.end = x.end /\ y.created = x.created /\ y.wrote = x.wrote /\ y.pin = x.pin
      BY <1>t DEF Starts, StartSteps
    <3> HIDE DEF y
    <3>3. Approaches(s)
      BY <1>b, <1>t, <2>1, <3>1, <3>2 DEF Outer, Pinned
    <3> QED BY <3>3 DEF StartActs
  <2> QED BY <2>2, <2>3
<1>9. CASE SeeDeadHolder(s) \/ TimeOut(s) \/ NotRevisable(s)
  <2>1. x.step \in Outer /\ UNCHANGED <<plan, head, lock, broken, checkout, launch, task>>
    BY <1>9 DEF SeeDeadHolder, TimeOut, NotRevisable, AsksToRevise, Quiet, Disk, Outer
  <2>2. (Go(s, "steal") /\ x.step = "lock") \/ Go(s, "refused")
    BY <1>9 DEF SeeDeadHolder, TimeOut, NotRevisable
  <2>3. Approaches(s)
    BY <1>a, <2>1, <2>2
  <2> QED BY <2>3 DEF StartActs
<1>10. CASE Die(s)
  <2>1. Go(s, "dead") /\ UNCHANGED <<plan, head, lock, broken, checkout, launch, task>> /\ x.step # "none"
    BY <1>10 DEF Die, Quiet, Disk
  <2>2. Becomes(s, "dead")
    BY <1>t, <2>1, GoingOn DEF StartSteps
  <2>3. Dies(s)
    BY <2>1, <2>2 DEF Dies, LocksStay
  <2> QED BY <2>3 DEF StartActs
<1>11. CASE CreateLock(s)
  <2>1. /\ Go(s, "sign") /\ UNCHANGED <<plan, head, broken, checkout, launch, task>>
        /\ x.step = "lock" /\ lock = Nobody /\ lock' = [pid |-> s, signed |-> FALSE]
    BY <1>11 DEF CreateLock, Quiet, Disk
  <2>2. Becomes(s, "sign")
    BY <1>t, <2>1, GoingOn DEF StartSteps
  <2>3. Takes(s)
    BY <2>1, <2>2 DEF Takes
  <2> QED BY <2>3 DEF StartActs
<1>12. CASE SignLock(s)
  <2> DEFINE st == IF plan.jobs[s].kind = "apply" THEN "check" ELSE "prepare"
  <2>1. /\ Go(s, st) /\ UNCHANGED <<plan, head, broken, checkout, launch, task>> /\ x.step = "sign"
    BY <1>12 DEF SignLock, Quiet, Disk
  <2>2. lock' = lock \/ (lock # Nobody /\ lock' = [pid |-> lock.pid, signed |-> TRUE])
    BY <1>12, <1>t DEF SignLock
  <2>3. st \in StartSteps
    BY DEF StartSteps
  <2>4. Becomes(s, st)
    BY <1>t, <2>1, <2>3, GoingOn
  <2>5. Signs(s)
    BY <2>1, <2>2, <2>4 DEF Signs
  <2> QED BY <2>5 DEF StartActs
<1>13. CASE Steal(s)
  <2>1. /\ Go(s, "lock") /\ UNCHANGED <<plan, head, checkout, launch, task>> /\ x.step = "steal"
        /\ lock' = Nobody /\ broken' = (broken \/ LosesLock(s))
    BY <1>13 DEF Steal, Disk
  <2>2. Becomes(s, "lock")
    BY <1>t, <2>1, GoingOn DEF StartSteps
  <2>3. Drops(s)
    BY <2>1, <2>2 DEF Drops
  <2> QED BY <2>3 DEF StartActs
<1>14. CASE Unlock(s)
  <2>1. /\ Go(s, x.end) /\ UNCHANGED <<plan, head, checkout, launch, task>> /\ x.step = "unlock"
        /\ lock' = Nobody /\ broken' = (broken \/ LosesLock(s))
    BY <1>14 DEF Unlock, Disk
  <2>2. x.end \in StartSteps
    BY <1>t DEF Starts, StartSteps, Over
  <2>3. Becomes(s, x.end)
    BY <1>t, <2>1, <2>2, GoingOn
  <2>4. Drops(s)
    BY <2>1, <2>3 DEF Drops
  <2> QED BY <2>4 DEF StartActs
<1>15. CASE Prepare(s)
  <2>1. x.step = "prepare" /\ UNCHANGED <<plan, head, lock, broken, launch, task>>
    BY <1>15 DEF Prepare, Quiet
  <2>p. Prepared(s) \in {"snapshot", "launch"}
    BY DEF Prepared
  <2>2. CASE checkout[Slot(s)] = NoCheckout
    <3> DEFINE y == [x EXCEPT !.step = Prepared(s), !.created = TRUE]
    <3>1. /\ starter' = [starter EXCEPT ![s] = y]
          /\ checkout' = [checkout EXCEPT ![Slot(s)] = [by |-> s, holds |-> "base"]]
      BY <1>15, <2>2 DEF Prepare, Free
    <3>2. y \in Starts /\ y.step = Prepared(s) /\ y.end = x.end /\ y.created /\ y.wrote = x.wrote /\ y.pin = x.pin
      BY <1>t, <2>p DEF Starts, StartSteps
    <3> HIDE DEF y
    <3>3. Frame(s) /\ starter'[s] = y
      BY <1>t, <2>1, <3>1, <3>2, Changing
    <3>4. Prepares(s)
      BY <2>1, <2>2, <2>p, <3>1, <3>2, <3>3 DEF Prepares, LocksStay
    <3> QED BY <3>4 DEF StartActs
  <2>3. CASE checkout[Slot(s)] # NoCheckout
    <3>1. UNCHANGED checkout /\ (Go(s, Prepared(s)) \/ Leave(s, "refused"))
      BY <1>15, <2>3 DEF Prepare, Free
    <3>2. Becomes(s, Prepared(s)) \/ Exits(s, "refused")
      BY <1>t, <2>1, <2>p, <3>1, GoingOn, Leaving DEF StartSteps, Over
    <3>3. Prepares(s)
      BY <2>1, <2>3, <2>p, <3>1, <3>2 DEF Prepares, LocksStay
    <3> QED BY <3>3 DEF StartActs
  <2> QED BY <2>2, <2>3
<1>16. CASE Snapshot(s)
  <2>1. x.step = "snapshot" /\ UNCHANGED <<plan, head, lock, broken, launch, task>>
    BY <1>16 DEF Snapshot, Quiet
  <2>2. /\ checkout' = IF checkout[Slot(s)] = NoCheckout THEN checkout
                       ELSE [checkout EXCEPT ![Slot(s)].holds = s]
        /\ (checkout[Slot(s)] # NoCheckout /\ Go(s, "launch")) \/ Leave(s, "failed")
    BY <1>16 DEF Snapshot
  <2>3. (checkout[Slot(s)] # NoCheckout /\ Becomes(s, "launch")) \/ Exits(s, "failed")
    BY <1>t, <2>1, <2>2, GoingOn, Leaving DEF StartSteps, Over
  <2>4. Snapshots(s)
    BY <2>1, <2>2, <2>3 DEF Snapshots, LocksStay
  <2> QED BY <2>4 DEF StartActs
<1>17. CASE WriteLaunch(s)
  <2>1. x.step = "launch" /\ UNCHANGED <<plan, head, lock, broken, checkout, task>>
    BY <1>17 DEF WriteLaunch, Quiet
  <2>2. CASE launch[Slot(s)] = NoLaunch
    <3> DEFINE y == [x EXCEPT !.step = "commit", !.wrote = TRUE]
    <3>1. /\ starter' = [starter EXCEPT ![s] = y]
          /\ launch' = [launch EXCEPT ![Slot(s)] = [by |-> s, pin |-> x.pin]]
      BY <1>17, <2>2 DEF WriteLaunch
    <3>2. y \in Starts /\ y.step = "commit" /\ y.end = x.end /\ y.created = x.created /\ y.wrote
      BY <1>t DEF Starts, StartSteps
    <3> HIDE DEF y
    <3>3. Frame(s) /\ starter'[s] = y
      BY <1>t, <2>1, <3>1, <3>2, Changing
    <3>4. Writes(s)
      BY <2>1, <2>2, <3>1, <3>2, <3>3 DEF Writes, LocksStay
    <3> QED BY <3>4 DEF StartActs
  <2>3. CASE launch[Slot(s)] # NoLaunch
    <3>1. UNCHANGED launch /\ Go(s, "rollback")
      BY <1>17, <2>3 DEF WriteLaunch
    <3>2. Becomes(s, "rollback")
      BY <1>t, <2>1, <3>1, GoingOn DEF StartSteps
    <3>3. Writes(s)
      BY <2>1, <2>3, <3>1, <3>2 DEF Writes, LocksStay
    <3> QED BY <3>3 DEF StartActs
  <2> QED BY <2>2, <2>3
<1>18. CASE CommitTask(s)
  <2>1. x.step = "commit" /\ UNCHANGED <<plan, head, lock, broken, checkout, launch>>
    BY <1>18 DEF CommitTask, Quiet, Disk
  <2>2. CASE StillHead(s) /\ ~Recorded(Slot(s))
    <3>1. Record(s) /\ Leave(s, "started")
      BY <1>18, <2>2 DEF CommitTask
    <3>2. Exits(s, "started")
      BY <1>t, <2>1, <3>1, Leaving DEF Over
    <3>3. Records(s)
      BY <2>1, <2>2, <3>1, <3>2 DEF Records, Record, LocksStay
    <3> QED BY <3>3 DEF StartActs
  <2>3. CASE ~(StillHead(s) /\ ~Recorded(Slot(s)))
    <3>1. Go(s, "rollback") /\ UNCHANGED task
      BY <1>18, <2>3 DEF CommitTask
    <3>2. Becomes(s, "rollback")
      BY <1>t, <2>1, <3>1, GoingOn DEF StartSteps
    <3>3. Refrains(s)
      BY <2>1, <3>1, <3>2 DEF Refrains, LocksStay
    <3> QED BY <3>3 DEF StartActs
  <2> QED BY <2>2, <2>3
<1>19. CASE CommitStep(s)
  <2>1. x.step = "commit" /\ UNCHANGED <<plan, head, lock, broken>> /\ plan.jobs[s].kind = "step"
    BY <1>19 DEF CommitStep, Quiet
  <2>2. CASE ~StepTaken /\ Record(s) /\ Go(s, "step") /\ UNCHANGED Disk
    <3>1. Becomes(s, "step")
      BY <1>t, <2>1, <2>2, GoingOn DEF StartSteps
    <3>2. ~Recorded(Slot(s))
      BY <2>1, <2>2 DEF StepTaken
    <3>3. Records(s)
      BY <2>1, <2>2, <3>1, <3>2 DEF Records, Record, LocksStay, Disk
    <3> QED BY <3>3 DEF StartActs
  <2>3. CASE Discard(s) /\ (Leave(s, "replayed") \/ Leave(s, "refused")) /\ UNCHANGED task
    <3>1. Exits(s, "replayed") \/ Exits(s, "refused")
      BY <1>t, <2>1, <2>3, Leaving DEF Over
    <3>2. Discards(s)
      BY <2>1, <2>3, <3>1 DEF Discards, LocksStay
    <3> QED BY <3>2 DEF StartActs
  <2> QED BY <1>19, <2>2, <2>3 DEF CommitStep
<1>20. CASE RecordCheckout(s)
  <2>1. x.step = "step" /\ UNCHANGED <<plan, head, lock, broken, checkout, launch, task>>
    BY <1>20 DEF RecordCheckout, Quiet, Disk
  <2>2. Leave(s, "started") \/ Go(s, "rollback")
    BY <1>20 DEF RecordCheckout
  <2>3. Exits(s, "started") \/ Becomes(s, "rollback")
    BY <1>t, <2>1, <2>2, Leaving, GoingOn DEF Over, StartSteps
  <2>4. Refrains(s)
    BY <2>1, <2>3 DEF Refrains, LocksStay
  <2> QED BY <2>4 DEF StartActs
<1>21. CASE Rollback(s)
  <2>1. x.step = "rollback" /\ UNCHANGED <<plan, head, lock, broken, task>> /\ Discard(s) /\ Leave(s, "refused")
    BY <1>21 DEF Rollback, Quiet
  <2>2. Exits(s, "refused")
    BY <1>t, <2>1, Leaving DEF Over
  <2>3. Discards(s)
    BY <2>1, <2>2 DEF Discards, LocksStay
  <2> QED BY <2>3 DEF StartActs
<1>22. CASE Apply(s)
  <2>1. /\ x.step \in {"check", "intent", "patch", "settle"}
        /\ UNCHANGED <<plan, head, lock, broken, checkout, launch, task>>
    BY <1>22 DEF Apply, CheckPatch, NoteIntent, ApplyPatch, NoteApplied, Quiet, Disk
  <2>2. Go(s, "intent") \/ Go(s, "patch") \/ Go(s, "settle") \/ Leave(s, "refused") \/ Leave(s, "applied")
    BY <1>22 DEF Apply, CheckPatch, NoteIntent, ApplyPatch, NoteApplied
  <2>3. \/ Becomes(s, "intent") \/ Becomes(s, "patch") \/ Becomes(s, "settle")
        \/ Exits(s, "refused") \/ Exits(s, "applied")
    BY <1>t, <2>1, <2>2, Leaving, GoingOn DEF Over, StartSteps
  <2>4. Patches(s)
    BY <2>1, <2>3 DEF Patches, LocksStay
  <2> QED BY <2>4 DEF StartActs
<1> QED
  BY <1>1, <1>2, <1>3, <1>4, <1>5, <1>6, <1>7, <1>8, <1>9, <1>10, <1>11, <1>12, <1>13, <1>14, <1>15,
     <1>16, <1>17, <1>18, <1>19, <1>20, <1>21, <1>22 DEF Start

-----------------------------------------------------------------------------
(* What everything else does to the starts' files and rows: runs go on and end, *)
(* workers write, a finished revision's checkout is removed.                    *)

RowsGoOn ==
  /\ task' \in [Slots -> Rows]
  /\ \A k \in Slots : task'[k].by = task[k].by /\ (task[k].run = "over" => task'[k].run = "over")
WorkGoesOn ==
  /\ checkout' \in [Slots -> Checkouts]
  /\ \A k \in Slots :
       checkout'[k] = checkout[k] \/ (checkout[k] # NoCheckout /\ checkout'[k].by = checkout[k].by)
OldGoes == story # NoStory /\ checkout' = [checkout EXCEPT ![Old] = NoCheckout]

OtherActs ==
  /\ UNCHANGED <<plan, starter, lock, broken, launch>> /\ head' \in 0..1
  /\ RowsGoOn /\ (WorkGoesOn \/ OldGoes)

LEMMA NothingOther ==
  ASSUME StartTypeInv, UNCHANGED admissionVars
  PROVE  OtherActs /\ WorkGoesOn
BY DEF StartTypeInv, admissionVars, OtherActs, RowsGoOn, WorkGoesOn

\* The steps of TaskAdmission.
LEMMA AdmissionStep ==
  ASSUME RegistryInv, StartTypeInv, Next
  PROVE  RegistryActs /\ ((OtherActs /\ WorkGoesOn) \/ \E s \in Starters : (Start(s) \/ Die(s)) /\ StartActs(s))
<1>t. /\ task \in [Slots -> Rows] /\ checkout \in [Slots -> Checkouts] /\ head \in 0..1
      /\ \A k \in Slots : checkout[k].by = Nobody => checkout[k] = NoCheckout
  BY DEF StartTypeInv
<1>s. Starters \subseteq Certifiers
  BY StartersAssumption
<1>1. ASSUME NEW s \in Starters, Start(s) \/ Die(s)
      PROVE  RegistryActs /\ ((OtherActs /\ WorkGoesOn) \/ \E q \in Starters : (Start(q) \/ Die(q)) /\ StartActs(q))
  <2>1. (OtherActs /\ WorkGoesOn) \/ StartActs(s)
    BY <1>1, StartStep, NothingOther
  <2>2. RegistryActs
    <3>1. CASE Die(s)
      BY <1>s, <3>1 DEF Die, RegistryActs
    <3>2. CASE CertifyFor(s)
      BY <1>s, <3>2 DEF CertifyFor, RegistryActs
    <3>3. CASE Recertify(s)
      BY <1>s, <3>3 DEF Recertify, RegistryActs
    <3>4. CASE UNCHANGED registryVars
      BY <3>4 DEF RegistryActs
    <3>5. CASE Start(s) /\ ~CertifyFor(s) /\ ~Recertify(s)
      <4>1. UNCHANGED registryVars
        BY <3>5, Zenon DEF Start, ReadForProbe, CheckReceipt, CheckPrints, ReadForLaunch, PinHarness, Prove,
           CreateLock, SignLock, SeeDeadHolder, Steal, TimeOut, Unlock, Prepare, Snapshot, WriteLaunch,
           CommitTask, CommitStep, RecordCheckout, Rollback
      <4> QED BY <3>4, <4>1
    <3> QED BY <1>1, <3>1, <3>2, <3>3, <3>5
  <2> QED BY <1>1, <2>1, <2>2
<1>r. ASSUME NEW k \in Slots, NEW run \in {"spawned", "left", "running", "over"}, task[k].run # "over",
             task' = [task EXCEPT ![k].run = run]
      PROVE  RowsGoOn
  <2> DEFINE r == [task[k] EXCEPT !.run = run]
  <2>1. r \in Rows /\ r.by = task[k].by
    BY <1>t DEF Rows
  <2>2. task' = [task EXCEPT ![k] = r]
    BY <1>r
  <2> HIDE DEF r
  <2> QED BY <1>t, <1>r, <2>1, <2>2 DEF RowsGoOn
<1>u. UNCHANGED registryVars => RegistryActs
  BY DEF RegistryActs
<1>f. /\ UNCHANGED task => RowsGoOn
      /\ UNCHANGED checkout => WorkGoesOn
  BY <1>t DEF RowsGoOn, WorkGoesOn
<1>2. ASSUME NEW s \in Starters, Spawn(s) PROVE RegistryActs /\ OtherActs /\ WorkGoesOn
  <2>1. /\ UNCHANGED registryVars /\ UNCHANGED <<plan, starter, lock, broken, launch, checkout, head>>
        /\ task[Slot(s)] = [by |-> s, run |-> "admitted"]
        /\ \E run \in {"spawned", "over"} : task' = [task EXCEPT ![Slot(s)].run = run]
    BY <1>2 DEF Spawn, Disk
  <2>2. RowsGoOn
    <3>1. PICK run \in {"spawned", "over"} : task' = [task EXCEPT ![Slot(s)].run = run]
      BY <2>1
    <3>2. CASE Slot(s) \in Slots
      <4>1. task[Slot(s)].run = "admitted"
        BY <2>1
      <4> QED BY <1>r, <3>1, <3>2, <4>1
    <3>3. CASE Slot(s) \notin Slots
      BY <1>t, <1>f, <3>1, <3>3
    <3> QED BY <3>2, <3>3
  <2> QED BY <1>t, <1>u, <1>f, <2>1, <2>2 DEF OtherActs
<1>3. ASSUME NEW k \in Slots, Supervise(k) \/ Reap(k) PROVE RegistryActs /\ OtherActs /\ WorkGoesOn
  <2>1. /\ UNCHANGED registryVars /\ UNCHANGED <<plan, starter, lock, broken, launch, checkout, head>>
        /\ task[k].run # "over"
        /\ \E run \in {"left", "running", "over"} : task' = [task EXCEPT ![k].run = run]
    BY <1>3 DEF Supervise, Reap, Disk
  <2>2. RowsGoOn
    BY <1>r, <2>1
  <2> QED BY <1>t, <1>u, <1>f, <2>1, <2>2 DEF OtherActs
<1>4. ASSUME NEW k \in Slots, Work(k) PROVE RegistryActs /\ OtherActs /\ WorkGoesOn
  <2>1. UNCHANGED registryVars /\ UNCHANGED <<plan, starter, lock, broken, launch, head>> /\ task[k].run = "running"
    BY <1>4 DEF Work
  <2>2. CASE checkout[k] # NoCheckout /\ checkout' = [checkout EXCEPT ![k].holds = "work"] /\ UNCHANGED task
    <3> DEFINE c == [checkout[k] EXCEPT !.holds = "work"]
    <3>1. c \in Checkouts /\ c.by = checkout[k].by
      BY <1>t DEF Checkouts
    <3>2. checkout' = [checkout EXCEPT ![k] = c]
      BY <2>2
    <3> HIDE DEF c
    <3>3. WorkGoesOn
      BY <1>t, <2>2, <3>1, <3>2 DEF WorkGoesOn
    <3> QED BY <1>t, <1>u, <1>f, <2>1, <2>2, <3>3 DEF OtherActs
  <2>3. CASE task' = [task EXCEPT ![k].run = "over"] /\ UNCHANGED checkout
    <3>1. RowsGoOn
      BY <1>r, <2>1, <2>3
    <3> QED BY <1>t, <1>u, <1>f, <2>1, <2>3, <3>1 DEF OtherActs
  <2> QED BY <1>4, <2>2, <2>3 DEF Work
<1>5. CASE RegistryMoves
  <2>1. UNCHANGED admissionVars /\ RegistryActs
    BY <1>5 DEF RegistryMoves, ByHand, RegistryActs
  <2> QED BY <2>1, NothingOther
<1>6. CASE MoveHead
  BY <1>t, <1>u, <1>f, <1>6 DEF MoveHead, Disk, OtherActs
<1> QED BY <1>1, <1>2, <1>3, <1>4, <1>5, <1>6 DEF Next

\* The steps of WorktreeReclaim.
LEMMA CheckoutStep ==
  ASSUME RegistryInv, StartTypeInv, StoryInv, [CheckoutNext]_checkoutVars
  PROVE  RegistryActs /\ (OtherActs \/ \E s \in Starters : StartActs(s))
<1>u. UNCHANGED vars => RegistryActs /\ OtherActs
  <2> SUFFICES ASSUME UNCHANGED vars PROVE RegistryActs /\ OtherActs
    OBVIOUS
  <2>1. UNCHANGED registryVars /\ UNCHANGED admissionVars
    BY DEF vars
  <2> QED BY <2>1, NothingOther DEF RegistryActs
<1>1. CASE Starting
  BY <1>1, AdmissionStep DEF Starting
<1>2. ASSUME NEW d \in Deciders, Mark(d) \/ RecordDecision(d) \/ Acknowledge(d) \/ Remark(d)
      PROVE  UNCHANGED vars
  BY <1>2, Zenon DEF Mark, RecordDecision, Acknowledge, Remark
<1>3. ASSUME NEW h \in Hands, Reclaims(h) \/ HandDies(h)
      PROVE  RegistryActs /\ OtherActs
  <2>1. CASE Remove(h)
    <3>1. /\ UNCHANGED registryVars /\ UNCHANGED <<plan, starter, lock, broken, launch, task, head>>
          /\ UNCHANGED checkout \/ checkout' = [checkout EXCEPT ![Old] = NoCheckout]
          /\ InHand(h, "remove")
      BY <2>1 DEF Remove
    <3>2. story # NoStory
      BY <3>1 DEF StoryInv, InHand
    <3> QED BY <3>1, <3>2 DEF StartTypeInv, RegistryActs, OtherActs, RowsGoOn, WorkGoesOn, OldGoes
  <2>2. CASE ~Remove(h)
    <3>1. UNCHANGED vars
      BY <1>3, <2>2, Zenon DEF Reclaims, Look, AskNewer, AskExit, TakeLock, Assess, DropBranch, HandDies
    <3> QED BY <1>u, <3>1
  <2> QED BY <2>1, <2>2
<1>4. ASSUME NEW s \in Starters, NotRevisable(s) \/ Apply(s)
      PROVE  RegistryActs /\ (OtherActs \/ \E q \in Starters : StartActs(q))
  <2>1. OtherActs \/ StartActs(s)
    BY <1>4, StartStep, NothingOther
  <2>2. UNCHANGED registryVars
    BY <1>4, Zenon DEF NotRevisable, Apply, CheckPatch, NoteIntent, ApplyPatch, NoteApplied
  <2> QED BY <2>1, <2>2 DEF RegistryActs
<1>5. CASE \/ AcknowledgeByRevise \/ Clean \/ Sweep \/ SweepBranch
           \/ WorkerWrites \/ WorkerExits \/ ClosePane \/ ArchiveReport \/ OwnerMerges
  <2>1. UNCHANGED vars
    BY <1>5, Zenon DEF AcknowledgeByRevise, Clean, Sweep, SweepBranch, WorkerWrites, WorkerExits, ClosePane,
       ArchiveReport, OwnerMerges
  <2> QED BY <1>u, <2>1
<1>6. CASE UNCHANGED checkoutVars
  <2>1. UNCHANGED vars
    BY <1>6 DEF checkoutVars
  <2> QED BY <1>u, <2>1
<1> QED BY <1>u, <1>1, <1>2, <1>3, <1>4, <1>5, <1>6 DEF CheckoutNext

-----------------------------------------------------------------------------
(* The starts keep their invariant. *)

LEMMA PlanFacts ==
  ASSUME StartTypeInv
  PROVE  \A s \in Starters : ~At(s, "none") => Slot(s) \in Slots
BY PlansAssumption DEF StartTypeInv, StartOK, Slot, NoJob, Job

LEMMA TypesStay ==
  ASSUME StartTypeInv, certified \subseteq certified',
         OtherActs \/ \E s \in Starters : StartActs(s)
  PROVE  StartTypeInv'
<1>t. /\ plan \in AllPlans /\ broken \in BOOLEAN /\ head \in 0..1
      /\ lock \in [pid : Starters, signed : BOOLEAN] \cup {Nobody}
      /\ starter \in [Starters -> Starts] /\ checkout \in [Slots -> Checkouts]
      /\ launch \in [Slots -> Launches] /\ task \in [Slots -> Rows]
      /\ \A s \in Starters : StartOK(s)
      /\ \A k \in Slots :
           /\ checkout[k].by = Nobody => checkout[k] = NoCheckout
           /\ launch[k].by = Nobody => launch[k] = NoLaunch
           /\ launch[k] # NoLaunch => launch[k].pin \in certified
  BY DEF StartTypeInv
<1>n. Nobody \notin Starters /\ NoCheckout.by = Nobody /\ NoCheckout \in Checkouts
  BY StartersAssumption DEF NoCheckout, Checkouts
<1>l. NoLaunch.by = Nobody /\ NoLaunch \in Launches
  <2>1. NoPin \in Pins
    BY CliTypes DEF NoPin, Pins
  <2> QED BY <2>1 DEF NoLaunch, Launches
<1> DEFINE CheckoutsOK == checkout' \in [Slots -> Checkouts] /\ \A k \in Slots : checkout'[k].by = Nobody => checkout'[k] = NoCheckout
           LaunchesOK == /\ launch' \in [Slots -> Launches]
                         /\ \A k \in Slots : /\ launch'[k].by = Nobody => launch'[k] = NoLaunch
                                             /\ launch'[k] # NoLaunch => launch'[k].pin \in certified'
<1>c. UNCHANGED checkout => CheckoutsOK
  BY <1>t
<1>k. UNCHANGED launch => LaunchesOK
  BY <1>t
<1>1. CASE OtherActs
  <2>1. CheckoutsOK
    <3>1. CASE WorkGoesOn
      BY <1>t, <3>1 DEF WorkGoesOn
    <3>2. CASE OldGoes
      BY <1>t, <1>n, <3>2, HandsAssumption DEF OldGoes
    <3> QED BY <1>1, <3>1, <3>2 DEF OtherActs
  <2>2. \A s \in Starters : StartOK(s)'
    BY <1>t, <1>1 DEF OtherActs, StartOK, At
  <2> QED BY <1>t, <1>1, <1>k, <2>1, <2>2 DEF StartTypeInv, OtherActs, RowsGoOn
<1>2. ASSUME NEW s \in Starters, StartActs(s) PROVE StartTypeInv'
  <2> DEFINE x == starter[s]
             y == starter'[s]
  <2>x. x \in Starts /\ StartOK(s) /\ x.step \in StartSteps /\ x.end \in Over /\ x.pin \in Pins
    BY <1>t DEF Starts
  <2>s. ~At(s, "none") => Slot(s) \in Slots
    BY PlanFacts
  <2>1. Frame(s)
    BY <1>2 DEF StartActs, Becomes, Exits, Approaches, Dies, Takes, Signs, Drops, Prepares, Snapshots, Writes,
       Records, Refrains, Discards, Patches
  <2>2. ASSUME NEW t \in Starters \ {s} PROVE StartOK(t)'
    BY <1>t, <2>1, <2>2 DEF Frame, StartOK, At
  <2>3. StartOK(s)'
    <3> USE DEF StartOK, At, Made
    <3>1. CASE Approaches(s)
      BY <2>1, <2>x, <3>1 DEF Approaches, Frame, Outer, Over, Making
    <3>2. CASE Dies(s)
      BY <2>1, <2>x, <3>2 DEF Dies, Becomes, Frame, Over, Pinned, Making
    <3>3. CASE Takes(s)
      BY <2>1, <2>x, <3>3 DEF Takes, Becomes, Frame, Over, Pinned, Making
    <3>4. CASE Signs(s)
      BY <2>1, <2>x, <3>4 DEF Signs, Becomes, Frame, Over, Pinned, Making
    <3>5. CASE Drops(s)
      BY <2>1, <2>x, <3>5 DEF Drops, Becomes, Frame, Over, Pinned, Making
    <3>6. CASE Prepares(s)
      BY <2>1, <2>x, <3>6 DEF Prepares, Becomes, Exits, Frame, Over, Pinned, Making
    <3>7. CASE Snapshots(s)
      BY <2>1, <2>x, <3>7 DEF Snapshots, Becomes, Exits, Frame, Over, Pinned, Making
    <3>8. CASE Writes(s)
      BY <2>1, <2>x, <3>8 DEF Writes, Becomes, Exits, Frame, Over, Pinned, Making
    <3>9. CASE Records(s) \/ Refrains(s)
      BY <2>1, <2>x, <3>9 DEF Records, Refrains, Becomes, Exits, Frame, Over, Pinned, Making
    <3>10. CASE Discards(s)
      BY <2>1, <2>x, <3>10 DEF Discards, Becomes, Exits, Frame, Over, Pinned, Making
    <3>11. CASE Patches(s)
      BY <2>1, <2>x, <3>11 DEF Patches, Becomes, Exits, Frame, Over, Pinned, Making
    <3> QED BY <1>2, <3>1, <3>2, <3>3, <3>4, <3>5, <3>6, <3>7, <3>8, <3>9, <3>10, <3>11 DEF StartActs
  <2>4. broken' \in BOOLEAN /\ lock' \in [pid : Starters, signed : BOOLEAN] \cup {Nobody}
    <3>1. LocksStay \/ Takes(s) \/ Signs(s) \/ Drops(s)
      BY <1>2 DEF StartActs, Approaches, Dies, Prepares, Snapshots, Writes, Records, Refrains, Discards, Patches
    <3>2. CASE LocksStay
      BY <1>t, <3>2 DEF LocksStay
    <3>3. CASE Takes(s) \/ Signs(s)
      <4>1. UNCHANGED broken
        BY <3>3 DEF Takes, Signs
      <4>2. \/ lock' = [pid |-> s, signed |-> FALSE] \/ lock' = lock
            \/ lock # Nobody /\ lock' = [pid |-> lock.pid, signed |-> TRUE]
        BY <3>3 DEF Takes, Signs
      <4>3. lock # Nobody => lock.pid \in Starters
        BY <1>t
      <4>4. [pid |-> s, signed |-> FALSE] \in [pid : Starters, signed : BOOLEAN]
        OBVIOUS
      <4>5. lock # Nobody => [pid |-> lock.pid, signed |-> TRUE] \in [pid : Starters, signed : BOOLEAN]
        BY <4>3
      <4> QED BY <1>t, <4>1, <4>2, <4>4, <4>5, Zenon
    <3>4. CASE Drops(s)
      BY <1>t, <3>4 DEF Drops, LosesLock
    <3> QED BY <3>1, <3>2, <3>3, <3>4
  <2>5. CheckoutsOK
    <3>1. UNCHANGED checkout \/ Prepares(s) \/ Snapshots(s) \/ Discards(s)
      BY <1>2 DEF StartActs, Approaches, Dies, Takes, Signs, Drops, Writes, Records, Refrains, Patches
    <3>2. CASE Prepares(s) /\ ~UNCHANGED checkout
      <4>1. [by |-> s, holds |-> "base"] \in Checkouts /\ [by |-> s, holds |-> "base"].by # Nobody
        BY <1>n DEF Checkouts
      <4>2. checkout' = [checkout EXCEPT ![Slot(s)] = [by |-> s, holds |-> "base"]]
        BY <3>2 DEF Prepares
      <4> QED BY <1>t, <4>1, <4>2
    <3>3. CASE Snapshots(s) /\ ~UNCHANGED checkout
      <4> DEFINE c == [checkout[Slot(s)] EXCEPT !.holds = s]
      <4>1. /\ checkout' = [checkout EXCEPT ![Slot(s)] = c] /\ checkout[Slot(s)] # NoCheckout
            /\ Slot(s) \in Slots
        BY <2>s, <3>3 DEF Snapshots, At
      <4>2. c \in Checkouts /\ c.by = checkout[Slot(s)].by
        BY <1>t, <4>1 DEF Checkouts
      <4> HIDE DEF c
      <4> QED BY <1>t, <4>1, <4>2
    <3>4. CASE Discards(s)
      BY <1>t, <1>n, <3>4 DEF Discards, Discard
    <3> QED BY <1>c, <3>1, <3>2, <3>3, <3>4
  <2>6. LaunchesOK
    <3>1. UNCHANGED launch \/ Writes(s) \/ Discards(s)
      BY <1>2 DEF StartActs, Approaches, Dies, Takes, Signs, Drops, Prepares, Snapshots, Records, Refrains, Patches
    <3>2. CASE Writes(s) /\ ~UNCHANGED launch
      <4> DEFINE l == [by |-> s, pin |-> x.pin]
      <4>1. launch' = [launch EXCEPT ![Slot(s)] = l] /\ x.step = "launch"
        BY <3>2 DEF Writes, At
      <4>2. x.pin \in certified
        BY <2>x, <4>1 DEF StartOK, Pinned
      <4>3. l \in Launches /\ l.by # Nobody /\ l.pin \in certified'
        BY <1>n, <2>x, <4>2 DEF Launches
      <4> HIDE DEF l
      <4> QED BY <1>t, <4>1, <4>3
    <3>3. CASE Discards(s)
      BY <1>t, <1>l, <3>3 DEF Discards, Discard
    <3> QED BY <1>k, <3>1, <3>2, <3>3
  <2>7. task' \in [Slots -> Rows]
    <3>1. UNCHANGED task \/ Records(s)
      BY <1>2 DEF StartActs, Approaches, Dies, Takes, Signs, Drops, Prepares, Snapshots, Writes, Refrains, Discards,
         Patches
    <3>2. CASE Records(s)
      <4>1. [by |-> s, run |-> "admitted"] \in Rows
        BY DEF Rows
      <4> QED BY <1>t, <3>2, <4>1 DEF Records
    <3> QED BY <1>t, <3>1, <3>2
  <2>8. \A t \in Starters : StartOK(t)'
    BY <2>2, <2>3
  <2>9. UNCHANGED <<plan, head>> /\ starter' \in [Starters -> Starts]
    BY <2>1 DEF Frame
  <2> QED BY <1>t, <2>4, <2>5, <2>6, <2>7, <2>8, <2>9 DEF StartTypeInv
<1> QED BY <1>1, <1>2

\* What a step of a start does to everything, in the words of the invariants.
LEMMA StartFrame ==
  ASSUME StartTypeInv, NEW s \in Starters, StartActs(s)
  PROVE  /\ Frame(s)
         /\ starter[s].end = "refused" => starter'[s].end = "refused"
         /\ \A k \in Slots : Recorded(k) => task'[k] = task[k]
         /\ starter[s].step \in Inner \/ UNCHANGED <<checkout, launch, task>>
         /\ starter'[s].step \in Inner => starter[s].step \in Inner \/ Takes(s)
<1>x. StartOK(s)
  BY DEF StartTypeInv
<1> USE DEF At, Becomes, Exits
<1>1. Frame(s)
  BY DEF StartActs, Approaches, Dies, Takes, Signs, Drops, Prepares, Snapshots, Writes,
     Records, Refrains, Discards, Patches
<1>2. starter[s].end = "refused" => starter'[s].end = "refused"
  BY <1>x DEF StartActs, Approaches, Dies, Takes, Signs, Drops, Prepares, Snapshots, Writes,
     Records, Refrains, Discards, Patches, StartOK, Over
<1>3. UNCHANGED task \/ Records(s)
  BY DEF StartActs, Approaches, Dies, Takes, Signs, Drops, Prepares, Snapshots, Writes, Refrains, Discards,
     Patches
<1>4. \A k \in Slots : Recorded(k) => task'[k] = task[k]
  <2>1. CASE Records(s)
    <3>1. task \in [Slots -> Rows] /\ task' = [task EXCEPT ![Slot(s)] = [by |-> s, run |-> "admitted"]]
          /\ ~Recorded(Slot(s))
      BY <2>1 DEF StartTypeInv, Records
    <3> QED BY <3>1
  <2> QED BY <1>3, <2>1
<1>5. starter[s].step \in Inner \/ UNCHANGED <<checkout, launch, task>>
  BY DEF StartActs, Approaches, Dies, Takes, Signs, Drops, Prepares, Snapshots, Writes,
     Records, Refrains, Discards, Patches, Inner
<1>6. starter'[s].step \in Inner => starter[s].step \in Inner \/ Takes(s)
  <2>1. CASE Drops(s)
    <3>1. starter[s].end \in Over
      BY DEF StartTypeInv, Starts
    <3> QED BY <2>1, <3>1 DEF Drops, Inner, Over
  <2> QED BY <2>1 DEF StartActs, Approaches, Dies, Signs, Prepares, Snapshots, Writes,
       Records, Refrains, Discards, Patches, Inner, Outer
<1> QED BY <1>1, <1>2, <1>4, <1>5, <1>6

LEMMA LockStays ==
  ASSUME StartTypeInv, LockInv, OtherActs \/ \E s \in Starters : StartActs(s)
  PROVE  LockInv'
<1>1. CASE OtherActs
  BY <1>1 DEF OtherActs, LockInv
<1>2. ASSUME NEW s \in Starters, StartActs(s), ~broken'
      PROVE  \A t \in Starters : starter'[t].step \in Inner => lock' # Nobody /\ lock'.pid = t
  <2>1. /\ \A t \in Starters \ {s} : starter'[t] = starter[t]
        /\ starter'[s].step \in Inner => starter[s].step \in Inner \/ Takes(s)
    BY <1>2, StartFrame DEF Frame
  <2>n. \A t \in Starters, b \in BOOLEAN : [pid |-> t, signed |-> b] # Nobody
    BY StartersAssumption
  <2>p. lock # Nobody => lock.pid \in Starters
    BY DEF StartTypeInv
  <2>2. CASE LocksStay
    <3>1. ~Takes(s)
      BY <2>2, <2>n DEF LocksStay, Takes
    <3> QED BY <1>2, <2>1, <2>2, <3>1 DEF LocksStay, LockInv
  <2>3. CASE Takes(s)
    <3>1. ~broken /\ lock = Nobody
      BY <1>2, <2>3 DEF Takes
    <3>2. \A t \in Starters : starter[t].step \notin Inner
      BY <3>1 DEF LockInv
    <3>3. lock' = [pid |-> s, signed |-> FALSE]
      BY <2>3 DEF Takes
    <3> QED BY <2>1, <2>n, <3>2, <3>3
  <2>4. CASE Signs(s)
    <3>1. ~broken /\ (lock' = lock \/ (lock # Nobody /\ lock' = [pid |-> lock.pid, signed |-> TRUE]))
      BY <1>2, <2>4 DEF Signs
    <3>2. starter[s].step \in Inner
      BY <2>4 DEF Signs, At, Inner
    <3>3. ASSUME NEW t \in Starters, starter'[t].step \in Inner PROVE lock' # Nobody /\ lock'.pid = t
      <4>1. lock # Nobody /\ lock.pid = t
        BY <2>1, <3>1, <3>2, <3>3 DEF LockInv
      <4>2. CASE lock' = lock
        BY <4>1, <4>2
      <4>3. CASE lock' = [pid |-> lock.pid, signed |-> TRUE]
        <5>1. lock.pid = t /\ [pid |-> lock.pid, signed |-> TRUE] # Nobody
          BY <2>n, <4>1
        <5> QED BY <4>3, <5>1
      <4> QED BY <3>1, <4>2, <4>3
    <3> QED BY <3>3
  <2>5. CASE Drops(s)
    <3>1. ~broken /\ ~LosesLock(s) /\ starter'[s].step \notin Inner
      <4>1. starter[s].end \in Over
        BY DEF StartTypeInv, Starts
      <4>2. starter'[s].step \notin Inner
        BY <2>5, <4>1 DEF Drops, Becomes, Over, Inner
      <4>3. ~(broken \/ LosesLock(s))
        BY <1>2, <2>5 DEF Drops
      <4> QED BY <4>2, <4>3
    <3>2. \A t \in Starters \ {s} : starter[t].step \notin Inner
      <4> SUFFICES ASSUME NEW t \in Starters \ {s}, starter[t].step \in Inner PROVE FALSE
        OBVIOUS
      <4>1. lock # Nobody /\ lock.pid = t
        BY <3>1 DEF LockInv
      <4>2. Dead(t)
        BY <3>1, <4>1 DEF LosesLock
      <4> QED BY <4>2 DEF Dead, At, Inner
    <3> QED BY <2>1, <3>1, <3>2
  <2> QED BY <1>2, <2>2, <2>3, <2>4, <2>5
        DEF StartActs, Approaches, Dies, Prepares, Snapshots, Writes, Records, Refrains, Discards, Patches
<1> QED BY <1>1, <1>2 DEF LockInv

LEMMA MadeStays ==
  ASSUME StartTypeInv, MadeInv, OtherActs \/ \E s \in Starters : StartActs(s)
  PROVE  MadeInv'
<1>n. Nobody \notin Starters /\ NoCheckout.by = Nobody /\ NoLaunch.by = Nobody
  BY StartersAssumption DEF NoCheckout, NoLaunch
<1>t. /\ checkout \in [Slots -> Checkouts] /\ launch \in [Slots -> Launches] /\ task \in [Slots -> Rows]
      /\ starter \in [Starters -> Starts]
  BY DEF StartTypeInv
<1>m. /\ \A s \in Starters :
           /\ starter[s].step \in Early => ~starter[s].created
           /\ starter[s].step \in Early \cup {"snapshot", "launch"} => ~starter[s].wrote
      /\ \A s \in Starters, k \in Slots : ~Recorded(k) =>
           /\ checkout[k].by = s => k = Slot(s) /\ starter[s].created /\ ~Abandons(s)
           /\ launch[k].by = s => k = Slot(s) /\ starter[s].wrote /\ ~Abandons(s)
  BY DEF MadeInv
<1>1. CASE OtherActs
  <2>1. UNCHANGED <<plan, starter, launch>> /\ \A k \in Slots : Recorded(k)' <=> Recorded(k)
    BY <1>1 DEF OtherActs, RowsGoOn, Recorded
  <2>2. \A k \in Slots : checkout'[k].by = checkout[k].by \/ checkout'[k].by = Nobody
    <3>1. CASE WorkGoesOn
      BY <3>1 DEF WorkGoesOn
    <3>2. CASE OldGoes
      BY <1>n, <1>t, <3>2 DEF OldGoes
    <3> QED BY <1>1, <3>1, <3>2 DEF OtherActs
  <2> QED BY <1>m, <1>n, <2>1, <2>2 DEF MadeInv, Slot, Abandons, At
<1>2. ASSUME NEW s \in Starters, StartActs(s) PROVE MadeInv'
  <2> DEFINE x == starter[s]
             y == starter'[s]
  <2>f. /\ \A t \in Starters \ {s} : starter'[t] = starter[t]
        /\ UNCHANGED plan
        /\ \A k \in Slots : Recorded(k) => Recorded(k)'
    BY <1>2, StartFrame DEF Frame, Recorded
  <2>x. x.end \in Over /\ StartOK(s)
    BY DEF StartTypeInv, Starts
  <2>p. ~At(s, "none") => Slot(s) \in Slots
    BY PlanFacts
  \* One start's flags follow its steps.
  <2>1. (y.step \in Early => ~y.created) /\ (y.step \in Early \cup {"snapshot", "launch"} => ~y.wrote)
    <3> USE DEF At, Becomes, Exits, Made, Early
    <3>1. CASE Drops(s)
      BY <1>m, <2>x, <3>1 DEF Drops, Over, StartOK
    <3>2. CASE Approaches(s) \/ Dies(s) \/ Takes(s) \/ Signs(s)
      BY <1>m, <3>2 DEF Approaches, Dies, Takes, Signs, Outer
    <3>3. CASE Prepares(s) \/ Snapshots(s) \/ Writes(s)
      BY <1>m, <3>3 DEF Prepares, Snapshots, Writes
    <3>4. CASE Records(s) \/ Refrains(s) \/ Discards(s) \/ Patches(s)
      BY <1>m, <3>4 DEF Records, Refrains, Discards, Patches
    <3> QED BY <1>2, <3>1, <3>2, <3>3, <3>4 DEF StartActs
  \* Nobody else's name appears.
  <2>2. ASSUME NEW t \in Starters \ {s}, NEW k \in Slots
        PROVE  (checkout'[k].by = t => checkout[k].by = t) /\ (launch'[k].by = t => launch[k].by = t)
    <3>1. CASE Prepares(s)
      BY <1>t, <3>1 DEF Prepares
    <3>2. CASE Snapshots(s)
      BY <1>t, <3>2 DEF Snapshots, Checkouts
    <3>3. CASE Writes(s)
      BY <1>t, <3>3 DEF Writes
    <3>4. CASE Discards(s)
      BY <1>t, <1>n, <3>4 DEF Discards, Discard
    <3> QED BY <1>2, <3>1, <3>2, <3>3, <3>4
          DEF StartActs, Approaches, Dies, Takes, Signs, Drops, Records, Refrains, Patches
  <2>3. ASSUME NEW k \in Slots, ~Recorded(k)'
        PROVE  /\ checkout'[k].by = s => k = Slot(s) /\ y.created /\ ~Abandons(s)'
               /\ launch'[k].by = s => k = Slot(s) /\ y.wrote /\ ~Abandons(s)'
    <3>0. /\ ~Recorded(k)
          /\ checkout[k].by = s => k = Slot(s) /\ x.created /\ ~Abandons(s)
          /\ launch[k].by = s => k = Slot(s) /\ x.wrote /\ ~Abandons(s)
      BY <1>m, <2>3, <2>f
    <3>e. x.step \in Early => ~x.created /\ ~x.wrote
      BY <1>m
    <3> USE DEF At, Abandons
    <3>1. CASE (Approaches(s) \/ Takes(s) \/ Signs(s) \/ Patches(s))
      <4>1. UNCHANGED <<checkout, launch>> /\ x.step \in Early
        BY <3>1 DEF Approaches, Takes, Signs, Patches, Outer, Early
      <4> QED BY <3>0, <3>e, <4>1
    <3>2. CASE Dies(s)
      BY <3>0, <3>2 DEF Dies, Becomes, Made
    <3>3. CASE Drops(s)
      BY <3>0, <3>3 DEF Drops, Becomes, Made
    <3>4. CASE Prepares(s)
      <4>1. UNCHANGED launch /\ x.step \in Early
        BY <3>4 DEF Prepares, Early
      <4>2. CASE UNCHANGED checkout
        BY <3>0, <3>e, <4>1, <4>2
      <4>3. CASE ~UNCHANGED checkout
        <5>1. /\ checkout' = [checkout EXCEPT ![Slot(s)] = [by |-> s, holds |-> "base"]]
              /\ y.created /\ y.step \in {"snapshot", "launch"}
          BY <3>4, <4>3 DEF Prepares
        <5> QED BY <1>t, <3>0, <3>e, <4>1, <5>1
      <4> QED BY <4>2, <4>3
    <3>5. CASE Snapshots(s)
      <4>1. UNCHANGED launch /\ checkout'[k].by = checkout[k].by
        BY <1>t, <3>5 DEF Snapshots, Checkouts
      <4>2. Made(s) /\ ~Abandons(s)'
        BY <3>5 DEF Snapshots, Becomes, Exits
      <4> QED BY <3>0, <4>1, <4>2 DEF Made
    <3>6. CASE Writes(s)
      <4>1. UNCHANGED checkout /\ y.created = x.created /\ ~Abandons(s)'
        BY <3>6 DEF Writes, Becomes, Made
      <4>2. (UNCHANGED launch /\ y.wrote = x.wrote)
            \/ (y.wrote /\ launch' = [launch EXCEPT ![Slot(s)] = [by |-> s, pin |-> x.pin]])
        BY <3>6 DEF Writes, Becomes, Made
      <4> QED BY <1>t, <3>0, <4>1, <4>2
    <3>7. CASE Records(s)
      <4>1. UNCHANGED <<checkout, launch>> /\ k # Slot(s)
        BY <1>n, <1>t, <2>3, <3>7 DEF Records, Recorded
      <4> QED BY <3>0, <4>1
    <3>8. CASE Refrains(s)
      BY <3>0, <3>8 DEF Refrains, Becomes, Exits, Made
    <3>9. CASE Discards(s)
      BY <1>n, <1>t, <3>0, <3>9 DEF Discards, Discard
    <3> QED BY <1>2, <3>1, <3>2, <3>3, <3>4, <3>5, <3>6, <3>7, <3>8, <3>9 DEF StartActs
  <2>4. \A t \in Starters, k \in Slots : ~Recorded(k)' =>
          /\ checkout'[k].by = t => k = Slot(t)' /\ starter'[t].created /\ ~Abandons(t)'
          /\ launch'[k].by = t => k = Slot(t)' /\ starter'[t].wrote /\ ~Abandons(t)'
    <3> SUFFICES ASSUME NEW t \in Starters, NEW k \in Slots, ~Recorded(k)'
                 PROVE  /\ checkout'[k].by = t => k = Slot(t)' /\ starter'[t].created /\ ~Abandons(t)'
                        /\ launch'[k].by = t => k = Slot(t)' /\ starter'[t].wrote /\ ~Abandons(t)'
      OBVIOUS
    <3>1. Slot(t)' = Slot(t)
      BY <2>f DEF Slot
    <3>2. CASE t = s
      BY <2>3, <3>1, <3>2
    <3>3. CASE t # s
      BY <1>m, <2>2, <2>f, <3>1, <3>3 DEF Abandons, At
    <3> QED BY <3>2, <3>3
  <2> QED BY <1>m, <2>1, <2>4, <2>f DEF MadeInv
<1> QED BY <1>1, <1>2

\* What FilesInv says of one start.
FilesOK(s) ==
  /\ starter[s].step \in {"snapshot", "launch", "commit", "step"} => checkout[Slot(s)] # NoCheckout
  /\ starter[s].step \in {"commit", "step"} => launch[Slot(s)].by = s
  /\ starter[s].step \in {"snapshot", "launch", "commit"} =>
       (starter[s].created \/ starter[s].wrote => ~Vital(Slot(s)))
  /\ starter[s].step = "step" => task[Slot(s)].by = s
  /\ starter[s].step = "rollback" =>
       (starter[s].created \/ starter[s].wrote => ~Vital(Slot(s)) \/ task[Slot(s)].by = s)
HasFiles(k) == checkout[k] # NoCheckout /\ launch[k].by = task[k].by

LEMMA FilesStay ==
  ASSUME StartTypeInv, StartTypeInv', MadeInv, LockInv, StoryInv, FilesInv, RecordedHasItsFiles,
         OtherActs \/ \E s \in Starters : StartActs(s)
  PROVE  FilesInv' /\ RecordedHasItsFiles'
<1>n. Nobody \notin Starters /\ NoCheckout.by = Nobody /\ NoLaunch.by = Nobody
  BY StartersAssumption DEF NoCheckout, NoLaunch
<1>t. /\ checkout \in [Slots -> Checkouts] /\ launch \in [Slots -> Launches] /\ task \in [Slots -> Rows]
      /\ starter \in [Starters -> Starts] /\ plan \in AllPlans
      /\ \A k \in Slots : checkout[k].by = Nobody => checkout[k] = NoCheckout
  BY DEF StartTypeInv
<1>p. \A s \in Starters : ~At(s, "none") => Slot(s) \in Slots
  BY PlanFacts
<1>i. ~broken => /\ \A s \in Starters : FilesOK(s)
                 /\ \A k \in Slots : Vital(k) => HasFiles(k)
  BY DEF FilesInv, FilesOK, RecordedHasItsFiles, Vital, HasFiles
<1>g. ASSUME ~broken' => /\ \A s \in Starters : FilesOK(s)'
                         /\ \A k \in Slots : Vital(k)' => HasFiles(k)'
      PROVE  FilesInv' /\ RecordedHasItsFiles'
  BY <1>g DEF FilesInv, FilesOK, RecordedHasItsFiles, Vital, HasFiles
<1>1. CASE OtherActs
  <2>1. /\ UNCHANGED <<plan, starter, broken, launch>>
        /\ \A k \in Slots : task'[k].by = task[k].by /\ (Vital(k)' => Vital(k))
    BY <1>1 DEF OtherActs, RowsGoOn, Vital, Recorded
  <2>2. CASE WorkGoesOn
    <3>1. \A k \in Slots : checkout[k] # NoCheckout => checkout'[k] # NoCheckout
      BY <1>n, <1>t, <2>2 DEF WorkGoesOn
    <3>2. \A s \in Starters : FilesOK(s) => FilesOK(s)'
      BY <1>p, <2>1, <3>1 DEF FilesOK, Slot, At
    <3>3. \A k \in Slots : HasFiles(k) => HasFiles(k)'
      BY <2>1, <3>1 DEF HasFiles
    <3> QED BY <1>g, <1>i, <2>1, <3>2, <3>3
  <2>3. CASE OldGoes
    <3>1. /\ story # NoStory /\ ~Vital(Old)
          /\ \A k \in Slots \ {Old} : checkout'[k] = checkout[k]
      BY <1>t, <2>3 DEF OldGoes, StoryInv, Vital
    <3>2. ASSUME NEW s \in Starters, FilesOK(s) PROVE FilesOK(s)'
      <4>1. CASE starter[s].step \in Making
        <5>1. StartOK(s) /\ Slot(s) \in Slots
          BY <1>p, <4>1 DEF StartTypeInv, At, Making
        <5>2. Slot(s) # Old
          BY <1>t, <3>1, <4>1, <5>1, StoriesAssumption DEF StartOK, Slot, story
        <5> QED BY <2>1, <3>1, <3>2, <5>1, <5>2 DEF FilesOK, Slot
      <4>2. CASE starter[s].step \notin Making
        BY <2>1, <4>2 DEF FilesOK, Making
      <4> QED BY <4>1, <4>2
    <3>3. \A k \in Slots : Vital(k) /\ HasFiles(k) => HasFiles(k)'
      BY <2>1, <3>1 DEF HasFiles
    <3> QED BY <1>g, <1>i, <2>1, <3>2, <3>3
  <2> QED BY <1>1, <2>2, <2>3 DEF OtherActs
<1>2. ASSUME NEW s \in Starters, StartActs(s) PROVE FilesInv' /\ RecordedHasItsFiles'
  <2> SUFFICES ASSUME ~broken'
               PROVE  /\ \A t \in Starters : FilesOK(t)'
                      /\ \A k \in Slots : Vital(k)' => HasFiles(k)'
    BY <1>g
  <2> DEFINE x == starter[s]
             y == starter'[s]
  <2>b. ~broken
    BY <1>2 DEF StartActs, Approaches, Dies, Takes, Signs, Drops, Prepares, Snapshots, Writes, Records,
       Refrains, Discards, Patches, LocksStay
  <2>f. /\ starter' \in [Starters -> Starts] /\ UNCHANGED plan
        /\ \A t \in Starters \ {s} : starter'[t] = starter[t]
        /\ x.end = "refused" => y.end = "refused"
        /\ \A k \in Slots : Recorded(k) => task'[k] = task[k]
        /\ x.step \in Inner \/ UNCHANGED <<checkout, launch, task>>
        /\ y.step \in Inner => x.step \in Inner \/ Takes(s)
    BY <1>2, StartFrame DEF Frame
  <2>i. /\ \A t \in Starters : FilesOK(t)
        /\ \A k \in Slots : Vital(k) => HasFiles(k)
    BY <1>i, <2>b
  <2>o. x.step \in Inner => \A t \in Starters \ {s} : starter[t].step \notin Inner
    BY <2>b DEF LockInv
  <2>k. UNCHANGED task \/ Records(s)
    BY <1>2 DEF StartActs, Approaches, Dies, Takes, Signs, Drops, Prepares, Snapshots, Writes, Refrains,
       Discards, Patches
  \* Nobody begins to count on a revision but by its record.
  <2>v. \A k \in Slots : Vital(k)' => Vital(k) \/ (Records(s) /\ k = Slot(s))
    <3> SUFFICES ASSUME NEW k \in Slots, Vital(k)' PROVE Vital(k) \/ (Records(s) /\ k = Slot(s))
      OBVIOUS
    <3>1. CASE Recorded(k)
      <4>1. task'[k] = task[k] /\ task[k].by \in Starters
        BY <1>t, <2>f, <3>1 DEF Recorded, Rows
      <4> QED BY <2>f, <3>1, <4>1 DEF Vital
    <3>2. CASE ~Recorded(k)
      <4>1. Records(s)
        BY <2>k, <3>2 DEF Vital, Recorded
      <4> QED BY <1>t, <3>2, <4>1 DEF Records, Vital, Recorded
    <3> QED BY <3>1, <3>2
  <2>s. Slot(s)' = Slot(s) /\ (x.step \in Inner => Slot(s) \in Slots)
    BY <1>p, <2>f DEF Slot, At, Inner
  <2>w. x.step \in Inner => (Vital(Slot(s))' => Vital(Slot(s)) \/ Records(s))
    BY <2>s, <2>v DEF Vital, Recorded
  <2>1. ASSUME NEW t \in Starters \ {s} PROVE FilesOK(t)'
    <3>1. CASE starter[t].step \in Making
      <4>1. x.step \notin Inner
        BY <2>o, <3>1 DEF Making, Inner
      <4>2. UNCHANGED <<checkout, launch, task, plan>> /\ starter'[t] = starter[t] /\ Slot(t) \in Slots
        BY <1>p, <2>1, <2>f, <3>1, <4>1 DEF At, Making
      <4>3. Vital(Slot(t))' => Vital(Slot(t))
        BY <2>v, <4>1, <4>2 DEF Records, At, Inner, Slot
      <4> QED BY <2>1, <2>i, <4>2, <4>3 DEF FilesOK, Slot
    <3>2. CASE starter[t].step \notin Making
      BY <2>1, <2>f, <3>2 DEF FilesOK, Making
    <3> QED BY <3>1, <3>2
  <2>2. FilesOK(s)'
    <3>n. y.step \notin Making => FilesOK(s)'
      BY DEF FilesOK, Making
    <3>1. CASE (Approaches(s) \/ Dies(s) \/ Takes(s) \/ Drops(s) \/ Discards(s) \/ Patches(s))
      <4>1. x.end \in Over
        BY <1>t DEF Starts
      <4> QED BY <1>2, <3>1, <4>1 DEF FilesOK, Approaches, Dies, Takes, Drops, Discards, Patches, Becomes,
              Exits, Outer, Over
    <3>2. CASE Signs(s)
      <4>1. (~x.created /\ ~x.wrote) /\ y.step \in {"check", "prepare"}
        BY <3>2 DEF Signs, MadeInv, At, Early, Becomes
      <4> QED BY <4>1 DEF FilesOK
    <3>3. CASE Prepares(s)
      <4>1. /\ x.step = "prepare" /\ ~x.created /\ ~x.wrote /\ ~Records(s) /\ Slot(s) \in Slots
        BY <2>s, <3>3 DEF Prepares, MadeInv, At, Early, Records, Inner
      <4>2. CASE checkout[Slot(s)] = NoCheckout
        <5>1. ~Vital(Slot(s))'
          BY <2>i, <2>w, <4>1, <4>2 DEF HasFiles, Inner
        <5>2. checkout'[Slot(s)].by = s /\ y.step \in {"snapshot", "launch"}
          BY <1>t, <3>3, <4>1, <4>2 DEF Prepares
        <5> QED BY <1>n, <2>s, <5>1, <5>2 DEF FilesOK
      <4>3. CASE checkout[Slot(s)] # NoCheckout
        <5>1. /\ UNCHANGED checkout /\ Made(s) /\ y.step \in {"snapshot", "launch", "unlock"}
          BY <3>3, <4>3 DEF Prepares, Becomes, Exits
        <5> QED BY <2>s, <4>1, <4>3, <5>1 DEF FilesOK, Made
      <4> QED BY <4>2, <4>3
    <3>4. CASE Snapshots(s)
      <4>1. x.step = "snapshot" /\ ~Records(s) /\ Slot(s) \in Slots /\ Made(s)
        BY <2>s, <3>4 DEF Snapshots, At, Records, Inner, Becomes, Exits
      <4>2. CASE y.step = "launch"
        <5>1. checkout[Slot(s)] # NoCheckout /\ checkout'[Slot(s)].by = checkout[Slot(s)].by
          BY <1>t, <3>4, <4>1, <4>2 DEF Snapshots, Exits, Checkouts
        <5>2. checkout'[Slot(s)] # NoCheckout
          BY <1>n, <1>t, <4>1, <5>1
        <5>3. x.created \/ x.wrote => ~Vital(Slot(s))'
          BY <2>i, <2>w, <4>1 DEF FilesOK, Inner
        <5> QED BY <2>s, <4>1, <4>2, <5>2, <5>3 DEF FilesOK, Made
      <4>3. CASE y.step = "unlock"
        BY <3>n, <4>3 DEF Making
      <4> QED BY <3>4, <4>2, <4>3 DEF Snapshots, Becomes, Exits
    <3>5. CASE Writes(s)
      <4>1. x.step = "launch" /\ ~Records(s) /\ Slot(s) \in Slots /\ checkout[Slot(s)] # NoCheckout
            /\ UNCHANGED checkout /\ y.created = x.created
        BY <2>i, <2>s, <3>5 DEF Writes, At, Records, Inner, Becomes, Made, FilesOK
      <4>2. CASE launch[Slot(s)] = NoLaunch
        <5>1. ~Vital(Slot(s))'
          BY <1>n, <2>i, <2>w, <4>1, <4>2 DEF HasFiles, Vital, Recorded, Inner
        <5>2. launch'[Slot(s)].by = s /\ y.step = "commit"
          BY <1>t, <3>5, <4>1, <4>2 DEF Writes
        <5> QED BY <2>s, <4>1, <5>1, <5>2 DEF FilesOK
      <4>3. CASE launch[Slot(s)] # NoLaunch
        <5>1. y.step = "rollback" /\ Made(s)
          BY <3>5, <4>3 DEF Writes, Becomes
        <5>2. x.created \/ x.wrote => ~Vital(Slot(s))'
          BY <2>i, <2>w, <4>1 DEF FilesOK, Inner
        <5> QED BY <2>s, <5>1, <5>2 DEF FilesOK, Made
      <4> QED BY <4>2, <4>3
    <3>6. CASE Records(s)
      <4>1. x.step = "commit" /\ UNCHANGED <<checkout, launch>> /\ Slot(s) \in Slots /\ task'[Slot(s)].by = s
            /\ y.step \in {"unlock", "step"}
        BY <1>t, <2>s, <3>6 DEF Records, At, Inner, Becomes, Exits
      <4> QED BY <2>i, <2>s, <4>1 DEF FilesOK
    <3>7. CASE Refrains(s)
      <4>1. /\ UNCHANGED <<checkout, launch, task>> /\ Made(s) /\ Slot(s) \in Slots
            /\ \/ x.step = "commit" /\ y.step = "rollback"
               \/ x.step = "step" /\ y.step \in {"rollback", "unlock"}
        BY <2>s, <3>7 DEF Refrains, At, Inner, Becomes, Exits
      <4>2. Vital(Slot(s))' => Vital(Slot(s)) \/ Records(s)
        BY <2>w, <4>1 DEF Inner
      <4>3. Records(s) => task'[Slot(s)].by = s
        BY <1>t, <4>1 DEF Records
      <4> QED BY <2>i, <2>s, <4>1, <4>2, <4>3 DEF FilesOK, Made
    <3> QED BY <1>2, <3>1, <3>2, <3>3, <3>4, <3>5, <3>6, <3>7 DEF StartActs
  <2>3. ASSUME NEW k \in Slots, Vital(k)' PROVE HasFiles(k)'
    <3>1. CASE Vital(k)
      <4>1. HasFiles(k) /\ task'[k] = task[k] /\ task[k].by # Nobody
        BY <2>f, <2>i, <3>1 DEF Vital, Recorded
      <4>2. CASE UNCHANGED <<checkout, launch>>
        BY <4>1, <4>2 DEF HasFiles
      <4>3. CASE Prepares(s)
        BY <1>t, <4>1, <4>3 DEF Prepares, HasFiles
      <4>4. CASE Snapshots(s)
        <5>1. checkout'[k].by = checkout[k].by /\ UNCHANGED launch
          BY <1>t, <4>4 DEF Snapshots, Checkouts
        <5> QED BY <1>n, <1>t, <4>1, <5>1 DEF HasFiles
      <4>5. CASE Writes(s)
        BY <1>n, <1>t, <4>1, <4>5 DEF Writes, HasFiles
      <4>6. CASE Discards(s)
        <5>1. x.step \in {"commit", "rollback"} /\ (x.step = "rollback" => y.end = "refused")
          BY <4>6 DEF Discards, At, Exits
        <5>2. k = Slot(s) => ~x.created /\ ~x.wrote
          <6> SUFFICES ASSUME k = Slot(s), x.created \/ x.wrote PROVE FALSE
            OBVIOUS
          <6>1. x.step = "rollback" /\ task[k].by = s
            BY <2>i, <3>1, <5>1 DEF FilesOK
          <6>2. starter'[task'[k].by].end = "refused"
            BY <4>1, <5>1, <6>1
          <6> QED BY <2>3, <6>2 DEF Vital
        <5>3. checkout'[k] = checkout[k] /\ launch'[k] = launch[k]
          BY <1>t, <4>6, <5>2 DEF Discards, Discard
        <5> QED BY <4>1, <5>3 DEF HasFiles
      <4> QED BY <1>2, <4>2, <4>3, <4>4, <4>5, <4>6
            DEF StartActs, Approaches, Dies, Takes, Signs, Drops, Records, Refrains, Patches
    <3>2. CASE Records(s) /\ k = Slot(s)
      <4>1. x.step = "commit" /\ UNCHANGED <<checkout, launch>> /\ task'[k].by = s
        BY <1>t, <3>2 DEF Records, At
      <4> QED BY <2>i, <3>2, <4>1 DEF FilesOK, HasFiles
    <3> QED BY <2>3, <2>v, <3>1, <3>2
  <2> QED BY <2>1, <2>2, <2>3
<1> QED BY <1>1, <1>2

-----------------------------------------------------------------------------
(* Where everything begins. *)

LEMMA StartsBegin ==
  ASSUME Init
  PROVE  StartInv
<1>p. plan \in AllPlans /\ plan.recipe \in Recipes /\ plan.past \subseteq Slots
  BY PlansAssumption DEF Init
<1>c. MaxCli \in Nat /\ MaxCli >= 1 /\ 1 \in 1..MaxCli /\ 1 \in 0..MaxCli /\ 0 \in 0..MaxCli
  BY CliTypes
<1>e. EarlierStart \in Starters /\ EarlierStart # Nobody
  BY StartersAssumption DEF EarlierStart
<1>n. NoPin \in Pins /\ NoCheckout.by = Nobody /\ NoLaunch.by = Nobody
  BY <1>c DEF NoPin, Pins, NoCheckout, NoLaunch
<1> DEFINE pinned == [recipe |-> plan.recipe, bytes |-> 1]
<1>i. pinned \in Pins /\ pinned \in certified
  BY <1>c, <1>p DEF Pins, Init, RegistryInit
<1>1. RegistryInv
  <2>1. /\ cli = [bytes |-> 1, prints |-> 1] /\ manifest = plan.recipe /\ receipt = Receipt(plan.recipe, cli)
        /\ certifier = NoCertification /\ certified = {pinned}
    BY DEF Init, RegistryInit
  <2>2. cli \in Clis
    BY <1>c, <2>1 DEF Clis
  <2>3. /\ receipt.recipe = plan.recipe /\ receipt.bytes = 1 /\ receipt \in Receipts
    <3>1. receipt = [recipe |-> plan.recipe, bytes |-> 1, prints |-> 1, mode |-> plan.recipe.by]
      BY <2>1 DEF Receipt
    <3>2. plan.recipe.by \in {"generated", "authored"}
      BY <1>p, CliTypes
    <3> QED BY <1>c, <1>p, <3>1, <3>2 DEF Receipts
  <2>4. certified \subseteq [recipe : Recipes, bytes : 1..MaxCli]
    BY <1>c, <1>p, <2>1
  <2>5. certifier \in [Certifiers -> Certifications] /\ \A d \in Certifiers : certifier[d] = Idle
    BY <2>1, CliTypes DEF NoCertification
  <2>6. \A d \in Certifiers : CertificationOK(certifier[d], cli.bytes, certified)
    BY <2>5 DEF CertificationOK, Idle, WithRecipe
  <2> QED BY <1>p, <2>1, <2>2, <2>3, <2>4, <2>5, <2>6 DEF RegistryInv
<1>2. /\ starter \in [Starters -> Starts]
      /\ \A s \in Starters :
           /\ starter[s].step = IF plan.jobs[s] = NoJob THEN "none"
                                ELSE IF plan.jobs[s].loaded THEN "bind" ELSE "probe"
           /\ starter[s].end = "none" /\ ~starter[s].created /\ ~starter[s].wrote
           /\ plan.jobs[s].loaded => starter[s].pin = pinned
  <2> DEFINE first(s) ==
        [step |-> IF plan.jobs[s] = NoJob THEN "none" ELSE IF plan.jobs[s].loaded THEN "bind" ELSE "probe",
         end |-> "none", seen |-> NoRecipe, pin |-> IF plan.jobs[s].loaded THEN pinned ELSE NoPin,
         proof |-> 0, created |-> FALSE, wrote |-> FALSE, auto |-> plan.jobs[s].auto]
  <2>1. starter = [s \in Starters |-> first(s)]
    BY DEF Init
  <2>2. \A s \in Starters : plan.jobs[s].auto \in BOOLEAN
    <3>1. \A s \in Starters : plan.jobs[s] = NoJob \/ plan.jobs[s].auto \in BOOLEAN
      BY <1>p, PlansAssumption
    <3>2. NoJob.auto = FALSE
      BY DEF NoJob, Job
    <3> QED BY <3>1, <3>2
  <2>3. \A s \in Starters : first(s) \in Starts
    BY <1>n, <1>i, <2>2 DEF Starts, StartSteps, Over
  <2> QED BY <2>1, <2>3
<1>3. /\ checkout = [k \in Slots |-> IF k \in plan.past THEN [by |-> EarlierStart, holds |-> "work"] ELSE NoCheckout]
      /\ launch = [k \in Slots |-> IF k \in plan.past THEN [by |-> EarlierStart, pin |-> pinned] ELSE NoLaunch]
      /\ task = [k \in Slots |-> IF k \in plan.past THEN [by |-> EarlierStart, run |-> "over"] ELSE Unrecorded]
      /\ lock = Nobody /\ broken = FALSE /\ head = 0
  BY DEF Init
<1>4. StartTypeInv
  <2>1. checkout \in [Slots -> Checkouts]
    BY <1>3, <1>e DEF Checkouts, NoCheckout
  <2>2. launch \in [Slots -> Launches]
    BY <1>3, <1>e, <1>i, <1>n DEF Launches, NoLaunch
  <2>3. task \in [Slots -> Rows]
    BY <1>3, <1>e DEF Rows, Unrecorded
  <2>4. \A s \in Starters : StartOK(s)
    BY <1>2, <1>i DEF StartOK, At, Pinned, Making
  <2>5. \A k \in Slots :
          /\ checkout[k].by = Nobody => checkout[k] = NoCheckout
          /\ launch[k].by = Nobody => launch[k] = NoLaunch
          /\ launch[k] # NoLaunch => launch[k].pin \in certified
    <3> SUFFICES ASSUME NEW k \in Slots
                 PROVE  /\ checkout[k].by = Nobody => checkout[k] = NoCheckout
                        /\ launch[k].by = Nobody => launch[k] = NoLaunch
                        /\ launch[k] # NoLaunch => launch[k].pin \in certified
      OBVIOUS
    <3>1. CASE k \in plan.past
      BY <1>3, <1>e, <1>i, <3>1
    <3>2. CASE k \notin plan.past
      BY <1>3, <3>2
    <3> QED BY <3>1, <3>2
  <2>6. lock \in [pid : Starters, signed : BOOLEAN] \cup {Nobody} /\ broken \in BOOLEAN /\ head \in 0..1
    <3>1. lock = Nobody /\ broken = FALSE /\ head = 0
      BY <1>3
    <3>2. lock \in [pid : Starters, signed : BOOLEAN] \cup {Nobody}
      BY <3>1
    <3>3. broken \in BOOLEAN
      BY <3>1
    <3>4. head \in 0..1
      BY <3>1
    <3> QED BY <3>2, <3>3, <3>4
  <2> QED BY <1>p, <1>2, <2>1, <2>2, <2>3, <2>4, <2>5, <2>6 DEF StartTypeInv
<1>5. MadeInv
  <2>1. \A k \in Slots : ~Recorded(k) => checkout[k].by = Nobody /\ launch[k].by = Nobody
    BY <1>3, <1>e, <1>n DEF Recorded
  <2> QED BY <1>2, <2>1, StartersAssumption DEF MadeInv
<1>6. LockInv
  BY <1>2 DEF LockInv, Inner
<1>7. FilesInv
  BY <1>2 DEF FilesInv
<1>8. RecordedHasItsFiles
  <2>1. \A k \in Slots : Recorded(k) => task[k].run = "over"
    BY <1>3 DEF Recorded, Unrecorded
  <2> QED BY <2>1 DEF RecordedHasItsFiles
<1> QED BY <1>1, <1>4, <1>5, <1>6, <1>7, <1>8 DEF StartInv

LEMMA StoryBegins ==
  ASSUME CheckoutInit
  PROVE  ReclaimTypeOK /\ StoryInv /\ MarkInv /\ GatesInv /\ PatchInv /\ PatchAppliedOnce
<1>p. plan \in AllPlans /\ ReclaimInit /\ Nobody \notin Hands
  BY HandsAssumption DEF CheckoutInit, Init
<1>1. /\ hand = [h \in Hands |-> [step |-> "away", force |-> FALSE]]
      /\ decision = Nobody /\ settlement = "open" /\ mark = Nobody
      /\ assessed = FALSE /\ reclaimLock = Nobody /\ applied = 0 /\ integration = "none"
  BY <1>p DEF ReclaimInit
<1>2. /\ worker \in {"gone", "leaving", "orphan"} /\ pane \in {"none", "open", "closed"}
      /\ report \in {"none", "inside"} /\ ignored \in BOOLEAN
      /\ changes \in {"none", "cache", "sealed", "plain", "nested"}
      /\ branch \in {"base", "only", "sealed", "elsewhere", "gone"}
      /\ pane = "open" => report = "inside"
      /\ story = NoStory => changes = "none" /\ report = "none" /\ worker = "gone" /\ pane = "none"
      /\ worker = "orphan" => story.outcome = "lost"
  <2>1. CASE story = NoStory
    BY <1>p, <2>1 DEF ReclaimInit
  <2>2. CASE story # NoStory
    BY <1>p, <2>2, StoriesAssumption DEF ReclaimInit, story
  <2> QED BY <2>1, <2>2
<1>3. hand \in [Hands -> HandStates] /\ \A h \in Hands : hand[h].step = "away" /\ hand[h].force \in BOOLEAN
  BY <1>1 DEF HandStates, HandSteps
<1>4. ReclaimTypeOK
  <2>1. \A h \in Hands \ {Pruner} : reclaimLock = h <=> hand[h].step \in {"assess", "remove", "branch"}
    BY <1>p, <1>1, <1>3
  <2>2. applied \in 0..2 /\ integration \in {"none", "started", "failed", "applied"}
    BY <1>1
  <2>3. report \in {"none", "inside", "archived"} /\ settlement \in {"open", "decided", "acknowledged"}
        /\ reclaimLock \in (Hands \ {Pruner}) \cup {Nobody} /\ assessed \in BOOLEAN
        /\ decision \in Deciders \cup {Nobody} /\ mark \in Deciders \cup {Nobody}
    BY <1>1, <1>2
  <2>4. \A h \in Hands : hand[h].step \in HandSteps /\ hand[h].force \in BOOLEAN
    BY <1>3 DEF HandSteps
  <2> QED BY <1>2, <2>1, <2>2, <2>3, <2>4 DEF ReclaimTypeOK
<1>5. story # NoStory => Recorded(Old) /\ task[Old].run = "over"
  <2>1. story # NoStory => Old \in plan.past
    BY <1>p, StoriesAssumption DEF story
  <2>2. EarlierStart # Nobody
    BY StartersAssumption DEF EarlierStart
  <2> QED BY <2>1, <2>2, HandsAssumption DEF CheckoutInit, Init, Recorded
<1>6. StoryInv
  BY <1>1, <1>2, <1>3, <1>5 DEF StoryInv, InHand
<1>7. MarkInv /\ GatesInv
  <2>1. Pruner \in Hands /\ Deciders \subseteq Hands
    BY DEF Hands
  <2> QED BY <1>1, <1>3, <2>1 DEF MarkInv, GatesInv, InHand
<1>8. PatchInv /\ PatchAppliedOnce
  <2>1. \A s \in Starters : starter[s].step \in {"none", "bind", "probe"}
    BY DEF CheckoutInit, Init
  <2> QED BY <1>1, <2>1 DEF PatchInv, PatchAppliedOnce, At
<1> QED BY <1>4, <1>6, <1>7, <1>8

\* The starts' part of a step.
LEMMA StartsStay ==
  ASSUME StartInv, StoryInv, [CheckoutNext]_checkoutVars
  PROVE  /\ StartInv' /\ UNCHANGED plan
         /\ \A k \in Slots : Recorded(k) /\ task[k].run = "over" => Recorded(k)' /\ task'[k].run = "over"
<1>1. RegistryActs /\ (OtherActs \/ \E s \in Starters : StartActs(s))
  BY CheckoutStep DEF StartInv
<1>2. RegistryInv' /\ certified \subseteq certified'
  BY <1>1, RegistryStep DEF StartInv
<1>3. StartTypeInv'
  BY <1>1, <1>2, TypesStay DEF StartInv
<1>4. MadeInv' /\ LockInv'
  BY <1>1, MadeStays, LockStays DEF StartInv
<1>5. FilesInv' /\ RecordedHasItsFiles'
  BY <1>1, <1>3, FilesStay DEF StartInv
<1>6. UNCHANGED plan
  BY <1>1, StartFrame DEF StartInv, OtherActs, Frame
<1>7. \A k \in Slots : Recorded(k) /\ task[k].run = "over" => Recorded(k)' /\ task'[k].run = "over"
  BY <1>1, StartFrame DEF StartInv, OtherActs, RowsGoOn, Recorded
<1> QED BY <1>2, <1>3, <1>4, <1>5, <1>6, <1>7 DEF StartInv

-----------------------------------------------------------------------------
(* What a step does to the finished revision, and to those who reclaim it. *)

ContentsGoOn ==
  /\ \/ UNCHANGED decision
     \/ decision = Nobody /\ decision' \in Deciders /\ story # NoStory
  /\ \/ UNCHANGED settlement
     \/ settlement' = "decided" /\ story # NoStory /\ story.outcome = "candidate"
     \/ settlement' = "acknowledged" /\ story # NoStory /\ story.outcome = "lost"
  /\ mark' \in Deciders \cup {Nobody} /\ assessed' \in BOOLEAN
  /\ UNCHANGED worker \/ worker' = "gone"
  /\ UNCHANGED pane \/ (story # NoStory /\ pane' = "closed")
  /\ UNCHANGED report \/ (story # NoStory /\ report' = "archived" /\ pane' # "open")
  /\ UNCHANGED changes \/ (changes' \in {"plain", "nested"} /\ story # NoStory /\ Inside)
  /\ UNCHANGED ignored
  /\ \/ UNCHANGED branch
     \/ branch' \in {"only", "elsewhere"}
     \/ branch' = "gone" /\ \E h \in Hands : InHand(h, "branch") /\ Preserved(h)

LEMMA ContentsStep ==
  ASSUME ReclaimTypeOK, StoryInv, [CheckoutNext]_checkoutVars
  PROVE  ContentsGoOn
<1>t. /\ decision \in Deciders \cup {Nobody} /\ mark \in Deciders \cup {Nobody} /\ assessed \in BOOLEAN
      /\ \A h \in Hands : ~InHand(h, "away") => story # NoStory
      /\ story = NoStory => settlement = "open" /\ pane = "none" /\ report = "none"
  BY DEF ReclaimTypeOK, StoryInv
<1>h. Deciders \subseteq Hands
  BY DEF Hands
<1>u. UNCHANGED <<Owner, assessed, Contents>> => ContentsGoOn
  BY <1>t DEF ContentsGoOn, Owner, Contents
<1>1. CASE Starting
  <2>1. UNCHANGED <<Owner, assessed, Contents>>
    BY <1>1 DEF Starting, reclaimVars, Owner, Contents
  <2> QED BY <1>u, <2>1
<1>2. ASSUME NEW d \in Deciders, Mark(d) \/ Remark(d)
      PROVE  ContentsGoOn
  <2>1. UNCHANGED <<decision, settlement, assessed, Contents>> /\ mark' \in {d, mark, decision}
    BY <1>2 DEF Mark, Remark, Locked
  <2> QED BY <1>t, <2>1 DEF ContentsGoOn, Contents
<1>3. ASSUME NEW d \in Deciders, RecordDecision(d)
      PROVE  ContentsGoOn
  <2>1. UNCHANGED <<assessed, Contents>> /\ InHand(d, "record") /\ story.outcome = "candidate"
    BY <1>3 DEF RecordDecision, Locked
  <2>2. \/ decision = Nobody /\ decision' = d /\ settlement' = "decided" /\ UNCHANGED mark
        \/ UNCHANGED Owner
        \/ mark' \in {mark, Nobody} /\ UNCHANGED <<decision, settlement>>
    BY <1>3 DEF RecordDecision
  <2>3. story # NoStory
    BY <1>h, <1>t, <2>1 DEF InHand
  <2> QED BY <1>t, <2>1, <2>2, <2>3 DEF ContentsGoOn, Contents, Owner
<1>4. ASSUME NEW d \in Deciders, Acknowledge(d)
      PROVE  ContentsGoOn
  <2>1. /\ UNCHANGED <<decision, mark, assessed, Contents>> /\ InHand(d, "record")
        /\ story.outcome = "lost" /\ settlement' = "acknowledged"
    BY <1>4 DEF Acknowledge, Locked
  <2>2. story # NoStory
    BY <1>h, <1>t, <2>1 DEF InHand
  <2> QED BY <1>t, <2>1, <2>2 DEF ContentsGoOn, Contents
<1>5. ASSUME NEW h \in Hands, Reclaims(h) \/ HandDies(h)
      PROVE  ContentsGoOn
  <2>1. CASE DropBranch(h)
    <3>1. /\ UNCHANGED <<Owner, assessed, worker, pane, report, changes, ignored>>
          /\ InHand(h, "branch") /\ branch' = IF Preserved(h) THEN "gone" ELSE branch
      BY <2>1 DEF DropBranch
    <3> QED BY <1>t, <3>1 DEF ContentsGoOn, Owner
  <2>2. CASE Assess(h)
    <3>1. UNCHANGED <<Owner, Contents>> /\ assessed' = TRUE
      BY <2>2 DEF Assess
    <3> QED BY <1>t, <3>1 DEF ContentsGoOn, Owner, Contents
  <2>3. CASE ~DropBranch(h) /\ ~Assess(h)
    <3>1. UNCHANGED <<Owner, assessed, Contents>>
      BY <1>5, <2>3 DEF Reclaims, Look, AskNewer, AskExit, TakeLock, Remove, HandDies, Locked
    <3> QED BY <1>u, <3>1
  <2> QED BY <2>1, <2>2, <2>3
<1>6. ASSUME NEW s \in Starters, NotRevisable(s) \/ Apply(s)
      PROVE  ContentsGoOn
  <2>1. UNCHANGED <<Owner, assessed, Contents>>
    BY <1>6 DEF NotRevisable, Apply, CheckPatch, NoteIntent, ApplyPatch, NoteApplied, reclaimVars, Locked,
       Owner, Contents
  <2> QED BY <1>u, <2>1
<1>7. CASE AcknowledgeByRevise
  BY <1>t, <1>7 DEF AcknowledgeByRevise, ContentsGoOn, Locked, Contents
<1>8. CASE (Clean \/ Sweep \/ SweepBranch)
  <2>1. UNCHANGED <<Owner, assessed, Contents>>
    BY <1>8 DEF Clean, Sweep, SweepBranch, Locked
  <2> QED BY <1>u, <2>1
<1>9. CASE WorkerWrites
  BY <1>t, <1>9 DEF WorkerWrites, ContentsGoOn, Owner, Locked
<1>10. CASE WorkerExits
  BY <1>t, <1>10 DEF WorkerExits, ContentsGoOn, Owner, Locked
<1>11. CASE ClosePane
  BY <1>t, <1>11 DEF ClosePane, ContentsGoOn, Owner, Locked
<1>12. CASE ArchiveReport
  BY <1>t, <1>12 DEF ArchiveReport, ContentsGoOn, Owner, Locked, Settled
<1>13. CASE OwnerMerges
  BY <1>t, <1>13 DEF OwnerMerges, ContentsGoOn, Owner, Locked
<1>14. CASE UNCHANGED checkoutVars
  <2>1. UNCHANGED <<Owner, assessed, Contents>>
    BY <1>14 DEF checkoutVars, reclaimVars, Owner, Contents
  <2> QED BY <1>u, <2>1
<1> QED BY <1>1, <1>2, <1>3, <1>4, <1>5, <1>6, <1>7, <1>8, <1>9, <1>10, <1>11, <1>12, <1>13, <1>14
        DEF CheckoutNext

HandGoes(h, step) ==
  hand' \in [Hands -> HandStates] /\ hand'[h].step = step /\ \A g \in Hands \ {h} : hand'[g] = hand[g]

\* The steps without the lock, and what a removal has found.
Outside == HandSteps \ {"assess", "remove", "branch"}
Found(h) ==
  /\ Settled /\ pane # "open" /\ report # "inside" /\ worker # "orphan"
  /\ changes \notin {"plain", "nested"}
  /\ ignored => IF h = Pruner THEN story.pruneIgnored ELSE Agreed

HandActs(h) ==
  /\ story # NoStory
  /\ \E step \in HandSteps :
       /\ HandGoes(h, step)
       /\ h = Pruner => step \in {"away", "remove", "branch", "dead"} /\ UNCHANGED reclaimLock
       /\ h # Pruner =>
            \/ hand[h].step \in Outside /\ step \in Outside /\ UNCHANGED reclaimLock
            \/ hand[h].step \notin Outside /\ step \in Outside /\ reclaimLock' = Nobody
            \/ hand[h].step \notin Outside /\ step \notin Outside /\ UNCHANGED reclaimLock
            \/ hand[h].step \in Outside /\ step = "assess" /\ reclaimLock = Nobody /\ reclaimLock' = h
       /\ step = "remark" => h \in Deciders /\ RecordDecision(h)
       /\ step = "newer" => Settled /\ pane # "open" /\ report # "inside"
       /\ step = "exit" => hand[h].step = "newer"
       /\ step = "lock" => hand[h].step = "exit" /\ worker = "gone"
       /\ step = "assess" => hand[h].step = "lock"
       /\ step = "remove" => (hand[h].step = "assess" \/ h = Pruner) /\ Found(h)

LEMMA HandGoing ==
  ASSUME hand \in [Hands -> HandStates], NEW h \in Hands, NEW step \in HandSteps, To(h, step)
  PROVE  HandGoes(h, step)
<1> DEFINE y == [hand[h] EXCEPT !.step = step]
<1>1. hand' = [hand EXCEPT ![h] = y]
  BY DEF To
<1>2. y \in HandStates /\ y.step = step
  BY DEF HandStates
<1> HIDE DEF y
<1> QED BY <1>1, <1>2 DEF HandGoes

LEMMA HandStep ==
  ASSUME ReclaimTypeOK, StoryInv, MarkInv, GatesInv, [CheckoutNext]_checkoutVars
  PROVE  UNCHANGED <<hand, reclaimLock>> \/ \E h \in Hands : HandActs(h)
<1>t. /\ hand \in [Hands -> HandStates]
      /\ \A h \in Hands : hand[h].step \in HandSteps
      /\ \A h \in Hands \ {Pruner} : reclaimLock = h <=> hand[h].step \in {"assess", "remove", "branch"}
      /\ hand[Pruner].step \in {"away", "remove", "branch", "dead"}
      /\ reclaimLock # Pruner /\ mark \in Deciders \cup {Nobody}
  BY HandsAssumption DEF ReclaimTypeOK, GatesInv, Hands
<1>s. /\ \A h \in Hands : hand[h].step # "away" => story # NoStory
      /\ Settled => story # NoStory
  BY DEF StoryInv, InHand, Settled
<1>h. Deciders \subseteq Hands /\ Cleaner \in Hands /\ Pruner \in Hands /\ Cleaner # Pruner
      /\ Pruner \notin Deciders /\ Nobody \notin Hands
  BY HandsAssumption DEF Hands
<1> USE DEF InHand
\* Without the lock: towards a decision, a look, or an end.
<1>a. ASSUME NEW h \in Hands, NEW step \in {"record", "look", "away", "done", "dead"}, To(h, step),
             UNCHANGED reclaimLock, hand[h].step \in Outside, h # Pruner, story # NoStory
      PROVE  HandActs(h)
  <2>1. step \in HandSteps /\ step \in Outside
    BY DEF HandSteps, Outside
  <2>2. HandGoes(h, step)
    BY <1>t, <1>a, <2>1, HandGoing
  <2> QED BY <1>a, <2>1, <2>2 DEF HandActs
\* With it.
<1>b. ASSUME NEW h \in Hands, NEW step \in {"away", "done", "dead"}, To(h, step),
             hand[h].step \in {"assess", "remove", "branch"}, h # Pruner, reclaimLock' = Nobody
      PROVE  HandActs(h)
  <2>1. step \in HandSteps /\ step \in Outside /\ hand[h].step \notin Outside
    BY <1>b DEF HandSteps, Outside
  <2>2. HandGoes(h, step)
    BY <1>t, <1>b, <2>1, HandGoing
  <2> QED BY <1>b, <1>s, <2>1, <2>2 DEF HandActs
<1>c. ASSUME NEW step \in {"away", "branch", "dead"}, To(Pruner, step), UNCHANGED reclaimLock, story # NoStory
      PROVE  HandActs(Pruner)
  <2>1. step \in HandSteps
    BY DEF HandSteps
  <2>2. HandGoes(Pruner, step)
    BY <1>t, <1>h, <1>c, <2>1, HandGoing
  <2> QED BY <1>c, <2>1, <2>2 DEF HandActs
<1>e. ASSUME NEW h \in Hands, Ends(h), h # Pruner
      PROVE  \E step \in {"away", "done"} : To(h, step)
  BY <1>e DEF Ends
<1>f. \A h \in Hands : /\ h = Pruner => FreeLock(h) = reclaimLock
                       /\ h # Pruner /\ hand[h].step \in {"assess", "remove", "branch"} => FreeLock(h) = Nobody
                       /\ h # Pruner /\ hand[h].step \in Outside => FreeLock(h) = reclaimLock
  BY <1>t DEF FreeLock, Outside
<1>1. CASE Starting
  BY <1>1 DEF Starting, reclaimVars
<1>2. ASSUME NEW d \in Deciders, Mark(d) PROVE HandActs(d)
  <2>1. To(d, "record") /\ UNCHANGED reclaimLock /\ hand[d].step = "away" /\ story # NoStory
    BY <1>2 DEF Mark, Locked
  <2> QED BY <1>a, <1>h, <2>1 DEF Outside, HandSteps
<1>3. ASSUME NEW d \in Deciders, RecordDecision(d) PROVE HandActs(d)
  <2>1. (To(d, "remark") \/ To(d, "done")) /\ UNCHANGED reclaimLock /\ hand[d].step = "record"
    BY <1>3 DEF RecordDecision, Locked
  <2>2. CASE To(d, "done")
    BY <1>a, <1>h, <1>s, <2>1, <2>2 DEF Outside, HandSteps
  <2>3. CASE To(d, "remark")
    <3>1. HandGoes(d, "remark")
      BY <1>t, <1>h, <2>3, HandGoing DEF HandSteps
    <3> QED BY <1>3, <1>h, <1>s, <2>1, <3>1 DEF HandActs, Outside, HandSteps
  <2> QED BY <2>1, <2>2, <2>3
<1>4. ASSUME NEW d \in Deciders, Acknowledge(d) \/ Remark(d) PROVE HandActs(d)
  <2>1. To(d, "look") /\ UNCHANGED reclaimLock /\ hand[d].step \in {"record", "remark"}
    BY <1>4 DEF Acknowledge, Remark, Locked
  <2> QED BY <1>a, <1>h, <1>s, <2>1 DEF Outside, HandSteps
<1>5. ASSUME NEW h \in Hands, Reclaims(h) PROVE HandActs(h)
  <2>1. CASE Look(h)
    <3>1. /\ hand[h].step = "look" /\ UNCHANGED reclaimLock /\ h # Pruner /\ story # NoStory
          /\ hand[h].step \in Outside
      BY <1>s, <1>t, <2>1 DEF Look, Locked, Outside, HandSteps
    <3>2. CASE Ends(h)
      BY <1>a, <1>e, <3>1, <3>2
    <3>3. CASE ~LeftToPaneCleanup /\ Settled /\ To(h, "newer")
      <4>1. HandGoes(h, "newer")
        BY <1>t, <3>3, HandGoing DEF HandSteps
      <4>2. "newer" \in HandSteps /\ "newer" \in Outside
        BY DEF Outside, HandSteps
      <4> QED BY <3>1, <3>3, <4>1, <4>2 DEF HandActs, LeftToPaneCleanup
    <3> QED BY <2>1, <3>2, <3>3 DEF Look
  <2>2. CASE AskNewer(h)
    <3>1. /\ hand[h].step = "newer" /\ UNCHANGED reclaimLock /\ h # Pruner /\ story # NoStory
          /\ hand[h].step \in Outside
      BY <1>s, <1>t, <2>2 DEF AskNewer, Locked, Outside, HandSteps
    <3>2. CASE Ends(h)
      BY <1>a, <1>e, <3>1, <3>2
    <3>3. CASE To(h, "exit")
      <4>1. HandGoes(h, "exit")
        BY <1>t, <3>3, HandGoing DEF HandSteps
      <4>2. "exit" \in HandSteps /\ "exit" \in Outside
        BY DEF Outside, HandSteps
      <4> QED BY <3>1, <3>3, <4>1, <4>2 DEF HandActs
    <3> QED BY <2>2, <3>2, <3>3 DEF AskNewer
  <2>3. CASE AskExit(h)
    <3>1. /\ hand[h].step = "exit" /\ UNCHANGED reclaimLock /\ h # Pruner /\ story # NoStory
          /\ hand[h].step \in Outside
      BY <1>s, <1>t, <2>3 DEF AskExit, Locked, Outside, HandSteps
    <3>2. CASE Ends(h)
      BY <1>a, <1>e, <3>1, <3>2
    <3>3. CASE ExitIsSafe /\ To(h, "lock")
      <4>1. HandGoes(h, "lock")
        BY <1>t, <3>3, HandGoing DEF HandSteps
      <4>2. "lock" \in HandSteps /\ "lock" \in Outside
        BY DEF Outside, HandSteps
      <4> QED BY <3>1, <3>3, <4>1, <4>2 DEF HandActs, ExitIsSafe
    <3> QED BY <2>3, <3>2, <3>3 DEF AskExit
  <2>4. CASE TakeLock(h)
    <3>1. hand[h].step = "lock" /\ h # Pruner /\ story # NoStory /\ hand[h].step \in Outside
      BY <1>s, <1>t, <2>4 DEF TakeLock, Outside, HandSteps
    <3>2. CASE Ends(h) /\ UNCHANGED reclaimLock
      BY <1>a, <1>e, <3>1, <3>2
    <3>3. CASE reclaimLock = Nobody /\ To(h, "assess") /\ reclaimLock' = h
      <4>1. HandGoes(h, "assess")
        BY <1>t, <3>3, HandGoing DEF HandSteps
      <4>2. "assess" \in HandSteps
        BY DEF HandSteps
      <4> QED BY <3>1, <3>3, <4>1, <4>2 DEF HandActs
    <3> QED BY <2>4, <3>2, <3>3 DEF TakeLock
  <2>5. CASE Assess(h)
    <3>1. hand[h].step = "assess" /\ h # Pruner /\ story # NoStory
      BY <1>s, <1>t, <2>5 DEF Assess
    <3>2. CASE Ends(h) /\ reclaimLock' = Nobody
      BY <1>b, <1>e, <3>1, <3>2
    <3>3. CASE /\ ~WorkerInIt /\ ~Objects(IgnoredAllowed) /\ UNCHANGED reclaimLock
               /\ hand' = [hand EXCEPT ![h].step = "remove", ![h].force = changes # "none"]
      <4> DEFINE y == [hand[h] EXCEPT !.step = "remove", !.force = changes # "none"]
      <4>1. hand' = [hand EXCEPT ![h] = y]
        BY <3>3
      <4>2. y \in HandStates /\ y.step = "remove"
        BY <1>t DEF HandStates, HandSteps
      <4> HIDE DEF y
      <4>3. HandGoes(h, "remove")
        BY <1>t, <4>1, <4>2 DEF HandGoes
      <4>4. Settled /\ pane # "open" /\ worker # "orphan"
        BY <3>1 DEF GatesInv
      <4>5. report # "inside" /\ changes \notin {"plain", "nested"}
        BY <3>3 DEF Objects, Disposable, ReclaimTypeOK
      <4>6. ignored => Agreed
        <5> SUFFICES ASSUME ignored PROVE Agreed
          OBVIOUS
        <5>1. mark # Nobody /\ mark = decision
          BY <3>3 DEF Objects, IgnoredAllowed
        <5>2. Asks(mark) => Agreed
          BY <1>t, <5>1 DEF Agreed, Agrees
        <5> QED BY <5>1, <5>2 DEF MarkInv
      <4>7. "remove" \in HandSteps /\ "remove" \notin Outside /\ "assess" \notin Outside
        BY DEF HandSteps, Outside
      <4> QED BY <3>1, <3>3, <4>3, <4>4, <4>5, <4>6, <4>7 DEF HandActs, Found
    <3> QED BY <2>5, <3>2, <3>3 DEF Assess
  <2>6. CASE Remove(h)
    <3>1. hand[h].step = "remove" /\ story # NoStory /\ hand[h].step \notin Outside
      BY <1>s, <1>t, <2>6 DEF Remove, Outside
    <3>2. CASE To(h, "branch") /\ UNCHANGED reclaimLock
      <4>1. HandGoes(h, "branch")
        BY <1>t, <3>2, HandGoing DEF HandSteps
      <4>2. "branch" \in HandSteps /\ "branch" \notin Outside
        BY DEF Outside, HandSteps
      <4> QED BY <3>1, <3>2, <4>1, <4>2 DEF HandActs
    <3>3. CASE /\ IF h = Pruner THEN To(h, "away") ELSE Ends(h)
               /\ reclaimLock' = FreeLock(h)
      BY <1>b, <1>c, <1>e, <1>f, <3>1, <3>3
    <3> QED BY <2>6, <3>2, <3>3 DEF Remove
  <2>7. CASE DropBranch(h)
    <3>1. hand[h].step = "branch" /\ story # NoStory
      BY <1>s, <1>t, <2>7 DEF DropBranch
    <3>2. /\ IF h = Pruner THEN To(h, "away") ELSE Ends(h)
          /\ reclaimLock' = FreeLock(h)
      BY <2>7 DEF DropBranch
    <3> QED BY <1>b, <1>c, <1>e, <1>f, <3>1, <3>2
  <2> QED BY <1>5, <2>1, <2>2, <2>3, <2>4, <2>5, <2>6, <2>7 DEF Reclaims
<1>6. ASSUME NEW h \in Hands, HandDies(h) PROVE HandActs(h)
  <2>1. story # NoStory /\ To(h, "dead") /\ reclaimLock' = FreeLock(h)
    BY <1>6 DEF HandDies
  <2>2. CASE h = Pruner
    BY <1>c, <1>f, <1>h, <2>1, <2>2
  <2>3. CASE h # Pruner /\ hand[h].step \in Outside
    BY <1>a, <1>f, <2>1, <2>3
  <2>4. CASE h # Pruner /\ hand[h].step \in {"assess", "remove", "branch"}
    BY <1>b, <1>f, <2>1, <2>4
  <2> QED BY <1>t, <2>2, <2>3, <2>4 DEF Outside
<1>7. ASSUME NEW s \in Starters, NotRevisable(s) \/ Apply(s) PROVE UNCHANGED <<hand, reclaimLock>>
  BY <1>7 DEF NotRevisable, Apply, CheckPatch, NoteIntent, ApplyPatch, NoteApplied, reclaimVars, Locked
<1>8. CASE Clean
  <2>1. hand[Cleaner].step = "away" /\ Settled /\ To(Cleaner, "look") /\ UNCHANGED reclaimLock
    BY <1>8 DEF Clean, Locked
  <2>2. HandActs(Cleaner)
    BY <1>a, <1>h, <1>s, <2>1 DEF Outside, HandSteps
  <2> QED BY <1>h, <2>2
<1>9. CASE Sweep
  <2>1. /\ hand[Pruner].step = "away" /\ story # NoStory /\ Settled /\ ~WorkerInIt
        /\ ~Objects(story.pruneIgnored) /\ UNCHANGED reclaimLock
        /\ hand' = [hand EXCEPT ![Pruner].step = "remove", ![Pruner].force = changes # "none"]
    BY <1>9 DEF Sweep, Locked
  <2> DEFINE y == [hand[Pruner] EXCEPT !.step = "remove", !.force = changes # "none"]
  <2>2. hand' = [hand EXCEPT ![Pruner] = y]
    BY <2>1
  <2>3. y \in HandStates /\ y.step = "remove"
    BY <1>t, <1>h DEF HandStates, HandSteps
  <2> HIDE DEF y
  <2>4. HandGoes(Pruner, "remove")
    BY <1>t, <1>h, <2>2, <2>3 DEF HandGoes
  <2>5. report # "inside" /\ changes \notin {"plain", "nested"} /\ (ignored => story.pruneIgnored)
    BY <2>1 DEF Objects, Disposable
  <2>6. pane # "open" /\ worker # "orphan"
    BY <2>1, <2>5 DEF StoryInv, WorkerInIt, ReclaimTypeOK, Settled
  <2>7. HandActs(Pruner)
    BY <2>1, <2>4, <2>5, <2>6 DEF HandActs, Found, HandSteps
  <2> QED BY <1>h, <2>7
<1>10. CASE SweepBranch
  <2>1. story # NoStory /\ To(Pruner, "branch") /\ UNCHANGED reclaimLock
    BY <1>10 DEF SweepBranch, Locked
  <2>2. HandActs(Pruner)
    BY <1>c, <2>1
  <2> QED BY <1>h, <2>2
<1>11. CASE (AcknowledgeByRevise \/ WorkerWrites \/ WorkerExits \/ ClosePane \/ ArchiveReport \/ OwnerMerges)
  BY <1>11 DEF AcknowledgeByRevise, WorkerWrites, WorkerExits, ClosePane, ArchiveReport, OwnerMerges, Locked
<1>12. CASE UNCHANGED checkoutVars
  BY <1>12 DEF checkoutVars, reclaimVars
<1> QED BY <1>h, <1>1, <1>2, <1>3, <1>4, <1>5, <1>6, <1>7, <1>8, <1>9, <1>10, <1>11, <1>12 DEF CheckoutNext

-----------------------------------------------------------------------------
(* The patch. *)

\* No start of a task comes near the patch.
PatchSteps == {"patch", "settle"}
LEMMA StartsDoNotPatch ==
  ASSUME RegistryInv, StartTypeInv, NEW s \in Starters, Start(s) \/ Die(s) \/ NotRevisable(s)
  PROVE  \A t \in Starters : starter'[t].step \in PatchSteps => starter[t].step = starter'[t].step
<1>1. StartActs(s) \/ UNCHANGED admissionVars
  BY StartStep
<1>2. CASE UNCHANGED admissionVars
  BY <1>2 DEF admissionVars
<1>3. CASE StartActs(s)
  <2>1. \A t \in Starters \ {s} : starter'[t] = starter[t]
    BY <1>3, StartFrame DEF Frame
  <2>2. starter[s].end \in Over
    BY DEF StartTypeInv, Starts
  <2>3. CASE ~Patches(s)
    <3>1. starter'[s].step \notin PatchSteps
      <4> USE DEF PatchSteps, Becomes, Exits
      <4>1. CASE (Approaches(s) \/ Dies(s) \/ Takes(s) \/ Signs(s))
        BY <4>1 DEF Approaches, Dies, Takes, Signs, Outer
      <4>2. CASE Drops(s)
        BY <2>2, <4>2 DEF Drops, Over
      <4>3. CASE (Prepares(s) \/ Snapshots(s) \/ Writes(s))
        BY <4>3 DEF Prepares, Snapshots, Writes
      <4>4. CASE (Records(s) \/ Refrains(s) \/ Discards(s))
        BY <4>4 DEF Records, Refrains, Discards
      <4> QED BY <1>3, <2>3, <4>1, <4>2, <4>3, <4>4 DEF StartActs
    <3> QED BY <2>1, <3>1
  <2>4. CASE Patches(s)
    <3>1. starter[s].step \in {"check", "intent", "patch", "settle"}
      BY <2>4 DEF Patches
    <3>2. CASE Die(s)
      <4>1. Go(s, "dead") /\ UNCHANGED <<plan, head>>
        BY <3>2 DEF Die, Quiet
      <4>2. Becomes(s, "dead")
        BY <4>1, GoingOn DEF StartTypeInv, StartSteps
      <4> QED BY <2>1, <4>2 DEF Becomes, PatchSteps
    <3>3. CASE CertifyFor(s)
      BY <3>3 DEF CertifyFor, admissionVars
    <3>4. ~NotRevisable(s)
      BY <3>1 DEF NotRevisable, AsksToRevise, At
    <3>5. Start(s) => CertifyFor(s)
      BY <3>1 DEF Start, At, ReadForProbe, CheckReceipt, CheckPrints, Recertify, ReadForLaunch, PinHarness, Prove,
         CreateLock, SignLock, SeeDeadHolder, Steal, TimeOut, Unlock, Prepare, Snapshot, WriteLaunch,
         CommitTask, CommitStep, RecordCheckout, Rollback
    <3> QED BY <3>2, <3>3, <3>4, <3>5
  <2> QED BY <2>3, <2>4
<1> QED BY <1>1, <1>2, <1>3

PatchRests ==
  /\ UNCHANGED <<applied, integration>>
  /\ \A t \in Starters : starter'[t].step \in PatchSteps => starter[t].step = starter'[t].step

LEMMA PatchStep ==
  ASSUME RegistryInv, StartTypeInv, [CheckoutNext]_checkoutVars
  PROVE  PatchRests \/ \E s \in Starters : Apply(s)
<1>a. ASSUME UNCHANGED vars, UNCHANGED Integration
      PROVE  PatchRests
  BY <1>a DEF PatchRests, vars, admissionVars, Integration
<1>1. CASE Starting
  <2>1. UNCHANGED <<applied, integration>>
    BY <1>1 DEF Starting, reclaimVars
  <2>2. (OtherActs /\ WorkGoesOn) \/ \E s \in Starters : (Start(s) \/ Die(s)) /\ StartActs(s)
    BY <1>1, AdmissionStep DEF Starting
  <2>3. CASE OtherActs
    BY <2>1, <2>3 DEF PatchRests, OtherActs
  <2> QED BY <2>1, <2>2, <2>3, StartsDoNotPatch DEF PatchRests
<1>2. ASSUME NEW d \in Deciders, Mark(d) \/ RecordDecision(d) \/ Acknowledge(d) \/ Remark(d)
      PROVE  PatchRests
  BY <1>2, <1>a, Zenon DEF Mark, RecordDecision, Acknowledge, Remark
<1>3. ASSUME NEW h \in Hands, Reclaims(h) \/ HandDies(h)
      PROVE  PatchRests
  <2>1. CASE Remove(h)
    BY <2>1 DEF Remove, PatchRests, Integration
  <2>2. CASE ~Remove(h)
    BY <1>3, <1>a, <2>2, Zenon DEF Reclaims, Look, AskNewer, AskExit, TakeLock, Assess, DropBranch, HandDies
  <2> QED BY <2>1, <2>2
<1>4. ASSUME NEW s \in Starters, NotRevisable(s)
      PROVE  PatchRests
  BY <1>4, StartsDoNotPatch DEF PatchRests, NotRevisable, reclaimVars
<1>5. CASE (AcknowledgeByRevise \/ Clean \/ Sweep \/ SweepBranch)
  BY <1>5, <1>a, Zenon DEF AcknowledgeByRevise, Clean, Sweep, SweepBranch
<1>6. CASE (WorkerWrites \/ WorkerExits \/ ClosePane \/ ArchiveReport \/ OwnerMerges)
  BY <1>6, <1>a, Zenon DEF WorkerWrites, WorkerExits, ClosePane, ArchiveReport, OwnerMerges
<1>7. CASE UNCHANGED checkoutVars
  BY <1>7, <1>a DEF checkoutVars, reclaimVars, Integration
<1> QED BY <1>1, <1>2, <1>3, <1>4, <1>5, <1>6, <1>7 DEF CheckoutNext

\* Of two applies only one is inside the lock.
LEMMA PatchStays ==
  ASSUME RegistryInv, StartTypeInv, LockInv, ReclaimTypeOK, PatchInv, PatchAppliedOnce,
         PatchRests \/ (\E s \in Starters : Apply(s)), broken => broken'
  PROVE  /\ PatchInv' /\ PatchAppliedOnce'
         /\ applied' \in 0..2 /\ integration' \in {"none", "started", "failed", "applied"}
<1>t. /\ applied \in 0..2 /\ integration \in {"none", "started", "failed", "applied"}
      /\ starter \in [Starters -> Starts]
  BY DEF ReclaimTypeOK, StartTypeInv
<1>1. CASE PatchRests
  BY <1>t, <1>1 DEF PatchRests, PatchSteps, PatchInv, PatchAppliedOnce, At
<1>2. ASSUME NEW s \in Starters, Apply(s)
      PROVE  /\ PatchInv' /\ PatchAppliedOnce'
             /\ applied' \in 0..2 /\ integration' \in {"none", "started", "failed", "applied"}
  <2>q. UNCHANGED <<plan, head, broken>>
    BY <1>2 DEF Apply, CheckPatch, NoteIntent, ApplyPatch, NoteApplied, Quiet
  <2>s. starter[s].step \in {"check", "intent", "patch", "settle"}
    BY <1>2 DEF Apply, CheckPatch, NoteIntent, ApplyPatch, NoteApplied, At
  <2>o. ~broken => \A t \in Starters \ {s} : starter[t].step \notin PatchSteps
    BY <2>s DEF LockInv, Inner, PatchSteps
  <2>g. ASSUME NEW st \in {"intent", "patch", "settle"}, Go(s, st)
        PROVE  starter'[s].step = st /\ \A t \in Starters \ {s} : starter'[t] = starter[t]
    <3>1. Becomes(s, st)
      BY <1>t, <2>q, <2>g, GoingOn DEF StartSteps
    <3> QED BY <3>1 DEF Becomes, Frame
  <2>l. ASSUME NEW end \in {"refused", "applied"}, Leave(s, end)
        PROVE  starter'[s].step = "unlock" /\ \A t \in Starters \ {s} : starter'[t] = starter[t]
    <3>1. Exits(s, end)
      BY <1>t, <2>q, <2>l, Leaving DEF Over
    <3> QED BY <3>1 DEF Exits, Frame
  <2>i. ~broken => /\ integration \in {"none", "failed"} => applied = 0
                   /\ starter[s].step = "patch" => integration = "started" /\ applied = 0
                   /\ starter[s].step = "settle" => integration = "started"
                   /\ applied <= 1
    BY DEF PatchInv, PatchAppliedOnce, At
  \* What is to be shown, once nobody else is at the patch.
  <2>w. ASSUME applied' \in 0..2, integration' \in {"none", "started", "failed", "applied"},
               \A t \in Starters \ {s} : starter'[t] = starter[t],
               ~broken => /\ integration' \in {"none", "failed"} => applied' = 0
                          /\ starter'[s].step = "patch" => integration' = "started" /\ applied' = 0
                          /\ starter'[s].step = "settle" => integration' = "started"
                          /\ applied' <= 1
        PROVE  /\ PatchInv' /\ PatchAppliedOnce'
               /\ applied' \in 0..2 /\ integration' \in {"none", "started", "failed", "applied"}
    BY <2>q, <2>o, <2>w DEF PatchInv, PatchAppliedOnce, At, PatchSteps
  <2>1. CASE CheckPatch(s)
    <3>1. UNCHANGED <<applied, integration>> /\ (Go(s, "intent") \/ Leave(s, "refused"))
      BY <2>1 DEF CheckPatch, reclaimVars
    <3> QED BY <1>t, <2>g, <2>i, <2>l, <2>w, <3>1
  <2>2. CASE NoteIntent(s)
    <3>1. /\ UNCHANGED applied
          /\ \/ integration \in {"none", "failed"} /\ Go(s, "patch") /\ integration' = "started"
             \/ Leave(s, "refused") /\ UNCHANGED integration
      BY <2>2 DEF NoteIntent, MayApply
    <3> QED BY <1>t, <2>g, <2>i, <2>l, <2>w, <3>1
  <2>3. CASE ApplyPatch(s)
    <3>1. /\ starter[s].step = "patch"
          /\ \/ applied < 2 /\ applied' = applied + 1 /\ Go(s, "settle") /\ UNCHANGED integration
             \/ integration' = "failed" /\ Leave(s, "refused") /\ UNCHANGED applied
      BY <2>3 DEF ApplyPatch, At
    <3> QED BY <1>t, <2>g, <2>i, <2>l, <2>w, <3>1
  <2>4. CASE NoteApplied(s)
    <3>1. UNCHANGED applied /\ integration' = "applied" /\ Leave(s, "applied")
      BY <2>4 DEF NoteApplied
    <3> QED BY <1>t, <2>i, <2>l, <2>w, <3>1
  <2> QED BY <1>2, <2>1, <2>2, <2>3, <2>4 DEF Apply
<1> QED BY <1>1, <1>2

-----------------------------------------------------------------------------
(* Whoever reclaims finds what the gates have seen. *)

LEMMA TypesOfReclaimStay ==
  ASSUME ReclaimTypeOK, GatesInv, ContentsGoOn, UNCHANGED <<hand, reclaimLock>> \/ \E h \in Hands : HandActs(h),
         applied' \in 0..2, integration' \in {"none", "started", "failed", "applied"}
  PROVE  ReclaimTypeOK' /\ hand' \in [Hands -> HandStates]
<1>t. /\ hand \in [Hands -> HandStates] /\ reclaimLock \in (Hands \ {Pruner}) \cup {Nobody}
      /\ \A h \in Hands \ {Pruner} : reclaimLock = h <=> hand[h].step \notin Outside
      /\ Nobody \notin Hands
  BY HandsAssumption DEF ReclaimTypeOK, GatesInv, Outside, HandSteps
<1>1. /\ hand' \in [Hands -> HandStates] /\ reclaimLock' \in (Hands \ {Pruner}) \cup {Nobody}
      /\ \A h \in Hands \ {Pruner} : reclaimLock' = h <=> hand'[h].step \notin Outside
  <2>1. CASE UNCHANGED <<hand, reclaimLock>>
    BY <1>t, <2>1
  <2>2. ASSUME NEW h \in Hands, HandActs(h)
        PROVE  /\ hand' \in [Hands -> HandStates] /\ reclaimLock' \in (Hands \ {Pruner}) \cup {Nobody}
               /\ \A g \in Hands \ {Pruner} : reclaimLock' = g <=> hand'[g].step \notin Outside
    <3>1. PICK step \in HandSteps :
            /\ HandGoes(h, step)
            /\ h = Pruner => UNCHANGED reclaimLock
            /\ h # Pruner =>
                 \/ hand[h].step \in Outside /\ step \in Outside /\ UNCHANGED reclaimLock
                 \/ hand[h].step \notin Outside /\ step \in Outside /\ reclaimLock' = Nobody
                 \/ hand[h].step \notin Outside /\ step \notin Outside /\ UNCHANGED reclaimLock
                 \/ hand[h].step \in Outside /\ step = "assess" /\ reclaimLock = Nobody /\ reclaimLock' = h
      BY <2>2 DEF HandActs
    <3>2. /\ hand' \in [Hands -> HandStates] /\ hand'[h].step = step /\ "assess" \notin Outside
          /\ \A g \in Hands \ {h} : hand'[g] = hand[g]
      BY <3>1 DEF HandGoes, Outside
    <3>3. reclaimLock' \in (Hands \ {Pruner}) \cup {Nobody}
      BY <1>t, <3>1
    <3>4. \A g \in Hands \ {Pruner} : reclaimLock' = g <=> hand'[g].step \notin Outside
      BY <1>t, <3>1, <3>2
    <3> QED BY <3>2, <3>3, <3>4
  <2> QED BY <2>1, <2>2
<1>2. \A h \in Hands : hand'[h].step \in HandSteps /\ hand'[h].force \in BOOLEAN
  BY <1>1 DEF HandStates
<1>3. \A h \in Hands \ {Pruner} : reclaimLock' = h <=> hand'[h].step \in {"assess", "remove", "branch"}
  BY <1>1, <1>2 DEF Outside
<1>4. decision' \in Deciders \cup {Nobody} /\ mark' \in Deciders \cup {Nobody} /\ assessed' \in BOOLEAN
      /\ ignored' \in BOOLEAN
  BY DEF ReclaimTypeOK, ContentsGoOn
<1>5. /\ settlement' \in {"open", "decided", "acknowledged"} /\ worker' \in {"gone", "leaving", "orphan"}
      /\ pane' \in {"none", "open", "closed"} /\ report' \in {"none", "inside", "archived"}
      /\ changes' \in {"none", "cache", "sealed", "plain", "nested"}
  BY DEF ReclaimTypeOK, ContentsGoOn
<1>6. branch' \in {"base", "only", "sealed", "elsewhere", "gone"}
  BY DEF ReclaimTypeOK, ContentsGoOn
<1> QED BY <1>1, <1>2, <1>3, <1>4, <1>5, <1>6 DEF ReclaimTypeOK

LEMMA StoryStays ==
  ASSUME StoryInv, ContentsGoOn, UNCHANGED <<hand, reclaimLock>> \/ \E h \in Hands : HandActs(h),
         UNCHANGED plan,
         \A k \in Slots : Recorded(k) /\ task[k].run = "over" => Recorded(k)' /\ task'[k].run = "over"
  PROVE  StoryInv'
<1>1. story' = story
  BY DEF story
<1>2. story = NoStory => UNCHANGED hand
  BY DEF HandActs
<1>3. story = NoStory =>
        /\ \A h \in Hands : InHand(h, "away")'
        /\ decision' = Nobody /\ settlement' = "open"
        /\ changes' = "none" /\ report' = "none" /\ worker' = "gone" /\ pane' = "none"
  BY <1>2 DEF StoryInv, ContentsGoOn, InHand
<1>4. story # NoStory => Recorded(Old)' /\ task'[Old].run = "over"
  BY HandsAssumption DEF StoryInv
<1>5. /\ settlement' = "decided" => story.outcome = "candidate"
      /\ settlement' = "acknowledged" => story.outcome = "lost"
      /\ worker' = "orphan" => story.outcome = "lost"
  BY DEF StoryInv, ContentsGoOn
<1>6. pane' = "open" => report' = "inside"
  BY DEF StoryInv, ContentsGoOn
<1> QED BY <1>1, <1>3, <1>4, <1>5, <1>6 DEF StoryInv

LEMMA AgreementStays ==
  ASSUME UNCHANGED plan, ContentsGoOn
  PROVE  /\ \A d \in Deciders : Agrees(d) => Agrees(d)'
         /\ Agreed => Agreed'
         /\ \A d \in Deciders : Asks(d)' = Asks(d)
<1>1. story' = story
  BY DEF story
<1>2. decision # Nobody => decision' = decision
  BY DEF ContentsGoOn
<1> QED BY <1>1, <1>2 DEF Agrees, Agreed, Asks

LEMMA MarkStays ==
  ASSUME ReclaimTypeOK, MarkInv, GatesInv, UNCHANGED plan, ContentsGoOn, [CheckoutNext]_checkoutVars,
         UNCHANGED <<hand, reclaimLock>> \/ \E h \in Hands : HandActs(h)
  PROVE  MarkInv'
<1>a. /\ \A d \in Deciders : Agrees(d) => Agrees(d)'
      /\ Agreed => Agreed'
      /\ \A d \in Deciders : Asks(d)' = Asks(d)
  BY AgreementStays
<1>t. mark \in Deciders \cup {Nobody} /\ decision \in Deciders \cup {Nobody} /\ Nobody \notin Deciders
  BY HandsAssumption DEF ReclaimTypeOK, Hands
<1>d. decision # Nobody => decision' = decision
  BY DEF ContentsGoOn
<1>n. story' = story
  BY DEF story
<1>1. \A d \in Deciders : InHand(d, "remark")' => Agrees(d)'
  <2> SUFFICES ASSUME NEW d \in Deciders, InHand(d, "remark")' PROVE Agrees(d)'
    OBVIOUS
  <2>1. CASE InHand(d, "remark")
    BY <1>a, <2>1 DEF MarkInv
  <2>2. CASE ~InHand(d, "remark")
    <3>1. PICK h \in Hands : HandActs(h)
      BY <2>2 DEF InHand
    <3>2. PICK step \in HandSteps : HandGoes(h, step) /\ (step = "remark" => h \in Deciders /\ RecordDecision(h))
      BY <3>1 DEF HandActs
    <3>3. h = d /\ step = "remark"
      BY <2>2, <3>2 DEF HandGoes, InHand, Hands
    <3>4. RecordDecision(d) /\ hand'[d].step = "remark"
      BY <3>2, <3>3 DEF HandGoes
    <3>5. (decision = Nobody /\ decision' = d) \/ Agrees(d) \/ To(d, "done")
      BY <3>4 DEF RecordDecision
    <3>6. ~To(d, "done")
      <4>1. hand \in [Hands -> HandStates] /\ d \in Hands /\ "done" \in HandSteps
        BY DEF GatesInv, Hands, HandSteps
      <4>2. To(d, "done") => HandGoes(d, "done")
        BY <4>1, HandGoing
      <4> QED BY <3>4, <4>2 DEF HandGoes
    <3> QED BY <1>a, <1>n, <1>t, <3>5, <3>6 DEF Agrees
  <2> QED BY <2>1, <2>2
<1>m. mark # Nobody => Asks(mark) \/ (mark = decision /\ Agreed)
  BY DEF MarkInv
<1>k. UNCHANGED mark => (mark' # Nobody => Asks(mark)' \/ (mark' = decision' /\ Agreed'))
  BY <1>a, <1>d, <1>m, <1>t DEF Asks
<1>2. mark' # Nobody => Asks(mark)' \/ (mark' = decision' /\ Agreed')
  <2>1. ASSUME NEW d \in Deciders, Mark(d)
        PROVE  mark' # Nobody => Asks(mark)' \/ (mark' = decision' /\ Agreed')
    <3>1. UNCHANGED mark \/ (mark' = d /\ Asks(d))
      BY <2>1 DEF Mark
    <3> QED BY <1>k, <1>n, <3>1 DEF Asks
  <2>2. ASSUME NEW d \in Deciders, RecordDecision(d)
        PROVE  mark' # Nobody => Asks(mark)' \/ (mark' = decision' /\ Agreed')
    <3>1. UNCHANGED mark \/ mark' = Nobody
      BY <2>2 DEF RecordDecision, Owner
    <3> QED BY <1>k, <3>1
  <2>3. ASSUME NEW d \in Deciders, Remark(d)
        PROVE  mark' # Nobody => Asks(mark)' \/ (mark' = decision' /\ Agreed')
    <3>1. UNCHANGED decision /\ Agrees(d) /\ (UNCHANGED mark \/ (mark' = decision /\ Asks(d)))
      BY <2>3 DEF Remark, MarkInv
    <3>2. CASE mark' = decision /\ Asks(d)
      <4>1. Agreed
        BY <3>1, <3>2 DEF Agreed
      <4> QED BY <1>a, <3>1, <3>2, <4>1
    <3> QED BY <1>k, <3>1, <3>2
  <2>4. CASE UNCHANGED mark
    BY <1>k, <2>4
  <2>5. UNCHANGED mark \/ \E d \in Deciders : Mark(d) \/ RecordDecision(d) \/ Remark(d)
    BY DEF CheckoutNext, Starting, Acknowledge, Reclaims, Look, AskNewer, AskExit, TakeLock, Assess, Remove,
       DropBranch, HandDies, NotRevisable, Apply, CheckPatch, NoteIntent, ApplyPatch, NoteApplied,
       AcknowledgeByRevise, Clean, Sweep, SweepBranch, WorkerWrites, WorkerExits, ClosePane, ArchiveReport,
       OwnerMerges, Owner, reclaimVars, checkoutVars
  <2> QED BY <2>1, <2>2, <2>3, <2>4, <2>5
<1> QED BY <1>1, <1>2 DEF MarkInv

LEMMA GatesStay ==
  ASSUME ReclaimTypeOK, StoryInv, GatesInv, UNCHANGED plan, ContentsGoOn, hand' \in [Hands -> HandStates],
         UNCHANGED <<hand, reclaimLock>> \/ \E h \in Hands : HandActs(h)
  PROVE  GatesInv'
<1>a. Agreed => Agreed'
  BY AgreementStays
<1>n. story' = story
  BY DEF story
<1>h. Pruner \in Hands
  BY DEF Hands
\* What has been seen stays.
<1>s. /\ Settled => Settled'
      /\ pane # "open" => pane' # "open"
      /\ report # "inside" => report' # "inside"
      /\ worker = "gone" => worker' = "gone"
      /\ worker # "orphan" => worker' # "orphan"
  BY DEF ContentsGoOn, Settled
<1>f. \A h \in Hands : Found(h) => Found(h)'
  <2>1. worker # "orphan" /\ pane # "open" => UNCHANGED changes
    BY DEF ContentsGoOn, Inside
  <2>2. UNCHANGED ignored
    BY DEF ContentsGoOn
  <2> QED BY <1>a, <1>n, <1>s, <2>1, <2>2 DEF Found
<1> DEFINE Seen(h) ==
      /\ h # Pruner /\ hand[h].step \in {"newer", "exit", "lock", "assess", "remove"} =>
           Settled /\ pane # "open" /\ report # "inside"
      /\ h # Pruner /\ hand[h].step \in {"lock", "assess", "remove"} => worker = "gone"
      /\ hand[h].step = "remove" => Found(h)
<1>i. hand[Pruner].step \in {"away", "remove", "branch", "dead"} /\ \A h \in Hands : Seen(h)
  BY DEF GatesInv, Found, InHand
<1>k. \A h \in Hands : hand'[h].step = hand[h].step => Seen(h)'
  BY <1>i, <1>s, <1>f
<1>g. ASSUME hand'[Pruner].step \in {"away", "remove", "branch", "dead"}, \A h \in Hands : Seen(h)'
      PROVE  GatesInv'
  BY <1>g DEF GatesInv, Found, InHand
<1>1. CASE UNCHANGED <<hand, reclaimLock>>
  <2>1. \A h \in Hands : Seen(h)'
    BY <1>1, <1>k
  <2> HIDE DEF Seen
  <2> QED BY <1>1, <1>g, <1>i, <2>1
<1>2. ASSUME NEW h \in Hands, HandActs(h) PROVE GatesInv'
  <2>1. PICK step \in HandSteps :
          /\ HandGoes(h, step)
          /\ h = Pruner => step \in {"away", "remove", "branch", "dead"}
          /\ step = "newer" => Settled /\ pane # "open" /\ report # "inside"
          /\ step = "exit" => hand[h].step = "newer"
          /\ step = "lock" => hand[h].step = "exit" /\ worker = "gone"
          /\ step = "assess" => hand[h].step = "lock"
          /\ step = "remove" => (hand[h].step = "assess" \/ h = Pruner) /\ Found(h)
    BY <1>2 DEF HandActs
  <2>2. hand'[h].step = step /\ \A g \in Hands \ {h} : hand'[g] = hand[g]
    BY <2>1 DEF HandGoes
  <2>3. Seen(h)'
    <3>1. Seen(h)
      BY <1>i
    <3> QED BY <1>s, <1>f, <2>1, <2>2, <3>1
  <2>4. \A g \in Hands : Seen(g)'
    BY <1>k, <2>2, <2>3
  <2>5. hand'[Pruner].step \in {"away", "remove", "branch", "dead"}
    BY <1>h, <1>i, <2>1, <2>2
  <2> HIDE DEF Seen
  <2> QED BY <1>g, <2>4, <2>5
<1> QED BY <1>1, <1>2

-----------------------------------------------------------------------------
(* The theorems. *)

LEMMA CheckoutsBegin == CheckoutInit => CheckoutInv
BY StartsBegin, StoryBegins DEF CheckoutInit, CheckoutInv

LEMMA CheckoutsStay == CheckoutInv /\ [CheckoutNext]_checkoutVars => CheckoutInv'
<1> SUFFICES ASSUME CheckoutInv, [CheckoutNext]_checkoutVars PROVE CheckoutInv'
  OBVIOUS
<1>i. /\ StartInv /\ ReclaimTypeOK /\ StoryInv /\ MarkInv /\ GatesInv /\ PatchInv /\ PatchAppliedOnce
      /\ RegistryInv /\ StartTypeInv /\ LockInv
  BY DEF CheckoutInv, StartInv
<1>1. /\ StartInv' /\ UNCHANGED plan
      /\ \A k \in Slots : Recorded(k) /\ task[k].run = "over" => Recorded(k)' /\ task'[k].run = "over"
  BY <1>i, StartsStay
<1>2. ContentsGoOn
  BY <1>i, ContentsStep
<1>3. UNCHANGED <<hand, reclaimLock>> \/ \E h \in Hands : HandActs(h)
  BY <1>i, HandStep
<1>4. PatchRests \/ \E s \in Starters : Apply(s)
  BY <1>i, PatchStep
<1>5. broken => broken'
  <2>1. OtherActs \/ \E s \in Starters : StartActs(s)
    BY <1>i, CheckoutStep
  <2>2. OtherActs => (broken => broken')
    BY DEF OtherActs
  <2>3. \A s \in Starters : StartActs(s) => (broken => broken')
    BY DEF StartActs, Approaches, Dies, Takes, Signs, Drops, Prepares, Snapshots, Writes, Records, Refrains,
       Discards, Patches, LocksStay
  <2> QED BY <2>1, <2>2, <2>3
<1>6. /\ PatchInv' /\ PatchAppliedOnce'
      /\ applied' \in 0..2 /\ integration' \in {"none", "started", "failed", "applied"}
  BY <1>i, <1>4, <1>5, PatchStays
<1>7. ReclaimTypeOK' /\ hand' \in [Hands -> HandStates]
  BY <1>i, <1>2, <1>3, <1>6, TypesOfReclaimStay
<1>8. StoryInv'
  BY <1>i, <1>1, <1>2, <1>3, StoryStays
<1>9. MarkInv'
  BY <1>i, <1>1, <1>2, <1>3, MarkStays
<1>10. GatesInv'
  BY <1>i, <1>1, <1>2, <1>3, <1>7, GatesStay
<1> QED BY <1>1, <1>6, <1>7, <1>8, <1>9, <1>10 DEF CheckoutInv

(* The inductive invariant of the starts, of the registry they read, and of      *)
(* those who reclaim what a task has left.                                       *)
THEOREM CheckoutInvariant == CheckoutSpec => []CheckoutInv
BY CheckoutsBegin, CheckoutsStay, PTL DEF CheckoutSpec

(* What is recorded has the checkout and the launch file of the start that       *)
(* recorded it, and a start that ends without its task leaves nothing.           *)
THEOREM AdmissionInvHolds == CheckoutSpec => []AdmissionInv
<1>1. CheckoutInv => AdmissionInv
  <2> SUFFICES ASSUME CheckoutInv PROVE AdmissionInv
    OBVIOUS
  <2>i. StartTypeInv /\ RegistryInv /\ MadeInv /\ RecordedHasItsFiles
    BY DEF CheckoutInv, StartInv
  <2>1. RegistryTypeOK
    BY <2>i DEF RegistryInv, RegistryTypeOK, Receipts, Certifications
  <2>2. \A k \in Slots : launch[k] # NoLaunch => launch[k].pin # NoPin
    <3>1. \A k \in Slots : launch[k] # NoLaunch => launch[k].pin.recipe \in Recipes
      BY <2>i DEF StartTypeInv, RegistryInv
    <3> QED BY <3>1, CliTypes DEF NoPin
  <2>3. AdmissionTypeOK
    BY <2>i, <2>1, <2>2 DEF StartTypeInv, AdmissionTypeOK, Starts, Checkouts, Launches, Rows
  <2>4. NothingLeftBehind
    BY <2>i DEF MadeInv, NothingLeftBehind, Abandons
  <2> QED BY <2>i, <2>3, <2>4 DEF AdmissionInv
<1> QED BY <1>1, CheckoutInvariant, PTL

(* Every launch pins a recipe and an executable that a scratch run has tried.    *)
THEOREM PinIsCertifiedHolds == CheckoutSpec => []PinIsCertified
<1>1. CheckoutInv => PinIsCertified
  BY DEF CheckoutInv, StartInv, StartTypeInv, PinIsCertified
<1> QED BY <1>1, CheckoutInvariant, PTL

(* However often it is tried again, the sealed patch goes in once.               *)
THEOREM ReclaimInvHolds == CheckoutSpec => []ReclaimInv
<1>1. CheckoutInv => ReclaimInv
  BY DEF CheckoutInv, ReclaimInv
<1> QED BY <1>1, CheckoutInvariant, PTL

\* The start of another task does not take the checkout of a finished revision.
LEMMA OldGoesByRemovalOnly ==
  ASSUME CheckoutInv, story # NoStory, [CheckoutNext]_checkoutVars, Here, checkout'[Old] = NoCheckout
  PROVE  \E h \in Hands : InHand(h, "remove")
<1>i. RegistryInv /\ StartTypeInv /\ MadeInv /\ StoryInv
  BY DEF CheckoutInv, StartInv
<1>t. /\ checkout \in [Slots -> Checkouts] /\ Old \in Slots /\ Nobody \notin Starters /\ NoCheckout.by = Nobody
      /\ checkout[Old] # NoCheckout /\ checkout[Old].by # Nobody
  BY <1>i, HandsAssumption, StartersAssumption DEF StartTypeInv, Here, NoCheckout
<1>w. ~WorkGoesOn
  BY <1>t DEF WorkGoesOn
<1>c. checkout' # checkout
  BY <1>t
<1>s. ASSUME NEW s \in Starters, StartActs(s) PROVE FALSE
  <2>1. Prepares(s) \/ Snapshots(s) \/ Discards(s)
    BY <1>c, <1>s DEF StartActs, Approaches, Dies, Takes, Signs, Drops, Writes, Records, Refrains, Patches
  <2>2. CASE Prepares(s)
    BY <1>t, <2>2 DEF Prepares
  <2>3. CASE Snapshots(s)
    <3>1. checkout'[Old].by = checkout[Old].by
      BY <1>t, <2>3 DEF Snapshots, Checkouts
    <3> QED BY <1>t, <3>1
  <2>4. CASE Discards(s)
    <3>1. starter[s].step \in Making
      BY <2>4 DEF Discards, At, Making
    <3>2. plan.jobs[s].kind # "apply" /\ plan \in AllPlans
      BY <1>i, <3>1 DEF StartTypeInv, StartOK
    <3>3. Slot(s) # Old
      BY <3>2, StoriesAssumption DEF Slot, story
    <3> QED BY <1>t, <2>4, <3>3 DEF Discards, Discard
  <2> QED BY <2>1, <2>2, <2>3, <2>4
<1>1. CASE Starting
  BY <1>1, <1>i, <1>s, <1>w, AdmissionStep DEF Starting
<1>2. ASSUME NEW s \in Starters, NotRevisable(s) \/ Apply(s) PROVE FALSE
  <2>1. UNCHANGED checkout
    BY <1>2 DEF NotRevisable, Apply, CheckPatch, NoteIntent, ApplyPatch, NoteApplied, Disk
  <2> QED BY <1>c, <2>1
<1>3. CASE UNCHANGED vars
  BY <1>3, <1>c DEF vars, admissionVars
<1>4. \/ Starting \/ UNCHANGED vars
      \/ \E s \in Starters : NotRevisable(s) \/ Apply(s)
      \/ \E h \in Hands : Remove(h)
  BY Zenon DEF CheckoutNext, Mark, RecordDecision, Acknowledge, Remark, Reclaims, Look, AskNewer, AskExit,
     TakeLock, Assess, DropBranch, HandDies, AcknowledgeByRevise, Clean, Sweep, SweepBranch, WorkerWrites,
     WorkerExits, ClosePane, ArchiveReport, OwnerMerges, checkoutVars
<1>5. ASSUME NEW h \in Hands, Remove(h) PROVE \E g \in Hands : InHand(g, "remove")
  BY <1>5 DEF Remove
<1> QED BY <1>1, <1>2, <1>3, <1>4, <1>5

(* A checkout that is removed is not missed: nothing in it is only there, its    *)
(* ignored files were allowed to go, and no worker is in it.                     *)
THEOREM RemovalIsSafeHolds == CheckoutSpec => RemovalIsSafe
<1> DEFINE Kept == /\ Here /\ checkout'[Old] = NoCheckout =>
                         changes \notin {"plain", "nested"} /\ report # "inside"
                   /\ branch' = "gone" =>
                         branch # "only" /\ (branch = "sealed" => InHand(Pruner, "branch"))
           Allowed == \A h \in Hands : Removes(h) /\ ignored =>
                         IF h = Pruner THEN story.pruneIgnored
                         ELSE \E d \in Deciders : Asks(d) /\ Agrees(d)
           Alone == \A h \in Hands : Removes(h) =>
                         /\ Settled /\ pane # "open" /\ worker # "orphan"
                         /\ h # Pruner => worker = "gone"
<1>1. CheckoutInv /\ [CheckoutNext]_checkoutVars => [Kept]_checkoutVars
  <2> SUFFICES ASSUME CheckoutInv, [CheckoutNext]_checkoutVars PROVE Kept
    OBVIOUS
  <2>1. Here /\ checkout'[Old] = NoCheckout => changes \notin {"plain", "nested"} /\ report # "inside"
    <3>1. CASE story = NoStory
      BY <3>1 DEF CheckoutInv, StoryInv
    <3>2. CASE story # NoStory
      BY <3>2, OldGoesByRemovalOnly DEF CheckoutInv, GatesInv
    <3> QED BY <3>1, <3>2
  <2>2. branch' = "gone" => branch # "only" /\ (branch = "sealed" => InHand(Pruner, "branch"))
    <3>1. ContentsGoOn
      BY ContentsStep DEF CheckoutInv
    <3> QED BY <3>1 DEF ContentsGoOn, Preserved, HeldBySeal
  <2> QED BY <2>1, <2>2
<1>2. CheckoutInv => Allowed
  BY DEF CheckoutInv, GatesInv, Removes, Agreed
<1>3. CheckoutInv => Alone
  BY DEF CheckoutInv, GatesInv, Removes, InHand
<1>4. CheckoutInv /\ [CheckoutNext]_checkoutVars => [Allowed]_checkoutVars
  BY <1>2
<1>5. CheckoutInv /\ [CheckoutNext]_checkoutVars => [Alone]_checkoutVars
  BY <1>3
<1>6. CheckoutSpec => [][Kept]_checkoutVars
  BY <1>1, CheckoutInvariant, PTL DEF CheckoutSpec
<1>7. CheckoutSpec => [][Allowed]_checkoutVars
  BY <1>4, CheckoutInvariant, PTL DEF CheckoutSpec
<1>8. CheckoutSpec => [][Alone]_checkoutVars
  BY <1>5, CheckoutInvariant, PTL DEF CheckoutSpec
<1> QED BY <1>6, <1>7, <1>8
        DEF RemovalIsSafe, NothingOnlyHereIsLost, IgnoredGoOnlyWhenAllowed, NoRemovalUnderAWorker
=============================================================================
