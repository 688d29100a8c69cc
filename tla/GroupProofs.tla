---------------------------- MODULE GroupProofs ----------------------------
(***************************************************************************)
(* Workers that belong together: a debate and a workflow run.              *)
(*                                                                         *)
(* A debate invites everybody, types nothing twice, carries an answer back *)
(* to the attempt that asked, and stays over when it is over: for any      *)
(* number of tasks, messages and servers, whatever happens to them.        *)
(*                                                                         *)
(* The journal of a workflow run keeps its promises for any number of      *)
(* drivers, agents, incidents and steps: it records below the cap, never   *)
(* has two attempts of one agent() call at work, and a run that ended      *)
(* stays ended.                                                            *)
(***************************************************************************)
EXTENDS DebateGroup, WorkflowRun, FiniteSetTheorems, TLAPS

-----------------------------------------------------------------------------
(* A debate (DebateGroup).  What holds of its state between any two steps. *)

Mails == [to : Tasks, ta : 1..2, fa : 0..2, read : BOOLEAN]
ServerStates ==
  [pc : {"idle", "list", "claimed", "typed"}, rev : 0..2, todo : SUBSET MailIds,
   item : MailIds \cup {None}, outcome : {"none", "sent", "broken", "unsent"}]
Posts == Posted \ Invitations

\* A server that has claimed a message and not yet finished it.
Holds(s, i) == server[s].pc \in {"claimed", "typed"} /\ server[s].item = i
\* It has handed nothing to the terminal.
NotTyped(s) == server[s].pc = "claimed" \/ server[s].outcome = "unsent"

\* The types that DebateTypeOK leaves open.
ServerInv ==
  /\ server \in [Servers -> ServerStates]
  /\ \A s \in Servers :
       /\ server[s].pc \in {"claimed", "typed"} => server[s].item \in MailIds
       /\ server[s].pc = "typed" => server[s].outcome # "none"

\* A message is held by one server and claimed for it; a claim that is free,
\* or that a server will give back, is of a message nobody has typed.
ClaimInv ==
  \A i \in MailIds :
    /\ claim[i] = "none" => tried[i] = 0
    /\ \A s \in Servers : Holds(s, i) =>
         /\ claim[i] = "sending"
         /\ NotTyped(s) => tried[i] = 0
         /\ \A other \in Servers : Holds(other, i) => other = s

\* `debate start` of an active group has invited everybody it does not still
\* have on its list.
StarterInv ==
  /\ starter.pc = "told" => starter.left = {}
  /\ starter.pc = "invite" => group # "none"
  /\ starter.pc \in {"invite", "told"} /\ group = "active" =>
       \A t \in Tasks \ starter.left : Invite(t) \in Posted

\* A member joined with an attempt that there has been.
JoinedInv == \A t \in Tasks : joined[t] <= attempt[t].n

\* A peer message goes from the attempt one task joined with to the attempt the
\* other joined with, and it answers a message that went the other way.
PostInv ==
  \A d \in Posts :
    /\ group # "none"
    /\ mail[d].to = Drafts[d].to
    /\ mail[d].ta = joined[Drafts[d].to]
    /\ mail[d].fa = joined[Drafts[d].from]
    /\ Drafts[d].answers # None =>
         /\ Drafts[d].answers \in Posts
         /\ Drafts[Drafts[d].answers].to = Drafts[d].from
         /\ Drafts[Drafts[d].answers].from = Drafts[d].to

\* The inductive invariant.
GroupInv == DebateTypeOK /\ ServerInv /\ ClaimInv /\ HandedOverOnce /\ StarterInv /\ JoinedInv /\ PostInv

-----------------------------------------------------------------------------
(* What a step does to the group, the attempts, the messages and the typing. *)

DebateActions ==
  \/ Create \/ StartReturns \/ StartAgain \/ StopDebate
  \/ \E t \in Tasks : InviteMember(t)
WorkerActions == \E t \in Tasks : Worker(t)
MailActions ==
  \/ \E d \in DOMAIN Drafts : Authorize(d) \/ Post(d)
  \/ \E i \in MailIds : Ack(i)
ServerActions == \E s \in Servers : Serve(s) \/ Crash(s)

\* Every step is one of the starter's, a worker's, the mail's or a server's.
LEMMA StepIsOfOneKind ==
  ASSUME [DebateNext]_debateVars
  PROVE  DebateActions \/ WorkerActions \/ MailActions \/ ServerActions \/ UNCHANGED debateVars
BY Zenon DEF DebateNext, DebateActions, WorkerActions, MailActions, ServerActions

\* The attempts end or are revised, and their workers wait or do not.
LEMMA WorkerStep ==
  ASSUME DebateTypeOK, WorkerActions
  PROVE  /\ UNCHANGED <<debate, group, joined, starter, sending, mail, claim, tried, server>>
         /\ attempt' \in [Tasks -> [n : 1..2, live : BOOLEAN]]
         /\ \A t \in Tasks :
              \/ attempt'[t] = attempt[t]
              \/ attempt'[t].n = attempt[t].n /\ ~attempt'[t].live
              \/ attempt[t].n = 1 /\ attempt'[t].n = 2
         /\ waiter' \in [Tasks -> [cmd : {"none", "message", "debate"}, joined : BOOLEAN]]
<1>1. PICK u \in Tasks : Worker(u)
  BY DEF WorkerActions
<1>2. /\ attempt \in [Tasks -> [n : 1..2, live : BOOLEAN]]
      /\ waiter \in [Tasks -> [cmd : {"none", "message", "debate"}, joined : BOOLEAN]]
  BY DEF DebateTypeOK
<1>3. Nothing \in [cmd : {"none", "message", "debate"}, joined : BOOLEAN]
  BY DEF Nothing
<1>4. CASE AttemptEnds(u)
  BY <1>2, <1>3, <1>4 DEF AttemptEnds
<1>5. CASE Revise(u)
  BY <1>2, <1>5 DEF Revise
<1>6. CASE WaitReturns(u) \/ WaitTimesOut(u)
  BY <1>2, <1>3, <1>6 DEF WaitReturns, WaitTimesOut, waiting
<1>7. ASSUME NEW cmd \in {"message", "debate"}, StartWait(u, cmd)
      PROVE  /\ UNCHANGED <<waiting>>
             /\ waiter' \in [Tasks -> [cmd : {"none", "message", "debate"}, joined : BOOLEAN]]
  <2>1. [cmd |-> cmd, joined |-> Member(u)] \in [cmd : {"none", "message", "debate"}, joined : BOOLEAN]
    BY DEF Member
  <2> QED BY <1>2, <1>7, <2>1 DEF StartWait
<1>8. CASE \E cmd \in {"message", "debate"} : StartWait(u, cmd)
  BY <1>2, <1>7, <1>8 DEF waiting
<1> QED BY <1>1, <1>4, <1>5, <1>6, <1>8 DEF Worker

\* The command that starts a debate: the group, its members, the invitations.
LEMMA StarterStep ==
  ASSUME DebateTypeOK, StarterInv, DebateActions
  PROVE  /\ UNCHANGED elsewhere
         /\ starter' \in [pc : {"create", "invite", "told", "failed"}, left : SUBSET Tasks, again : BOOLEAN]
         /\ \/ UNCHANGED <<group, joined>>
            \/ /\ group = "none" /\ group' = "active" /\ UNCHANGED mail
               /\ joined' = [t \in Tasks |-> attempt[t].n]
            \/ group = "active" /\ group' = "stopped" /\ UNCHANGED <<joined, mail>>
         /\ \/ UNCHANGED mail
            \/ \E t \in Tasks :
                 /\ Invite(t) \notin Posted
                 /\ mail' = [x \in Posted \cup {Invite(t)} |->
                               IF x = Invite(t) THEN [to |-> t, ta |-> attempt[t].n, fa |-> 0, read |-> FALSE]
                                                ELSE mail[x]]
         /\ StarterInv'
<1> USE DEF StarterTo, elsewhere
<1>1. starter \in [pc : {"create", "invite", "told", "failed"}, left : SUBSET Tasks, again : BOOLEAN]
  BY DEF DebateTypeOK
<1>2. CASE Create
  <2>1. UNCHANGED elsewhere /\ UNCHANGED mail
    BY <1>2 DEF Create
  <2>2. CASE \E t \in Tasks : ~attempt[t].live
    BY <1>1, <1>2, <2>1, <2>2 DEF Create, StarterInv
  <2>3. CASE ~(\E t \in Tasks : ~attempt[t].live) /\ group = "none"
    BY <1>1, <1>2, <2>1, <2>3 DEF Create, StarterInv
  <2>4. CASE ~(\E t \in Tasks : ~attempt[t].live) /\ group # "none"
    BY <1>1, <1>2, <2>1, <2>4 DEF Create, ToInvite, StarterInv
  <2> QED BY <2>2, <2>3, <2>4
<1>3. CASE StartReturns
  BY <1>1, <1>3 DEF StartReturns, StarterInv, Posted
<1>4. CASE StartAgain
  BY <1>1, <1>4 DEF StartAgain, StarterInv
<1>5. CASE StopDebate
  BY <1>1, <1>5 DEF StopDebate, StarterInv
<1>6. ASSUME NEW t \in Tasks, InviteMember(t)
      PROVE  /\ UNCHANGED elsewhere /\ UNCHANGED <<group, joined>>
             /\ starter' \in [pc : {"create", "invite", "told", "failed"}, left : SUBSET Tasks, again : BOOLEAN]
             /\ \/ UNCHANGED mail
                \/ /\ Invite(t) \notin Posted
                   /\ mail' = [x \in Posted \cup {Invite(t)} |->
                               IF x = Invite(t) THEN [to |-> t, ta |-> attempt[t].n, fa |-> 0, read |-> FALSE]
                                                ELSE mail[x]]
             /\ StarterInv'
  <2>1. CASE starter' = [starter EXCEPT !.pc = "failed", !.left = {}] /\ UNCHANGED mail
    BY <1>1, <1>6, <2>1 DEF InviteMember, StarterInv
  <2>2. CASE /\ starter' = [starter EXCEPT !.pc = "invite", !.left = starter.left \ {t}]
             /\ Invite(t) \in Posted /\ UNCHANGED mail
    BY <1>1, <1>6, <2>2 DEF InviteMember, StarterInv, Posted
  <2>3. CASE /\ starter' = [starter EXCEPT !.pc = "invite", !.left = starter.left \ {t}]
             /\ Invite(t) \notin Posted /\ attempt[t].live
             /\ mail' = [x \in Posted \cup {Invite(t)} |->
                           IF x = Invite(t) THEN [to |-> t, ta |-> attempt[t].n, fa |-> 0, read |-> FALSE]
                                            ELSE mail[x]]
    <3>1. Posted' = Posted \cup {Invite(t)}
      BY <2>3 DEF Posted
    <3> QED BY <1>1, <1>6, <2>3, <3>1 DEF InviteMember, StarterInv
  <2> QED BY <1>6, <2>1, <2>2, <2>3 DEF InviteMember, ActiveAttempt
<1> QED BY <1>2, <1>3, <1>4, <1>5, <1>6 DEF DebateActions

\* A peer message is posted between members whose attempts run, or it is not.
LEMMA MailStep ==
  ASSUME DebateTypeOK, MailActions
  PROVE  /\ UNCHANGED posting
         /\ sending' \in [DOMAIN Drafts -> 0..2]
         /\ \/ UNCHANGED mail
            \/ \E d \in DOMAIN Drafts :
                 /\ Postable(d, sending[d]) /\ d \notin Posted
                 /\ mail' = [x \in Posted \cup {d} |->
                               IF x = d THEN [to |-> Drafts[d].to, ta |-> ActiveAttempt(Drafts[d].to),
                                              fa |-> sending[d], read |-> FALSE]
                                        ELSE mail[x]]
            \/ \E i \in Posted : mail' = [mail EXCEPT ![i].read = TRUE]
<1>1. /\ attempt \in [Tasks -> [n : 1..2, live : BOOLEAN]]
      /\ sending \in [DOMAIN Drafts -> 0..2]
  BY DEF DebateTypeOK
<1>2. ASSUME NEW d \in DOMAIN Drafts, Authorize(d)
      PROVE  UNCHANGED <<posting, mail>> /\ sending' \in [DOMAIN Drafts -> 0..2]
  <2>1. Drafts[d].from \in Tasks
    BY DebateConstants
  <2>2. attempt[Drafts[d].from].n \in 0..2
    BY <1>1, <2>1
  <2> QED BY <1>1, <1>2, <2>2 DEF Authorize
<1>3. ASSUME NEW d \in DOMAIN Drafts, Post(d)
      PROVE  /\ UNCHANGED posting /\ sending' \in [DOMAIN Drafts -> 0..2]
             /\ \/ UNCHANGED mail
                \/ /\ Postable(d, sending[d]) /\ d \notin Posted
                   /\ mail' = [x \in Posted \cup {d} |->
                               IF x = d THEN [to |-> Drafts[d].to, ta |-> ActiveAttempt(Drafts[d].to),
                                              fa |-> sending[d], read |-> FALSE]
                                        ELSE mail[x]]
  BY <1>1, <1>3 DEF Post
<1>4. ASSUME NEW i \in MailIds, Ack(i)
      PROVE  UNCHANGED <<posting, sending>> /\ i \in Posted /\ mail' = [mail EXCEPT ![i].read = TRUE]
  BY <1>4 DEF Ack
<1> QED BY <1>1, <1>2, <1>3, <1>4 DEF MailActions

\* A server claims a free message, types it, or finishes or forgets its claim.
LEMMA ServerStep ==
  ASSUME DebateTypeOK, ServerInv, ServerActions
  PROVE  /\ UNCHANGED typing /\ ServerInv'
         /\ \E s \in Servers :
              /\ \A other \in Servers \ {s} : server'[other] = server[other]
              /\ \/ UNCHANGED <<claim, tried>> /\ \A i \in MailIds : ~Holds(s, i)'
                 \/ \E i \in MailIds :
                      /\ ~\E j \in MailIds : Holds(s, j)
                      /\ claim[i] = "none" /\ claim' = [claim EXCEPT ![i] = "sending"]
                      /\ server'[s].pc = "claimed" /\ server'[s].item = i /\ UNCHANGED tried
                 \/ /\ server[s].pc = "claimed" /\ server'[s].pc = "typed"
                    /\ server'[s].item = server[s].item /\ UNCHANGED claim
                    /\ \/ server'[s].outcome = "unsent" /\ UNCHANGED tried
                       \/ /\ server'[s].outcome # "unsent" /\ tried[server[s].item] < 2
                          /\ tried' = [tried EXCEPT ![server[s].item] = @ + 1]
                 \/ /\ server[s].pc = "typed" /\ server'[s].pc = "list" /\ UNCHANGED tried
                    /\ claim' = [claim EXCEPT ![server[s].item] = ClaimAfter(server[s].outcome)]
<1>1. PICK s \in Servers : Serve(s) \/ Crash(s)
  BY DEF ServerActions
<1> DEFINE r == server[s]
           T == ServerStates
<1>2. /\ r \in T /\ server \in [Servers -> T]
      /\ r.pc \in {"claimed", "typed"} => r.item \in MailIds
      /\ r.pc = "typed" => r.outcome # "none"
  BY DEF ServerInv
<1>3. Idle \in T
  BY DEF Idle, ServerStates
<1>4. ASSUME NEW q \in T, ServerTo(s, q),
             q.pc \in {"claimed", "typed"} => q.item \in MailIds,
             q.pc = "typed" => q.outcome # "none"
      PROVE  ServerInv' /\ server'[s] = q /\ \A other \in Servers \ {s} : server'[other] = server[other]
  <2> HIDE DEF T
  <2>1. server' = [server EXCEPT ![s] = q]
    BY <1>4 DEF ServerTo
  <2>2. server' \in [Servers -> T] /\ server'[s] = q /\ \A other \in Servers \ {s} : server'[other] = server[other]
    BY <1>2, <2>1
  <2>3. \A other \in Servers :
          /\ server'[other].pc \in {"claimed", "typed"} => server'[other].item \in MailIds
          /\ server'[other].pc = "typed" => server'[other].outcome # "none"
    BY <1>4, <2>2 DEF ServerInv
  <2> QED BY <2>2, <2>3 DEF ServerInv, T
<1>5. CASE ListMail(s)
  <2> DEFINE q == [Idle EXCEPT !.pc = "list", !.rev = attempt[Hosted].n,
                              !.todo = OwnerMail(Hosted) \cup Inbox(Hosted)]
  <2>1. attempt[Hosted].n \in 0..2
    BY DebateConstants DEF DebateTypeOK
  <2>2. OwnerMail(Hosted) \cup Inbox(Hosted) \in SUBSET MailIds
    BY DEF OwnerMail, Inbox, DebateTypeOK
  <2>3. q \in T /\ q.pc = "list"
    BY <2>1, <2>2 DEF Idle, ServerStates
  <2>4. ServerTo(s, q) /\ UNCHANGED <<claim, tried, typing>>
    BY <1>5 DEF ListMail
  <2> HIDE DEF q
  <2> QED BY <1>4, <2>3, <2>4 DEF Holds
<1>6. CASE ListEnds(s) \/ Crash(s)
  <2>1. ServerTo(s, Idle) /\ UNCHANGED <<claim, tried, typing>> /\ Idle.pc = "idle"
    BY <1>6 DEF ListEnds, Crash, Idle
  <2> QED BY <1>3, <1>4, <2>1 DEF Holds
<1>7. ASSUME NEW i \in MailIds, Claim(s, i)
      PROVE  /\ UNCHANGED typing /\ ServerInv'
             /\ \A other \in Servers \ {s} : server'[other] = server[other]
             /\ \/ UNCHANGED <<claim, tried>> /\ server'[s].pc = "list"
                \/ /\ server[s].pc = "list"
                   /\ claim[i] = "none" /\ claim' = [claim EXCEPT ![i] = "sending"]
                   /\ server'[s].pc = "claimed" /\ server'[s].item = i /\ UNCHANGED tried
  <2>1. CASE claim[i] = "none"
    <3> DEFINE q == [r EXCEPT !.pc = "claimed", !.item = i, !.todo = @ \ {i}]
    <3>1. q \in T /\ q.pc = "claimed" /\ q.item = i
      BY <1>2 DEF ServerStates
    <3>2. /\ ServerTo(s, q) /\ UNCHANGED <<tried, typing>> /\ r.pc = "list"
          /\ claim' = [claim EXCEPT ![i] = "sending"]
      BY <1>7, <2>1 DEF Claim, Claimable
    <3> HIDE DEF q
    <3> QED BY <1>4, <2>1, <3>1, <3>2
  <2>2. CASE claim[i] # "none"
    <3> DEFINE q == [r EXCEPT !.todo = @ \ {i}]
    <3>1. q \in T /\ q.pc = "list"
      BY <1>2, <1>7 DEF ServerStates, Claim
    <3>2. ServerTo(s, q) /\ UNCHANGED <<claim, tried, typing>>
      BY <1>7, <2>2 DEF Claim, Claimable
    <3> HIDE DEF q
    <3> QED BY <1>4, <3>1, <3>2
  <2> QED BY <2>1, <2>2
<1>8. ASSUME NEW o \in {"sent", "broken", "unsent"}, SendPrompt(s, o)
      PROVE  /\ UNCHANGED typing /\ ServerInv'
             /\ \A other \in Servers \ {s} : server'[other] = server[other]
             /\ server[s].pc = "claimed" /\ server'[s].pc = "typed"
             /\ server'[s].item = server[s].item /\ UNCHANGED claim
             /\ \/ server'[s].outcome = "unsent" /\ UNCHANGED tried
                \/ /\ server'[s].outcome # "unsent" /\ tried[server[s].item] < 2
                   /\ tried' = [tried EXCEPT ![server[s].item] = @ + 1]
  <2> DEFINE q == [r EXCEPT !.pc = "typed", !.outcome = o]
  <2>1. q \in T /\ q.pc = "typed" /\ q.outcome = o /\ q.item = r.item
    BY <1>2 DEF ServerStates
  <2>2. /\ ServerTo(s, q) /\ UNCHANGED <<claim, typing>> /\ r.pc = "claimed"
        /\ tried[r.item] < 2
        /\ tried' = IF o = "unsent" THEN tried ELSE [tried EXCEPT ![r.item] = @ + 1]
    BY <1>8 DEF SendPrompt
  <2>3. r.item \in MailIds
    BY <1>2, <2>2
  <2> HIDE DEF q
  <2> QED BY <1>4, <2>1, <2>2, <2>3
<1>9. CASE FinishDelivery(s)
  <2> DEFINE q == [r EXCEPT !.pc = "list", !.item = None, !.outcome = "none"]
  <2>1. q \in T /\ q.pc = "list"
    BY <1>2 DEF ServerStates
  <2>2. /\ ServerTo(s, q) /\ UNCHANGED <<tried, typing>> /\ r.pc = "typed"
        /\ claim' = [claim EXCEPT ![r.item] = ClaimAfter(r.outcome)]
    BY <1>9 DEF FinishDelivery
  <2> HIDE DEF q
  <2> QED BY <1>4, <2>1, <2>2
<1>10. CASE \E i \in MailIds : Claim(s, i)
  BY <1>7, <1>10 DEF Holds
<1>11. CASE \E o \in {"sent", "broken", "unsent"} : SendPrompt(s, o)
  BY <1>8, <1>11
<1> QED BY <1>1, <1>5, <1>6, <1>9, <1>10, <1>11 DEF Serve

-----------------------------------------------------------------------------
\* Every reachable state satisfies the inductive invariant.
THEOREM GroupInvariant == DebateSpec => []GroupInv
<1>1. DebateInit => GroupInv
  <2> SUFFICES ASSUME DebateInit PROVE GroupInv
    OBVIOUS
  <2> USE DEF DebateInit
  <2>1. mail = [i \in {} |-> Nothing] /\ Posted = {}
    BY DEF Posted
  <2>2. DebateTypeOK
    <3>1. starter \in [pc : {"create", "invite", "told", "failed"}, left : SUBSET Tasks, again : BOOLEAN]
      BY DEF Occurs
    <3>2. mail \in [Posted -> Mails] /\ Posted \subseteq MailIds
      BY <2>1
    <3>3. /\ attempt \in [Tasks -> [n : 1..2, live : BOOLEAN]]
          /\ group \in {"none", "active", "stopped"}
          /\ joined \in [Tasks -> 0..2] /\ \A t \in Tasks : joined[t] # 0 <=> group # "none"
          /\ sending \in [DOMAIN Drafts -> 0..2]
      OBVIOUS
    <3>4. /\ claim \in [MailIds -> {"none", "sending", "delivered", "uncertain"}]
          /\ tried \in [MailIds -> 0..2]
          /\ \A s \in Servers : server[s].pc \in {"idle", "list", "claimed", "typed"}
          /\ waiter \in [Tasks -> [cmd : {"none", "message", "debate"}, joined : BOOLEAN]]
      BY DEF Idle, Nothing
    <3> QED BY <3>1, <3>2, <3>3, <3>4 DEF DebateTypeOK, Mails
  <2>3. ServerInv
    BY DEF ServerInv, ServerStates, Idle
  <2>4. ClaimInv /\ HandedOverOnce
    BY DEF ClaimInv, HandedOverOnce, Holds, Idle
  <2>5. StarterInv /\ JoinedInv
    BY DEF StarterInv, JoinedInv
  <2>6. PostInv
    BY <2>1 DEF PostInv, Posts
  <2> QED BY <2>2, <2>3, <2>4, <2>5, <2>6 DEF GroupInv
<1>2. GroupInv /\ [DebateNext]_debateVars => GroupInv'
  <2> SUFFICES ASSUME GroupInv, [DebateNext]_debateVars PROVE GroupInv'
    OBVIOUS
  <2>1. /\ DebateTypeOK /\ ServerInv /\ ClaimInv /\ HandedOverOnce
        /\ StarterInv /\ JoinedInv /\ PostInv
    BY DEF GroupInv
  <2>2. /\ attempt \in [Tasks -> [n : 1..2, live : BOOLEAN]]
        /\ joined \in [Tasks -> 0..2]
        /\ mail \in [Posted -> Mails] /\ Posted \subseteq MailIds
        /\ claim \in [MailIds -> {"none", "sending", "delivered", "uncertain"}]
        /\ tried \in [MailIds -> 0..2]
        /\ \A t \in Tasks : joined[t] # 0 <=> group # "none"
    BY <2>1 DEF DebateTypeOK, Mails
  <2>3. CASE DebateActions
    <3>1. /\ UNCHANGED elsewhere /\ StarterInv'
          /\ starter' \in [pc : {"create", "invite", "told", "failed"}, left : SUBSET Tasks, again : BOOLEAN]
          /\ \/ UNCHANGED <<group, joined>>
             \/ /\ group = "none" /\ group' = "active" /\ UNCHANGED mail
                /\ joined' = [t \in Tasks |-> attempt[t].n]
             \/ group = "active" /\ group' = "stopped" /\ UNCHANGED <<joined, mail>>
          /\ \/ UNCHANGED mail
             \/ \E t \in Tasks :
                  /\ Invite(t) \notin Posted
                  /\ mail' = [x \in Posted \cup {Invite(t)} |->
                                IF x = Invite(t) THEN [to |-> t, ta |-> attempt[t].n, fa |-> 0, read |-> FALSE]
                                                 ELSE mail[x]]
      BY <2>1, <2>3, StarterStep
    <3>2. UNCHANGED <<debate, attempt, sending, claim, tried, server, waiter>>
      BY <3>1 DEF elsewhere
    <3>3. /\ mail' \in [Posted' -> Mails] /\ Posted' \subseteq MailIds
          /\ Posts' = Posts /\ \A d \in Posts : mail'[d] = mail[d]
      <4>1. CASE UNCHANGED mail
        BY <2>2, <4>1 DEF Posted, Posts
      <4>2. ASSUME NEW t \in Tasks,
                   mail' = [x \in Posted \cup {Invite(t)} |->
                              IF x = Invite(t) THEN [to |-> t, ta |-> attempt[t].n, fa |-> 0, read |-> FALSE]
                                               ELSE mail[x]]
            PROVE  /\ mail' \in [Posted' -> Mails] /\ Posted' \subseteq MailIds
                   /\ Posts' = Posts /\ \A d \in Posts : mail'[d] = mail[d]
        <5>1. [to |-> t, ta |-> attempt[t].n, fa |-> 0, read |-> FALSE] \in Mails
          BY <2>2 DEF Mails
        <5>2. Posted' = Posted \cup {Invite(t)} /\ Invite(t) \in Invitations
          BY <4>2 DEF Posted, Invitations
        <5> QED BY <2>2, <4>2, <5>1, <5>2 DEF Posts, MailIds
      <4> QED BY <3>1, <4>1, <4>2
    <3>4. joined' \in [Tasks -> 0..2] /\ (\A t \in Tasks : joined'[t] # 0 <=> group' # "none")
          /\ group' \in {"none", "active", "stopped"} /\ JoinedInv'
      <4>1. \A t \in Tasks : attempt[t].n \in 1..2
        BY <2>2
      <4>2. CASE UNCHANGED <<group, joined>>
        BY <2>1, <2>2, <3>2, <4>2 DEF DebateTypeOK, JoinedInv
      <4>3. CASE group' = "active" /\ joined' = [t \in Tasks |-> attempt[t].n]
        <5>1. \A t \in Tasks : joined'[t] = attempt[t].n
          BY <4>3
        <5> QED BY <3>2, <4>1, <4>3, <5>1 DEF JoinedInv
      <4>4. CASE group = "active" /\ group' = "stopped" /\ UNCHANGED joined
        BY <2>1, <2>2, <3>2, <4>4 DEF JoinedInv
      <4> QED BY <3>1, <4>2, <4>3, <4>4
    <3>5. DebateTypeOK'
      BY <2>1, <3>1, <3>2, <3>3, <3>4, Zenon DEF DebateTypeOK, Mails
    <3>6. ServerInv' /\ ClaimInv' /\ HandedOverOnce'
      BY <2>1, <3>2 DEF ServerInv, ClaimInv, HandedOverOnce, Holds, NotTyped
    <3>7. PostInv'
      <4>1. \A d \in Posts : d \in DOMAIN Drafts /\ Drafts[d].to \in Tasks /\ Drafts[d].from \in Tasks
        BY <2>2, DebateConstants DEF Posts, MailIds
      <4>2. \A d \in Posts : group' # "none" /\ joined' = joined
        BY <2>1, <3>1 DEF PostInv
      <4> QED BY <2>1, <3>3, <4>1, <4>2 DEF PostInv
    <3> QED BY <3>1, <3>4, <3>5, <3>6, <3>7 DEF GroupInv
  <2>4. CASE WorkerActions
    <3>1. /\ UNCHANGED <<debate, group, joined, starter, sending, mail, claim, tried, server>>
          /\ attempt' \in [Tasks -> [n : 1..2, live : BOOLEAN]]
          /\ \A t \in Tasks : attempt'[t].n # attempt[t].n => attempt[t].n = 1 /\ attempt'[t].n = 2
          /\ waiter' \in [Tasks -> [cmd : {"none", "message", "debate"}, joined : BOOLEAN]]
      BY <2>1, <2>4, WorkerStep
    <3>2. DebateTypeOK'
      BY <2>1, <3>1 DEF DebateTypeOK, Posted
    <3>3. ServerInv' /\ ClaimInv' /\ HandedOverOnce' /\ StarterInv' /\ PostInv'
      BY <2>1, <3>1
         DEF ServerInv, ClaimInv, HandedOverOnce, StarterInv, PostInv, Posts, Posted, Holds, NotTyped
    <3>4. JoinedInv'
      <4> SUFFICES ASSUME NEW t \in Tasks PROVE joined'[t] <= attempt'[t].n
        BY DEF JoinedInv
      <4>1. attempt[t].n \in 1..2 /\ attempt'[t].n \in 1..2 /\ joined[t] \in 0..2 /\ joined[t] <= attempt[t].n
        BY <2>1, <2>2, <3>1 DEF JoinedInv
      <4> QED BY <3>1, <4>1
    <3> QED BY <3>2, <3>3, <3>4 DEF GroupInv
  <2>5. CASE MailActions
    <3>1. /\ UNCHANGED posting
          /\ sending' \in [DOMAIN Drafts -> 0..2]
          /\ \/ UNCHANGED mail
             \/ \E d \in DOMAIN Drafts :
                  /\ Postable(d, sending[d]) /\ d \notin Posted
                  /\ mail' = [x \in Posted \cup {d} |->
                                IF x = d THEN [to |-> Drafts[d].to, ta |-> ActiveAttempt(Drafts[d].to),
                                               fa |-> sending[d], read |-> FALSE]
                                         ELSE mail[x]]
             \/ \E i \in Posted : mail' = [mail EXCEPT ![i].read = TRUE]
      BY <2>1, <2>5, MailStep
    <3>2. UNCHANGED <<debate, attempt, group, joined, starter, claim, tried, server, waiter>>
      BY <3>1 DEF posting
    <3>3. mail' \in [Posted' -> Mails] /\ Posted' \subseteq MailIds /\ Posted \subseteq Posted' /\ PostInv'
      <4>1. CASE UNCHANGED mail
        BY <2>1, <2>2, <3>2, <4>1 DEF PostInv, Posts, Posted
      <4>2. ASSUME NEW d \in DOMAIN Drafts, Postable(d, sending[d]), d \notin Posted,
                   mail' = [x \in Posted \cup {d} |->
                              IF x = d THEN [to |-> Drafts[d].to, ta |-> ActiveAttempt(Drafts[d].to),
                                             fa |-> sending[d], read |-> FALSE]
                                       ELSE mail[x]]
            PROVE  mail' \in [Posted' -> Mails] /\ Posted' \subseteq MailIds /\ Posted \subseteq Posted' /\ PostInv'
        <5> DEFINE new == [to |-> Drafts[d].to, ta |-> ActiveAttempt(Drafts[d].to), fa |-> sending[d], read |-> FALSE]
        <5>1. Drafts[d].from \in Tasks /\ Drafts[d].to \in Tasks /\ sending[d] \in 0..2 /\ d \notin Invitations
          BY <2>1, DebateConstants DEF DebateTypeOK, Invitations, Invite
        <5>2. /\ group = "active"
              /\ joined[Drafts[d].from] = sending[d]
              /\ ActiveAttempt(Drafts[d].to) # 0 /\ joined[Drafts[d].to] = ActiveAttempt(Drafts[d].to)
              /\ AnswersQuestion(d)
          BY <4>2 DEF Postable, JoinedAndRunning
        <5>3. new \in Mails
          <6>1. ActiveAttempt(Drafts[d].to) \in 1..2
            BY <2>2, <5>1, <5>2 DEF ActiveAttempt
          <6> QED BY <5>1, <6>1 DEF Mails
        <5>4. /\ Posted' = Posted \cup {d} /\ mail'[d] = new /\ \A x \in Posted : mail'[x] = mail[x]
              /\ mail' = [x \in Posted \cup {d} |-> IF x = d THEN new ELSE mail[x]]
          BY <4>2 DEF Posted
        <5>5. /\ new.to = Drafts[d].to /\ new.ta = ActiveAttempt(Drafts[d].to) /\ new.fa = sending[d]
          OBVIOUS
        <5> HIDE DEF new
        <5>6. mail' \in [Posted' -> Mails] /\ Posted' \subseteq MailIds
          BY <2>2, <5>3, <5>4 DEF MailIds
        <5>7. Posts' = Posts \cup {d}
          BY <5>1, <5>4 DEF Posts
        <5>8. Drafts[d].answers # None =>
                /\ Drafts[d].answers \in Posts'
                /\ Drafts[Drafts[d].answers].to = Drafts[d].from
                /\ Drafts[Drafts[d].answers].from = Drafts[d].to
          <6> SUFFICES ASSUME Drafts[d].answers # None
                       PROVE  /\ Drafts[d].answers \in Posts'
                              /\ Drafts[Drafts[d].answers].to = Drafts[d].from
                              /\ Drafts[Drafts[d].answers].from = Drafts[d].to
            OBVIOUS
          <6> DEFINE asked == Drafts[d].answers
          <6>1. asked \in DOMAIN Drafts /\ asked \notin Invitations
            BY DebateConstants DEF Invitations, Invite
          <6>2. asked \in Posted /\ mail[asked].to = Drafts[d].from /\ Drafts[asked].from = Drafts[d].to
            BY <5>2 DEF AnswersQuestion
          <6>3. asked \in Posts
            BY <6>1, <6>2 DEF Posts
          <6> QED BY <2>1, <5>7, <6>2, <6>3 DEF PostInv
        <5>9. PostInv'
          <6> SUFFICES ASSUME NEW e \in Posts'
                       PROVE  /\ group # "none"
                              /\ mail'[e].to = Drafts[e].to
                              /\ mail'[e].ta = joined[Drafts[e].to]
                              /\ mail'[e].fa = joined[Drafts[e].from]
                              /\ Drafts[e].answers # None =>
                                   /\ Drafts[e].answers \in Posts'
                                   /\ Drafts[Drafts[e].answers].to = Drafts[e].from
                                   /\ Drafts[Drafts[e].answers].from = Drafts[e].to
            BY <3>2 DEF PostInv
          <6>1. CASE e = d
            BY <5>2, <5>4, <5>5, <5>8, <6>1
          <6>2. CASE e \in Posts
            <7>1. mail'[e] = mail[e]
              BY <5>4, <6>2 DEF Posts
            <7> QED BY <2>1, <5>7, <6>2, <7>1 DEF PostInv
          <6> QED BY <5>7, <6>1, <6>2
        <5> QED BY <5>4, <5>6, <5>9
      <4>3. ASSUME NEW i \in Posted, mail' = [mail EXCEPT ![i].read = TRUE]
            PROVE  mail' \in [Posted' -> Mails] /\ Posted' \subseteq MailIds /\ Posted \subseteq Posted' /\ PostInv'
        <5>1. Posted' = Posted /\ Posts' = Posts
          BY <2>2, <4>3 DEF Posted, Posts
        <5>2. \A d \in Posted : mail'[d].to = mail[d].to /\ mail'[d].ta = mail[d].ta /\ mail'[d].fa = mail[d].fa
          BY <2>2, <4>3 DEF Mails
        <5>3. mail' \in [Posted -> Mails]
          BY <2>2, <4>3 DEF Mails
        <5> QED BY <2>1, <2>2, <3>2, <5>1, <5>2, <5>3 DEF PostInv, Posts
      <4> QED BY <3>1, <4>1, <4>2, <4>3
    <3>4. DebateTypeOK'
      BY <2>1, <3>1, <3>2, <3>3 DEF DebateTypeOK, Mails
    <3>5. ServerInv' /\ ClaimInv' /\ HandedOverOnce' /\ StarterInv' /\ JoinedInv'
      BY <2>1, <3>2, <3>3 DEF ServerInv, ClaimInv, HandedOverOnce, StarterInv, JoinedInv, Holds, NotTyped
    <3> QED BY <3>3, <3>4, <3>5 DEF GroupInv
  <2>6. CASE ServerActions
    <3>1. PICK s \in Servers :
              /\ \A other \in Servers \ {s} : server'[other] = server[other]
              /\ \/ UNCHANGED <<claim, tried>> /\ \A i \in MailIds : ~Holds(s, i)'
                 \/ \E i \in MailIds :
                      /\ ~\E j \in MailIds : Holds(s, j)
                      /\ claim[i] = "none" /\ claim' = [claim EXCEPT ![i] = "sending"]
                      /\ server'[s].pc = "claimed" /\ server'[s].item = i /\ UNCHANGED tried
                 \/ /\ server[s].pc = "claimed" /\ server'[s].pc = "typed"
                    /\ server'[s].item = server[s].item /\ UNCHANGED claim
                    /\ \/ server'[s].outcome = "unsent" /\ UNCHANGED tried
                       \/ /\ server'[s].outcome # "unsent" /\ tried[server[s].item] < 2
                          /\ tried' = [tried EXCEPT ![server[s].item] = @ + 1]
                 \/ /\ server[s].pc = "typed" /\ server'[s].pc = "list" /\ UNCHANGED tried
                    /\ claim' = [claim EXCEPT ![server[s].item] = ClaimAfter(server[s].outcome)]
      BY <2>1, <2>6, ServerStep
    <3>2. ServerInv' /\ UNCHANGED <<debate, attempt, group, joined, starter, sending, mail, waiter>>
      BY <2>1, <2>6, ServerStep DEF typing
    <3>3. /\ claim' \in [MailIds -> {"none", "sending", "delivered", "uncertain"}]
          /\ tried' \in [MailIds -> 0..2]
          /\ ClaimInv' /\ HandedOverOnce'
      <4>0. /\ server[s].pc \in {"claimed", "typed"} => server[s].item \in MailIds
            /\ server[s].pc = "typed" => server[s].outcome \in {"sent", "broken", "unsent"}
        BY <2>1 DEF ServerInv, ServerStates
      <4>o. \A other \in Servers \ {s}, i \in MailIds :
              (Holds(other, i)' <=> Holds(other, i)) /\ (NotTyped(other)' <=> NotTyped(other))
        BY <3>1 DEF Holds, NotTyped
      <4>1. CASE UNCHANGED <<claim, tried>> /\ \A i \in MailIds : ~Holds(s, i)'
        BY <2>1, <2>2, <4>o, <4>1 DEF ClaimInv, HandedOverOnce
      <4>2. ASSUME NEW i \in MailIds, ~\E j \in MailIds : Holds(s, j),
                   claim[i] = "none", claim' = [claim EXCEPT ![i] = "sending"],
                   server'[s].pc = "claimed", server'[s].item = i, UNCHANGED tried
            PROVE  /\ claim' \in [MailIds -> {"none", "sending", "delivered", "uncertain"}]
                   /\ tried' \in [MailIds -> 0..2]
                   /\ ClaimInv' /\ HandedOverOnce'
        <5>1. \A j \in MailIds : Holds(s, j)' <=> j = i
          BY <4>2 DEF Holds
        <5>2. tried[i] = 0 /\ \A other \in Servers : ~Holds(other, i)
          BY <2>1, <4>2 DEF ClaimInv
        <5>3. \A j \in MailIds : claim'[j] = IF j = i THEN "sending" ELSE claim[j]
          BY <2>2, <4>2
        <5>4. ClaimInv'
          BY <2>1, <4>2, <4>o, <5>1, <5>2, <5>3 DEF ClaimInv
        <5> QED BY <2>1, <2>2, <4>2, <5>4 DEF HandedOverOnce
      <4>3. ASSUME server[s].pc = "claimed", server'[s].pc = "typed",
                   server'[s].item = server[s].item, UNCHANGED claim,
                   \/ server'[s].outcome = "unsent" /\ UNCHANGED tried
                   \/ /\ server'[s].outcome # "unsent" /\ tried[server[s].item] < 2
                      /\ tried' = [tried EXCEPT ![server[s].item] = @ + 1]
            PROVE  /\ claim' \in [MailIds -> {"none", "sending", "delivered", "uncertain"}]
                   /\ tried' \in [MailIds -> 0..2]
                   /\ ClaimInv' /\ HandedOverOnce'
        <5> DEFINE i == server[s].item
        <5>1. i \in MailIds /\ Holds(s, i) /\ \A j \in MailIds : Holds(s, j)' <=> j = i
          BY <4>0, <4>3 DEF Holds
        <5>2. tried[i] = 0 /\ claim[i] = "sending" /\ \A other \in Servers : Holds(other, i) => other = s
          BY <2>1, <4>3, <5>1 DEF ClaimInv, NotTyped
        <5>3. \A j \in MailIds : tried'[j] = tried[j] \/ (j = i /\ tried'[j] = 1 /\ ~NotTyped(s)')
          BY <2>2, <4>3, <5>2 DEF NotTyped
        <5>4. tried' \in [MailIds -> 0..2]
          BY <2>2, <4>3, <5>1, <5>2
        <5>5. \A j \in MailIds : Holds(s, j)' <=> Holds(s, j)
          BY <4>3 DEF Holds
        <5> HIDE DEF i
        <5>6. ClaimInv'
          BY <2>1, <4>3, <4>o, <5>1, <5>2, <5>3, <5>5 DEF ClaimInv
        <5> QED BY <2>1, <2>2, <4>3, <5>3, <5>4, <5>6 DEF HandedOverOnce
      <4>4. ASSUME server[s].pc = "typed", server'[s].pc = "list", UNCHANGED tried,
                   claim' = [claim EXCEPT ![server[s].item] = ClaimAfter(server[s].outcome)]
            PROVE  /\ claim' \in [MailIds -> {"none", "sending", "delivered", "uncertain"}]
                   /\ tried' \in [MailIds -> 0..2]
                   /\ ClaimInv' /\ HandedOverOnce'
        <5> DEFINE i == server[s].item
                   c == ClaimAfter(server[s].outcome)
        <5>1. i \in MailIds /\ Holds(s, i) /\ \A j \in MailIds : ~Holds(s, j)'
          BY <4>0, <4>4 DEF Holds
        <5>2. /\ c \in {"none", "delivered", "uncertain"}
              /\ c = "none" => server[s].outcome = "unsent"
          BY <4>0, <4>4 DEF ClaimAfter
        <5>3. /\ c = "none" => tried[i] = 0
              /\ \A other \in Servers : Holds(other, i) => other = s
          BY <2>1, <5>1, <5>2 DEF ClaimInv, NotTyped
        <5>4. /\ claim' \in [MailIds -> {"none", "sending", "delivered", "uncertain"}]
              /\ \A j \in MailIds : claim'[j] = IF j = i THEN c ELSE claim[j]
          BY <2>2, <4>4, <5>1, <5>2
        <5> HIDE DEF i, c
        <5>5. ClaimInv'
          BY <2>1, <4>4, <4>o, <5>1, <5>3, <5>4 DEF ClaimInv
        <5> QED BY <2>1, <2>2, <4>4, <5>4, <5>5 DEF HandedOverOnce
      <4> QED BY <3>1, <4>1, <4>2, <4>3, <4>4
    <3>4. DebateTypeOK'
      <4>1. \A q \in Servers : server'[q].pc \in {"idle", "list", "claimed", "typed"}
        BY <3>2 DEF ServerInv, ServerStates
      <4> QED BY <2>1, <3>2, <3>3, <4>1 DEF DebateTypeOK, Posted
    <3>5. StarterInv' /\ JoinedInv' /\ PostInv'
      BY <2>1, <3>2 DEF StarterInv, JoinedInv, PostInv, Posts, Posted
    <3> QED BY <3>2, <3>3, <3>4, <3>5 DEF GroupInv
  <2>7. CASE UNCHANGED debateVars
    <3>1. DebateTypeOK'
      BY <2>1, <2>7 DEF debateVars, DebateTypeOK, Posted
    <3>2. ServerInv' /\ ClaimInv' /\ HandedOverOnce' /\ StarterInv' /\ JoinedInv' /\ PostInv'
      BY <2>1, <2>7 DEF debateVars, ServerInv, ClaimInv, HandedOverOnce, StarterInv, JoinedInv, PostInv,
         Posts, Posted, Holds, NotTyped
    <3> QED BY <3>1, <3>2 DEF GroupInv
  <2> QED BY <2>3, <2>4, <2>5, <2>6, <2>7, StepIsOfOneKind
<1> QED BY <1>1, <1>2, PTL DEF DebateSpec

-----------------------------------------------------------------------------
\* Every member of an active group has its invitation when `debate start`
\* returns, also after a death half way, and no mail is typed twice
\* (start_debate, claim_native_delivery, release_native_delivery).
THEOREM DebateInvHolds == DebateSpec => []DebateInv
<1>1. GroupInv => DebateInv
  <2> SUFFICES ASSUME GroupInv PROVE DebateInv
    OBVIOUS
  <2>1. StartInvitedAll
    BY DEF GroupInv, StarterInv, StartInvitedAll, Invitations
  <2> QED BY <2>1 DEF GroupInv, DebateInv
<1> QED BY <1>1, GroupInvariant, PTL

\* An answer comes from the attempt that was asked and goes to the attempt that
\* asked, whatever became of the two tasks meanwhile
\* (post_peer_message_with_proof).
THEOREM AnswersReachTheAskerHolds == DebateSpec => []AnswersReachTheAsker
<1>1. GroupInv => AnswersReachTheAsker
  <2> SUFFICES ASSUME GroupInv, NEW d \in Posts, Drafts[d].answers # None
               PROVE  /\ mail[d].ta = mail[Drafts[d].answers].fa
                      /\ mail[d].fa = mail[Drafts[d].answers].ta
    BY DEF AnswersReachTheAsker, Posts
  <2>1. Drafts[d].answers \in Posts
    BY DEF GroupInv, PostInv
  <2> QED BY <2>1 DEF GroupInv, PostInv
<1> QED BY <1>1, GroupInvariant, PTL

\* A conversation that is over stays over: no revision of a member comes back
\* into it, and nobody can post to it any more (`debate status`).
THEOREM OverIsFinalHolds == DebateSpec => OverIsFinal
<1>1. GroupInv /\ [DebateNext]_debateVars => [ConversationOver => ConversationOver' /\ Posts' = Posts]_debateVars
  <2> SUFFICES ASSUME GroupInv, [DebateNext]_debateVars, ConversationOver PROVE ConversationOver' /\ Posts' = Posts
    OBVIOUS
  <2>1. DebateTypeOK /\ ServerInv /\ StarterInv /\ JoinedInv
    BY DEF GroupInv
  <2>2. CASE DebateActions
    <3>1. UNCHANGED <<attempt, joined>> /\ group' # "none"
      BY <2>1, <2>2, StarterStep DEF ConversationOver, elsewhere
    <3>2. Posts' = Posts
      <4>1. \/ UNCHANGED mail
            \/ \E t \in Tasks :
                 mail' = [x \in Posted \cup {Invite(t)} |->
                            IF x = Invite(t) THEN [to |-> t, ta |-> attempt[t].n, fa |-> 0, read |-> FALSE]
                                             ELSE mail[x]]
        BY <2>1, <2>2, StarterStep
      <4>2. Posted' = Posted \/ \E t \in Tasks : Posted' = Posted \cup {Invite(t)}
        BY <4>1 DEF Posted
      <4> QED BY <4>2 DEF Posts, Invitations
    <3> QED BY <3>1, <3>2 DEF ConversationOver
  <2>3. CASE WorkerActions
    <3>1. /\ UNCHANGED <<group, joined, mail>>
          /\ attempt' \in [Tasks -> [n : 1..2, live : BOOLEAN]]
          /\ \A t \in Tasks :
               \/ attempt'[t] = attempt[t]
               \/ attempt'[t].n = attempt[t].n /\ ~attempt'[t].live
               \/ attempt[t].n = 1 /\ attempt'[t].n = 2
      BY <2>1, <2>3, WorkerStep
    <3>2. ASSUME NEW t \in Tasks PROVE ~attempt'[t].live \/ attempt'[t].n # joined'[t]
      <4>1. joined[t] \in 0..2 /\ attempt[t].n \in 1..2 /\ joined[t] <= attempt[t].n
        BY <2>1 DEF DebateTypeOK, JoinedInv
      <4>2. CASE attempt'[t].n # attempt[t].n
        <5>1. attempt'[t].n = 2 /\ attempt[t].n = 1 /\ joined[t] <= 1
          BY <3>1, <4>1, <4>2
        <5> QED BY <3>1, <4>1, <5>1
      <4>3. CASE attempt'[t].n = attempt[t].n
        BY <3>1, <4>3 DEF ConversationOver
      <4> QED BY <4>2, <4>3
    <3> QED BY <3>1, <3>2 DEF ConversationOver, Posts, Posted
  <2>4. CASE MailActions
    <3>1. UNCHANGED posting
      BY <2>1, <2>4, MailStep
    <3>2. \A d \in DOMAIN Drafts : ~Postable(d, sending[d])
      <4> SUFFICES ASSUME NEW d \in DOMAIN Drafts, Postable(d, sending[d]) PROVE FALSE
        OBVIOUS
      <4>1. Drafts[d].from \in Tasks
        BY DebateConstants
      <4> QED BY <4>1 DEF ConversationOver, Postable, JoinedAndRunning
    <3>3. UNCHANGED mail \/ \E i \in Posted : mail' = [mail EXCEPT ![i].read = TRUE]
      BY <2>1, <2>4, <3>2, MailStep
    <3>4. Posted' = Posted
      BY <3>3 DEF Posted
    <3> QED BY <3>1, <3>4 DEF ConversationOver, Posts, posting
  <2>5. CASE ServerActions
    BY <2>1, <2>5, ServerStep DEF typing, ConversationOver, Posts, Posted
  <2>6. CASE UNCHANGED debateVars
    BY <2>6 DEF debateVars, ConversationOver, Posts, Posted
  <2> QED BY <2>2, <2>3, <2>4, <2>5, <2>6, StepIsOfOneKind
<1>2. [ConversationOver => ConversationOver' /\ Posts' = Posts]_debateVars => [ConversationOver => ConversationOver' /\ Posted' \ Invitations = Posted \ Invitations]_debateVars
  BY DEF Posts
<1> QED BY <1>1, <1>2, GroupInvariant, PTL DEF DebateSpec, OverIsFinal

-----------------------------------------------------------------------------
(* A workflow run (WorkflowRun).  What holds of its state between any two  *)
(* steps.                                                                  *)

\* What an agent() call may try: its first step and its retries.
Budgeted(a, n) == n <= Retries[a] + 1

\* The types, with what they rest on: the script and its processes never ask
\* for more than the retries, and finitely many steps are recorded.
TypeInv ==
  /\ WorkflowTypeOK
  /\ scene \in Scenes
  /\ IsFiniteSet(Recorded)
  /\ \A d \in Drivers, a \in Agents : Budgeted(a, agent[d][a].n)
  /\ \A x \in launching : Budgeted(x[2][1], x[2][2])

\* Nothing of a retried step is at work, unless it was revised after the retry.
Over(k) == steps[k].outcome # "none" \/ steps[k].revised = "late"

\* The journal is a chain for each agent, and all but its last step are over.
\* require_failed_predecessor looks only one step back.
ChainInv ==
  \A k \in Recorded : k[2] > 1 => <<k[1], k[2] - 1>> \in Recorded /\ Over(<<k[1], k[2] - 1>>)

\* A `brgr run` process of a script that still runs is the one its agent waits
\* for; a driver that has not started a script has none.
LaunchInv ==
  \A d \in Drivers, k \in Keys : <<d, k>> \in launching =>
    /\ driver[d] \notin {"unused", "spawned"}
    /\ Scripting(d) => agent[d][k[1]].pc = "launching" /\ agent[d][k[1]].n = k[2]

\* While one driver is the only one there ever was, a blocked run is blocked by
\* an agent of its script that has yet to lift it.
Waits(d) == \E a \in ScriptAgents : agent[d][a].pc = "wait" /\ agent[d][a].marked
BlockInv ==
  \A d \in Drivers :
    run = "blocked" /\ (\A e \in Drivers \ {d} : driver[e] = "unused") =>
      /\ driver[d] \notin {"unused", "spawned", "succeeded"}
      /\ Scripting(d) => Waits(d)

\* `workflow cancel` ends the run before it stops anything, so that no step is
\* added to those it lists; it leaves a step only when that is told to stop.
Told(k) == steps[k].outcome # "none" \/ steps[k].intent \/ steps[k].revised # "no"
CancelInv ==
  /\ cancelling # "no" => run \in Terminal
  /\ cancelling = "tasks" => \A k \in Recorded \ toCancel : Told(k)
  /\ cancelling = "done" => \A k \in Recorded : Told(k)

\* The inductive invariant.
RunInv == TypeInv /\ ChainInv /\ LaunchInv /\ BlockInv /\ CancelInv

-----------------------------------------------------------------------------
(* What one step does to the journal and to the run's state. *)

\* A step k is added: record_step_in_transaction found it due.
Creates(k) ==
  /\ k \in Keys \ Recorded /\ Budgeted(k[1], k[2]) /\ run \in Active
  /\ PredecessorFailed(k)
  /\ Cardinality(UnfinishedSteps) < MaxParallel
  /\ steps' = [x \in Recorded \cup {k} |-> IF x = k THEN NewStep ELSE steps[x]]

\* A recorded step moves on; it is reopened only as the last of its chain, and
\* what was told to stop stays told.
Touches(k) ==
  /\ k \in Recorded
  /\ \E r \in Step :
       /\ steps' = [steps EXCEPT ![k] = r]
       /\ Over(k) => \/ r.outcome # "none" \/ r.revised = "late"
                     \/ <<k[1], k[2] + 1>> \notin Recorded
       /\ Told(k) => r.outcome # "none" \/ r.intent \/ r.revised # "no"

JournalMove == UNCHANGED steps \/ \E k \in Keys : Creates(k) \/ Touches(k)
StateMove == run' = run \/ (run \in Active /\ run' \in Active \cup Terminal)

\* A new step has the type of a step.
LEMMA StepTypes == NewStep \in Step
BY DEF NewStep, Step

\* Every step of the run, whoever takes it, is one of these moves of the journal
\* and leaves a run that has ended as it is.
LEMMA EveryStepMoves ==
  ASSUME TypeInv, Next PROVE JournalMove /\ StateMove
<1> USE DEF TypeInv, WorkflowTypeOK
<1>1. \A k \in Recorded : k \in Keys /\ steps[k] \in Step
  OBVIOUS
<1>2. ASSUME UNCHANGED <<steps, run>> PROVE JournalMove /\ StateMove
  BY <1>2 DEF JournalMove, StateMove
<1>3. ASSUME NEW to \in Active \cup Terminal, SetState(to) PROVE StateMove
  BY <1>3 DEF SetState, MayBecome, StateMove
<1>4. ASSUME NEW d \in Drivers, NEW a \in ScriptAgents, Launch(d, a) \/ WaitRound(d, a)
      PROVE  JournalMove /\ StateMove
  <2>1. UNCHANGED steps
    BY <1>4 DEF Launch, WaitRound
  <2> QED BY <1>2, <1>3, <1>4, <2>1 DEF Launch, WaitRound, JournalMove, Active, StateMove
<1>5. ASSUME NEW d \in Drivers, NEW a \in ScriptAgents, Deadline(d, a)
      PROVE  JournalMove /\ StateMove
  <2> DEFINE k == Key(d, a)
  <2>1. steps' = [steps EXCEPT ![k].intent = TRUE] /\ run' = run
    BY <1>5 DEF Deadline
  <2>2. CASE k \notin Recorded
    BY <2>1, <2>2, <1>2
  <2>3. CASE k \in Recorded
    <3> DEFINE r == [steps[k] EXCEPT !.intent = TRUE]
    <3>1. r \in Step /\ r.outcome = steps[k].outcome /\ r.revised = steps[k].revised /\ r.intent
      BY <1>1, <2>3 DEF Step
    <3>2. steps' = [steps EXCEPT ![k] = r]
      BY <2>1
    <3>3. Touches(k)
      BY <2>3, <3>1, <3>2 DEF Touches, Over, Told
    <3> QED BY <1>1, <2>1, <2>3, <3>3 DEF JournalMove, StateMove
  <2> QED BY <2>2, <2>3
<1>6. ASSUME NEW d \in Drivers, NEW k \in Keys, AdmitStep(d, k)
      PROVE  JournalMove /\ StateMove
  <2>1. run' = run /\ Budgeted(k[1], k[2])
    BY <1>6 DEF AdmitStep
  <2>2. CASE Admitted(k) = "created"
    <3>1. run \in Active /\ k \notin Recorded /\ PredecessorFailed(k)
          /\ ~(Cardinality(UnfinishedSteps) >= MaxParallel)
      BY <2>2 DEF Admitted
    <3>2. Cardinality(UnfinishedSteps) \in Nat /\ MaxParallel \in Nat
      <4>1. UnfinishedSteps \in SUBSET Recorded
        BY DEF UnfinishedSteps
      <4>2. IsFiniteSet(UnfinishedSteps)
        BY <4>1, FS_Subset
      <4>3. Cardinality(UnfinishedSteps) \in Nat
        BY <4>2, FS_CardinalityType
      <4>4. scene[3] \in 1..64
        BY WorkflowConstants
      <4> QED BY <4>3, <4>4 DEF MaxParallel
    <3> QED BY <1>6, <2>1, <2>2, <3>1, <3>2 DEF AdmitStep, Creates, JournalMove, StateMove
  <2>3. CASE Admitted(k) # "created"
    BY <1>2, <1>6, <2>1, <2>3 DEF AdmitStep
  <2> QED BY <2>2, <2>3
<1>7. ASSUME CancelTask PROVE JournalMove /\ StateMove
  <2>1. CASE \E k \in toCancel : steps' = [steps EXCEPT ![k].intent = @ \/ steps[k].outcome = "none"]
    <3>1. PICK k \in toCancel : steps' = [steps EXCEPT ![k].intent = @ \/ steps[k].outcome = "none"]
      BY <2>1
    <3> DEFINE r == [steps[k] EXCEPT !.intent = @ \/ steps[k].outcome = "none"]
    <3>2. k \in Recorded /\ k \in Keys
      OBVIOUS
    <3>3. r \in Step /\ r.outcome = steps[k].outcome /\ r.revised = steps[k].revised
          /\ (steps[k].intent => r.intent)
      BY <1>1, <3>2 DEF Step
    <3>4. steps' = [steps EXCEPT ![k] = r]
      BY <3>1
    <3>5. Touches(k)
      BY <3>2, <3>3, <3>4 DEF Touches, Over, Told
    <3> QED BY <1>7, <3>2, <3>5 DEF CancelTask, JournalMove, StateMove
  <2>2. CASE UNCHANGED steps
    BY <1>2, <1>7, <2>2 DEF CancelTask
  <2> QED BY <1>7, <2>1, <2>2 DEF CancelTask
<1>8. ASSUME NEW k \in Keys, Task(k) PROVE JournalMove /\ StateMove
  <2>1. k \in Recorded /\ run' = run /\ steps[k] \in Step
    BY <1>8 DEF Task, Finish, AskOwner, OwnerReplies, ReviseStep, taskRest
  <2>2. Touches(k)
    <3>1. CASE Finish(k)
      <4>1. PICK o \in {"candidate", "failed", "other"} : steps' = [steps EXCEPT ![k].outcome = o]
        BY <3>1 DEF Finish
      <4> DEFINE r == [steps[k] EXCEPT !.outcome = o]
      <4>2. r \in Step /\ r.outcome = o
        BY <2>1 DEF Step
      <4>3. steps' = [steps EXCEPT ![k] = r]
        BY <4>1
      <4> QED BY <2>1, <4>2, <4>3 DEF Touches
    <3>2. CASE AskOwner(k) \/ OwnerReplies(k)
      <4>1. PICK q \in {"open", "answered"} : steps' = [steps EXCEPT ![k].asking = q]
        BY <3>2 DEF AskOwner, OwnerReplies
      <4> DEFINE r == [steps[k] EXCEPT !.asking = q]
      <4>2. r \in Step /\ r.outcome = steps[k].outcome /\ r.intent = steps[k].intent
            /\ r.revised = steps[k].revised
        BY <2>1 DEF Step
      <4>3. steps' = [steps EXCEPT ![k] = r]
        BY <4>1
      <4> QED BY <2>1, <4>2, <4>3 DEF Touches, Over, Told
    <3>3. CASE ReviseStep(k)
      <4> DEFINE r == [steps[k] EXCEPT !.outcome = "none", !.intent = FALSE,
                         !.revised = IF <<k[1], k[2] + 1>> \in Recorded THEN "late" ELSE "yes"]
      <4>1. r \in Step /\ r.revised # "no"
            /\ (r.revised = "late" \/ <<k[1], k[2] + 1>> \notin Recorded)
        BY <2>1 DEF Step
      <4>2. steps' = [steps EXCEPT ![k] = r]
        BY <3>3 DEF ReviseStep
      <4> QED BY <2>1, <4>1, <4>2 DEF Touches
    <3> QED BY <1>8, <3>1, <3>2, <3>3 DEF Task
  <2> QED BY <2>1, <2>2 DEF JournalMove, StateMove
<1>9. ASSUME NEW d \in Drivers, ScriptEnds(d) \/ RecordPid(d) \/ ReadRun(d) \/ Die(d) \/ ResumeSpawn(d)
      PROVE  JournalMove /\ StateMove
  BY <1>2, <1>9 DEF ScriptEnds, RecordPid, ReadRun, Die, ResumeSpawn
<1>10. ASSUME NEW d \in Drivers, Settle(d) PROVE JournalMove /\ StateMove
  BY <1>3, <1>10 DEF Settle, JournalMove, Terminal
<1>11. ASSUME ResumeCheck \/ CancelMark PROVE JournalMove /\ StateMove
  BY <1>3, <1>11 DEF ResumeCheck, CancelMark, JournalMove, StateMove, Active, Terminal
<1>12. ASSUME CancelStop \/ CancelList PROVE JournalMove /\ StateMove
  BY <1>2, <1>12 DEF CancelStop, CancelList
<1>13. ASSUME NEW to \in Terminal, OwnerSets(to) PROVE JournalMove /\ StateMove
  BY <1>3, <1>13 DEF OwnerSets, JournalMove
<1> QED BY <1>4, <1>5, <1>6, <1>7, <1>8, <1>9, <1>10, <1>11, <1>12, <1>13
        DEF Next, Script, DriverStep, Cancel

-----------------------------------------------------------------------------
(* Types. *)

\* A key is an agent with a number.
LEMMA KeyShape ==
  \A k \in Keys : k = <<k[1], k[2]>> /\ k[1] \in Agents /\ k[2] \in 1..3
BY DEF Keys

\* The journal only grows, one step at a time, and keeps its types.
LEMMA JournalTypes ==
  ASSUME TypeInv, JournalMove
  PROVE  /\ Recorded \subseteq Recorded' /\ IsFiniteSet(Recorded')
         /\ Recorded' \subseteq {k \in Keys : k[2] <= Retries[k[1]] + 1}
         /\ steps' \in [Recorded' -> Step]
<1> USE DEF TypeInv, WorkflowTypeOK
<1>1. CASE UNCHANGED steps
  BY <1>1 DEF Recorded
<1>2. ASSUME NEW k \in Keys, Creates(k)
      PROVE  /\ Recorded \subseteq Recorded' /\ IsFiniteSet(Recorded')
             /\ Recorded' \subseteq {x \in Keys : x[2] <= Retries[x[1]] + 1}
             /\ steps' \in [Recorded' -> Step]
  <2>1. Recorded' = Recorded \cup {k}
    BY <1>2 DEF Creates, Recorded
  <2>2. IsFiniteSet(Recorded')
    BY <2>1, FS_AddElement
  <2>3. Recorded' \subseteq {x \in Keys : x[2] <= Retries[x[1]] + 1}
    BY <1>2, <2>1 DEF Creates, Budgeted
  <2>4. steps' \in [Recorded' -> Step]
    BY <1>2, <2>1, StepTypes DEF Creates
  <2> QED BY <2>1, <2>2, <2>3, <2>4
<1>3. ASSUME NEW k \in Keys, Touches(k)
      PROVE  Recorded' = Recorded /\ steps' \in [Recorded' -> Step]
  BY <1>3 DEF Touches, Recorded
<1> QED BY <1>1, <1>2, <1>3 DEF JournalMove

\* What TypeInv says of everything but the journal and the run's state.
ControlTypes ==
  /\ scene \in Scenes
  /\ pid \in Drivers \cup {Nobody} /\ driver \in [Drivers -> DriverStates]
  /\ agent \in [Drivers -> [Agents -> AgentAt]]
  /\ launching \subseteq Drivers \X Keys
  /\ resuming \in BOOLEAN /\ cancelling \in {"no", "stop", "list", "tasks", "done"}
  /\ \A d \in Drivers, a \in Agents : Budgeted(a, agent[d][a].n)
  /\ \A x \in launching : Budgeted(x[2][1], x[2][2])

\* The end of a node process is well-typed: all its agents are at their start.
LEMMA NodeEndTypes ==
  ASSUME ControlTypes, NEW d \in Drivers, NEW s \in DriverStates, NodeEnds(d, s)
  PROVE  /\ driver' \in [Drivers -> DriverStates]
         /\ agent' \in [Drivers -> [Agents -> AgentAt]]
         /\ \A e \in Drivers, a \in Agents : Budgeted(a, agent'[e][a].n)
<1>1. Start \in AgentAt /\ Start.n = 1
  BY DEF Start, AgentAt
<1>2. \A a \in Agents : Budgeted(a, 1)
  BY WorkflowConstants DEF Budgeted
<1>3. \A e \in Drivers, a \in Agents : agent'[e][a] = IF e = d THEN Start ELSE agent[e][a]
  BY DEF NodeEnds, ControlTypes
<1>4. driver' \in [Drivers -> DriverStates] /\ agent' \in [Drivers -> [Agents -> AgentAt]]
  BY <1>1 DEF NodeEnds, DriverTo, ControlTypes
<1> QED BY <1>1, <1>2, <1>3, <1>4 DEF ControlTypes

\* One agent moves: types.
LEMMA AgentMoveTypes ==
  ASSUME ControlTypes, NEW d \in Drivers, NEW a \in Agents, NEW r \in AgentAt,
         Budgeted(a, r.n), AgentTo(d, a, r)
  PROVE  /\ agent' \in [Drivers -> [Agents -> AgentAt]]
         /\ \A e \in Drivers, b \in Agents :
              /\ agent'[e][b] = IF e = d /\ b = a THEN r ELSE agent[e][b]
              /\ Budgeted(b, agent'[e][b].n)
<1>1. agent' \in [Drivers -> [Agents -> AgentAt]]
  BY DEF AgentTo, ControlTypes
<1>2. \A e \in Drivers, b \in Agents : agent'[e][b] = IF e = d /\ b = a THEN r ELSE agent[e][b]
  BY DEF AgentTo, ControlTypes
<1> QED BY <1>1, <1>2 DEF ControlTypes

\* Every step keeps the types of all but the journal and the run's state.
LEMMA ControlStep ==
  ASSUME TypeInv, Next
  PROVE  /\ ControlTypes'
         /\ toCancel' \subseteq Recorded \/ toCancel' = toCancel
<1>0. ControlTypes /\ ScriptAgents \subseteq Agents /\ toCancel \subseteq Recorded
  BY WorkflowConstants DEF TypeInv, WorkflowTypeOK, ControlTypes, ScriptAgents
<1> DEFINE Goal == ControlTypes' /\ (toCancel' \subseteq Recorded \/ toCancel' = toCancel)
<1>1. ASSUME NEW d \in Drivers, NEW a \in ScriptAgents, Launch(d, a) PROVE Goal
  <2>1. a \in Agents /\ agent[d][a] \in AgentAt /\ Budgeted(a, agent[d][a].n)
    BY <1>0 DEF ControlTypes
  <2>2. Key(d, a) \in Keys /\ Budgeted(Key(d, a)[1], Key(d, a)[2])
    BY <2>1 DEF Key, Keys, AgentAt
  <2>3. CASE run \in Active
    <3> DEFINE r == [agent[d][a] EXCEPT !.pc = "launching"]
    <3>1. r \in AgentAt /\ r.n = agent[d][a].n
      BY <2>1 DEF AgentAt
    <3>2. AgentTo(d, a, r) /\ launching' = launching \cup {<<d, Key(d, a)>>} /\ UNCHANGED <<driver, rest>>
      BY <1>1, <2>3 DEF Launch
    <3>3. /\ agent' \in [Drivers -> [Agents -> AgentAt]]
          /\ \A e \in Drivers, b \in Agents : Budgeted(b, agent'[e][b].n)
      BY <1>0, <2>1, <3>1, <3>2, AgentMoveTypes
    <3>4. launching' \subseteq Drivers \X Keys /\ \A x \in launching' : Budgeted(x[2][1], x[2][2])
      BY <1>0, <2>2, <3>2 DEF ControlTypes
    <3> QED BY <1>0, <3>2, <3>3, <3>4 DEF ControlTypes, rest
  <2>4. CASE run \notin Active
    <3>1. Throw(d) /\ UNCHANGED <<launching, rest>>
      BY <1>1, <2>4 DEF Launch
    <3> QED BY <1>0, <3>1, NodeEndTypes DEF ControlTypes, rest, Throw, DriverStates
  <2> QED BY <2>3, <2>4
<1>2. ASSUME NEW d \in Drivers, NEW a \in ScriptAgents, WaitRound(d, a) PROVE Goal
  <2> DEFINE at == agent[d][a]
  <2>1. a \in Agents /\ at \in AgentAt /\ Budgeted(a, at.n) /\ at.n \in 1..3
    BY <1>0 DEF ControlTypes, AgentAt
  <2>2. CASE Throw(d)
    BY <1>0, <1>2, <2>2, NodeEndTypes DEF ControlTypes, rest, Throw, DriverStates, WaitRound
  <2>3. ASSUME NEW r \in AgentAt, Budgeted(a, r.n), AgentTo(d, a, r), UNCHANGED <<driver, launching, rest>>
        PROVE  Goal
    BY <1>0, <2>1, <2>3, AgentMoveTypes DEF ControlTypes, rest
  <2>4. \A b \in BOOLEAN : [at EXCEPT !.marked = b] \in AgentAt /\ [at EXCEPT !.marked = b].n = at.n
    BY <2>1 DEF AgentAt
  <2>5. [at EXCEPT !.pc = "done", !.marked = FALSE] \in AgentAt
        /\ [at EXCEPT !.pc = "done", !.marked = FALSE].n = at.n
    BY <2>1 DEF AgentAt
  <2>6. ASSUME MayRetry(a, at.n)
        PROVE  [Start EXCEPT !.n = at.n + 1] \in AgentAt /\ Budgeted(a, [Start EXCEPT !.n = at.n + 1].n)
    <3>1. at.n <= Retries[a] /\ Retries[a] \in 0..2
      BY <2>1, <2>6, WorkflowConstants DEF MayRetry
    <3>2. at.n + 1 \in 1..3 /\ at.n + 1 <= Retries[a] + 1
      BY <2>1, <3>1
    <3> QED BY <3>2 DEF Start, AgentAt, Budgeted
  <2> QED
    BY <1>2, <2>1, <2>2, <2>3, <2>4, <2>5, <2>6 DEF WaitRound
<1>3. ASSUME NEW d \in Drivers, NEW k \in Keys, AdmitStep(d, k) PROVE Goal
  <2> DEFINE at == agent[d][k[1]]
  <2>1. k[1] \in Agents /\ at \in AgentAt /\ Budgeted(k[1], at.n) /\ launching' \subseteq launching
    BY <1>0, <1>3, KeyShape DEF ControlTypes, AdmitStep
  <2>2. UNCHANGED rest
    BY <1>3 DEF AdmitStep
  <2>3. CASE UNCHANGED <<driver, agent>>
    BY <1>0, <2>1, <2>2, <2>3 DEF ControlTypes, rest
  <2>4. CASE Throw(d)
    BY <1>0, <2>1, <2>2, <2>4, NodeEndTypes DEF ControlTypes, rest, Throw, DriverStates
  <2>5. ASSUME NEW p \in {"launch", "wait"}, AgentTo(d, k[1], [at EXCEPT !.pc = p]), UNCHANGED driver
        PROVE  Goal
    <3>1. [at EXCEPT !.pc = p] \in AgentAt /\ [at EXCEPT !.pc = p].n = at.n
      BY <2>1 DEF AgentAt
    <3> QED BY <1>0, <2>1, <2>2, <2>5, <3>1, AgentMoveTypes DEF ControlTypes, rest
  <2> QED BY <1>3, <2>3, <2>4, <2>5 DEF AdmitStep
<1>4. ASSUME NEW d \in Drivers, ScriptEnds(d) \/ Die(d) PROVE Goal
  <2>1. CASE \E s \in {"off", "succeeded"} : NodeEnds(d, s)
    BY <1>0, <1>4, <2>1, NodeEndTypes DEF ControlTypes, rest, DriverStates, ScriptEnds, Die
  <2>2. CASE DriverTo(d, "orphan") /\ UNCHANGED agent
    BY <1>0, <1>4, <2>2 DEF ControlTypes, rest, DriverStates, DriverTo, ScriptEnds, Die
  <2> QED BY <1>4, <2>1, <2>2 DEF ScriptEnds, Die
<1>5. ASSUME NEW d \in Drivers, RecordPid(d) \/ ReadRun(d) \/ Settle(d) \/ ResumeSpawn(d) PROVE Goal
  <2>1. \E s \in DriverStates : DriverTo(d, s) /\ UNCHANGED agent
    BY <1>5 DEF RecordPid, ReadRun, Settle, ResumeSpawn, DriverStates
  <2>2. driver' \in [Drivers -> DriverStates]
    BY <1>0, <2>1 DEF DriverTo, ControlTypes
  <2> QED BY <1>0, <1>5, <2>1, <2>2 DEF ControlTypes, RecordPid, ReadRun, Settle, ResumeSpawn
<1>6. ASSUME CancelStop PROVE Goal
  <2>1. CASE Named
    <3>1. pid \in Drivers /\ NodeEnds(pid, "off") /\ launching' \subseteq launching
      BY <1>0, <1>6, <2>1 DEF CancelStop, Named, ControlTypes
    <3> QED BY <1>0, <1>6, <3>1, NodeEndTypes DEF ControlTypes, CancelStop, DriverStates
  <2>2. CASE ~Named
    BY <1>0, <1>6, <2>2 DEF ControlTypes, CancelStop
  <2> QED BY <2>1, <2>2
<1>7. ASSUME ResumeCheck \/ CancelMark \/ CancelList \/ CancelTask PROVE Goal
  BY <1>0, <1>7 DEF ControlTypes, ResumeCheck, CancelMark, CancelList, CancelTask
<1>8. ASSUME NEW to \in Terminal, OwnerSets(to) PROVE Goal
  BY <1>0, <1>8 DEF ControlTypes, OwnerSets
<1>9. ASSUME NEW d \in Drivers, NEW a \in ScriptAgents, Deadline(d, a) PROVE Goal
  BY <1>0, <1>9 DEF ControlTypes, Deadline, rest
<1>10. ASSUME NEW k \in Keys, Task(k) PROVE Goal
  BY <1>0, <1>10 DEF ControlTypes, Task, Finish, AskOwner, OwnerReplies, ReviseStep, taskRest
<1> QED BY <1>1, <1>2, <1>3, <1>4, <1>5, <1>6, <1>7, <1>8, <1>9, <1>10
        DEF Next, Script, DriverStep, Cancel

\* Type correctness is kept by every step.
LEMMA TypeStep ==
  ASSUME TypeInv, Next PROVE TypeInv'
<1>1. JournalMove /\ StateMove
  BY EveryStepMoves
<1>2. /\ Recorded \subseteq Recorded' /\ IsFiniteSet(Recorded')
      /\ Recorded' \subseteq {k \in Keys : k[2] <= Retries[k[1]] + 1}
      /\ steps' \in [Recorded' -> Step]
  BY <1>1, JournalTypes
<1>3. ControlTypes' /\ toCancel' \subseteq Recorded'
  BY <1>2, ControlStep DEF TypeInv, WorkflowTypeOK
<1>4. run' \in Active \cup Terminal
  BY <1>1 DEF StateMove, TypeInv, WorkflowTypeOK
<1> QED BY <1>2, <1>3, <1>4 DEF TypeInv, WorkflowTypeOK, ControlTypes

-----------------------------------------------------------------------------
(* The chain of attempts. *)

\* The journal stays a chain: a step is added behind a failed one, and a step
\* that has a successor is only reopened as revised after its retry.
LEMMA ChainStep ==
  ASSUME TypeInv, TypeInv', ChainInv, JournalMove PROVE ChainInv'
<1>0. \A k \in Recorded : k \in Keys
  BY DEF TypeInv, WorkflowTypeOK
<1>1. CASE UNCHANGED steps
  BY <1>1 DEF ChainInv, Recorded, Over
<1>2. ASSUME NEW k \in Keys, Creates(k) PROVE ChainInv'
  <2>1. /\ Recorded' = Recorded \cup {k} /\ k \notin Recorded
        /\ \A x \in Recorded : steps'[x] = steps[x]
    BY <1>2 DEF Creates, Recorded
  <2>2. \A x \in Recorded : Over(x) => Over(x)'
    BY <2>1 DEF Over
  <2>3. k[2] > 1 => <<k[1], k[2] - 1>> \in Recorded /\ Over(<<k[1], k[2] - 1>>)
    BY <1>2 DEF Creates, PredecessorFailed, Over
  <2>4. \A x \in Recorded' : x[2] > 1 => <<x[1], x[2] - 1>> \in Recorded /\ Over(<<x[1], x[2] - 1>>)
    BY <2>1, <2>3 DEF ChainInv
  <2>5. \A x \in Recorded' : x[2] > 1 => <<x[1], x[2] - 1>> \in Recorded' /\ Over(<<x[1], x[2] - 1>>)'
    BY <2>1, <2>2, <2>4
  <2> QED BY <2>5 DEF ChainInv, Over
<1>3. ASSUME NEW k \in Keys, Touches(k) PROVE ChainInv'
  <2>1. /\ Recorded' = Recorded /\ k \in Recorded
        /\ \A x \in Recorded : x # k => steps'[x] = steps[x]
        /\ Over(k) => steps'[k].outcome # "none" \/ steps'[k].revised = "late"
                      \/ <<k[1], k[2] + 1>> \notin Recorded
    BY <1>3 DEF Touches, Recorded, TypeInv, WorkflowTypeOK
  <2> SUFFICES ASSUME NEW x \in Recorded, x[2] > 1
               PROVE  <<x[1], x[2] - 1>> \in Recorded
                      /\ (steps'[<<x[1], x[2] - 1>>].outcome # "none" \/ steps'[<<x[1], x[2] - 1>>].revised = "late")
    BY <2>1 DEF ChainInv, Over
  <2> DEFINE p == <<x[1], x[2] - 1>>
  <2>2. p \in Recorded /\ Over(p)
    BY DEF ChainInv
  <2>3. CASE p # k
    BY <2>1, <2>2, <2>3 DEF Over
  <2>4. CASE p = k
    <3>1. x = <<x[1], x[2]>> /\ x[2] \in 1..3
      BY <1>0, KeyShape
    <3>2. k[1] = x[1] /\ k[2] = x[2] - 1
      BY <2>4
    <3>3. k[2] + 1 = x[2]
      BY <3>1, <3>2
    <3>4. <<k[1], k[2] + 1>> \in Recorded
      BY <3>1, <3>2, <3>3
    <3> QED BY <2>1, <2>2, <2>4, <3>4
  <2> QED BY <2>3, <2>4
<1> QED BY <1>1, <1>2, <1>3 DEF JournalMove

-----------------------------------------------------------------------------
(* The processes of the drivers. *)

\* After node's end its driver's script is gone, whatever it had launched.
LEMMA NodeEndLaunches ==
  ASSUME TypeInv, LaunchInv, NEW d \in Drivers, NEW s \in {"off", "failing", "succeeded"},
         NodeEnds(d, s), launching' \subseteq launching
  PROVE  LaunchInv'
<1>1. \A e \in Drivers : /\ driver'[e] = IF e = d THEN s ELSE driver[e]
                         /\ e # d => agent'[e] = agent[e]
  BY DEF NodeEnds, DriverTo, TypeInv, WorkflowTypeOK
<1>2. ~(s \in {"running", "orphan", "unused", "spawned"})
  OBVIOUS
<1> QED BY <1>1, <1>2 DEF LaunchInv, Scripting

\* Another agent of a script moves, or one of another script: what is in flight
\* is still waited for, except by the agent that moves.
LEMMA AgentMoveLaunches ==
  ASSUME TypeInv, LaunchInv, NEW d \in Drivers, NEW a \in Agents, NEW r, AgentTo(d, a, r), UNCHANGED driver,
         launching' \subseteq launching,
         \A k \in Keys : <<d, k>> \in launching' /\ k[1] = a => ~Scripting(d)
  PROVE  LaunchInv'
<1>1. \A e \in Drivers, b \in Agents : ~(e = d /\ b = a) => agent'[e][b] = agent[e][b]
  BY DEF AgentTo, TypeInv, WorkflowTypeOK
<1> QED BY <1>1, KeyShape DEF LaunchInv, Scripting

\* Every step keeps what is in flight tied to the agent that waits for it.
LEMMA LaunchStep ==
  ASSUME TypeInv, LaunchInv, Next PROVE LaunchInv'
<1>0. /\ ScriptAgents \subseteq Agents /\ driver \in [Drivers -> DriverStates]
      /\ agent \in [Drivers -> [Agents -> AgentAt]] /\ launching \subseteq Drivers \X Keys
  BY WorkflowConstants DEF TypeInv, WorkflowTypeOK, ScriptAgents
<1>1. ASSUME UNCHANGED <<driver, agent, launching>> PROVE LaunchInv'
  BY <1>1 DEF LaunchInv, Scripting
<1>2. ASSUME NEW d \in Drivers, NEW a \in ScriptAgents, Launch(d, a) PROVE LaunchInv'
  <2>1. CASE run \in Active
    <3> DEFINE r == [agent[d][a] EXCEPT !.pc = "launching"]
    <3>1. a \in Agents /\ agent[d][a] \in AgentAt /\ agent[d][a].pc = "launch" /\ Scripting(d)
      BY <1>0, <1>2 DEF Launch
    <3>2. AgentTo(d, a, r) /\ launching' = launching \cup {<<d, Key(d, a)>>} /\ UNCHANGED driver
      BY <1>2, <2>1 DEF Launch
    <3>3. \A e \in Drivers, b \in Agents : agent'[e][b] = IF e = d /\ b = a THEN r ELSE agent[e][b]
      BY <1>0, <3>1, <3>2 DEF AgentTo
    <3>4. r.pc = "launching" /\ r.n = agent[d][a].n
      BY <3>1 DEF AgentAt
    <3> SUFFICES ASSUME NEW e \in Drivers, NEW k \in Keys, <<e, k>> \in launching'
                 PROVE  /\ driver[e] \notin {"unused", "spawned"}
                        /\ Scripting(e) => agent'[e][k[1]].pc = "launching" /\ agent'[e][k[1]].n = k[2]
      BY <3>2 DEF LaunchInv, Scripting
    <3>5. k[1] \in Agents
      BY KeyShape
    <3>6. CASE <<e, k>> \in launching
      <4>1. ~(e = d /\ k[1] = a)
        BY <3>1, <3>6 DEF LaunchInv
      <4> QED BY <3>3, <3>5, <3>6, <4>1 DEF LaunchInv
    <3>7. CASE e = d /\ k = Key(d, a)
      <4>1. k[1] = a /\ k[2] = agent[d][a].n
        BY <3>7 DEF Key
      <4> QED BY <3>1, <3>3, <3>4, <3>7, <4>1 DEF Scripting
    <3> QED BY <3>2, <3>6, <3>7
  <2>2. CASE run \notin Active
    <3>1. Throw(d) /\ launching' \subseteq launching
      BY <1>2, <2>2 DEF Launch
    <3> QED BY <3>1, NodeEndLaunches DEF Throw
  <2> QED BY <2>1, <2>2
<1>3. ASSUME NEW d \in Drivers, NEW a \in ScriptAgents, WaitRound(d, a) PROVE LaunchInv'
  <2>1. \A k \in Keys : <<d, k>> \in launching' /\ k[1] = a => ~Scripting(d)
    BY <1>3 DEF WaitRound, LaunchInv
  <2>2. CASE Throw(d)
    BY <1>3, <2>2, NodeEndLaunches DEF WaitRound, Throw
  <2>3. CASE UNCHANGED driver /\ \E r : AgentTo(d, a, r)
    BY <1>0, <1>3, <2>1, <2>3, AgentMoveLaunches DEF WaitRound
  <2> QED BY <1>3, <2>2, <2>3 DEF WaitRound
<1>4. ASSUME NEW d \in Drivers, NEW k \in Keys, AdmitStep(d, k) PROVE LaunchInv'
  <2>1. launching' = launching \ {<<d, k>>} /\ k[1] \in Agents /\ <<d, k>> \in launching
    BY <1>4, KeyShape DEF AdmitStep
  <2>2. \A x \in Keys : <<d, x>> \in launching' /\ x[1] = k[1] => ~Scripting(d)
    BY <2>1, KeyShape DEF LaunchInv
  <2>3. CASE UNCHANGED <<driver, agent>>
    BY <2>1, <2>3 DEF LaunchInv, Scripting
  <2>4. CASE Throw(d)
    BY <2>1, <2>4, NodeEndLaunches DEF Throw
  <2>5. CASE UNCHANGED driver /\ \E r : AgentTo(d, k[1], r)
    BY <2>1, <2>2, <2>5, AgentMoveLaunches
  <2> QED BY <1>4, <2>3, <2>4, <2>5 DEF AdmitStep
<1>5. ASSUME NEW d \in Drivers, ScriptEnds(d) PROVE LaunchInv'
  BY <1>5, NodeEndLaunches DEF ScriptEnds
<1>6. ASSUME NEW d \in Drivers, Die(d) PROVE LaunchInv'
  <2>1. CASE NodeEnds(d, "off")
    BY <1>6, <2>1, NodeEndLaunches DEF Die
  <2>2. CASE driver[d] = "running" /\ DriverTo(d, "orphan") /\ UNCHANGED agent
    BY <1>0, <1>6, <2>2 DEF Die, DriverTo, LaunchInv, Scripting
  <2> QED BY <1>6, <2>1, <2>2 DEF Die
<1>7. ASSUME NEW d \in Drivers, RecordPid(d) \/ ResumeSpawn(d) PROVE LaunchInv'
  <2>1. \A k \in Keys : <<d, k>> \notin launching
    BY <1>7 DEF RecordPid, ResumeSpawn, LaunchInv
  <2>2. \A e \in Drivers : e # d => driver'[e] = driver[e]
    BY <1>0, <1>7 DEF RecordPid, ResumeSpawn, DriverTo
  <2>3. UNCHANGED <<agent, launching>>
    BY <1>7 DEF RecordPid, ResumeSpawn
  <2> QED BY <2>1, <2>2, <2>3 DEF LaunchInv, Scripting
<1>8. ASSUME NEW d \in Drivers, ReadRun(d) \/ Settle(d) PROVE LaunchInv'
  <2>1. \E s \in {"settling succeeded", "settling failing", "off"} : DriverTo(d, s)
    BY <1>8 DEF ReadRun, Settle
  <2>2. \A e \in Drivers : e # d => driver'[e] = driver[e]
    BY <1>0, <2>1 DEF DriverTo
  <2>3. UNCHANGED <<agent, launching>> /\ driver'[d] \notin {"unused", "spawned", "running", "orphan"}
    BY <1>0, <1>8, <2>1 DEF ReadRun, Settle, DriverTo
  <2> QED BY <2>2, <2>3 DEF LaunchInv, Scripting
<1>9. ASSUME CancelStop PROVE LaunchInv'
  <2>1. CASE Named
    <3>1. pid \in Drivers /\ NodeEnds(pid, "off") /\ launching' \subseteq launching
      BY <1>9, <2>1 DEF CancelStop, Named, TypeInv, WorkflowTypeOK
    <3> QED BY <3>1, NodeEndLaunches
  <2>2. CASE ~Named
    BY <1>1, <1>9, <2>2 DEF CancelStop
  <2> QED BY <2>1, <2>2
<1>10. ASSUME ResumeCheck \/ CancelMark \/ CancelList \/ CancelTask PROVE LaunchInv'
  BY <1>1, <1>10 DEF ResumeCheck, CancelMark, CancelList, CancelTask
<1>11. ASSUME NEW to \in Terminal, OwnerSets(to) PROVE LaunchInv'
  BY <1>1, <1>11 DEF OwnerSets
<1>12. ASSUME NEW d \in Drivers, NEW a \in ScriptAgents, Deadline(d, a) PROVE LaunchInv'
  BY <1>1, <1>12 DEF Deadline
<1>13. ASSUME NEW k \in Keys, Task(k) PROVE LaunchInv'
  BY <1>1, <1>13 DEF Task, Finish, AskOwner, OwnerReplies, ReviseStep, taskRest
<1> QED BY <1>2, <1>3, <1>4, <1>5, <1>6, <1>7, <1>8, <1>9, <1>10, <1>11, <1>12, <1>13
        DEF Next, Script, DriverStep, Cancel

-----------------------------------------------------------------------------
(* Blocking questions. *)

\* Every driver but d was never started.
Alone(d) == \A e \in Drivers \ {d} : driver[e] = "unused"
BlockedBy(d) == driver[d] \notin {"unused", "spawned", "succeeded"} /\ (Scripting(d) => Waits(d))

\* What keeps a run blocked by its only driver: the run was not blocked by this
\* step, no driver but d moved, and neither d's script nor its agents did.
LEMMA BlockKept ==
  ASSUME TypeInv, BlockInv, scene' = scene,
         run' = "blocked" => run = "blocked",
         UNCHANGED <<driver, agent>>
  PROVE  BlockInv'
BY DEF BlockInv, Scripting, Waits, ScriptAgents

\* One driver changes its state.
LEMMA BlockDriver ==
  ASSUME TypeInv, BlockInv, scene' = scene, NEW d \in Drivers, NEW s \in DriverStates \ {"unused"}, DriverTo(d, s),
         run' = "blocked" => run = "blocked",
         run = "blocked" /\ run' = "blocked" /\ Alone(d) /\ BlockedBy(d) =>
            s \notin {"spawned", "succeeded", "running", "orphan"}
              \/ (Scripting(d) /\ s = "orphan" /\ UNCHANGED agent)
  PROVE  BlockInv'
<1>1. \A e \in Drivers : driver'[e] = IF e = d THEN s ELSE driver[e]
  BY DEF DriverTo, TypeInv, WorkflowTypeOK
<1> SUFFICES ASSUME NEW x \in Drivers, run' = "blocked", Alone(x)' PROVE BlockedBy(x)'
  BY DEF BlockInv, Alone, BlockedBy
<1>2. x = d /\ Alone(d)
  BY <1>1 DEF Alone
<1>3. run = "blocked" /\ BlockedBy(d)
  BY <1>2 DEF BlockInv, Alone, BlockedBy
<1>4. driver'[d] = s
  BY <1>1
<1>5. CASE s \notin {"spawned", "succeeded", "running", "orphan"}
  BY <1>2, <1>4, <1>5 DEF BlockedBy, Scripting
<1>6. CASE Scripting(d) /\ s = "orphan" /\ UNCHANGED agent
  <2>1. Waits(d)'
    BY <1>3, <1>6 DEF BlockedBy, Waits, ScriptAgents
  <2> QED BY <1>2, <1>4, <1>6, <2>1 DEF BlockedBy
<1> QED BY <1>2, <1>3, <1>5, <1>6

\* An agent that does not hold the block moves, or ends with it: the others of
\* its script still hold theirs.
LEMMA BlockAgent ==
  ASSUME TypeInv, BlockInv, scene' = scene, NEW d \in Drivers, NEW a \in Agents, NEW r, AgentTo(d, a, r),
         UNCHANGED driver, Scripting(d),
         run' = "blocked" /\ a \in ScriptAgents =>
            (run = "blocked" /\ ~(agent[d][a].pc = "wait" /\ agent[d][a].marked))
              \/ (r.pc = "wait" /\ r.marked),
         a \in ScriptAgents \/ (run' = "blocked" => run = "blocked")
  PROVE  BlockInv'
<1>1. \A b \in Agents : agent'[d][b] = IF b = a THEN r ELSE agent[d][b]
  BY DEF AgentTo, TypeInv, WorkflowTypeOK
<1>2. ScriptAgents \subseteq Agents /\ ScriptAgents' = ScriptAgents
  BY WorkflowConstants DEF ScriptAgents, TypeInv
<1> SUFFICES ASSUME NEW x \in Drivers, run' = "blocked", Alone(x)' PROVE BlockedBy(x)'
  BY DEF BlockInv, Alone, BlockedBy
<1>3. x = d /\ Alone(d)
  BY DEF Alone, Scripting
<1>4. driver[d] \in {"running", "orphan"} /\ driver'[d] = driver[d]
  BY DEF Scripting
<1>5. Waits(d)'
  <2>1. CASE a \in ScriptAgents /\ r.pc = "wait" /\ r.marked
    BY <1>1, <1>2, <2>1 DEF Waits
  <2>2. CASE run = "blocked" /\ ~(a \in ScriptAgents /\ agent[d][a].pc = "wait" /\ agent[d][a].marked)
    <3>1. Waits(d)
      BY <1>3, <2>2 DEF BlockInv, Alone
    <3> QED BY <1>1, <1>2, <2>2, <3>1 DEF Waits
  <2> QED BY <2>1, <2>2
<1> QED BY <1>3, <1>4, <1>5 DEF BlockedBy

\* Every step leaves a blocked run to an agent that will lift the block, while
\* only one driver was ever started.
LEMMA BlockStep ==
  ASSUME TypeInv, LaunchInv, BlockInv, Next PROVE BlockInv'
<1>0. /\ ScriptAgents \subseteq Agents /\ driver \in [Drivers -> DriverStates]
      /\ agent \in [Drivers -> [Agents -> AgentAt]]
      /\ \A s \in {"off", "failing", "succeeded", "orphan", "running", "spawned",
                   "settling succeeded", "settling failing"} : s \in DriverStates \ {"unused"}
  BY WorkflowConstants DEF TypeInv, WorkflowTypeOK, ScriptAgents, DriverStates
<1>1. \A to : SetState(to) /\ to # "blocked" => (run' = "blocked" => run = "blocked")
  BY DEF SetState
<1>2. \A to : SetState(to) /\ run = "blocked" => run' = to
  BY DEF SetState, MayBecome, Active
<1>3. ASSUME NEW d \in Drivers, Throw(d), UNCHANGED <<run, scene>> PROVE BlockInv'
  BY <1>0, <1>3, BlockDriver DEF Throw, NodeEnds
<1>4. ASSUME NEW d \in Drivers, NEW a \in ScriptAgents, Launch(d, a) PROVE BlockInv'
  <2>1. CASE run \in Active
    <3> DEFINE r == [agent[d][a] EXCEPT !.pc = "launching"]
    <3>1. AgentTo(d, a, r) /\ UNCHANGED <<driver, run, scene>> /\ Scripting(d) /\ agent[d][a].pc = "launch"
      BY <1>4, <2>1 DEF Launch, rest
    <3> QED BY <1>0, <3>1, BlockAgent
  <2>2. CASE run \notin Active
    BY <1>3, <1>4, <2>2 DEF Launch, rest
  <2> QED BY <2>1, <2>2
<1>5. ASSUME NEW d \in Drivers, NEW k \in Keys, AdmitStep(d, k) PROVE BlockInv'
  <2>1. UNCHANGED <<run, scene>> /\ k[1] \in Agents /\ <<d, k>> \in launching
    BY <1>5, KeyShape DEF AdmitStep, rest
  <2>2. CASE UNCHANGED <<driver, agent>>
    BY <2>1, <2>2, BlockKept
  <2>3. CASE Throw(d)
    BY <1>3, <2>1, <2>3
  <2>4. CASE Scripting(d) /\ UNCHANGED driver /\ \E r : AgentTo(d, k[1], r)
    <3>1. agent[d][k[1]].pc = "launching"
      BY <2>1, <2>4 DEF LaunchInv
    <3>2. PICK r : AgentTo(d, k[1], r)
      BY <2>4
    <3> QED BY <2>1, <2>4, <3>1, <3>2, BlockAgent
  <2> QED BY <1>5, <2>2, <2>3, <2>4 DEF AdmitStep
<1>6. ASSUME NEW d \in Drivers, NEW a \in ScriptAgents, WaitRound(d, a) PROVE BlockInv'
  <2> DEFINE at == agent[d][a]
             s == steps[Key(d, a)]
  <2>1. Scripting(d) /\ at.pc = "wait" /\ scene' = scene /\ at \in AgentAt /\ a \in Agents
    BY <1>0, <1>6 DEF WaitRound, rest
  <2>2. CASE Throw(d) /\ UNCHANGED run
    BY <1>3, <2>1, <2>2
  <2>3. CASE SetState("blocked") /\ AgentTo(d, a, [at EXCEPT !.marked = TRUE]) /\ UNCHANGED driver
    <3>1. [at EXCEPT !.marked = TRUE].pc = "wait" /\ [at EXCEPT !.marked = TRUE].marked
      BY <2>1 DEF AgentAt
    <3> QED BY <2>1, <2>3, <3>1, BlockAgent
  <2>4. CASE SetState("running") /\ UNCHANGED driver /\ \E r : AgentTo(d, a, r)
    <3>1. run' # "blocked"
      BY <1>1, <1>2, <2>4
    <3>2. PICK r : AgentTo(d, a, r)
      BY <2>4
    <3> QED BY <2>1, <2>4, <3>1, <3>2, BlockAgent
  <2>5. CASE ~at.marked /\ UNCHANGED <<run, driver>> /\ \E r : AgentTo(d, a, r)
    <3>1. PICK r : AgentTo(d, a, r)
      BY <2>5
    <3> QED BY <2>1, <2>5, <3>1, BlockAgent
  <2> QED BY <1>6, <2>2, <2>3, <2>4, <2>5 DEF WaitRound, Unblocks
<1>7. ASSUME NEW d \in Drivers, ScriptEnds(d) PROVE BlockInv'
  <2>1. UNCHANGED <<run, scene>> /\ Scripting(d) /\ ~Waits(d)
    BY <1>7 DEF ScriptEnds, rest, Waits
  <2> QED BY <1>0, <1>7, <2>1, BlockDriver DEF ScriptEnds, NodeEnds, BlockedBy
<1>8. ASSUME NEW d \in Drivers, Die(d) PROVE BlockInv'
  <2>1. UNCHANGED <<run, scene>>
    BY <1>8 DEF Die, rest
  <2>2. CASE NodeEnds(d, "off")
    BY <1>0, <2>1, <2>2, BlockDriver DEF NodeEnds
  <2>3. CASE driver[d] = "running" /\ DriverTo(d, "orphan") /\ UNCHANGED agent
    BY <1>0, <2>1, <2>3, BlockDriver DEF Scripting
  <2> QED BY <1>8, <2>2, <2>3 DEF Die
<1>9. ASSUME NEW d \in Drivers, RecordPid(d) PROVE BlockInv'
  BY <1>0, <1>9, BlockDriver DEF RecordPid, BlockedBy
<1>10. ASSUME NEW d \in Drivers, ResumeSpawn(d) PROVE BlockInv'
  BY <1>0, <1>10, BlockDriver DEF ResumeSpawn, BlockedBy
<1>11. ASSUME NEW d \in Drivers, ReadRun(d) PROVE BlockInv'
  BY <1>0, <1>11, BlockDriver DEF ReadRun
<1>12. ASSUME NEW d \in Drivers, Settle(d) PROVE BlockInv'
  BY <1>0, <1>1, <1>12, BlockDriver DEF Settle
<1>13. ASSUME CancelStop PROVE BlockInv'
  <2>1. CASE Named
    BY <1>0, <1>13, <2>1, BlockDriver DEF CancelStop, Named, NodeEnds, TypeInv, WorkflowTypeOK
  <2>2. CASE ~Named
    BY <1>13, <2>2, BlockKept DEF CancelStop
  <2> QED BY <2>1, <2>2
<1>14. ASSUME ResumeCheck \/ CancelMark PROVE BlockInv'
  BY <1>1, <1>14, BlockKept DEF ResumeCheck, CancelMark
<1>15. ASSUME CancelList \/ CancelTask PROVE BlockInv'
  BY <1>15, BlockKept DEF CancelList, CancelTask
<1>16. ASSUME NEW to \in Terminal, OwnerSets(to) PROVE BlockInv'
  BY <1>1, <1>16, BlockKept DEF OwnerSets, Terminal
<1>17. ASSUME NEW d \in Drivers, NEW a \in ScriptAgents, Deadline(d, a) PROVE BlockInv'
  BY <1>17, BlockKept DEF Deadline, rest
<1>18. ASSUME NEW k \in Keys, Task(k) PROVE BlockInv'
  BY <1>18, BlockKept DEF Task, Finish, AskOwner, OwnerReplies, ReviseStep, taskRest
<1> QED BY <1>4, <1>5, <1>6, <1>7, <1>8, <1>9, <1>10, <1>11, <1>12, <1>13, <1>14, <1>15, <1>16, <1>17, <1>18
        DEF Next, Script, DriverStep, Cancel

-----------------------------------------------------------------------------
(* Cancelling. *)

\* What was told to stop stays told, and a run that is over gets no new steps.
LEMMA ToldStays ==
  ASSUME TypeInv, JournalMove, run \in Terminal
  PROVE  Recorded' = Recorded /\ \A k \in Recorded : Told(k) => Told(k)'
<1>1. ASSUME NEW k \in Keys PROVE ~Creates(k)
  BY DEF Creates, Active, Terminal
<1>2. ASSUME NEW k \in Keys, Touches(k)
      PROVE  Recorded' = Recorded /\ \A x \in Recorded : Told(x) => Told(x)'
  <2>1. /\ Recorded' = Recorded /\ \A x \in Recorded : x # k => steps'[x] = steps[x]
        /\ Told(k) => steps'[k].outcome # "none" \/ steps'[k].intent \/ steps'[k].revised # "no"
    BY <1>2 DEF Touches, Recorded, TypeInv, WorkflowTypeOK
  <2> QED BY <2>1 DEF Told
<1>3. CASE UNCHANGED steps
  BY <1>3 DEF Recorded, Told
<1> QED BY <1>1, <1>2, <1>3 DEF JournalMove

\* Every step of the run, those of `workflow cancel` among them, keeps CancelInv.
LEMMA CancelStep ==
  ASSUME TypeInv, CancelInv, Next PROVE CancelInv'
<1>1. JournalMove /\ StateMove
  BY EveryStepMoves
<1>2. run \in Terminal => run' = run
  BY <1>1 DEF StateMove, Active, Terminal
<1>3. ASSUME UNCHANGED <<cancelling, toCancel>> PROVE CancelInv'
  <2>1. cancelling # "no" => run \in Terminal /\ Recorded' = Recorded /\ \A k \in Recorded : Told(k) => Told(k)'
    BY <1>1, ToldStays DEF CancelInv
  <2> QED BY <1>2, <1>3, <2>1 DEF CancelInv
<1>4. CASE CancelMark
  <2>1. run' = "cancelled" /\ cancelling' = "stop"
    BY <1>4 DEF CancelMark, SetState, MayBecome, Active
  <2> QED BY <2>1 DEF CancelInv, Terminal
<1>5. CASE CancelStop
  BY <1>2, <1>5 DEF CancelInv, CancelStop
<1>6. CASE CancelList
  <2>1. cancelling' = "tasks" /\ toCancel' = Recorded /\ UNCHANGED <<run, steps>> /\ run \in Terminal
    BY <1>6 DEF CancelList, CancelInv
  <2> QED BY <2>1 DEF CancelInv, Recorded
<1>7. CASE CancelTask
  <2>1. run \in Terminal /\ run' = run /\ cancelling = "tasks"
    BY <1>2, <1>7 DEF CancelTask, CancelInv
  <2>2. Recorded' = Recorded /\ \A k \in Recorded : Told(k) => Told(k)'
    BY <1>1, <2>1, ToldStays
  <2>3. ASSUME NEW k \in toCancel, toCancel' = toCancel \ {k}, UNCHANGED cancelling,
               steps' = [steps EXCEPT ![k].intent = @ \/ steps[k].outcome = "none"]
        PROVE  CancelInv'
    <3>1. k \in Recorded /\ steps[k] \in Step
      BY DEF TypeInv, WorkflowTypeOK
    <3>2. steps'[k] = [steps[k] EXCEPT !.intent = @ \/ steps[k].outcome = "none"]
      BY <2>3, <3>1 DEF Recorded
    <3>3. Told(k)'
      <4>1. CASE steps[k].outcome = "none"
        BY <3>1, <3>2, <4>1 DEF Told, Step
      <4>2. CASE steps[k].outcome # "none"
        BY <3>1, <3>2, <4>2 DEF Told, Step
      <4> QED BY <4>1, <4>2
    <3>4. \A x \in Recorded' \ toCancel' : Told(x)'
      BY <2>1, <2>2, <2>3, <3>3 DEF CancelInv
    <3> QED BY <2>1, <2>3, <3>4 DEF CancelInv
  <2>4. CASE toCancel = {} /\ cancelling' = "done"
    BY <2>1, <2>2, <2>4 DEF CancelInv
  <2> QED BY <1>7, <2>3, <2>4 DEF CancelTask
<1>8. CASE \E d \in Drivers : Script(d) \/ DriverStep(d) \/ ResumeSpawn(d)
  <2>1. UNCHANGED <<cancelling, toCancel>>
    <3>1. ASSUME NEW d \in Drivers, Script(d) PROVE UNCHANGED <<cancelling, toCancel>>
      BY <3>1 DEF Script, Launch, WaitRound, Deadline, ScriptEnds, rest
    <3>2. ASSUME NEW d \in Drivers, DriverStep(d) PROVE UNCHANGED <<cancelling, toCancel>>
      BY <3>2 DEF DriverStep, RecordPid, ReadRun, Settle, Die, rest
    <3>3. ASSUME NEW d \in Drivers, ResumeSpawn(d) PROVE UNCHANGED <<cancelling, toCancel>>
      BY <3>3 DEF ResumeSpawn
    <3> QED BY <1>8, <3>1, <3>2, <3>3
  <2> QED BY <1>3, <2>1
<1>9. CASE \E d \in Drivers, k \in Keys : AdmitStep(d, k)
  BY <1>3, <1>9 DEF AdmitStep, rest
<1>10. CASE ResumeCheck \/ \E to \in Terminal : OwnerSets(to)
  BY <1>3, <1>10 DEF ResumeCheck, OwnerSets
<1>11. CASE \E k \in Keys : Task(k)
  BY <1>3, <1>11 DEF Task, Finish, AskOwner, OwnerReplies, ReviseStep, taskRest
<1> QED BY <1>4, <1>5, <1>6, <1>7, <1>8, <1>9, <1>10, <1>11 DEF Next, Cancel

-----------------------------------------------------------------------------
(* The invariant and what follows from it. *)

\* A new run satisfies the invariant: its journal is empty and no script runs.
LEMMA InitRunInv == Init => RunInv
<1> SUFFICES ASSUME Init PROVE RunInv
  OBVIOUS
<1>1. Recorded = {} /\ IsFiniteSet(Recorded)
  BY FS_EmptySet DEF Init, Recorded
<1>2. \E f, s : s \in {"spawned", "off"} /\ driver = [x \in Drivers |-> IF x = f THEN s ELSE "unused"]
  <2> DEFINE
        S == {"spawned"} \cup (IF Happens("resume") THEN {"off"} ELSE {})
        first == CHOOSE d \in Drivers : TRUE
  <2>1. driver \in {[x \in Drivers |-> IF x = first THEN s ELSE "unused"] : s \in S}
    BY DEF Init
  <2>2. S \subseteq {"spawned", "off"}
    OBVIOUS
  <2> HIDE DEF S, first
  <2> QED BY <2>1, <2>2
<1>3. driver \in [Drivers -> DriverStates]
  BY <1>2 DEF DriverStates
<1>4. /\ agent \in [Drivers -> [Agents -> AgentAt]]
      /\ \A d \in Drivers, a \in Agents : agent[d][a].n = 1
  BY DEF Init, Start, AgentAt
<1>5. \A a \in Agents : Budgeted(a, 1)
  BY WorkflowConstants DEF Budgeted
<1>6. TypeInv
  BY <1>1, <1>3, <1>4, <1>5 DEF Init, TypeInv, WorkflowTypeOK, Active, Recorded
<1>7. ChainInv /\ LaunchInv /\ BlockInv /\ CancelInv
  BY <1>1 DEF Init, ChainInv, LaunchInv, BlockInv, CancelInv, Active
<1> QED BY <1>6, <1>7 DEF RunInv

\* Every step of every process keeps the invariant.
LEMMA RunInvStep == RunInv /\ [Next]_vars => RunInv'
<1> SUFFICES ASSUME RunInv, [Next]_vars PROVE RunInv'
  OBVIOUS
<1>1. CASE Next
  BY <1>1, EveryStepMoves, TypeStep, ChainStep, LaunchStep, BlockStep, CancelStep DEF RunInv
<1>2. CASE UNCHANGED vars
  <2> USE <1>2 DEF vars
  <2>1. TypeInv' /\ ChainInv'
    BY DEF RunInv, TypeInv, WorkflowTypeOK, ChainInv, Over, Recorded
  <2>2. LaunchInv' /\ BlockInv'
    BY DEF RunInv, LaunchInv, BlockInv, Scripting, Waits, ScriptAgents
  <2>3. CancelInv'
    BY DEF RunInv, CancelInv, Told, Recorded
  <2> QED BY <2>1, <2>2, <2>3 DEF RunInv
<1> QED BY <1>1, <1>2

\* The inductive invariant holds for any number of drivers, resumes, agents and
\* retries up to two, and whatever happens to the run.
THEOREM RunInvariant == Spec => []RunInv
<1> QED BY InitRunInv, RunInvStep, PTL DEF Spec

\* A chain has one step at work: of two unfinished steps of one agent the earlier
\* one has a successor, so it is over.
LEMMA ChainHasOneAtWork ==
  ASSUME TypeInv, ChainInv PROVE OneAttemptAtATime
<1> SUFFICES ASSUME NEW a \in Agents
             PROVE  Cardinality({k \in Recorded : k[1] = a /\ steps[k].outcome = "none"
                                                     /\ steps[k].revised # "late"}) <= 1
  BY DEF OneAttemptAtATime
<1> DEFINE W == {k \in Recorded : k[1] = a /\ steps[k].outcome = "none" /\ steps[k].revised # "late"}
<1>1. \A k \in Recorded : k = <<k[1], k[2]>> /\ k[2] \in 1..3
  BY KeyShape DEF TypeInv, WorkflowTypeOK
<1>2. ASSUME NEW x \in Recorded, NEW y \in Recorded, x[1] = y[1], x[2] < y[2] PROVE Over(x)
  <2> DEFINE z == <<y[1], y[2] - 1>>
  <2>1. z \in Recorded /\ Over(z)
    BY <1>1, <1>2 DEF ChainInv
  <2>2. z[1] = x[1] /\ z[2] = y[2] - 1 /\ x = <<x[1], x[2]>>
    BY <1>1, <1>2
  <2>3. CASE x[2] = y[2] - 1
    BY <1>2, <2>1, <2>2, <2>3
  <2>4. CASE x[2] # y[2] - 1
    <3>1. x[2] = 1 /\ z[2] = 2
      BY <1>1, <1>2, <2>2, <2>4
    <3>2. <<z[1], z[2] - 1>> \in Recorded /\ Over(<<z[1], z[2] - 1>>)
      BY <2>1, <3>1 DEF ChainInv
    <3>3. <<z[1], z[2] - 1>> = x
      BY <2>2, <3>1
    <3> QED BY <3>2, <3>3
  <2> QED BY <2>3, <2>4
<1>3. ASSUME NEW x \in W, NEW y \in W PROVE x = y
  <2>1. ~(x[2] < y[2]) /\ ~(y[2] < x[2])
    BY <1>2 DEF Over
  <2>2. x[2] = y[2] /\ x[1] = y[1]
    BY <1>1, <2>1
  <2> QED BY <1>1, <2>2
<1> HIDE DEF W
<1>4. CASE W = {}
  BY <1>4, FS_EmptySet DEF W
<1>5. ASSUME W # {} PROVE Cardinality(W) = 1
  <2>1. PICK x : x \in W
    BY <1>5
  <2>2. \A y \in W : y = x
    BY <1>3, <2>1
  <2>3. W = {x}
    BY <2>1, <2>2
  <2> QED BY <2>3, FS_Singleton
<1> QED BY <1>4, <1>5 DEF W

\* The journal never has two attempts of one agent() call at work, and a finished
\* script of the only driver leaves its run unblocked (record_step_in_transaction,
\* clearBlocked).
THEOREM WorkflowInvHolds == Spec => []WorkflowInv
<1>1. RunInv => WorkflowInv
  BY ChainHasOneAtWork DEF RunInv, TypeInv, WorkflowInv, BlockInv, NotBlockedAtTheEnd
<1> QED BY <1>1, RunInvariant, PTL

\* When `workflow cancel` is through, every step has a result or was told to stop,
\* but for those the owner revised (cancel_run).
THEOREM CancelledRunIsQuietHolds == Spec => []CancelledRunIsQuiet
<1>1. RunInv => CancelledRunIsQuiet
  BY DEF RunInv, CancelInv, CancelledRunIsQuiet, Told
<1> QED BY <1>1, RunInvariant, PTL

\* Steps are recorded only below max_parallel, and a run that has ended keeps its
\* state, whoever still runs (record_step_in_transaction, WorkflowRunState::allows).
THEOREM RunStepsAreLegalHolds == Spec => RunStepsAreLegal
<1>1. ASSUME RunInv, [Next]_vars
      PROVE  [RecordsBelowCap]_vars /\ [(run \in Terminal) => (run' = run)]_vars
  <2>1. CASE UNCHANGED vars
    BY <2>1
  <2>2. CASE Next
    <3>1. JournalMove /\ StateMove
      BY <1>1, <2>2, EveryStepMoves DEF RunInv
    <3>2. (run \in Terminal) => (run' = run)
      BY <3>1 DEF StateMove, Active, Terminal
    <3>3. RecordsBelowCap
      <4>1. ASSUME NEW k \in Keys, Creates(k) PROVE RecordsBelowCap
        BY <4>1 DEF Creates, RecordsBelowCap, UnfinishedSteps
      <4>2. ASSUME NEW k \in Keys, Touches(k) PROVE Recorded' = Recorded
        BY <4>2 DEF Touches, Recorded
      <4>3. CASE UNCHANGED steps
        BY <4>3 DEF Recorded, RecordsBelowCap
      <4> QED BY <3>1, <4>1, <4>2, <4>3 DEF JournalMove, RecordsBelowCap
    <3> QED BY <3>2, <3>3
  <2> QED BY <1>1, <2>1, <2>2
<1> QED BY <1>1, RunInvariant, PTL DEF Spec, RunStepsAreLegal, ParallelCap, TerminalIsFinal
=============================================================================
