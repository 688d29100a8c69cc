---------------------------- MODULE DebateGroup ----------------------------
(***************************************************************************)
(* A debate: workers of one owner that write to each other.                *)
(*                                                                         *)
(* `debate start` joins the running attempts of the tasks in one           *)
(* transaction and then invites each of them with a message of the owner.  *)
(* A member posts messages to the attempt that the other task joined with. *)
(* Mail reaches a worker in two ways: a blocking wait of its own returns,  *)
(* or a process beside its pane types the mail into the terminal, once.    *)
(***************************************************************************)
EXTENDS Integers, FiniteSets

CONSTANTS
  Tasks,           \* the tasks named on the command line of `debate start`
  Drafts,          \* peer messages: id -> [from, to, answers], answers an id or None
  None,
  Hosted,          \* the task whose worker lives in a pane
  Servers,         \* the processes beside that pane: session server, pane runner
  Waiting,         \* bound: the tasks whose worker may wait
  Debates          \* bound: <<incidents, peer messages>> of one behaviour

ASSUME DebateConstants ==
  /\ Hosted \in Tasks /\ Cardinality(Tasks) >= 2 /\ Waiting \subseteq Tasks
  /\ \A d \in DOMAIN Drafts :
       /\ Drafts[d].from \in Tasks /\ Drafts[d].to \in Tasks \ {Drafts[d].from}
       /\ Drafts[d].answers \in DOMAIN Drafts \cup {None}
       /\ \A t \in Tasks : d # <<"invitation", t>>      \* two tables: no id is in both
  /\ Debates \subseteq (SUBSET {"crash", "revise", "stop", "restart", "wait", "pane", "runner"})
                     \X (SUBSET DOMAIN Drafts)

VARIABLES
  debate,          \* what may happen in this behaviour
  attempt,         \* latest attempt of each task, and is it running or blocked?
  group,           \* debate_groups: none, active or stopped
  joined,          \* debate_members: the attempt each task joined with, 0: none
  starter,         \* the `debate start` command and whom it still has to invite
  sending,         \* `debate send` after authorize: the sender's attempt, 0: none
  mail,            \* peer_messages and the invitations among task_messages
  claim,           \* native_message_deliveries
  tried,           \* how often the text was handed to the terminal
  server,          \* deliver_worker_messages in the processes beside the pane
  waiter           \* the blocking wait of each worker

debateVars == <<debate, attempt, group, joined, starter, sending, mail, claim, tried, server, waiter>>

Invite(t) == <<"invitation", t>>
Invitations == {Invite(t) : t \in Tasks}
MailIds == DOMAIN Drafts \cup Invitations
Posted == DOMAIN mail
Occurs(incident) == incident \in debate[1]
Idle == [pc |-> "idle", rev |-> 0, todo |-> {}, item |-> None, outcome |-> "none"]
Nothing == [cmd |-> "none", joined |-> FALSE]

DebateInit ==
  /\ debate \in Debates
  /\ attempt = [t \in Tasks |-> [n |-> 1, live |-> TRUE]]
  /\ group = "none"
  /\ joined = [t \in Tasks |-> 0]
  /\ starter = [pc |-> "create", left |-> {}, again |-> Occurs("restart")]
  /\ sending = [d \in DOMAIN Drafts |-> 0]
  /\ mail = [i \in {} |-> Nothing]
  /\ claim = [i \in MailIds |-> "none"]
  /\ tried = [i \in MailIds |-> 0]
  /\ server = [s \in Servers |-> Idle]
  /\ waiter = [t \in Tasks |-> Nothing]

----------------------------------------------------------------------------
(* What the tables say. *)

\* active_message_attempt: the running attempt, 0 if there is none.
ActiveAttempt(t) == IF attempt[t].live THEN attempt[t].n ELSE 0
\* debate_membership, active_debate_for_task
Member(t) == group = "active" /\ attempt[t].live /\ joined[t] = attempt[t].n
\* peer_inbox of the latest attempt
Inbox(t) ==
  {i \in Posted \ Invitations :
     /\ group = "active" /\ ~mail[i].read
     /\ mail[i].to = t /\ mail[i].ta = attempt[t].n}
\* task_messages to the worker
OwnerMail(t) ==
  {i \in Posted \cap Invitations :
     ~mail[i].read /\ mail[i].to = t /\ mail[i].ta = attempt[t].n}

\* Mistake: a member is known by its task.
JoinedByTask(t, n) == joined[t] # 0 /\ attempt[t].live
\* the loop of post_peer_message_with_proof: this attempt joined, and it runs
JoinedAndRunning(t, n) == n # 0 /\ joined[t] = n /\ attempt[t] = [n |-> n, live |-> TRUE]

\* the reply names a question of the recipient to the sender
AnswersQuestion(d) ==
  LET asked == Drafts[d].answers IN
  asked # None =>
    asked \in Posted /\ mail[asked].to = Drafts[d].from /\ Drafts[asked].from = Drafts[d].to
\* Mistake: the recipient only has to run.
AnyRecipient(d, fa) ==
  /\ group = "active" /\ JoinedAndRunning(Drafts[d].from, fa)
  /\ ActiveAttempt(Drafts[d].to) # 0 /\ AnswersQuestion(d)
\* Mistake: the recipient is looked at when the sender is authorized, not here.
PostedToAnyone(d, fa) ==
  group = "active" /\ JoinedAndRunning(Drafts[d].from, fa) /\ AnswersQuestion(d)
\* post_peer_message_with_proof
Postable(d, fa) ==
  /\ group = "active" /\ JoinedAndRunning(Drafts[d].from, fa)
  /\ JoinedAndRunning(Drafts[d].to, ActiveAttempt(Drafts[d].to)) /\ AnswersQuestion(d)

----------------------------------------------------------------------------
(* The owner's commands. *)

StarterTo(pc, left) == starter' = [starter EXCEPT !.pc = pc, !.left = left]
elsewhere == <<debate, attempt, sending, claim, tried, server, waiter>>

\* Mistake: a group that exists has been announced.
TrustsTheGroup == {}
\* start_debate: a repeated request invites everybody again.
ToInvite == Tasks

\* create_debate_with_proof
Create ==
  /\ starter.pc = "create"
  /\ IF \E t \in Tasks : ~attempt[t].live
       THEN StarterTo("failed", {}) /\ UNCHANGED <<group, joined>>
     ELSE IF group = "none"
       THEN /\ group' = "active"
            /\ joined' = [t \in Tasks |-> attempt[t].n]
            /\ StarterTo("invite", Tasks)
     ELSE /\ StarterTo("invite", IF group = "stopped" THEN {} ELSE ToInvite)
          /\ UNCHANGED <<group, joined>>
  /\ UNCHANGED <<mail, elsewhere>>

\* One round of the loop of start_debate: post_message_bound replays a message
\* that says the same and refuses another one under its id.
InviteMember(t) ==
  /\ starter.pc = "invite" /\ t \in starter.left
  /\ LET n == ActiveAttempt(t)
         i == Invite(t)
     IN  IF n = 0 \/ (i \in Posted /\ mail[i].ta # n)
           THEN StarterTo("failed", {}) /\ UNCHANGED mail
           ELSE /\ StarterTo("invite", starter.left \ {t})
                /\ mail' = IF i \in Posted THEN mail
                           ELSE [x \in Posted \cup {i} |->
                                   IF x = i THEN [to |-> t, ta |-> n, fa |-> 0, read |-> FALSE]
                                            ELSE mail[x]]
  /\ UNCHANGED <<group, joined, elsewhere>>

StartReturns ==
  /\ starter.pc = "invite" /\ starter.left = {}
  /\ StarterTo("told", {})
  /\ UNCHANGED <<group, joined, mail, elsewhere>>

\* The command dies, or the owner repeats it under the same request id.
StartAgain ==
  /\ starter.again
  /\ starter.pc \in {"invite", "failed", "told"}
  /\ starter' = [pc |-> "create", left |-> {}, again |-> FALSE]
  /\ UNCHANGED <<group, joined, mail, elsewhere>>

\* stop_debate_with_proof
StopDebate ==
  /\ Occurs("stop") /\ group = "active"
  /\ group' = "stopped"
  /\ UNCHANGED <<joined, mail, starter, elsewhere>>

----------------------------------------------------------------------------
(* The workers. *)

AttemptEnds(t) ==
  /\ attempt[t].live
  /\ attempt' = [attempt EXCEPT ![t].live = FALSE]
  /\ waiter' = [waiter EXCEPT ![t] = Nothing]
  /\ UNCHANGED <<debate, group, joined, starter, sending, mail, claim, tried, server>>

Revise(t) ==
  /\ Occurs("revise") /\ ~attempt[t].live /\ attempt[t].n = 1
  /\ attempt' = [attempt EXCEPT ![t] = [n |-> 2, live |-> TRUE]]
  /\ UNCHANGED <<debate, group, joined, starter, sending, mail, claim, tried, server, waiter>>

posting == <<debate, attempt, group, joined, starter, claim, tried, server, waiter>>

\* authorize, and the look at the recipient
Authorize(d) ==
  /\ d \in debate[2] /\ sending[d] = 0
  /\ attempt[Drafts[d].from].live /\ attempt[Drafts[d].to].live
  /\ sending' = [sending EXCEPT ![d] = attempt[Drafts[d].from].n]
  /\ UNCHANGED <<mail, posting>>

\* The transaction; a repeated send finds its message.
Post(d) ==
  /\ sending[d] # 0
  /\ sending' = [sending EXCEPT ![d] = 0]
  /\ mail' = IF Postable(d, sending[d]) /\ d \notin Posted
             THEN [x \in Posted \cup {d} |->
                     IF x = d THEN [to |-> Drafts[d].to, ta |-> ActiveAttempt(Drafts[d].to),
                                    fa |-> sending[d], read |-> FALSE]
                              ELSE mail[x]]
             ELSE mail
  /\ UNCHANGED posting

\* acknowledge_peer, acknowledge_message
Ack(i) ==
  /\ i \in Posted /\ ~mail[i].read
  /\ ActiveAttempt(mail[i].to) = mail[i].ta
  /\ mail' = [mail EXCEPT ![i].read = TRUE]
  /\ UNCHANGED <<sending, posting>>

waiting == <<debate, attempt, group, joined, starter, sending, mail, claim, tried, server>>

\* DebateWait::start of `message wait`, `result --wait` and `watch`; the head of
\* the loop of `debate wait`
StartWait(t, cmd) ==
  /\ Occurs("wait") /\ t \in Waiting /\ attempt[t].live /\ waiter[t] = Nothing
  /\ waiter' = [waiter EXCEPT ![t] = [cmd |-> cmd, joined |-> Member(t)]]
  /\ UNCHANGED waiting

\* Mistake: membership is read once, when the wait begins.
HearsMembersOnly(t) ==
  CASE waiter[t].cmd = "message" -> OwnerMail(t) # {} \/ (waiter[t].joined /\ Inbox(t) # {})
    [] waiter[t].cmd = "debate"  -> Inbox(t) # {}
    [] OTHER -> FALSE
\* message_pending at every poll; the loop of `debate wait`
Hears(t) ==
  CASE waiter[t].cmd = "message" -> OwnerMail(t) # {} \/ Inbox(t) # {}
    [] waiter[t].cmd = "debate"  -> Inbox(t) # {} \/ (Member(t) /\ ~waiter[t].joined)
    [] OTHER -> FALSE

WaitReturns(t) ==
  /\ Hears(t)
  /\ waiter' = [waiter EXCEPT ![t] = Nothing]
  /\ UNCHANGED waiting

WaitTimesOut(t) ==
  /\ waiter[t] # Nothing
  /\ waiter' = [waiter EXCEPT ![t] = Nothing]
  /\ UNCHANGED waiting

----------------------------------------------------------------------------
(* Typing mail into the pane. *)

ServerTo(s, r) == server' = [server EXCEPT ![s] = r]
typing == <<debate, attempt, group, joined, starter, sending, mail, waiter>>

\* prompt_ready: the terminal shows an empty prompt, so its worker runs nothing.
PromptReady == attempt[Hosted].live /\ waiter[Hosted] = Nothing

\* input_lock of the revision; it is held while there is something to type.
LockFree(s) ==
  \A other \in Servers \ {s} :
    server[other].pc = "idle" \/ server[other].rev # attempt[Hosted].n

\* the head of deliver_worker_messages
ListMail(s) ==
  /\ server[s].pc = "idle" /\ LockFree(s) /\ PromptReady
  /\ OwnerMail(Hosted) \cup Inbox(Hosted) # {}
  /\ ServerTo(s, [Idle EXCEPT !.pc = "list", !.rev = attempt[Hosted].n,
                              !.todo = OwnerMail(Hosted) \cup Inbox(Hosted)])
  /\ UNCHANGED <<claim, tried, typing>>

\* Mistake: a claim that nobody finished is taken over.
ClaimsUnfinished(i) == claim[i] \in {"none", "sending"}
\* claim_native_delivery: INSERT OR IGNORE
Claimable(i) == claim[i] = "none"

Claim(s, i) ==
  /\ server[s].pc = "list" /\ i \in server[s].todo
  /\ IF Claimable(i)
       THEN /\ claim' = [claim EXCEPT ![i] = "sending"]
            /\ ServerTo(s, [server[s] EXCEPT !.pc = "claimed", !.item = i, !.todo = @ \ {i}])
       ELSE /\ ServerTo(s, [server[s] EXCEPT !.todo = @ \ {i}])
            /\ UNCHANGED claim
  /\ UNCHANGED <<tried, typing>>

ListEnds(s) ==
  /\ server[s].pc = "list" /\ server[s].todo = {}
  /\ ServerTo(s, Idle)
  /\ UNCHANGED <<claim, tried, typing>>

\* send_prompt.  Herdr may fail before the text (unsent) or with it (broken).
SendPrompt(s, outcome) ==
  /\ server[s].pc = "claimed"
  /\ outcome # "unsent" => PromptReady
  /\ tried[server[s].item] < 2
  /\ tried' = IF outcome = "unsent" THEN tried ELSE [tried EXCEPT ![server[s].item] = @ + 1]
  /\ ServerTo(s, [server[s] EXCEPT !.pc = "typed", !.outcome = outcome])
  /\ UNCHANGED <<claim, typing>>

\* Mistake: every error is an uncertain outcome.
EveryErrorUncertain(outcome) == IF outcome = "sent" THEN "delivered" ELSE "uncertain"
\* Mistake: an error releases the claim, whatever was typed.
EveryErrorReleases(outcome) == IF outcome = "sent" THEN "delivered" ELSE "none"
\* finish_native_delivery, release_native_delivery
ClaimAfter(outcome) ==
  CASE outcome = "sent" -> "delivered" [] outcome = "broken" -> "uncertain" [] outcome = "unsent" -> "none"

FinishDelivery(s) ==
  /\ server[s].pc = "typed"
  /\ claim' = [claim EXCEPT ![server[s].item] = ClaimAfter(server[s].outcome)]
  /\ ServerTo(s, [server[s] EXCEPT !.pc = "list", !.item = None, !.outcome = "none"])
  /\ UNCHANGED <<tried, typing>>

\* The process dies and another one takes its place; the claim stays.
Crash(s) ==
  /\ Occurs("crash") /\ server[s].pc \in {"claimed", "typed"}
  /\ ServerTo(s, Idle)
  /\ UNCHANGED <<claim, tried, typing>>

Serve(s) ==
  \/ ListMail(s) \/ ListEnds(s) \/ FinishDelivery(s)
  \/ \E i \in MailIds : Claim(s, i)
  \/ \E o \in {"sent", "broken", "unsent"} : SendPrompt(s, o)

----------------------------------------------------------------------------
\* Without a pane nobody types; the pane runner may have ended its loop.
Present(s) == Occurs("pane") /\ (Occurs("runner") \/ s = CHOOSE x \in Servers : TRUE)

Worker(t) ==
  \/ AttemptEnds(t) \/ Revise(t) \/ WaitReturns(t) \/ WaitTimesOut(t)
  \/ \E cmd \in {"message", "debate"} : StartWait(t, cmd)

DebateNext ==
  \/ Create \/ StartReturns \/ StartAgain \/ StopDebate
  \/ \E t \in Tasks : InviteMember(t) \/ Worker(t)
  \/ \E d \in DOMAIN Drafts : Authorize(d) \/ Post(d)
  \/ \E i \in MailIds : Ack(i)
  \/ \E s \in Servers : Present(s) /\ (Serve(s) \/ Crash(s))

DebateSpec == DebateInit /\ [][DebateNext]_debateVars

\* The servers poll for ever, a poll of a wait sees what is there, and Herdr
\* does not refuse every prompt of a terminal that is ready.
FairDebateSpec ==
  /\ DebateSpec
  /\ \A t \in Waiting : WF_debateVars(WaitReturns(t))
  /\ \A s \in Servers : WF_debateVars(Present(s) /\ Serve(s)) /\ SF_debateVars(Present(s) /\ SendPrompt(s, "sent"))

----------------------------------------------------------------------------
\* The values every variable may take.
DebateTypeOK ==
  /\ attempt \in [Tasks -> [n : 1..2, live : BOOLEAN]]
  /\ group \in {"none", "active", "stopped"}
  /\ joined \in [Tasks -> 0..2]
  /\ starter \in [pc : {"create", "invite", "told", "failed"}, left : SUBSET Tasks, again : BOOLEAN]
  /\ sending \in [DOMAIN Drafts -> 0..2]
  /\ mail \in [Posted -> [to : Tasks, ta : 1..2, fa : 0..2, read : BOOLEAN]] /\ Posted \subseteq MailIds
  /\ claim \in [MailIds -> {"none", "sending", "delivered", "uncertain"}]
  /\ tried \in [MailIds -> 0..2]
  /\ \A s \in Servers : server[s].pc \in {"idle", "list", "claimed", "typed"}
  /\ waiter \in [Tasks -> [cmd : {"none", "message", "debate"}, joined : BOOLEAN]]
  /\ \A t \in Tasks : joined[t] # 0 <=> group # "none"

\* Mail is handed to the terminal at most once, whichever process does it and
\* wherever one dies (claim_native_delivery, debate.rs:526).
HandedOverOnce == \A i \in MailIds : tried[i] <= 1

\* An answer goes from the attempt that was asked to the attempt that asked.
AnswersReachTheAsker ==
  \A d \in Posted \ Invitations :
    LET asked == Drafts[d].answers IN
    asked # None => mail[d].ta = mail[asked].fa /\ mail[d].fa = mail[asked].ta

\* When `debate start` returns an active group, every member has its invitation,
\* also if an earlier call under the same request id died half way.
StartInvitedAll ==
  starter.pc = "told" /\ group = "active" => Invitations \subseteq Posted

\* conversation_over of `debate status`: once no member runs, no message comes.
ConversationOver == group # "none" /\ \A t \in Tasks : ~attempt[t].live \/ attempt[t].n # joined[t]
OverIsFinal == [][ConversationOver => ConversationOver' /\ Posted' \ Invitations = Posted \ Invitations]_debateVars

\* A blocking wait does not sit on what its worker should read: mail of the
\* debate ends every wait, and a debate that starts meanwhile ends `debate wait`.
ToBeHeard(t) ==
  \/ waiter[t] # Nothing /\ Inbox(t) # {}
  \/ waiter[t].cmd = "debate" /\ ~waiter[t].joined /\ Member(t)
WaitsHear == \A t \in Waiting : ToBeHeard(t) ~> ~ToBeHeard(t)

\* No mail stays untyped for ever while the worker sits at its prompt.  Exempt
\* is mail whose claim was taken by a process that then died.
Orphaned(i) == claim[i] = "sending" /\ \A s \in Servers : server[s].item # i
Neglected(i) ==
  /\ Occurs("pane") /\ i \in OwnerMail(Hosted) \cup Inbox(Hosted)
  /\ PromptReady /\ tried[i] = 0 /\ ~Orphaned(i)
MailIsTyped == []<>(\A i \in MailIds : ~Neglected(i))

\* Every invitation is sent, and nothing is handed to a terminal twice.
DebateInv == DebateTypeOK /\ HandedOverOnce /\ StartInvitedAll

\* Mail ends: it is heard and typed, and it stops when the last member does.
DebateIsHeard == WaitsHear /\ MailIsTyped /\ OverIsFinal
=============================================================================
