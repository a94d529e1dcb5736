---------------------------- MODULE AgentChannel ----------------------------
(***************************************************************************)
(* The message channel between agents (packages/agents/src/subagent/       *)
(* channel.ts): subscriptions kept in two indexes, publish, direct         *)
(* messages, dead letters for topics without subscribers, and the          *)
(* request-response pattern built from them.                               *)
(*                                                                         *)
(* Messages and subscriptions are numbered in the order in which they are  *)
(* made.  A handler is abstracted to whether it takes its subscription     *)
(* back when it is called, as the handler of request does; it may reply    *)
(* then or later.  All steps between two awaits are one step.              *)
(***************************************************************************)
EXTENDS Naturals, Sequences, FiniteSets, Sublists

CONSTANTS
  Agent,
  PublicTopic,
  MaxMessages,       \* bound: messages in a behaviour
  MaxSubscriptions,  \* bound: subscriptions in a behaviour
  MaxDeadLetters     \* the dead letters kept for a topic, 50 in the code

Message == 1..MaxMessages
\* "dm:<agent>" is named by the agent, "reply:<message>" by the message.
Topic == PublicTopic \cup Agent \cup Message

VARIABLES
  subsByTopic, \* the subscriptions of each topic, in their order
  subsByAgent, \* the numbers of the subscriptions of each agent, in their order
  made,        \* subscriptions made so far
  sent,        \* the messages sent so far
  dead,        \* deadLetterQueue
  sending,     \* the subscription that a direct message has reached, 0 when done
  request,     \* what became of the messages that are requests
  delivered,   \* who has been called with which message
  removed      \* the agents for which removeAgent was called

index == <<subsByTopic, subsByAgent, made>>
vars == <<subsByTopic, subsByAgent, made, sent, dead, sending, request, delivered, removed>>

-----------------------------------------------------------------------------
(* Subscriptions *)

Numbers(subs) == {subs[i].number : i \in 1..Len(subs)}
\* Those whose number the subscriber has: not those of request().
Subscribed == UNION {Numbers(subsByTopic[t]) : t \in PublicTopic \cup Agent}

\* The subscriptions whose number is not in S.
Unnumbered(subs, S) == Sublist(subs, {i \in DOMAIN subs : subs[i].number \notin S})

\* unsubscribe() of each of S; direct messages on their way to a topic whose
\* last subscription goes iterate over an array that is empty now.
Unsubscribed(S) ==
  /\ subsByTopic' = [t \in Topic |-> Unnumbered(subsByTopic[t], S)]
  /\ subsByAgent' = [a \in Agent |-> Without(subsByAgent[a], S)]
  /\ UNCHANGED made

SendsGoOn(subs) ==
  [m \in Message |-> IF sending[m] = 0 \/ subs[sent[m].topic] = <<>> THEN 0 ELSE sending[m]]

\* flushDeadLetter(): what the subscriber has sent itself is dropped with the rest.
DeadAfterFlush(t) == [dead EXCEPT ![t] = <<>>]

\* Mutant of Flushed: the dead letters are not delivered.
FlushedNone(a, t) == {}

\* The messages that a new subscription of a is called with.
Flushed(a, t) == {m \in Message : \E i \in 1..Len(dead[t]) : dead[t][i] = m /\ sent[m].from # a}

\* subscribe(); `once' says that the handler takes the subscription back, which
\* it cannot do for what it is called with before it knows its number.
Subscribe(a, t, once) ==
  /\ a \notin removed
  /\ made < MaxSubscriptions
  /\ made' = made + 1
  /\ subsByTopic' = [subsByTopic EXCEPT ![t] =
                       Append(@, [number |-> made + 1, agent |-> a, once |-> once])]
  /\ subsByAgent' = [subsByAgent EXCEPT ![a] = Append(@, made + 1)]
  /\ delivered' = delivered \cup ({a} \X Flushed(a, t))
  /\ dead' = DeadAfterFlush(t)
  /\ UNCHANGED <<sent, sending, request, removed>>

Unsubscribe(n) ==
  /\ n \in Subscribed
  /\ Unsubscribed({n})
  /\ sending' = SendsGoOn(subsByTopic')
  /\ UNCHANGED <<sent, dead, request, delivered, removed>>

\* The loop runs over the array from which unsubscribe() removes: it meets
\* every second subscription, and then the index forgets them all.
RemoveAgent(a) ==
  /\ LET mine == subsByAgent[a]
         met == {mine[i] : i \in {j \in 1..Len(mine) : j % 2 = 1}}
     IN /\ subsByTopic' = [t \in Topic |-> Unnumbered(subsByTopic[t], met)]
        /\ subsByAgent' = [subsByAgent EXCEPT ![a] = <<>>]
        /\ sending' = SendsGoOn(subsByTopic')
  /\ removed' = removed \cup {a}
  /\ UNCHANGED <<made, sent, dead, request, delivered>>

-----------------------------------------------------------------------------
(* Messages *)

\* Mutant of DeadWith: the dead letters are not limited.
DeadWithAll(t, m) == [dead EXCEPT ![t] = Append(@, m)]

\* addDeadLetter().
DeadWith(t, m) ==
  [dead EXCEPT ![t] = LET queue == Append(@, m)
                      IN IF Len(queue) > MaxDeadLetters THEN Tail(queue) ELSE queue]

\* The loop of publish meets the subscription at p unless the handler before it
\* has just taken its own subscription out of the array.
Met(subs, from) ==
  LET met[p \in 1..Len(subs)] ==
        p = 1 \/ ~ (met[p - 1] /\ subs[p - 1].once /\ subs[p - 1].agent # from)
  IN {p \in 1..Len(subs) : met[p] /\ subs[p].agent # from}

\* publish() up to its await.  The dead letters are for the topics without
\* subscriptions after the loop.
Publish(from, t) ==
  LET m == Len(sent) + 1
      subs == subsByTopic[t]
      called == Met(subs, from)
      over == {subs[p].number : p \in {q \in called : subs[q].once}}
  IN /\ m <= MaxMessages
     /\ sent' = Append(sent, [from |-> from, topic |-> t])
     /\ Unsubscribed(over)
     /\ delivered' = delivered \cup ({subs[p].agent : p \in called} \X {m})
     /\ dead' = IF subsByTopic'[t] = <<>> THEN DeadWith(t, m) ELSE dead
     /\ sending' = SendsGoOn(subsByTopic')
     /\ UNCHANGED removed

PublishMessage(a, t) == Publish(a, t) /\ UNCHANGED request

\* send() up to the call of the first handler.
Send(a, to) ==
  LET m == Len(sent) + 1
  IN /\ m <= MaxMessages
     /\ sent' = Append(sent, [from |-> a, topic |-> to])
     /\ IF subsByTopic[to] = <<>>
        THEN dead' = DeadWith(to, m) /\ UNCHANGED sending
        ELSE sending' = [sending EXCEPT ![m] = 1] /\ UNCHANGED dead
     /\ UNCHANGED <<index, request, delivered, removed>>

\* The next handler is called, in the array as it is now.
SendStep(m) ==
  LET subs == subsByTopic[sent[m].topic]
      sub == subs[sending[m]]
  IN /\ sending[m] # 0
     /\ IF sending[m] > Len(subs)
        THEN /\ sending' = [sending EXCEPT ![m] = 0]
             /\ UNCHANGED <<index, delivered>>
        ELSE /\ Unsubscribed(IF sub.once THEN {sub.number} ELSE {})
             /\ sending' = [SendsGoOn(subsByTopic') EXCEPT
                              ![m] = IF subsByTopic'[sent[m].topic] = <<>> THEN 0 ELSE sending[m] + 1]
             /\ delivered' = delivered \cup {<<sub.agent, m>>}
  /\ UNCHANGED <<sent, dead, request, removed>>

-----------------------------------------------------------------------------
(* Requests *)

Request(a, t) ==
  /\ Publish(a, t)
  /\ request' = [request EXCEPT ![Len(sent) + 1] = "publishing"]

\* publish() has returned: the timer is set and the reply subscribed to.  A
\* reply that was there before settles the request in subscribe(), and the
\* subscription is taken back at once.
AwaitReply(m) ==
  /\ request[m] = "publishing"
  /\ made < MaxSubscriptions
  /\ LET a == sent[m].from
         early == Flushed(a, m)
     IN /\ made' = made + 1
        /\ IF early # {}
           THEN /\ request' = [request EXCEPT ![m] = "replied"]
                /\ UNCHANGED <<subsByTopic, subsByAgent>>
           ELSE /\ request' = [request EXCEPT ![m] = "waiting"]
                /\ subsByTopic' = [subsByTopic EXCEPT ![m] =
                                     Append(@, [number |-> made + 1, agent |-> a, once |-> TRUE])]
                /\ subsByAgent' = [subsByAgent EXCEPT ![a] = Append(@, made + 1)]
        /\ delivered' = delivered \cup ({a} \X early)
        /\ dead' = DeadAfterFlush(m)
  /\ UNCHANGED <<sent, sending, removed>>

\* reply(), by an agent whose handler was called with the request; finish() is
\* the handler of the subscription, if that is still there.
Reply(a, m) ==
  /\ request[m] # "none"
  /\ <<a, m>> \in delivered
  /\ Publish(a, m)
  /\ request' = IF Met(subsByTopic[m], a) # {} THEN [request EXCEPT ![m] = "replied"] ELSE request

\* The timer fires: finish(null).
TimesOut(m) ==
  /\ request[m] = "waiting"
  /\ request' = [request EXCEPT ![m] = "timeout"]
  /\ Unsubscribed(Numbers(subsByTopic[m]))
  /\ UNCHANGED <<sent, dead, sending, delivered, removed>>

-----------------------------------------------------------------------------
Init ==
  /\ subsByTopic = [t \in Topic |-> <<>>]
  /\ subsByAgent = [a \in Agent |-> <<>>]
  /\ made = 0
  /\ sent = <<>>
  /\ dead = [t \in Topic |-> <<>>]
  /\ sending = [m \in Message |-> 0]
  /\ request = [m \in Message |-> "none"]
  /\ delivered = {}
  /\ removed = {}

Next ==
  \/ \E a \in Agent :
       \/ \E t \in PublicTopic \cup {a}, once \in BOOLEAN : Subscribe(a, t, once)
       \/ RemoveAgent(a)
       \/ \E t \in PublicTopic : PublishMessage(a, t) \/ Request(a, t)
       \/ \E to \in Agent : Send(a, to)
       \/ \E m \in Message : Reply(a, m)
  \/ \E n \in 1..MaxSubscriptions : Unsubscribe(n)
  \/ \E m \in Message : SendStep(m) \/ AwaitReply(m) \/ TimesOut(m)

Spec == Init /\ [][Next]_vars

-----------------------------------------------------------------------------
Sub == [number : 1..MaxSubscriptions, agent : Agent, once : BOOLEAN]

TypeOK ==
  /\ subsByTopic \in [Topic -> Seq(Sub)]
  /\ subsByAgent \in [Agent -> Seq(1..MaxSubscriptions)]
  /\ made \in 0..MaxSubscriptions
  /\ sent \in Seq([from : Agent, topic : Topic])
  /\ dead \in [Topic -> Seq(Message)]
  /\ \A t \in Topic : Len(dead[t]) <= MaxDeadLetters
  /\ sending \in [Message -> 0..(MaxSubscriptions + 1)]
  /\ request \in [Message -> {"none", "publishing", "waiting", "replied", "timeout"}]
  /\ delivered \subseteq Agent \X Message
  /\ removed \subseteq Agent

\* No reply is missed, whether it comes before or after the request subscribes
\* to it: a request that still waits has had none, unless its agent was removed
\* (channel.ts:204-236).
NoReplyMissed ==
  \A m \in Message :
    request[m] = "waiting" =>
      \/ sent[m].from \in removed
      \/ \A i \in 1..Len(sent) : sent[i].topic # m

\* A request that is settled leaves no subscription behind, in whatever order
\* the reply, the timer and its own subscription came (channel.ts:214-236).
SettledLeavesNothing ==
  \A m \in Message : request[m] \in {"replied", "timeout"} => subsByTopic[m] = <<>>

-----------------------------------------------------------------------------
(* What a comment says and the code does not do *)

\* "Remove all subscriptions for a given agent (cleanup on agent destroy)"
\* (channel.ts:90).
RemovedAgentsSilent ==
  \A t \in Topic : \A i \in 1..Len(subsByTopic[t]) : subsByTopic[t][i].agent \notin removed
=============================================================================
