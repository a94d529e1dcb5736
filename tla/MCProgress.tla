----------------------------- MODULE MCProgress -----------------------------
(***************************************************************************)
(* Progress of the durable run, the mailbox, its decisions and the         *)
(* spawner: a small instance of each, of which a behaviour runs one and    *)
(* leaves the others at rest.                                              *)
(***************************************************************************)
EXTENDS Naturals, Sequences

CONSTANTS Agent, Answer, None

VARIABLES
  which,  \* the component that runs
  pc, mem, saving, aborted, journal, issued, effects, grants,
  sent, rows, status, age, seqCounters, handling, toAck, given, handled, failures,
  ask, elapsed, asking, outcome, accepted, gate, waiting, overdue, passed,
  asked, queue, running, signalled, agents, state, task, result, caller, planned

Durable == INSTANCE DurableRun
  WITH MaxActions <- 2, MaxCalls <- 2, MaxIterations <- 2, ArrayLimit <- 3
Mailbox == INSTANCE Mailbox
  WITH MaxMessages <- 2, MaxInbox <- 1, Visibility <- 0, MaxFailures <- 1
Decisions == INSTANCE MailboxDecisions WITH Waiter <- Agent
Spawner == INSTANCE SubagentSpawner
  WITH Caller <- Agent, MaxRequests <- 3, MaxConcurrency <- 1, MaxHistory <- 1,
       MayThrow <- {"onError"}, outcome <- result

agentVars == <<pc, mem, saving, aborted, journal, issued, effects, grants>>
mailboxVars == <<sent, rows, status, age, seqCounters, handling, toAck, given, handled, failures>>
decisionVars == <<ask, elapsed, asking, outcome, accepted, gate, waiting, overdue, passed>>
spawnerVars == <<asked, queue, running, signalled, agents, state, task, result, caller, planned>>
vars == <<which, agentVars, mailboxVars, decisionVars, spawnerVars>>

Init ==
  /\ which \in {"durable", "mailbox", "decisions", "spawner"}
  /\ Durable!Init
  /\ Mailbox!Init
  /\ Decisions!Init
  /\ Spawner!Init

Next ==
  /\ UNCHANGED which
  /\ \/ /\ which = "durable" /\ Durable!Next
        /\ UNCHANGED <<mailboxVars, decisionVars, spawnerVars>>
     \/ /\ which = "mailbox" /\ Mailbox!Next
        /\ UNCHANGED <<agentVars, decisionVars, spawnerVars>>
     \/ /\ which = "decisions" /\ Decisions!Next
        /\ UNCHANGED <<agentVars, mailboxVars, spawnerVars>>
     \/ /\ which = "spawner" /\ Spawner!Next
        /\ UNCHANGED <<agentVars, mailboxVars, decisionVars>>

\* The fairness that each module states, for the component that runs.
Runs(component, action) == which = component /\ action

Fairness ==
  /\ \A i \in Agent :
       /\ WF_agentVars(Runs("durable", Durable!AgentRuns(i)))
       /\ WF_agentVars(Runs("durable", Durable!ToolReturns(i)))
       /\ WF_agentVars(Runs("durable", Durable!ModelFails(i) \/ Durable!ModelAnswers(i)))
  /\ WF_mailboxVars(Runs("mailbox", Mailbox!Tick))
  /\ \A a \in Agent : WF_mailboxVars(Runs("mailbox", Mailbox!Check(a)))
  /\ \A m \in 1..2 :
       /\ WF_mailboxVars(Runs("mailbox", m \in Mailbox!Known /\ Mailbox!Handle(m)))
       /\ WF_mailboxVars(Runs("mailbox", m \in Mailbox!Known /\ Mailbox!Ack(m)))
  /\ WF_decisionVars(Runs("decisions", Decisions!Elapse))
  /\ \A w \in Agent :
       /\ WF_decisionVars(Runs("decisions", Decisions!PollAsk(w)))
       /\ WF_decisionVars(Runs("decisions", Decisions!ExpireAsk(w)))
       /\ WF_decisionVars(Runs("decisions", Decisions!RereadAsk(w)))
       /\ WF_decisionVars(Runs("decisions", Decisions!PollGate(w)))
       /\ WF_decisionVars(Runs("decisions", Decisions!Overdue(w)))
  /\ \A r \in 1..3 :
       /\ WF_spawnerVars(Runs("spawner", Spawner!TimesOut(r)))
       /\ WF_spawnerVars(Runs("spawner", Spawner!GivesUp(r)))
  /\ \A c \in Agent :
       /\ WF_spawnerVars(Runs("spawner", Spawner!BatchRejected(c)))
       /\ WF_spawnerVars(Runs("spawner", Spawner!BatchResolved(c)))

Spec == Init /\ [][Next]_vars /\ Fairness

-----------------------------------------------------------------------------
\* Whoever waits for a question or a gate goes on in the end (MailboxDecisions).
WaitersEnd == Decisions!WaitersEnd

\* An invocation that has started ends (DurableRun).
RunEnds == Durable!RunEnds

\* Every message is handled (Mailbox).
EventuallyHandled == Mailbox!EventuallyHandled

\* Every caller of the spawner gets its results or an error (SubagentSpawner).
CallersReturn == Spawner!CallersReturn
=============================================================================
