------------------------------ MODULE Services ------------------------------
(***************************************************************************)
(* Parts that serve several callers at a time: the spawner of the          *)
(* subagents, the channel between the agents, the edit-review gate of the  *)
(* desktop, the directory of its runs, the provider fallback, the server   *)
(* for mobile devices, the workflow engine, the scheduler of recurring     *)
(* tasks, and the asks and gates of the mailbox.  They share no state: a   *)
(* behaviour runs one of them and leaves the others at rest.               *)
(***************************************************************************)
EXTENDS Naturals, Sequences, FiniteSets, Sublists

CONSTANTS
  Caller, MaxRequests, MaxConcurrency, MaxHistory, SpawnerMayThrow,
  Agent, PublicTopic, MaxMessages, MaxSubscriptions, MaxDeadLetters,
  Run, NoRun, File, MaxWrites, KeepRuns,
  Saver, SavedRun, MaxKept, MaxSaves,
  Model, Chain, None, SessionLimit, DayLimit, MaxCost,
  Device, NoDevice, Command, MaxSockets, MaxPairs, MaxMisses,
  Graphs, MaxAttempts, Timed, Conditional, WorkflowMayThrow,
  Task, MaxIterations, MaxRuns,
  Waiter, Decision, NoDecision

ASSUME SpawnerBounds ==
  MaxRequests \in Nat /\ MaxConcurrency \in Nat \ {0} /\ MaxHistory \in Nat

\* The three kinds of topics have different names.
ASSUME ChannelBounds ==
  /\ MaxMessages \in Nat /\ MaxSubscriptions \in Nat /\ MaxDeadLetters \in Nat \ {0}
  /\ PublicTopic \cap Agent = {}
  /\ (PublicTopic \cup Agent) \cap (1..MaxMessages) = {}

ASSUME ReviewBounds ==
  NoRun \notin Run /\ File # {} /\ MaxWrites \in Nat \ {0} /\ KeepRuns \in Nat

ASSUME DirectoryBounds ==
  /\ IsFiniteSet(SavedRun) /\ SavedRun # {}
  /\ MaxKept \in Nat \ {0} /\ MaxSaves \in Nat

ASSUME FallbackBounds ==
  /\ IsFiniteSet(Caller) /\ Chain \in Seq(Model)
  /\ SessionLimit \in Nat \ {0} /\ DayLimit \in Nat \ {0} /\ MaxCost \in Nat

ASSUME ServerBounds ==
  /\ NoDevice \notin Device
  /\ MaxSockets \in Nat /\ MaxPairs \in Nat /\ MaxMisses \in Nat \ {0}

\* A graph lists the steps that each of its steps depends on.
ASSUME WorkflowBounds ==
  /\ Graphs # {} /\ \A graph \in Graphs : graph \in Seq(Seq(DOMAIN graph))
  /\ MaxAttempts \in Nat \ {0}

ASSUME CronBounds == MaxIterations \in Nat /\ MaxRuns \in Nat

ASSUME DecisionBounds == NoDecision \notin Decision

VARIABLES
  which,  \* the component that runs
  asked, queue, running, signalled, agents, state, task, outcome, caller, planned,
  subsByTopic, subsByAgent, made, sent, dead, sending, request, delivered, removed,
  active, run, mode, globalMode, previous, tool, edit, pending, agreed, disk, writes,
  copy, marker, order, wrote,
  file, saves, own, stamp, step, names, times, old, last, overtaken,
  sessionCost, dayCost, failures, unhealthy, at, chain,
  listening, closing, code, refresh, opened, owner, room, devices, paired, secrets,
  token, approving, listed, approval,
  dependsOn, goOn, pc, next, stack, executed, aborted, failed, results, calls, rolledBack,
  ending,
  started, tasks, live,
  ask, elapsed, asking, told, accepted, gate, waiting, overdue, passed

Spawner == INSTANCE SubagentSpawner WITH MayThrow <- SpawnerMayThrow
Channel == INSTANCE AgentChannel
Review == INSTANCE EditReview
Directory == INSTANCE RunDirectory WITH Run <- SavedRun, MaxRuns <- MaxKept
Fallback == INSTANCE FallbackManager
Server == INSTANCE CommunicationServer
Workflow == INSTANCE WorkflowEngine
  WITH MayThrow <- WorkflowMayThrow, running <- calls, outcome <- ending
Cron == INSTANCE CronScheduler
Decisions == INSTANCE MailboxDecisions WITH Answer <- Decision, None <- NoDecision, outcome <- told

spawnerVars == <<asked, queue, running, signalled, agents, state, task, outcome, caller, planned>>
channelVars == <<subsByTopic, subsByAgent, made, sent, dead, sending, request, delivered,
                 removed>>
reviewVars == <<active, run, mode, globalMode, previous, tool, edit, pending, agreed, disk,
                writes, copy, marker, order, wrote>>
directoryVars == <<file, saves, own, stamp, step, names, times, old, last, overtaken>>
fallbackVars == <<sessionCost, dayCost, failures, unhealthy, at, chain>>
serverVars == <<listening, closing, code, refresh, opened, owner, room, devices, paired,
                secrets, token, approving, listed, approval>>
workflowVars == <<dependsOn, goOn, pc, next, stack, executed, aborted, failed, results,
                  calls, rolledBack, ending>>
cronVars == <<started, tasks, live>>
decisionVars == <<ask, elapsed, asking, told, accepted, gate, waiting, overdue, passed>>
vars == <<which, spawnerVars, channelVars, reviewVars, directoryVars, fallbackVars,
          serverVars, workflowVars, cronVars, decisionVars>>

Init ==
  /\ which \in {"spawner", "channel", "review", "directory", "fallback", "server",
               "workflow", "cron", "decisions"}
  /\ Spawner!Init
  /\ Channel!Init
  /\ Review!Init
  /\ Directory!Init
  /\ Fallback!Init
  /\ Server!Init
  /\ Workflow!Init
  /\ Cron!Init
  /\ Decisions!Init
  /\ which # "review" => disk = [f \in File |-> 1]
  /\ which # "workflow" => goOn /\ dependsOn = CHOOSE graph \in Graphs : TRUE

\* Only the component that runs changes its variables.
Runs(component, action, itsVars) ==
  IF which = component THEN action ELSE UNCHANGED itsVars

Next ==
  /\ UNCHANGED which
  /\ Runs("spawner", Spawner!Next, spawnerVars)
  /\ Runs("channel", Channel!Next, channelVars)
  /\ Runs("review", Review!Next, reviewVars)
  /\ Runs("directory", Directory!Next, directoryVars)
  /\ Runs("fallback", Fallback!Next, fallbackVars)
  /\ Runs("server", Server!Next, serverVars)
  /\ Runs("workflow", Workflow!Next, workflowVars)
  /\ Runs("cron", Cron!Next, cronVars)
  /\ Runs("decisions", Decisions!Next, decisionVars)

Spec == Init /\ [][Next]_vars

-----------------------------------------------------------------------------
(* What the modules claim *)

TypeOK ==
  /\ Spawner!TypeOK
  /\ Channel!TypeOK
  /\ Review!TypeOK
  /\ Directory!TypeOK
  /\ Fallback!TypeOK
  /\ Server!TypeOK
  /\ Workflow!TypeOK
  /\ Cron!TypeOK
  /\ Decisions!TypeOK

\* SubagentSpawner: slots are given in the order of the requests.
ServedInOrder == Spawner!ServedInOrder

\* SubagentSpawner: the manager and the history keep what runs, what a caller was told of a
\* task that ended in time agrees with its record, and afterwards a record can only change
\* from running to failed.
RecordsAgree ==
  [](Spawner!AgentsAreRunning /\ Spawner!RecordAgrees) /\ Spawner!LateAnswersFail

\* AgentChannel: no reply is missed, whenever it comes, and a request that is settled
\* leaves no subscription behind.
RepliesReachRequests == Channel!NoReplyMissed /\ Channel!SettledLeavesNothing

\* EditReview: what is written is an edit that was accepted.
EditsAreAccepted == Review!EditsAreAccepted

\* EditReview: the permission mode is that of the run which is active.
ModeOfActiveRun == Review!ModeOfActiveRun

\* RunDirectory: of the runs the most recent are kept, however prunes overlap.
RecentKept == Directory!RecentKept

\* FallbackManager: the budget is overrun by no more than the calls under way.
OverrunBounded == Fallback!OverrunBounded

\* CommunicationServer: a device that is shown as connected hears the broadcasts.
ConnectedCanHear == Server!ConnectedCanHear

\* WorkflowEngine: no step runs before what it depends on, and success means all is done.
StepsInOrder == Workflow!StepsInOrder

\* CronScheduler: the timers that run are those of the active interval tasks.
TimersMatchTasks == Cron!TimersMatchTasks

\* MailboxDecisions: whoever waits for a question or a gate learns its one result.
OneResult == Decisions!OneOutcome /\ Decisions!OneResolution
=============================================================================
