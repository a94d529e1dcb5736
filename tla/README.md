# Formal models of GHITA's agent runtime

GHITA is a TypeScript monorepo: a desktop sidecar hosts AI coding agents, a set
of packages gives them models, tools, memory and communication, and Rust crates
speed up pure functions. This directory holds TLA+ modules of the parts whose
correctness depends on the order of steps, TLC configurations that check them on
small instances, and TLAPS proofs of what matters most.

All source paths below are relative to the repository root (`src/` in
`PROJECT.json`).

## 1. Inventory

| Part | State it keeps | Operations | Interacts with | What is hard |
|---|---|---|---|---|
| Durable ReAct loop `packages/agents/src/react/agent.ts` | steps, messages, pendingActions, nextIteration, output | `run`/`runDurable`: load, model call, tool calls, retry, stop condition, limit, abort | journal (through `config.checkpoint`), model, tools, policy, hooks | crash between a side effect and its record; failing writes; resumes; abort read before awaits |
| Run journal `apps/desktop/src-tauri/sidecar/run-journal.mjs` | one JSON file per run | `save`, `load`, `list`, `markStatus`, `prune` | loop, `agent_run` handler | non-atomic load/save; truncation; prune against other saves |
| `agent_run` handler and edit review, `sidecar/server.mjs` | `activeAgentRun`, permission modes, proposals, copies of edited files | admit, resume, race with the timeout, mark, finalize; propose, answer, save the original, write | loop, journal, sockets, file tools | state read before an await; a lost race does not stop the loser; an answer against a timer and the end of the run |
| Mailbox `packages/agents/src/mailbox/store.ts` | SQLite tables of messages, decisions, gates; per-sender counters | `send`, `check`, `ack`, `reply`, `ask`, `awaitAsk`, gates, `purgeAcked` | agents in one process and over restarts | redelivery after 60 s, counters rebuilt at restart, caps, timeouts racing answers |
| Subagent spawner `packages/agents/src/subagent/spawner.ts`, agent manager `packages/agents/src/index.ts` | runningIds, queue, histories, tasks | `spawn`, `spawnParallel`, `spawnSequence`, `cancel`, `assignTask` | runtimes of the agents, callbacks | slots, timeouts racing completions, throwing callbacks |
| Agent channel `subagent/channel.ts` | two indexes of subscriptions, dead letters, pending requests | `subscribe`, `publish`, `send`, `request`, `reply`, `removeAgent` | subagents | dead letters against late subscribers, iteration while removing |
| Advanced workflow engine `workflow/workflow-advanced.ts` | executed, in progress, results, rollbacks | run, retry, time out, skip, roll back, abort | steps and callbacks given by the caller | a step is reached by several ways; abandoned calls; throwing callbacks |
| Cron scheduler `scheduler/cron.ts` | tasks with timers and counts | start, stop, add, complete, remove, tick | tasks given by the caller | a handle that outlives its timer |
| WebSocket multiplexer `packages/communication/src/ws/` | socket, state, buffer, reconnect strategy, heartbeat | `connect`, `disconnect`, `send`, reconnect | server | events of sockets that were given up, timers, a bounded buffer |
| Pairing and gateway server `communication/src/{server,pairing}.ts` | devices, secrets in a file, pairing code with lockout, approvals | start, stop, pair, resume, approve | mobile app, desktop | a device on a second socket, a code that runs out, approvals when the server stops |
| MCP connections `packages/ai-engine/src/mcp/` | entries, processes, requests, timers | `connect`, `disconnect`, health check, reconnect | tool servers | exits reported late, entries replaced, two processes of one transport |
| Provider fallback `ai-engine/src/gateway/fallbackManager.ts` | costs, failure counts, unhealthy models | `executeWithFailover` | providers | a budget read before an await and written after it |
| Load balancer, state sync, human input, lifecycle, fan-out, other workflow engines | statistics, records, phases | one call at a time | | counters and records that disagree with the calls |
| Middleware, hooks, checkers, skills, memory, security, code graph, AI providers, product and incubating packages, front ends, Rust crates | registries, caches, indexes | | | pure functions, rule tables, I/O or user interface |

What makes each part correct:

* **Loop and journal**: every side effect that may have happened is recorded as
  pending or with its observation; none is repeated without confirmation; no
  observation is lost, duplicated or reordered; a run recorded as ended has
  answered every call; every invocation ends; of the files in the journal the
  most recent are kept.
* **Handler**: one handler is in its run; it is released whatever hangs; the
  limit is respected over resumes; only accepted edits are written, under the
  permission mode of the run that is active.
* **Mailbox**: a message is handled at least once, never lost before that, and
  given in the order in which its sender sent it; a question has one outcome, a
  gate one resolution.
* **Spawner**: never more than the allowed number of active subagents, in the
  order of the requests; what is recorded agrees with what the caller was told,
  except of a timeout, after which a record can only become a failure; every
  caller returns.
* **Channel**: a reply reaches its request whenever it comes; a removed agent
  hears nothing.
* **Workflow**: a step runs after what it depends on; success means all is done.
* **Scheduler**: a timer runs exactly for each active interval task.
* **Connections**: what is reported as connected is watched; what is lost is
  opened again, or reported; messages keep their order and answers their process.
* **Server**: a device that is shown as connected hears the broadcasts.
* **Fallback**: the budget is overrun by no more than the calls under way.

## 2. Modules

| Module | What it is | Extends or instantiates |
|---|---|---|
| `ReActAgent` | the steps of one invocation of `runDurable` and of `AgentRunJournal.save` | |
| `DurableRun` | invocations of one run under a host that awaits them; aborts, crashes, resumes; the inductive invariant | `ReActAgent`, `ReplayPromise` |
| `ReplayPromise` | abstract: calls are asked for, tried, confirmed, observed | |
| `AgentSidecar` | the `agent_run` handler around the same loop: guard, timeout, marks | `ReActAgent` |
| `RunDirectory` | the files of several runs: saves and prunes that overlap | |
| `EditReview` | proposals, answers, timers, copies, permission modes | |
| `Mailbox` | messages, deliveries, counters, consumers | `AtLeastOnce` |
| `AtLeastOnce` | abstract: a message waits until it is settled, is settled only after it was given | |
| `MailboxDecisions` | one question and one gate with several callers | |
| `SubagentSpawner` | slots, queue, timeouts, histories, the agent manager, callers that spawn one, in sequence or in batches | |
| `AgentChannel` | subscriptions, publish, dead letters, requests and replies | |
| `WorkflowEngine` | one run of an advanced workflow | |
| `CronScheduler` | tasks and their timers | |
| `WsMultiplexer` | one multiplexed connection over its sockets | |
| `McpConnections` | one name in the pool of MCP servers, with its processes | |
| `CommunicationServer` | the server for mobile devices with its pairing code | |
| `FallbackManager` | chain of models, circuit breaker, budget | |
| `Sublists` | `Array.prototype.filter` without recursion, so that it can be proved about | |
| `Services` | nine components that serve several callers, one of which runs in a behaviour, with the assumptions on their constants | `INSTANCE` of each |
| `Connections` | the multiplexer and the pool of MCP servers, in the same way | `INSTANCE` of both |
| `ReActAgentProofs` | lemmas about the steps of one invocation | `ReActAgent`, `TLAPS` |
| `DurableRunProofs`, `DurableJournalProofs` | theorems about `DurableRun` | `DurableRun`, `ReActAgentProofs` |
| `AgentSidecarProofs` | theorems about `AgentSidecar` | `AgentSidecar`, `ReActAgentProofs` |
| `MailboxProofs` | theorems about `Mailbox` | `Mailbox`, `TLAPS` |
| `ServicesProofs`, `ServicesOrderProofs` | theorems about the components of `Services` | `Services`, `TLAPS` |
| `ConnectionsProofs` | theorems about the components of `Connections` | `Connections`, `TLAPS` |
| `MCDurableRun`, `MCAgentSidecar`, `MCMailbox` | symmetry sets | the module of that name |
| `MCEditReview`, `MCAgentChannel`, `MCCommunicationServer` | instances that show a divergence | the module of that name |
| `MCServices`, `MCConnections` | the values of the constants | the module of that name |
| `MCProgress` | four components, one of which runs in a behaviour | `INSTANCE` of each |

`Services`, `Connections` and `MCProgress` put small components together: the
first state chooses one (`which`), and the others stay in their initial state.
Their properties are those of the modules, of the instance they name; nothing is
shared between the components, so that a behaviour is one of the chosen component.

### 2.1 `ReActAgent`: the loop and its journal

An invocation is a member of `Agent`. Its program counter names the `await` it
is suspended at; everything between two awaits is one step.

| State | Code |
|---|---|
| `pc[i]` | the await: `loop` (top of the `for`), `model` (`llmCall`), `answer`, `tools` (head of the `while` of `executePendingActions`), `gate` (policy, hooks, middleware), `executing` (`tool.execute`), `saving`/`renamed` (inside `persist`), `limit` |
| `mem[i]` | `nextIteration`, `maxIterations`, `pendingActions`, `steps`, whether `output` is set, and whether the loop has been entered |
| `saving[i]` | the checkpoint object handed to `save`, and where the invocation continues |
| `journal` | the content of `<runId>.json`, after `sanitizeValue` |
| `effects`, `grants` | history: starts of `tool.execute`, confirmations by `resumePendingTools` |

`Persist` builds the checkpoint at once (as `persist` does) and then writes it in
two steps: `Rename` makes it visible, `Saved` resolves the promise. Between them
the process may stop, and `SaveFails` covers a rejected write as well as a
`prune` or a callback that throws after the rename. A tool call is its number;
arguments, results and message texts are abstracted, because no property tells
them apart. `ArrayLimit` is the number of entries `sanitizeValue` keeps of an
array (200, or 50 in a large checkpoint), as a parameter.

`DurableRun` adds who starts invocations: one at a time, fresh when there is no
journal, from the journal otherwise, with or without confirmation; `Abort` sets
the signal at any point; `Crash` loses memory and keeps the file.

### 2.2 `AgentSidecar`: the handler

`handler[i]` is where the handler of request `i` is suspended: `loaded` (after
`await journal.load`), `setup`, `racing` (`Promise.race`), `marking` and
`writing` (the two halves of `markStatus`). `Timeout` ends the race while
`pc[i]` goes on: the old invocation, the mark and a resumed invocation then work
on the same journal. The handler's status decisions, the swallowed failures of
`markStatus`, the raised limit of an exhausted run, and the guard that is read
before and after the load are all there. Reading `activeAgentRun` and setting it
happen without an await between, so they are one step (`Admit`).

### 2.3 `Mailbox` and `MailboxDecisions`

`better-sqlite3` is synchronous, so within one process each method is one step;
`purgeAcked`, whose two statements are not in a transaction, may also be cut in
two by the end of the process (`PurgeInterrupted`). `rows` and `status` are the
two tables, `seqCounters` the map in memory that `Reopen` rebuilds from the rows
that are left. Time is relative: `age[m]` counts ticks since `last_delivered_at`
and saturates one tick past the visibility timeout, which is all that `check`
compares. The consumer is external: it takes what `check` returns, handles it
and acknowledges it (`Handle`, `Ack`) in any order and after any delay, or dies.

`awaitAsk` and `awaitGate` poll, and other processes may use the same file:
there each SQL statement is a step. `PollAsk` reads, `ExpireAsk` updates
`WHERE answered = 0`, `RereadAsk` reads what it returns.

### 2.4 `EditReview` and `RunDirectory`: the rest of the sidecar

`tool[r]` is where the edit tool of run `r` is suspended: it asks for approval,
reads the original, waits for the answer to its proposal, saves the original and
writes. `pending` is `pendingEditProposals`; `Answer`, `ProposalTimesOut` and
`EndRun` (whose `Drained` rejects what is left) settle the same promise. A run
whose `agent_run` timed out is over while its tool goes on, so the tool of one
run meets the mode, the proposals and the copies of the next. `mode`,
`globalMode` and `previous` are the permission mode of a run, the global one and
what each handler restores. Content is the number of the write that made it.

`RunDirectory` has one file per run and nothing of its contents. `Write`,
`SaveFails`, `Rename`, `ReadDirectory`, `Stat`, `StatThrows` and `Remove` are the
awaits of `save` and `prune`, for two savers that overlap. A file has the time at
which its temporary was written (`stamp`), which the rename keeps: the order of the
times need not be that of the renames. Two writes never have the same time, that
is, no two fall into one tick of the clock of the file system.

### 2.5 `SubagentSpawner` and `AgentChannel`

`running`, `queue` and `state` are `runningIds`, the queue and the history of the
spawner; `agents` and `task` belong to `AgentManager`. The timer first aborts the
signal (`TimesOut`, `signalled`); after some awaits the spawner notices that the race
was lost and removes the agent (`GivesUp`). A runtime answers in time (`Answers`),
between the two (`AnswersSignal`, which is recorded like an answer in time), after
both (`AnswersLate`) or not at all; whichever way a subagent ends, the same step gives
its slot back, drains the queue and trims the history, as the code does without an
await between. The
callbacks in `MayThrow` may throw. `caller` is a call of `spawn`,
`spawnSequence` or `spawnParallel` that waits for its batch.

In `AgentChannel` the two indexes of subscriptions are two variables, since
`removeAgent` makes them disagree. `Publish` delivers to the subscribers of a
topic in one step (handlers are called without an await); `Send` awaits each
handler, and `SendStep` goes on with the array as it is by then. A request is
`publishing` until `publish` has returned, and only then subscribes to its reply
(`AwaitReply`): the reply may have become a dead letter, which the subscription
flushes.

### 2.6 `WorkflowEngine` and `CronScheduler`

`stack` is the recursion of `tryStep`: the steps in progress, each with the
dependency it is at and its attempts. `pc` says what is awaited or called next,
so that every callback that may throw and every await at which `Abort` may come
is a state of its own. A timeout abandons a call of `execute` and does not end it
(`TimesOut`, `AbandonedEnds`). `Caught` is the `catch` of the loop over the list,
with the rollback.

`CronScheduler` keeps a task as the code does, with its handle: none, a timer
that runs, or one that was cleared. `live` counts the timers that really run,
which is what a stale or forgotten handle would change. `TimerFires` and `Tick`
run tasks, and the limit completes them.

### 2.7 `WsMultiplexer` and `McpConnections`

The multiplexer never takes its handlers off a socket, so a socket that was given
up still speaks for the connection: `Opens`, `Closes` and `ConnectTimeout` are
for any socket, `ws` is only the last one made. `timer`, `resets`, `timeouts` and
`heartbeat` are the timers; `leaked` is a heartbeat whose handle was
overwritten. A socket is made when the module `ws` has been imported (`loading`),
which takes time once; after that an attempt waits for nothing but the promises that
are ready.

`emit` calls the listeners of the user in the middle of a handler, so that `open`,
`close` and `disconnect` are two actions each: `Opens` and `Opened`, `Closes` and
`Closed`, `Disconnect` and `Disconnected`. `rest` has the handlers whose listeners
run, the innermost first; meanwhile `Connect`, `Disconnect`, `Channel` and `Send` are
what the listeners do, and no event of a socket or timer is handled (`Quiet`). A
message that a listener of `connected` sends is handed to the socket before the
buffer is flushed (`early`). Left out are a `heartbeatInterval` that is not
positive, with which there is no heartbeat, and `reconnect.enabled` false, with
which nothing is opened again.

In `McpConnections` an entry that was replaced is still there for whoever holds
it (a health check, a reconnect that sleeps, a call). `Exits` is the exit of a
process, some time after it was killed, and acts on the transport it belongs
to, whatever process that has by then. `Line` is a line of a process that is
read: it is matched to a request by its id alone. The interval of the health
checks is positive; otherwise there are none.

### 2.8 `CommunicationServer` and `FallbackManager`

`devices` is `connectedDevices`, `room` the sockets that hear broadcasts, `paired`
and `secrets` the file of the paired devices, `token` what the app kept. A device
may open a socket before its last one is known to be lost. `code` and `refresh`
are the pairing code with its lockout and the timer that renews it. `Stop` closes
the sockets and waits (`closing`) while `Start` may come again. `listed` and
`approval` tell a command that is still in `pendingApprovals` from one that still
waits.

`FallbackManager` reads the budget when a call begins and writes it when a model
has answered; `Fails` counts towards the breaker, `Rested` ends its pause,
`Midnight` and `Restart` reset one of the two totals.

## 3. What is checked

| Run | Instance | States, time with 2 workers | Shows |
|---|---|---|---|
| `durable` | 3 invocations, 3 calls, 2 per answer, limit 2, arrays of 3 | 429 066, 21 s | the safety of the journal, and that `DurableRun` implements `ReplayPromise` |
| `sidecar` | 2 invocations, 1 call, limit 2, a journal that an earlier process may have left | 1 159 404, 3 min | `NoUnconfirmedRepeat` and `WithinLimit` with overlapping invocations, `OneHandlerInRun`, `ActiveReleased` |
| `mailbox` | 2 agents, 3 messages, cap 1, visibility 0, 1 failure | 1 315 897, 2 min 40 s | nothing lost, nothing orphaned, order per sender, `AtLeastOnce` implemented |
| `progress` | durable run (2 invocations, 2 calls), mailbox (2 messages), decisions (2 callers), spawner (3 requests, 1 slot) | 126 948, 2 min | every invocation, message, waiter and caller gets to its end |
| `services` | see 3.2 | 1 381 852, 3 min | the safety of nine parts that serve several callers |
| `connections` | 3 sockets, no limit of attempts, buffer 1, 2 sends, 3 calls; 2 entries, 2 processes, 3 requests, 1 reconnect | 363 301, 1 min 45 s | what is connected is watched, order is kept but for what listeners send, answers come from their process, what is lost is opened again or reported |
| `durable_truncated`, `sidecar_journal`, `channel_removed`, `edit_copies`, `edit_stale`, `approvals_dropped` | small | | section 5 |

### 3.1 Properties

Durable run, sidecar, journal:

* `NoUnconfirmedRepeat`: over any number of crashes, aborts, failed writes and
  resumes, `tool.execute` is started at most once more than a replay was
  confirmed.
* `JournalKnowsEffects`: a call that may have had its effect is in the journal,
  pending or observed. It needs arrays that are never cut (`ArrayLimit >= MaxActions`)
  and invocations that do not overlap; two of the violations below show that
  neither can be dropped.
* `JournalHasNoDuplicates`, `EndedRunsHaveNothingPending`, `ObservationsKept`:
  what a resume reads is consistent, and no later save takes an observation back.
* `ImplementsPromise` (`DurableRun`): the journal, read as two sets, and the
  history implement `ReplayPromise`.
* `RunEnds`: every invocation ends, retries included.
* `OneHandlerInRun`, `WithinLimit`, `ActiveReleased`: the guard that is read
  before and after the load admits one handler; the limit is kept over resumes,
  exhaustions and marks; an admitted run is given up whatever hangs.
* `EditsAreAccepted`, `ModeOfActiveRun`: a run that is not in mode `auto` writes
  only what the user accepted; the global permission mode is that of the active
  run, although the tool of an earlier run switches it.
* `RecentKept`: a run stays in the journal while fewer than `maxRuns - 1` others
  were written after it, however saves and prunes overlap. It says "written", not
  "renamed": a save that waits between the two appears as an older run than those
  that were written meanwhile, and a prune can remove it at once. The exceptions
  are a run that is renamed after a prune has read its older time, since
  `unlink` does not look again, and one whose file an older save has replaced.

Mailbox:

* `NeverLost`: a message nobody handled is stored, waiting or in flight.
* `NoOrphans`: a delivery has its message; a message without a delivery is the
  remainder of an interrupted purge, and already handled.
* `GivenInOrder`: first deliveries follow the order of sending, per sender and
  recipient. It survives the restart of the counters because a number is reused
  only when every message that carried it is gone, hence was given.
* `ImplementsPromise` (`Mailbox`): a message is settled only after it was given,
  and is never given afterwards.
* `EventuallyHandled`: every message is handled.
* `OneResult`: whoever returns from `awaitAsk` has the row that never changes
  again, in agreement with what `answerAsk` told the answerers; a gate has one
  resolution. `WaitersEnd`: waiting ends.

Spawner, channel, workflow, scheduler:

* `ServedInOrder`: slots are given in the order of the calls, none is free while
  a request waits, and no more than `maxConcurrency` are taken.
* `RecordsAgree`: the manager knows exactly the agents that run, the history
  drops none of those; a success is recorded as one, and a completed task is
  reported as failed only when `onComplete` throws. Of a timeout it claims nothing:
  a runtime that returns on the signal is recorded as completed. And once a caller
  was told anything, the record of its task can only change from running to failed.
* `CallersReturn`: every caller of the spawner gets its results or an error,
  although no runtime answers.
* `RepliesReachRequests`: a request that still waits has had no reply (or its
  agent was removed), and one that is settled leaves no subscription behind.
* `StepsInOrder`: a step executes only when what it depends on is done; what is
  done is not executed again; success means that every step is done and none was
  rolled back.
* `TimersMatchTasks`: no timer for a task that is gone or completed, no task with
  two, and one for each active interval task while the scheduler runs.

Connections and server:

* `ConnectionWatched`, `ServerWatched`: what says it is connected has a heartbeat,
  once its listeners have returned, or a health check (or `connect` still waits and
  will take the report back).
* `SentInOrder`: messages leave in the order of `send`, over all sockets, except
  those that a listener of `connected` sends, which go ahead of the buffer; and none
  waits on a connection whose listeners have returned. Two messages show it: one
  that waits and one that overtakes it.
* `AnsweredByItsProcess`: a request is answered by the process it was written to.
* `Recovers`, `ReportCorrected`: a lost connection is opened again; a server whose
  transport is closed is not reported as connected for ever.
* `ConnectedCanHear`: a device that is shown as connected has an open socket in
  the room.
* `OverrunBounded`: a limit of the budget is overrun by no more than the calls
  under way can cost.

### 3.2 Bounds and why they are enough

Three invocations are a run, its resume, and the resume of the resume: what the
second inherits from the first is what the third must still find. Two calls per
answer make a list with a head and a tail, and with three calls over two
iterations steps of an earlier answer precede pending calls of a later one. An
iteration limit of two has a first and a last iteration. In the sidecar two
invocations are enough for one to outlive its handler; that two resumes wait in
the load at once comes from the journal that an earlier process left behind
(`LeftBehind`). Three messages with a cap of one let the cap delete an old
message while another is pending. `Visibility = 0` makes a delivery reclaimable
after one tick; a longer timeout only adds ticks. One failure per behaviour is a
restart, a dying consumer, a throwing send or an interrupted purge at every point.

In `services`:

| Component | Instance | Why |
|---|---|---|
| spawner | 2 callers, 4 requests, 2 slots, history of 1, `onSpawn` throws | two that run, two that wait in order, slots that are kept for ever; the history is smaller than what runs; `onError` throws in `progress` |
| channel | 2 agents, 3 messages, 2 subscriptions, 1 dead letter | a request, its reply and one message that pushes out a dead letter |
| edit review | 2 runs, 1 file, 3 writes, 1 kept directory | a tool outlives its run; a second edit of one file; pruning of copies |
| run directory | 3 runs of which 2 are kept, 4 saves, 2 savers | one too many, and saves of a run whose file is there already; one saver writes, the other saves two runs, the first renames |
| fallback | 2 callers, 2 models, session 1, day 2, cost 1 | calls under way together; a session is half of a day |
| server | 1 device, 3 sockets, 2 secrets, lockout after 2, 1 command | a new socket before the loss of the old one, and once more after a restart of the server |
| workflow | 3 steps, 3 graphs of which one is a cycle, 2 attempts, every callback may throw | a step that needs later ones, one that needs earlier ones; a retry |
| cron | 2 tasks, limits 0 to 2, 3 runs | tasks without a limit, completed by the first run, and by a later one |
| decisions | 2 callers, 2 answers | an answer and a timeout for each of two who poll, and a second answer that is refused |

The values are those of `MCServices.cfg` and `MCConnections.cfg`; the modules
`Services` and `Connections` assume of their constants only what the code gives:
limits are numbers, at least one slot, attempt, run to keep and dead letter
(a topic keeps 50, `channel.ts:290`), names of different
kinds differ, and a graph lists steps it has. TLC evaluates these assumptions in
each run.

In `connections` three sockets are one that closes slowly, one that was given up
and one that is opened meanwhile; two processes are one that was killed and whose
exit is still to be reported, and the one after it; two entries are one that was
replaced and its successor. The run has no limit of attempts, which is what `Recovers`
is about; that a limit, once it is reached, breaks nothing is left to the proofs of
section 4.5, which hold for every set of limits.

Symmetry (permutations of invocations, agents, callers of the spawner) is used in
`durable`, `mailbox`, `services`, `durable_truncated` and `sidecar_journal` only, in
which no liveness property is checked. `DurableRun` and `AgentSidecar` have an
explicit `AllUsed` step for the end of the bounded behaviour, so that a stuck
invocation would be a deadlock; so would be one in the mailbox. In `services`,
`connections` and `progress`, and in the violations of the channel, the edit review and the server, deadlock is not
checked: when the bounds are used up and the callers are served, nothing has to
happen. What has to is a liveness property there.

### 3.3 Fairness

* `DurableRun`: a ready continuation is run by the event loop
  (`WF(AgentRuns)`), and the model call and the tool settle. Writes may fail,
  aborts and crashes may happen, and none is assured.
* `AgentSidecar`: the handler's own steps and the timer (`setTimeout`) happen;
  nothing is assumed of the model or the tools: that is the point of
  `ActiveReleased`.
* `Mailbox`: time passes; consumers keep calling `check`, finish a message and
  acknowledge it. Only `EventuallyHandled` follows. That a message is
  acknowledged in the end does not: a consumer that always takes longer than the
  visibility timeout is given the same message for ever.
* `MailboxDecisions`: timers fire and the polling calls go on; nobody has to
  answer or resolve.
* `SubagentSpawner`: timers fire, and promises that are settled, those of races
  that were lost among them (`GivesUp`), are noticed; no runtime has to answer.
  `CallersReturn` is checked with an `onError` that throws, not with an `onSpawn` that
  does: that one takes a slot for ever (section 5).
* `WsMultiplexer`: timers fire, the import ends, listeners return (`Resumes`: they
  are called synchronously), sockets that are asked to close do; and when sockets
  try to open again and again, one of them does at some time (strong fairness of
  `Opens`; weak fairness is not enough because the timeout of an attempt may come
  first). Only `Recovers` needs the last, which is an assumption about the network.
* `McpConnections`: the timers of requests, health checks and reconnects fire; a
  process need neither answer nor exit.
* `CommunicationServer`: the timer of an approval fires (`FairSpec`), so that the
  violation of `ApprovalsSettle` is not one that waits for a timer.

## 4. What is proved

Every invariant that a passing run checks, the action properties
(`ObservationsKept`, and the second half of `RecordsAgree`) and both refinements
are theorems: what the runs show on a small instance holds for every value of the
constants. The hypotheses are the named assumptions on the constants
(`BoundsAssumption` of `ReActAgent`, those of `AgentSidecar` and `Mailbox`, and
the nine of `Services` and two of `Connections`) and, in four theorems,
`NothingCut`, which is discussed below. Sets of invocations, agents, callers,
sockets or tasks may be of any size, infinite ones too where nothing is counted.

| Module | Theorems, with the property each of them states |
|---|---|
| `DurableRunProofs` | `Invariance` (`IInv`), `TypeCorrect` (`TypeOK`), `RepeatsAreConfirmed` (`NoUnconfirmedRepeat`) |
| `DurableJournalProofs` | `JournalInvariance` (`JInv`), `NoCallTwice` (`JournalHasNoDuplicates`), `NothingLeftOver` (`EndedRunsHaveNothingPending`); under `NothingCut`: `FollowingInvariance` (`FInv`), `EffectsAreKnown` (`JournalKnowsEffects`), `ObservationsStay` (`ObservationsKept`), `PromiseKept` (`ImplementsPromise`) |
| `AgentSidecarProofs` | `SidecarInvariance` (`IInv`), `SidecarTypes` (`TypeOK`), `AdmitsOne` (`OneHandlerInRun`), `RepeatsAreConfirmedInSidecar` (`NoUnconfirmedRepeat`), `LimitIsKept` (`WithinLimit`) |
| `MailboxProofs` | `MailboxInvariance` (`MInv`), `MailboxTypes` (`TypeOK`), `NothingIsLost` (`NeverLost`), `NoneIsOrphaned` (`NoOrphans`), `OrderOfGiving` (`GivenInOrder`), `AtLeastOnceKept` (`ImplementsPromise`) |
| `ServicesProofs` | `TimersAreThoseOfTasks` (`TimersMatchTasks`), `OneResultForAll` (`OneResult`), `BudgetOverrunIsBounded` (`OverrunBounded`), `WrittenEditsWereAccepted` (`EditsAreAccepted`), `ModeIsOfActiveRun` (`ModeOfActiveRun`), `ConnectedDevicesHear` (`ConnectedCanHear`) |
| `ServicesOrderProofs` | `RecentRunsAreKept` (`RecentKept`), `StepsRunInOrder` (`StepsInOrder`), `SlotsAreServedInOrder` (`ServedInOrder`), `RecordsAlwaysAgree` (`RecordsAgree`), `RepliesAlwaysReachRequests` (`RepliesReachRequests`), `AllAreTyped` (`TypeOK`) |
| `ConnectionsProofs` | `ConnectionIsWatched` (`ConnectionWatched`), `MessagesLeaveInOrder` (`SentInOrder`), `ItsProcessAnswers` (`AnsweredByItsProcess`), `ServerIsWatched` (`ServerWatched`), `BothAreTyped` (`TypeOK`) |

`ReActAgentProofs` holds the lemmas that the durable run and the sidecar share;
it states no theorem of its own.

### 4.1 The durable run

`NoUnconfirmedRepeat` is not inductive: that a call may be executed now depends
on what was in the journal when the invocation was resumed. `IInv` adds

1. `OneLive`: one live invocation (the host awaits it);
2. `SavingMemory`: the checkpoint that is being written has the pending calls
   and steps that are in memory;
3. `CallInHand`: in `gate` and `executing` there is a call;
4. `CallsProper`: pending calls, in memory and in the journal, are distinct and
   were asked for: a confirmation grants each of them once, and executing the
   head uses up nothing of the tail;
5. `NotAskedNotTried`: a number the model has not used yet has no effect;
6. `Covered`: what the live invocation may still execute has a grant to spare
   (`effects <= grants`). A fresh call has it because it was never tried, a
   replayed one because `MayReplay` granted it in the step that loaded it.

The proof does not go action by action over the whole invariant. `StepShape`
sorts the steps of the loop into six shapes by what they do to the calls
(`Shift`, `Write`, `Try`, `Answer`, `Request`, `End`); `OnlyOneMoves` and
`Bystander` show that other invocations are unaffected; `ShapeKeeps` then treats
each shape once and `EntryKeeps` the entry of a run. Truncation is harmless here:
a suffix of distinct calls is distinct (`LatestOfCalls`).

`JInv` says that the calls of a record, observed ones first, are in the order in
which the model asked for them (`CallsInOrder`) and that an invocation which has
nothing left to execute has nothing pending (`NothingInHand`). From the order
follow both that no call is in a record twice, and that a record has no more
calls than were asked for (`InOrderBounds`); it survives any truncation.

`FInv` is about what truncation does not survive. `NothingCut`, `ArrayLimit >=
MaxActions`, says that the run asks for no more calls than `sanitizeValue` keeps
of an array; the run `durable_truncated` shows that without it the property is
false. Under it the journal is at most one change behind the invocation that
lives (`Followed`): the calls of an answer, or one observation. From that,
`JournalKnowsEffects` is inductive, no write takes an observation back
(`ObservationsKept`), and each step maps to one of `ReplayPromise`:
`Execute` to trying, the rename of a checkpoint that is one answer or one
observation ahead to asking or observing, `BeginResume` to confirming.

### 4.2 The sidecar

Invocations overlap here, so that `OneLive` is false, and what one may execute
another may execute too. `Covered` counts: for each call, the starts of
`tool.execute` so far and the invocations that may still execute it
(`Executors`) are together at most one more than the confirmations. A step that
executes a call moves one from the second to the first; a resume adds itself and
grants itself, in the same step. The set of executors is finite although the set
of requests need not be. That a timed-out invocation shares the file with its
successor does no harm to this, because reading the file gives nothing to
execute without a grant. `AdmitsOne` is inductive once `Admit` is one step;
`LimitIsKept` needs that every checkpoint in flight (loaded, being marked, being
written) is within its own limit, and that a loop past its head is below it.

### 4.3 The mailbox

`MInv` adds `Consumed` (a message is handled only after it was given and
acknowledged only after it was handled; what is in flight was given) and
`Numbered`. The latter is the argument for `GivenInOrder`: a counter is never
behind the rows that are left of its sender, so that a later message has a larger
number than each earlier one *that still has a row*; an earlier one without a row
is gone, hence was given. `check` takes rows by number, so that the smallest it
finds is the earliest that waits. `AtLeastOnceKept` follows from the same
invariant: every step of the mailbox is one of `AtLeastOnce` or none.

### 4.4 The components of `Services`

Each component has an invariant of its own; `StepOfEach` shows that a step of
`Services` is a step of each component or leaves it alone, so that the proofs
are about one module at a time. What each invariant needs beyond the property:

* *Scheduler* (`CronInv`): only a completed task has the handle of a timer that
  was cleared.
* *Decisions* (`DecisionInv`): the accepted answer is that of the row; who expires
  a question finds a row; who has returned holds the row, which is final by then.
* *Fallback* (`FallbackInv`): the bound is the limit plus what the calls under way
  can still cost. A call that ends adds its cost and takes its share from the
  bound; one that begins found the total below the limit.
* *Edit review* (`ReviewInv`): the active run found the user's own mode
  (`custom`), a new run has no tool on its way, and a pending proposal is one its
  tool waits for.
* *Server* (`ServerInv`): what is connected is in the room on an open socket, and
  an open socket that a device is listed with belongs to that device: the late
  loss of an old socket finds no entry.
* *Run directory* (`DirectoryInv`): what a prune knows of a run that was not renamed
  since is the youngest time its file has had, so that the newer files it found are
  of runs that were written later; removing one leaves at least `maxRuns - 1` of
  those. The counting goes by an injection of the files found into the runs written
  later.
* *Workflow* (`WorkflowInv`): the frames of `tryStep` are distinct steps that are
  not done, each waiting for the one above it, with the dependencies before the
  present one done; the stack has as many frames as there are steps in progress,
  by a bijection.
* *Spawner* (`SpawnerInv`): the requests that have had a slot are the first ones,
  as many as `maxConcurrency` plus those that are over, or all of them if they
  are fewer (`SlotInv`). The step that ends a subagent and drains the queue is proved by
  counting (`SlotsMove`), whichever callback throws. Nobody was told anything of a
  subagent that runs, unless `onSpawn` threw and it never got a task (`Awaited`):
  that is why an answer on the signal cannot contradict what was told, and why
  only `AnswersLate` changes a record afterwards.
* *Channel* (`ChannelInv`): a subscription has a number of its own; only replies
  are sent to the topic of a request, and only others than its sender reply;
  while a request is still in `publish`, a reply that has come is a dead letter,
  which needs room for one dead letter (50 in the code); once it waits it is
  subscribed, and the first reply ends both.

### 4.5 The components of `Connections`

* *Multiplexer* (`MuxInv`): no socket is opened before the module `ws` is
  imported (`LoadInv`); what has left and what is buffered is, in this order,
  increasing but for the messages in `early` (`OrderInv`: a larger number may be put
  anywhere if it is one of those, `LargerOvertakes`), and a connection that says it
  is there has an empty buffer unless the listeners of `connected` are still
  running, which are then the only ones that run (`RestInv`). That no new state is
  reported without a heartbeat is then a matter of each handler, for whichever socket it speaks.
* *Pool* (`ServersInv`): the process of a transport was spawned by it
  (`StdioInv`); two requests of one transport never have the same id, because the
  counter belongs to the transport and is not reset with its process
  (`RequestInv`). A line is matched by its id alone, and that is enough.

What is proved is about the models with their bounds (`MaxRequests`, `MaxSaves`
and the like), which are any numbers: a behaviour of the code is finite at any
moment, and so within some bound.

## 5. Where the code and its comments disagree

Each has a run with a counterexample:

* `durable_truncated`: `sanitizeValue` keeps the last entries of every array
  (`run-journal.mjs:20`), while pending calls are executed from the first. When
  one answer asks for more calls than the limit, the executing call is missing
  from the file; after a crash no resume asks about it, contrary to
  `agent.ts:545-547`.
* `sidecar_journal`: a timed-out invocation goes on until its next
  `throwIfAborted`; a resume admitted meanwhile shares its file, and the older
  one's write can drop a call the newer one has executed.
* `edit_copies`: every edit of a file in a run replaces the copy by the content
  before that edit, so that after the second edit what was there before the run is
  lost to an undo (`server.mjs:451`, `460`).
* `edit_stale`: the tool of a run that timed out may propose after the drain; the
  proposal is then broadcast and can be accepted (`server.mjs:2566-2567`).
* `channel_removed`: `removeAgent` skips every second subscription and forgets
  the agent's index (`channel.ts:90`, `95`).
* `approvals_dropped`: disabling the approvals, as `stop` does, forgets the
  resolvers, and the timer resolves only what is listed: the command waits for
  ever, against `server.ts:446`.

Seen while modelling, without a run of its own. The first group is in the models:

* The sequence counters of the mailbox are rebuilt with `MAX(seq)`, so that
  numbers are used again after a purge and a restart, against "Monotonically
  increasing" (`mailbox/types.ts:20`). `GivenInOrder` holds all the same.
* Two handlers are in their run one after the other, while the invocation of the
  first still runs, against "Runs are serialized" (`server.mjs:2022`).
* Overlapping prunes leave more or fewer files than `maxRuns`, and can remove the
  run that was saved last when they knew its older time (`run-journal.mjs:161-179`),
  or one whose rename came late, since a rename keeps the time of the writing (`:92-93`).
* A subagent that returns on the signal of its timeout is recorded as completed while
  its caller is told of a timeout and gets no result (`spawner.ts:330`,
  `index.ts:357-364`).
* What a listener of `connected` sends overtakes the messages that waited
  (`multiplexer.ts:214-217`); a listener that disconnects then leaves a heartbeat
  running on a closed connection (`:215`).
* An `onSpawn` that throws keeps its slot (`spawner.ts:108`).
* A dependency that fails inside the step that needs it is never rolled back
  (`workflow-advanced.ts:303`).
* Two sockets of one connection may be open at a time (`multiplexer.ts:84`), and
  the timer of `resetAfter` outlives `disconnect` (`reconnect.ts:123`).
* A second `connect` spawns another process on the same transport
  (`transport.ts:46`), and the counter of the reconnects is reset before the
  server has answered (`connection-manager.ts:105`).
* A direct message skips a subscription when a handler takes an earlier one back
  (`channel.ts:184`).
* The fallback chain is computed once per call, so that a model which is found
  unhealthy meanwhile is tried all the same (`fallbackManager.ts:420`); an answer
  that comes after its timeout costs money and is not counted.
* The handshake of a device whose entry is known leaves `connected` as it was
  (`communication/src/server.ts:620`); a server that is started again while it
  stops has its map cleared afterwards (`:432`); the pairing code is not renewed
  after a restart.
* `addTask` makes a timer also when the scheduler is stopped (`cron.ts:70`).

The second group is outside the models:

* With `maxConcurrency` 0 `spawnParallel` does not end (`spawner.ts:209`); the
  model assumes at least 1.
* The file of an edit may change between the review and the write
  (`server.mjs:2098`); the local model has no timeout
  (`fallbackManager.ts:533`); an answer whose log entry cannot be written is not
  counted (`:309`).
* A workflow that is given a signal which is aborted already runs all the same
  (`workflow-advanced.ts:159-160`); `rollbackOnlyExecuted` is never read.
* The load balancer counts a request without an eligible provider twice
  (`load-balancer.ts:240`, `340`), and its round-robin index never advances.
* An agent registered under a new parent stays in the set of the old one
  (`sync.ts`); the lock file of the skills has no lock between processes.

## 6. What is only model-checked, and what is not modelled

Only model-checked: the liveness properties (`RunEnds`, `EventuallyHandled`,
`WaitersEnd`, `CallersReturn`, `ActiveReleased`, `Recovers`, `ReportCorrected`),
since fairness and `ENABLED` are outside the prover, and what the six violations
show. `JournalKnowsEffects`, `ObservationsKept` and the refinement of
`ReplayPromise` are proved where nothing is cut off; below that limit the first
is false, and of the others nothing is claimed. What a recursive definition
computes for every input cannot be proved with the provers at hand (the induction
theorems take an operator as a parameter); the modules use none: where the code
filters an array they use `Sublists`, whose positions are found by counting.

Not modelled:

* *In the modelled parts*: the path of `run` without a checkpointer and
  streaming; message contents and redaction; the other handlers of the sidecar
  (chat, terminal, files, settings), which call one function and send its result;
  `workerDone` and the listings of the mailbox, and errors of the database other
  than a failing `send`; groups of the agent manager; the message history of the
  channel; cron expressions, which are an input; channels of the multiplexer
  beyond sending (acknowledgement waits, history, statistics); the HTTP transport
  of MCP; screenshots, chat and webhooks of the server.
* *Parts that decide within one step*: state sync, the load balancer (sorting,
  random choice and token arithmetic on the latest snapshots), human input,
  lifecycle and fan-out registries, the other workflow engines, which walk over a
  list without retries, timeouts and rollback. Their operations are one step of
  one caller; TLC would restate them.
* *Parts without state of their own*: providers, security, code graph, shared
  utilities and Rust crates are functions of text; skills and memory keep files
  and scores for one caller at a time; middleware, hooks and checkers are inputs
  of the loop.
* *User interfaces and drivers*: front ends show the state of the parts behind
  them; product packages drive the operating system and the browser, whose state
  is outside the repository; the incubating packages are in-memory registries that
  no other part calls.

These are most of the repository's lines, so that the modules stand for a small
share of it: the share in which the order of steps matters. The rows of
`PROJECT.json` say the same per component.

## 7. Next

Every invariant has its theorem. What is left to prove:

* abstract specifications to implement: a first-come pool for the spawner (slots
  and a queue only), a register of the runs for the journal directory, a channel
  that delivers each reply once, and the proofs that the components implement
  them;
* what the sidecar promises of its journal although invocations overlap: which
  part of `ReplayPromise` is left, and that it implements it;
* the components that are partly modelled (channels of the multiplexer beyond
  sending, the HTTP transport of MCP, `workerDone` of the mailbox).
