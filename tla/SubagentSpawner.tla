--------------------------- MODULE SubagentSpawner ---------------------------
(***************************************************************************)
(* The spawner of subagents (packages/agents/src/subagent/spawner.ts) and  *)
(* the agent manager that runs their tasks (packages/agents/src/index.ts,  *)
(* AgentManager): slots, a queue for the requests beyond them, a timeout   *)
(* for each task, callbacks that may throw, and callers that spawn one     *)
(* subagent, several in sequence or several in batches.                    *)
(*                                                                         *)
(* Requests are numbered in the order in which spawn() is called.  All     *)
(* steps between two awaits are one step; when a timer fires, the runtime  *)
(* is told first, and may answer before the spawner gives the agent up.    *)
(***************************************************************************)
EXTENDS Naturals, Sequences, FiniteSets

CONSTANTS
  Caller,         \* callers of spawn, spawnSequence and spawnParallel
  MaxRequests,    \* bound: requests in a behaviour
  MaxConcurrency, \* maxConcurrency, not 0: the loop that builds the batches would not end
  MaxHistory,     \* maxStateHistory
  MayThrow        \* the configured callbacks that may throw

Request == 1..MaxRequests

VARIABLES
  asked,    \* calls of spawn() so far
  queue,    \* requests that wait for a slot
  running,  \* runningIds
  signalled,\* of those, the ones whose timer has fired
  agents,   \* the manager's agents
  state,    \* in activeSubagents: "running", "ended" with some status, or not there
  task,     \* status in the manager's tasks: "running" until the runtime answers
  outcome,  \* what became of the promise of spawn()
  caller,   \* the batch that each caller waits for, and what it has still to spawn
  planned   \* requests that the callers have made or will make

subagents == <<running, signalled, agents, state, task, outcome>>
vars == <<asked, queue, subagents, caller, planned>>

-----------------------------------------------------------------------------
Ending == {"completed", "failed", "timeout"}

Tracked == {r \in Request : state[r] # "none"}

Smaller(m, n) == IF m < n THEN m ELSE n
Beyond(m, n) == IF m > n THEN m - n ELSE 0

\* The n oldest of S.
Oldest(S, n) == {r \in S : Cardinality({q \in S : q < r}) < n}

\* The n first of a sequence of requests, as a set.
First(s, n) == {s[j] : j \in 1..n}

\* The requests of S whose callback throws.
Throwing(callback, S) == IF callback \in MayThrow THEN SUBSET S ELSE {{}}

-----------------------------------------------------------------------------
(* executeSpawn *)

\* trimStateHistory(), when r has ended.
Dropped(r) == Oldest({q \in Tracked : state[q] # "running"} \cup {r},
                     Beyond(Cardinality(Tracked \cup {r}), MaxHistory))

\* Mutant of Free: one slot too many.
FreeOneMore(taken) == Beyond(MaxConcurrency + 1, Cardinality(taken))

\* How many slots are left.
Free(taken) == Beyond(MaxConcurrency, Cardinality(taken))

\* Mutant of Admitted: the end of a subagent does not drain the queue.
AdmittedNone(taken) == 0

\* drainQueue(): how many of the queue get a slot.
Admitted(taken) == Smaller(Len(queue), Free(taken))

\* The requests of S run up to their first await: for those of T onSpawn throws,
\* after the slot was taken and before the try block.
Start(S, T) ==
  /\ running' = running \cup S
  /\ agents' = agents \cup S
  /\ state' = [r \in Request |-> IF r \in S THEN "running" ELSE state[r]]
  /\ task' = [r \in Request |-> IF r \in S \ T THEN "running" ELSE task[r]]
  /\ outcome' = [r \in Request |-> IF r \in T THEN "rejected" ELSE outcome[r]]
  /\ UNCHANGED signalled

\* The finally block of r, and what was recorded and returned on the way there:
\* the slot and the agent are given up, the history is trimmed, and the first
\* in the queue are started as in Start.
Finish(r, told, record) ==
  LET k == Admitted(running \ {r})
      S == First(queue, k)
      gone == Dropped(r)
  IN /\ queue' = SubSeq(queue, k + 1, Len(queue))
     /\ running' = (running \ {r}) \cup S
     /\ signalled' = signalled \ {r}
     /\ agents' = (agents \ {r}) \cup S
     /\ state' = [q \in Request |-> CASE q \in S -> "running"
                                     [] q \in gone -> "none"
                                     [] q \notin S \cup gone -> IF q = r THEN "ended" ELSE state[q]]
     /\ \E T \in Throwing("onSpawn", S) :
          /\ task' = [q \in Request |-> IF q \in S \ T THEN "running"
                                        ELSE IF q = r THEN record ELSE task[q]]
          /\ outcome' = [q \in Request |-> IF q \in T THEN "rejected"
                                           ELSE IF q = r THEN told ELSE outcome[q]]

\* The catch block; an onError that throws rejects the promise of spawn().
Caught(r, ending, record) ==
  \E T \in Throwing("onError", {r}) :
    Finish(r, IF r \in T THEN "rejected" ELSE ending, record)

-----------------------------------------------------------------------------
(* AgentManager.assignTask *)

\* The runtime answers in time, with a result or an error; a callback that
\* throws leads into the catch block.
Answers(r, ending) ==
  /\ r \in running \ signalled
  /\ task[r] = "running"
  /\ \/ Finish(r, ending, ending)
     \/ /\ (IF ending = "completed" THEN "onComplete" ELSE "onError") \in MayThrow
        /\ Caught(r, "failed", ending)
  /\ UNCHANGED <<asked, caller, planned>>

\* executeWithTimeout: the timer fires, the signal is aborted and the race is lost.
TimesOut(r) ==
  /\ r \in running \ signalled
  /\ task[r] = "running"
  /\ signalled' = signalled \cup {r}
  /\ UNCHANGED <<asked, queue, running, agents, state, task, outcome, caller, planned>>

\* The runtime ends because of the signal, while its agent is still there: its
\* result is recorded, although the caller will be told that it timed out.
AnswersSignal(r, ending) ==
  /\ r \in signalled
  /\ task[r] = "running"
  /\ task' = [task EXCEPT ![r] = ending]
  /\ UNCHANGED <<asked, queue, running, signalled, agents, state, outcome, caller, planned>>

\* The lost race is noticed; a runtime that has not ended may go on.
GivesUp(r) ==
  /\ r \in signalled
  /\ Caught(r, "timeout", task[r])
  /\ UNCHANGED <<asked, caller, planned>>

\* Mutant of AnswersLate: update() does not mind that the agent is gone.
AnswersUnnoticed(r) ==
  /\ r \notin running
  /\ task[r] = "running"
  /\ task' = [task EXCEPT ![r] = "completed"]
  /\ UNCHANGED <<asked, queue, running, signalled, agents, state, outcome, caller, planned>>

\* The runtime answers, with a result or an error, after its agent was given up:
\* update() throws for the agent that was removed, and the task is recorded as
\* failed even when it had just been recorded as completed.
AnswersLate(r) ==
  /\ r \notin running
  /\ task[r] = "running"
  /\ task' = [task EXCEPT ![r] = "failed"]
  /\ UNCHANGED <<asked, queue, running, signalled, agents, state, outcome, caller, planned>>

ClearFinished ==
  /\ state' = [r \in Request |-> IF state[r] = "running" THEN "running" ELSE "none"]
  /\ UNCHANGED <<asked, queue, running, signalled, agents, task, outcome, caller, planned>>

-----------------------------------------------------------------------------
(* spawn, spawnSequence, spawnParallel *)

Idle == [todo |-> 0, width |-> 1, batch |-> <<>>]

\* The next batch of a caller is spawned: those that find a slot at once, in
\* order, and the rest behind those that wait already.
SpawnBatch(c, todo, width) ==
  LET n == Smaller(todo, width)
      batch == [j \in 1..n |-> asked + j]
      k == Smaller(n, Free(running))
  IN /\ asked' = asked + n
     /\ queue' = queue \o SubSeq(batch, k + 1, n)
     /\ \E T \in Throwing("onSpawn", First(batch, k)) : Start(First(batch, k), T)
     /\ caller' = [caller EXCEPT ![c] = [todo |-> todo - n, width |-> width, batch |-> batch]]

\* Of n requests; spawn itself is the sequence of one.
SpawnSequence(c, n) ==
  /\ caller[c] = Idle
  /\ planned + n <= MaxRequests
  /\ planned' = planned + n
  /\ SpawnBatch(c, n, 1)

SpawnParallel(c, n) ==
  /\ caller[c] = Idle
  /\ planned + n <= MaxRequests
  /\ planned' = planned + n
  /\ SpawnBatch(c, n, MaxConcurrency)

Outcomes(c) == {outcome[r] : r \in First(caller[c].batch, Len(caller[c].batch))}

\* Promise.all of the batch rejects: what the others return is lost.
BatchRejected(c) ==
  /\ "rejected" \in Outcomes(c)
  /\ caller' = [caller EXCEPT ![c] = Idle]
  /\ UNCHANGED <<asked, queue, subagents, planned>>

\* The next batch, or the results.
BatchResolved(c) ==
  /\ caller[c] # Idle
  /\ Outcomes(c) \subseteq Ending
  /\ IF caller[c].todo > 0
     THEN SpawnBatch(c, caller[c].todo, caller[c].width)
     ELSE /\ caller' = [caller EXCEPT ![c] = Idle]
          /\ UNCHANGED <<asked, queue, subagents>>
  /\ UNCHANGED planned

-----------------------------------------------------------------------------
Init ==
  /\ asked = 0
  /\ queue = <<>>
  /\ running = {}
  /\ signalled = {}
  /\ agents = {}
  /\ state = [r \in Request |-> "none"]
  /\ task = [r \in Request |-> "none"]
  /\ outcome = [r \in Request |-> "none"]
  /\ caller = [c \in Caller |-> Idle]
  /\ planned = 0

Next ==
  \/ \E c \in Caller :
       \/ \E n \in Request : SpawnSequence(c, n) \/ SpawnParallel(c, n)
       \/ BatchRejected(c)
       \/ BatchResolved(c)
  \/ \E r \in Request :
       \/ \E ending \in {"completed", "failed"} : Answers(r, ending) \/ AnswersSignal(r, ending)
       \/ TimesOut(r)
       \/ GivesUp(r)
       \/ AnswersLate(r)
  \/ ClearFinished

Spec == Init /\ [][Next]_vars

\* Timers fire and promises that are settled are noticed.  The runtime, which
\* is a model or a tool, need not answer at all.
Fairness ==
  /\ \A r \in Request : WF_vars(TimesOut(r)) /\ WF_vars(GivesUp(r))
  /\ \A c \in Caller : WF_vars(BatchRejected(c)) /\ WF_vars(BatchResolved(c))

FairSpec == Spec /\ Fairness

-----------------------------------------------------------------------------
TypeOK ==
  /\ asked \in 0..MaxRequests
  /\ queue \in Seq(Request)
  /\ running \subseteq Request /\ signalled \subseteq running
  /\ agents \subseteq Request
  /\ state \in [Request -> {"none", "running", "ended"}]
  /\ task \in [Request -> {"none", "running", "completed", "failed"}]
  /\ outcome \in [Request -> {"none", "rejected"} \cup Ending]
  /\ caller \in [Caller -> [todo : Nat, width : Nat, batch : Seq(Request)]]
  /\ planned \in asked..MaxRequests

\* Requests get their slots in the order of the calls of spawn(), no more than
\* maxConcurrency at a time, and none waits while a slot is free: whatever way
\* a subagent ends, its slot goes to the first in the queue (spawner.ts:62-74,
\* 164-191).
ServedInOrder ==
  LET over == {r \in 1..asked : r \notin running /\ outcome[r] # "none"}
      k == Smaller(asked, MaxConcurrency + Cardinality(over))
  IN /\ running = (1..k) \ over
     /\ queue = [j \in 1..(asked - k) |-> k + j]

\* The manager knows exactly the agents of the subagents that run, and the
\* history never drops one of those: an answer after the timeout does not bring an
\* agent back, and the history is trimmed by the size of a map that holds what runs
\* as well (spawner.ts:85, 166, 303-315; index.ts:296-302).
AgentsAreRunning == agents = running /\ \A r \in running : state[r] = "running"

\* What the caller is told agrees with the manager's record: a success is recorded as
\* one, and a task that is recorded as completed is not reported as failed, except by
\* an onComplete that throws (spawner.ts:126-162).  Of a timeout nothing is claimed: a
\* runtime that returns on the signal is recorded as completed (index.ts:357-364).
RecordAgrees ==
  \A r \in Request :
    /\ outcome[r] = "completed" => task[r] = "completed"
    /\ outcome[r] = "failed" /\ task[r] = "completed" => "onComplete" \in MayThrow

\* Once the caller was told anything, an answer to the task that was given up is
\* recorded as a failure if at all (spawner.ts:164-166; index.ts:298, 364-379).
LateAnswersFail ==
  [][\A r \in Request :
       outcome[r] # "none" =>
         task'[r] = task[r] \/ (task[r] = "running" /\ task'[r] = "failed")]_vars

\* Every caller gets its results or an error, even when no runtime ever answers.
CallersReturn == \A c \in Caller : caller[c] # Idle ~> caller[c] = Idle
=============================================================================
