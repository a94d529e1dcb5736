---------------------------- MODULE CronScheduler ----------------------------
(***************************************************************************)
(* The scheduler of recurring tasks (packages/agents/src/scheduler/cron.ts).*)
(* An interval task ("every 5 minutes") has a timer of its own; a cron task *)
(* ("0 8 * * *") is matched by the tick of the scheduler, once a minute.    *)
(* A task that reaches its maximum of iterations is completed.              *)
(***************************************************************************)
EXTENDS Naturals

CONSTANTS
  Task,
  MaxIterations, \* the largest limit that a task is given
  MaxRuns        \* bound: runs of a task without a limit

VARIABLES
  started,  \* masterTimer is set
  tasks,    \* the map of the tasks
  live      \* the interval timers of each task that are running

vars == <<started, tasks, live>>

-----------------------------------------------------------------------------
(* intervalId is "none", the timer that runs ("live") or one that was cleared. *)
Absent == [kind |-> "absent", status |-> "none", runs |-> 0, limit |-> 0,
           intervalId |-> "none", fired |-> FALSE]

Scheduled == {k \in Task : tasks[k] # Absent}

\* The tasks of which restartIntervalTimers() makes a timer.
Restartable == {k \in Scheduled : /\ tasks[k].kind = "interval"
                                  /\ tasks[k].status = "active"
                                  /\ tasks[k].intervalId = "none"}

\* clearInterval(), of a handle which may have been cleared before.
Cleared(k) == IF tasks[k].intervalId = "live" THEN live[k] - 1 ELSE live[k]

\* start(); for a scheduler that was started it does nothing.
Start ==
  /\ ~started
  /\ started' = TRUE
  /\ tasks' = [k \in Task |-> IF k \in Restartable
                              THEN [tasks[k] EXCEPT !.intervalId = "live"] ELSE tasks[k]]
  /\ live' = [k \in Task |-> IF k \in Restartable THEN live[k] + 1 ELSE live[k]]

\* Mutant of Stop: the handles of the cleared timers stay.
StopWithStaleHandles ==
  /\ started' = FALSE
  /\ tasks' = [k \in Task |-> IF tasks[k].intervalId = "live"
                              THEN [tasks[k] EXCEPT !.intervalId = "cleared"] ELSE tasks[k]]
  /\ live' = [k \in Task |-> Cleared(k)]

\* stop(), also of a scheduler that was never started.
Stop ==
  /\ started' = FALSE
  /\ tasks' = [k \in Task |-> [tasks[k] EXCEPT !.intervalId = "none"]]
  /\ live' = [k \in Task |-> Cleared(k)]

\* addTask(): an interval task gets its timer whether or not the scheduler runs.
AddTask(k, kind, limit) ==
  LET timer == kind = "interval"
  IN /\ k \notin Scheduled
     /\ tasks' = [tasks EXCEPT ![k] =
                    [kind |-> kind, status |-> "active", runs |-> 0, limit |-> limit,
                     intervalId |-> IF timer THEN "live" ELSE "none", fired |-> FALSE]]
     /\ live' = [live EXCEPT ![k] = IF timer THEN @ + 1 ELSE @]
     /\ UNCHANGED started

RemoveTask(k) ==
  /\ k \in Scheduled
  /\ tasks' = [tasks EXCEPT ![k] = Absent]
  /\ live' = [live EXCEPT ![k] = Cleared(k)]
  /\ UNCHANGED started

\* executeTask() of each of K, up to what it asks of the agent manager.  `fired' says
\* whether lastCronKey, which tick() sets, is the present minute.
Completes(k) == tasks[k].limit > 0 /\ tasks[k].runs + 1 >= tasks[k].limit

Executed(k) ==
  [tasks[k] EXCEPT
     !.runs = @ + 1,
     !.fired = tasks[k].kind = "cron",
     !.status = IF Completes(k) THEN "completed" ELSE @,
     !.intervalId = IF Completes(k) /\ @ = "live" THEN "cleared" ELSE @]

Execute(K) ==
  /\ \A k \in K : tasks[k].runs < MaxRuns
  /\ tasks' = [k \in Task |-> IF k \in K THEN Executed(k) ELSE tasks[k]]
  /\ live' = [k \in Task |-> IF k \in K /\ Completes(k) THEN Cleared(k) ELSE live[k]]
  /\ UNCHANGED started

\* The timer of a task: of one that is gone or completed it does nothing.
TimerFires(k) ==
  /\ live[k] > 0
  /\ tasks[k].status = "active"
  /\ Execute({k})

\* tick(), at a time that the expressions of the cron tasks in `matching' match; a task
\* with a timer handle is left to its timer.
Tick(matching) ==
  /\ started
  /\ Execute({k \in matching : /\ tasks[k].kind = "cron"
                               /\ tasks[k].status = "active"
                               /\ tasks[k].intervalId = "none"
                               /\ ~tasks[k].fired})

\* The minute ends.
Minute ==
  /\ tasks' = [k \in Task |-> [tasks[k] EXCEPT !.fired = FALSE]]
  /\ UNCHANGED <<started, live>>

Init ==
  /\ started = FALSE
  /\ tasks = [k \in Task |-> Absent]
  /\ live = [k \in Task |-> 0]

Next ==
  \/ Start \/ Stop \/ Minute
  \/ \E k \in Task :
       \/ \E kind \in {"interval", "cron"}, limit \in 0..MaxIterations : AddTask(k, kind, limit)
       \/ RemoveTask(k)
       \/ TimerFires(k)
  \/ \E matching \in SUBSET Task : Tick(matching)

Spec == Init /\ [][Next]_vars

-----------------------------------------------------------------------------
TypeOK ==
  /\ started \in BOOLEAN
  /\ tasks \in [Task -> {Absent} \cup
                  [kind : {"interval", "cron"}, status : {"active", "completed"},
                   runs : 0..MaxRuns, limit : 0..MaxIterations,
                   intervalId : {"none", "live", "cleared"}, fired : BOOLEAN]]
  /\ live \in [Task -> 0..1]

\* However tasks are added, removed and completed and the scheduler is stopped and
\* started, a timer runs for no task that is gone or completed, no task has two, and
\* while the scheduler runs every active interval task has one (cron.ts:14-55, 86-100,
\* 148-151).
TimersMatchTasks ==
  \A k \in Task :
    /\ live[k] = (IF tasks[k].intervalId = "live" THEN 1 ELSE 0)
    /\ live[k] > 0 => tasks[k].status = "active"
    /\ started /\ tasks[k].kind = "interval" /\ tasks[k].status = "active" => live[k] > 0
=============================================================================
