---------------------------- MODULE AgentSidecar ----------------------------
(***************************************************************************)
(* The sidecar's agent_run handler (apps/desktop/src-tauri/sidecar/        *)
(* server.mjs) around the durable run: it admits one run at a time, loads  *)
(* the checkpoint to resume from, races the run against a timeout, marks   *)
(* the journal when the race is lost and then admits the next run.         *)
(*                                                                         *)
(* Losing the race aborts the invocation but does not wait for it: the     *)
(* abort is cooperative, so an invocation may go on writing the journal    *)
(* and waiting for its tool while the handler marks the run and while a    *)
(* later handler resumes it.                                               *)
(*                                                                         *)
(* Handler i is the handler of the request that starts invocation i.  All  *)
(* requests concern one run id: the first starts the run, the others       *)
(* resume it.                                                              *)
(***************************************************************************)
EXTENDS ReActAgent

CONSTANT NoAgent

ASSUME NoAgentAssumption == NoAgent \notin Agent

VARIABLES
  active,      \* activeAgentRun
  handler,     \* where each agent_run handler is suspended
  resumeFrom,  \* the checkpoint a handler has loaded to resume from
  marked,      \* the checkpoint markStatus has loaded
  verdict      \* finalStatus of a handler

serverVars == <<active, handler, resumeFrom, marked, verdict>>
vars == <<agentVars, serverVars>>

HandlerState == {"none", "loaded", "setup", "racing", "marking", "writing", "done"}

\* Between "activeAgentRun = { runId, ... }" and the finally block.
InRun(i) == handler[i] \in {"setup", "racing", "marking", "writing"}

Move(i, where) == handler' = [handler EXCEPT ![i] = where]

-----------------------------------------------------------------------------
(* The handler *)

\* agent_run without resumeRunId: no await before the run is admitted.  (While
\* an invocation that has saved nothing yet lives, it would be another run.)
RequestFresh(i) ==
  /\ handler[i] = "none"
  /\ active = NoAgent
  /\ journal = NoCheckpoint
  /\ \A j \in Agent : ~Live(j)
  /\ active' = i
  /\ Move(i, "setup")
  /\ UNCHANGED <<agentVars, resumeFrom, marked, verdict>>

\* agent_run with resumeRunId: the first check, then await journal.load.
RequestResume(i) ==
  /\ handler[i] = "none"
  /\ active = NoAgent
  /\ journal # NoCheckpoint
  /\ resumeFrom' = [resumeFrom EXCEPT ![i] = journal]
  /\ Move(i, "loaded")
  /\ UNCHANGED <<agentVars, active, marked, verdict>>

\* Mutant of Admit: the guard is not read again after the await.
AdmitUnchecked(i) ==
  /\ handler[i] = "loaded"
  /\ active' = i
  /\ Move(i, "setup")
  /\ UNCHANGED <<agentVars, resumeFrom, marked, verdict>>

\* The second check, after the await.
Admit(i) ==
  /\ handler[i] = "loaded"
  /\ IF active = NoAgent
     THEN active' = i /\ Move(i, "setup")
     ELSE Move(i, "done") /\ UNCHANGED active
  /\ UNCHANGED <<agentVars, resumeFrom, marked, verdict>>

\* Mutant of ResumeLimit: the requested number is taken as the new limit.
ResumeLimitNotAdded(cp, requested) ==
  IF cp.status = "exhausted" THEN requested ELSE cp.max

\* resumeFrom.maxIterations, raised by the requested number when exhausted.
ResumeLimit(cp, requested) ==
  IF cp.status = "exhausted" THEN cp.max + requested ELSE cp.max

\* The tools, the memory and the policy are set up; agent.run is called.
RunAgent(i) ==
  /\ handler[i] = "setup"
  /\ IF resumeFrom[i] = NoCheckpoint
     THEN \E max \in 1..MaxIterations : BeginFresh(i, max)
     ELSE \E requested \in 1..MaxIterations, confirm \in BOOLEAN :
            /\ ResumeLimit(resumeFrom[i], requested) <= MaxIterations
            /\ BeginResume(i, resumeFrom[i],
                           ResumeLimit(resumeFrom[i], requested), confirm)
  /\ Move(i, "racing")
  /\ UNCHANGED <<active, resumeFrom, marked, verdict>>

Fail(i, status) ==
  /\ verdict' = [verdict EXCEPT ![i] = status]
  /\ Move(i, "marking")

SetupThrows(i) ==
  /\ handler[i] = "setup"
  /\ Fail(i, "failed")
  /\ UNCHANGED <<agentVars, active, resumeFrom, marked>>

\* finally: activeAgentRun is cleared and the handler is over.
Finish(i) ==
  /\ active' = NoAgent
  /\ Move(i, "done")
  /\ resumeFrom' = [resumeFrom EXCEPT ![i] = NoCheckpoint]
  /\ marked' = [marked EXCEPT ![i] = NoCheckpoint]

AgentResolved(i) ==
  /\ handler[i] = "racing"
  /\ pc[i] = "resolved"
  /\ Finish(i)
  /\ UNCHANGED <<agentVars, verdict>>

\* The kind of error the run throws decides the status to record.
AgentRejected(i) ==
  /\ handler[i] = "racing"
  /\ pc[i] = "rejected"
  /\ Fail(i, saving[i].cp.status)
  /\ UNCHANGED <<agentVars, active, resumeFrom, marked>>

\* Mutant of Timeout: the signal is aborted but the race is not lost.
TimeoutOnlyAborts(i) ==
  /\ handler[i] = "racing"
  /\ Live(i)
  /\ aborted' = [aborted EXCEPT ![i] = TRUE]
  /\ UNCHANGED <<pc, mem, saving, journal, issued, effects, grants>>
  /\ UNCHANGED serverVars

\* AGENT_TIMEOUT_MS: the signal is aborted and the race is lost, whatever the
\* invocation is doing.
Timeout(i) ==
  /\ handler[i] = "racing"
  /\ Live(i)
  /\ aborted' = [aborted EXCEPT ![i] = TRUE]
  /\ Fail(i, "interrupted")
  /\ UNCHANGED <<pc, mem, saving, journal, issued, effects, grants>>
  /\ UNCHANGED <<active, resumeFrom, marked>>

\* Mutant of MarkLoad: a run without a file is marked all the same.
MarkLoadMissing(i) ==
  /\ handler[i] = "marking"
  /\ marked' = [marked EXCEPT ![i] = journal]
  /\ Move(i, "writing")
  /\ UNCHANGED <<agentVars, active, resumeFrom, verdict>>

\* markStatus: load ...
MarkLoad(i) ==
  /\ handler[i] = "marking"
  /\ journal # NoCheckpoint
  /\ marked' = [marked EXCEPT ![i] = journal]
  /\ Move(i, "writing")
  /\ UNCHANGED <<agentVars, active, resumeFrom, verdict>>

\* ... then save what was loaded with the new status.
MarkSave(i) ==
  /\ handler[i] = "writing"
  /\ journal' = Sanitized([marked[i] EXCEPT !.status = verdict[i]])
  /\ Finish(i)
  /\ UNCHANGED <<pc, mem, saving, aborted, issued, effects, grants, verdict>>

\* Its failure, a missing file included, is swallowed.
MarkFails(i) ==
  /\ handler[i] \in {"marking", "writing"}
  /\ Finish(i)
  /\ UNCHANGED <<agentVars, verdict>>

\* The sidecar process stops and is started again.
Crash ==
  /\ \E i \in Agent : Live(i) \/ InRun(i)
  /\ pc' = [i \in Agent |-> IF pc[i] \in Ended \/ (pc[i] = "idle" /\ handler[i] = "none")
                            THEN pc[i] ELSE "dead"]
  /\ mem' = [i \in Agent |-> FreshLocals(1)]
  /\ saving' = [i \in Agent |-> NotWriting("running")]
  /\ aborted' = [i \in Agent |-> FALSE]
  /\ active' = NoAgent
  /\ handler' = [i \in Agent |-> IF handler[i] = "none" THEN "none" ELSE "done"]
  /\ resumeFrom' = [i \in Agent |-> NoCheckpoint]
  /\ marked' = [i \in Agent |-> NoCheckpoint]
  /\ UNCHANGED <<journal, issued, effects, grants, verdict>>

AllUsed ==
  /\ \A i \in Agent : handler[i] = "done" /\ ~Live(i)
  /\ UNCHANGED vars

-----------------------------------------------------------------------------
\* What the first save of a run leaves when the process stops right after it.
LeftBehind == {Snapshot(FreshLocals(max), "running") : max \in 1..MaxIterations}

NoHandlers ==
  /\ active = NoAgent
  /\ handler = [i \in Agent |-> "none"]
  /\ resumeFrom = [i \in Agent |-> NoCheckpoint]
  /\ marked = [i \in Agent |-> NoCheckpoint]
  /\ verdict = [i \in Agent |-> "failed"]

\* The journal may hold the run from an earlier process.
Init ==
  /\ AgentInit
  /\ journal \in {NoCheckpoint} \cup LeftBehind
  /\ NoHandlers

\* Steps of the handler that need nothing but the event loop and the disk.
HandlerRuns(i) ==
  \/ Admit(i) \/ RunAgent(i) \/ SetupThrows(i)
  \/ AgentResolved(i) \/ AgentRejected(i)
  \/ MarkLoad(i) \/ MarkSave(i) \/ MarkFails(i)

Next ==
  \/ \E i \in Agent : RequestFresh(i) \/ RequestResume(i)
  \/ \E i \in Agent : HandlerRuns(i) \/ Timeout(i)
  \/ \E i \in Agent : AgentStep(i) /\ UNCHANGED serverVars
  \/ Crash
  \/ AllUsed

Spec == Init /\ [][Next]_vars

\* The timer fires.  Nothing is assumed of the model or of the tools: they
\* may never answer.
Fairness == \A i \in Agent : WF_vars(HandlerRuns(i)) /\ WF_vars(Timeout(i))

FairSpec == Spec /\ Fairness

-----------------------------------------------------------------------------
CheckpointOrNone == Checkpoint \cup {NoCheckpoint}

TypeOK ==
  /\ AgentTypeOK
  /\ active \in Agent \cup {NoAgent}
  /\ handler \in [Agent -> HandlerState]
  /\ resumeFrom \in [Agent -> CheckpointOrNone]
  /\ marked \in [Agent -> CheckpointOrNone]
  /\ verdict \in [Agent -> Status]

\* activeAgentRun names exactly the handler that is in its run, although the
\* guard is read before the journal is loaded (server.mjs:1970 and 2013).
OneHandlerInRun == \A i \in Agent : InRun(i) <=> active = i

\* The journal never claims more iterations than the limit it records, over
\* any number of resumes, exhaustions and marks (server.mjs:2001-2004).
WithinLimit == journal # NoCheckpoint => journal.next <= journal.max

\* A run that is admitted is given up, even when a tool or the model hangs:
\* the next run is not refused for ever (server.mjs:2482-2504, 2561-2565).
ActiveReleased == active # NoAgent ~> active = NoAgent

-----------------------------------------------------------------------------
(* The inductive invariant: what TypeOK, OneHandlerInRun, WithinLimit and    *)
(* NoUnconfirmedRepeat need.  Several invocations may be alive, those whose  *)
(* race is lost besides the one of the admitted run.                         *)

WritingMarked == \A i \in Agent : handler[i] = "writing" => marked[i] # NoCheckpoint

\* Of every checkpoint that the program holds.
Everywhere(P(_)) ==
  /\ journal # NoCheckpoint => P(journal)
  /\ \A i \in Agent : /\ P(mem[i])
                      /\ resumeFrom[i] # NoCheckpoint => P(resumeFrom[i])
                      /\ marked[i] # NoCheckpoint => P(marked[i])

CallsProper == Everywhere(LAMBDA r : ProperCalls(r.pending, issued))

WithinItsLimit(r) == r.next <= r.max

Limits ==
  /\ Everywhere(WithinItsLimit)
  /\ \A i \in Agent : /\ WithinItsLimit(saving[i].cp)
                      /\ Stage(i) \in {"model", "answer"} => mem[i].next < mem[i].max

\* The invocations that may still execute call a.
Executors(a) == {i \in Agent : a \in Executable(i)}

\* Every one of them has the first execution or a confirmation to its name.
Covered ==
  \A a \in Action :
    /\ IsFiniteSet(Executors(a))
    /\ effects[a] + Cardinality(Executors(a)) <= 1 + grants[a]

IInv ==
  /\ TypeOK
  /\ OneHandlerInRun
  /\ WritingMarked
  /\ SavingMemory
  /\ CallInHand
  /\ CallsProper
  /\ NotAskedNotTried
  /\ Covered
  /\ Limits
=============================================================================
