----------------------------- MODULE ReActAgent -----------------------------
(***************************************************************************)
(* One run of the durable ReAct loop (packages/agents/src/react/agent.ts,  *)
(* runDurable) and the checkpoint it keeps in the run journal              *)
(* (apps/desktop/src-tauri/sidecar/run-journal.mjs, save).                 *)
(*                                                                         *)
(* Every member of Agent is one invocation of runDurable: an object of its *)
(* own with its own copy of the run.  All invocations work on the same run *)
(* id, so they share one journal file.  The module gives the steps of an   *)
(* invocation between two awaits; the modules that extend it (DurableRun,  *)
(* AgentSidecar) say who starts, aborts and kills invocations.             *)
(*                                                                         *)
(* Tool calls are numbered in the order the model asks for them: the code  *)
(* gives each a fresh toolCallId.                                          *)
(***************************************************************************)
EXTENDS Naturals, Sequences, FiniteSets

CONSTANTS
  Agent,         \* invocations of runDurable that may be started
  MaxActions,    \* bound: tool calls the model asks for in a behaviour
  MaxCalls,      \* bound: tool calls in one answer of the model
  MaxIterations, \* bound: the largest iteration limit a caller passes
  ArrayLimit     \* entries of an array that sanitizeValue keeps (200, or 50
                 \* when the checkpoint is too large)

ASSUME BoundsAssumption ==
  /\ MaxActions \in Nat
  /\ MaxCalls \in Nat \ {0}
  /\ MaxIterations \in Nat \ {0}
  /\ ArrayLimit \in Nat \ {0}

Action == 1..MaxActions

VARIABLES
  pc,        \* where each invocation is suspended
  mem,       \* its local variables
  saving,    \* the checkpoint it is writing and where it goes on afterwards
  aborted,   \* config.signal.aborted
  journal,   \* content of <runId>.json, or NoCheckpoint
  issued,    \* number of tool calls the model has asked for
  effects,   \* history: how often tool.execute was started for each call
  grants     \* history: how often a replay of each call was confirmed

agentVars == <<pc, mem, saving, aborted, journal, issued, effects, grants>>

-----------------------------------------------------------------------------
Status == {"running", "completed", "failed", "interrupted", "exhausted"}

\* "saving": the temporary file is being written; "renamed": it has replaced
\* the journal file but save() has not resolved yet.
Running == {"loop", "model", "answer", "tools", "gate", "executing", "limit",
            "saving", "renamed"}
Ended == {"resolved", "rejected", "dead"}
PC == {"idle"} \cup Running \cup Ended

\* Where an invocation may go on when its checkpoint has been written.
Continuation == (Running \cup Ended) \ {"saving", "renamed"}

Checkpoint == [status  : Status,
               next    : Nat,          \* nextIteration
               max     : Nat,          \* maxIterations
               pending : Seq(Action),  \* pendingActions
               steps   : Seq(Action),  \* calls whose observation is recorded
               out     : BOOLEAN]      \* output is present

Locals == [next : Nat, max : Nat, pending : Seq(Action), steps : Seq(Action),
           out : BOOLEAN,
           resuming : BOOLEAN]         \* still before the for loop

NoCheckpoint == [status |-> "none"]

Elems(s) == {s[k] : k \in 1..Len(s)}

Snapshot(m, status) ==
  [status |-> status, next |-> m.next, max |-> m.max, pending |-> m.pending,
   steps |-> m.steps, out |-> m.out]

FreshLocals(max) ==
  [next |-> 0, max |-> max, pending |-> <<>>, steps |-> <<>>, out |-> FALSE,
   resuming |-> FALSE]

\* Mutant of RestoredLocals: the steps of the checkpoint are not restored.
RestoredWithoutSteps(cp, max) ==
  [next |-> cp.next, max |-> max, pending |-> cp.pending, steps |-> <<>>,
   out |-> cp.out, resuming |-> TRUE]

RestoredLocals(cp, max) ==
  [next |-> cp.next, max |-> max, pending |-> cp.pending, steps |-> cp.steps,
   out |-> cp.out, resuming |-> TRUE]

NotWriting(status) ==
  [cp |-> Snapshot(FreshLocals(1), status), then |-> "loop"]

Live(i) == pc[i] \in Running

-----------------------------------------------------------------------------
(* Building blocks *)

Goto(i, where) == pc' = [pc EXCEPT ![i] = where]

\* The invocation is over: of its locals only the status it ended with, which
\* is also the kind of error it throws, is visible from outside.
Leave(i, how, status) ==
  /\ Goto(i, how)
  /\ mem' = [mem EXCEPT ![i] = FreshLocals(1)]
  /\ saving' = [saving EXCEPT ![i] = NotWriting(status)]
  /\ aborted' = [aborted EXCEPT ![i] = FALSE]

\* await persist(status): the checkpoint is built at once, then written.
Persist(i, m, status, then) ==
  /\ mem' = [mem EXCEPT ![i] = m]
  /\ saving' = [saving EXCEPT ![i] = [cp |-> Snapshot(m, status), then |-> then]]
  /\ Goto(i, "saving")

\* The catch block: one more checkpoint, then the error is rethrown.
Throw(i, m, status) == Persist(i, m, status, "rejected")

\* Mutants of RecordObservation: the step is not pushed; the call is not taken
\* off pendingActions.
RecordWithoutStep(i) ==
  Persist(i, [mem[i] EXCEPT !.pending = Tail(@)], "running", "tools")
RecordWithoutSlice(i) ==
  Persist(i, [mem[i] EXCEPT !.steps = Append(@, Head(mem[i].pending))],
          "running", "tools")

\* steps.push, messages.push, pendingActions.slice(1), persist('running').
RecordObservation(i) ==
  Persist(i, [mem[i] EXCEPT !.steps = Append(@, Head(mem[i].pending)),
                            !.pending = Tail(@)],
          "running", "tools")

\* Mutant of Continue: a retry does not use up an iteration.
ContinueForFree(i) ==
  /\ mem[i].next + 1 < mem[i].max
  /\ Persist(i, mem[i], "running", "loop")

\* nextIteration = iteration + 1; persist('running'); continue.
Continue(i) ==
  /\ mem[i].next + 1 < mem[i].max
  /\ Persist(i, [mem[i] EXCEPT !.next = @ + 1], "running", "loop")

-----------------------------------------------------------------------------
(* Entering the run *)

BeginFresh(i, max) ==
  /\ pc[i] = "idle"
  /\ Persist(i, FreshLocals(max), "running", "loop")
  /\ UNCHANGED <<aborted, journal, issued, effects, grants>>

\* Mutant of MayReplay: pending tools are executed again without being asked.
ReplaysAnyway(confirm) == TRUE

\* if (!this.config.resumePendingTools) throw ...
MayReplay(confirm) == confirm

\* cp is config.resumeFrom, confirm is config.resumePendingTools.
BeginResume(i, cp, max, confirm) ==
  LET m == RestoredLocals(cp, max)
  IN /\ pc[i] = "idle"
     /\ \/ /\ cp.status = "completed"
           /\ Leave(i, "resolved", "completed")
           /\ UNCHANGED grants
        \/ /\ cp.status # "completed"
           /\ cp.pending = <<>>
           /\ Persist(i, [m EXCEPT !.resuming = FALSE], "running", "loop")
           /\ UNCHANGED <<aborted, grants>>
        \/ /\ cp.status # "completed"
           /\ cp.pending # <<>>
           /\ ~MayReplay(confirm)
           /\ Throw(i, m, "interrupted")
           /\ UNCHANGED <<aborted, grants>>
        \/ /\ cp.status # "completed"
           /\ cp.pending # <<>>
           /\ MayReplay(confirm)
           /\ mem' = [mem EXCEPT ![i] = m]
           /\ Goto(i, "tools")
           /\ grants' = [a \in Action |->
                           IF confirm /\ a \in Elems(cp.pending)
                           THEN grants[a] + 1 ELSE grants[a]]
           /\ UNCHANGED <<saving, aborted>>
     /\ UNCHANGED <<journal, issued, effects>>

-----------------------------------------------------------------------------
(* The checkpoint writer *)

\* value.slice(-limits.array)
Latest(s) ==
  IF Len(s) <= ArrayLimit THEN s ELSE SubSeq(s, Len(s) - ArrayLimit + 1, Len(s))

Sanitized(cp) == [cp EXCEPT !.pending = Latest(@), !.steps = Latest(@)]

Rename(i) ==
  /\ pc[i] = "saving"
  /\ journal' = Sanitized(saving[i].cp)
  /\ Goto(i, "renamed")
  /\ UNCHANGED <<mem, saving, aborted, issued, effects, grants>>

Saved(i) ==
  /\ pc[i] = "renamed"
  /\ IF saving[i].then \in Ended
     THEN Leave(i, saving[i].then, saving[i].cp.status)
     ELSE /\ Goto(i, saving[i].then)
          /\ saving' = [saving EXCEPT ![i] = NotWriting("running")]
          /\ UNCHANGED <<mem, aborted>>
  /\ UNCHANGED <<journal, issued, effects, grants>>

\* The write fails, or, once the file is in place, the prune after it or the
\* caller's callback throws.  In the catch block the failure is swallowed.
SaveFails(i) ==
  /\ pc[i] \in {"saving", "renamed"}
  /\ IF saving[i].then = "rejected"
     THEN Leave(i, "rejected", saving[i].cp.status)
     ELSE Throw(i, mem[i], "failed") /\ UNCHANGED aborted
  /\ UNCHANGED <<journal, issued, effects, grants>>

-----------------------------------------------------------------------------
(* executePendingActions *)

\* Mutant of ToolsDone: the while loop is left after its first call.
ToolsDoneEarly(i) ==
  /\ pc[i] = "tools"
  /\ ~mem[i].resuming
  /\ Goto(i, "loop")
  /\ UNCHANGED <<mem, saving, aborted, journal, issued, effects, grants>>

ToolsDone(i) ==
  /\ pc[i] = "tools"
  /\ mem[i].pending = <<>>
  /\ \/ /\ mem[i].resuming
        /\ Persist(i, [mem[i] EXCEPT !.resuming = FALSE], "running", "loop")
     \/ /\ ~mem[i].resuming
        /\ Goto(i, "loop")
        /\ UNCHANGED <<mem, saving>>
  /\ UNCHANGED <<aborted, journal, issued, effects, grants>>

\* Mutant of StopCondition: it is evaluated inside the while loop.
StopBetweenTools(i) ==
  /\ pc[i] = "tools"
  /\ ~mem[i].resuming
  /\ Persist(i, [mem[i] EXCEPT !.out = TRUE], "completed", "resolved")
  /\ UNCHANGED <<aborted, journal, issued, effects, grants>>

\* config.stopCondition holds of the steps.
StopCondition(i) ==
  /\ pc[i] = "tools"
  /\ mem[i].pending = <<>>
  /\ ~mem[i].resuming
  /\ Persist(i, [mem[i] EXCEPT !.out = TRUE], "completed", "resolved")
  /\ UNCHANGED <<aborted, journal, issued, effects, grants>>

NextTool(i) ==
  /\ pc[i] = "tools"
  /\ mem[i].pending # <<>>
  /\ IF aborted[i] THEN Throw(i, mem[i], "interrupted")
                   ELSE Persist(i, mem[i], "running", "gate")
  /\ UNCHANGED <<aborted, journal, issued, effects, grants>>

\* Unknown tool, policy denial, a blocking hook or middleware: the refusal is
\* the observation.
Refuse(i) ==
  /\ pc[i] = "gate"
  /\ RecordObservation(i)
  /\ UNCHANGED <<aborted, journal, issued, effects, grants>>

\* policyGuard or a callback throws.
GateThrows(i) ==
  /\ pc[i] = "gate"
  /\ Throw(i, mem[i], "failed")
  /\ UNCHANGED <<aborted, journal, issued, effects, grants>>

Execute(i) ==
  /\ pc[i] = "gate"
  /\ effects' = [effects EXCEPT ![Head(mem[i].pending)] = @ + 1]
  /\ Goto(i, "executing")
  /\ UNCHANGED <<mem, saving, aborted, journal, issued, grants>>

\* tool.execute settles: its result, or the text of its error, is recorded.
ToolReturns(i) ==
  /\ pc[i] = "executing"
  /\ RecordObservation(i)
  /\ UNCHANGED <<aborted, journal, issued, effects, grants>>

-----------------------------------------------------------------------------
(* The for loop *)

ReachLimit(i) ==
  /\ pc[i] = "loop"
  /\ mem[i].next >= mem[i].max
  /\ Persist(i, [mem[i] EXCEPT !.next = mem[i].max, !.out = TRUE],
             "exhausted", "limit")
  /\ UNCHANGED <<aborted, journal, issued, effects, grants>>

ThrowLimit(i) ==
  /\ pc[i] = "limit"
  /\ Throw(i, mem[i], "exhausted")
  /\ UNCHANGED <<aborted, journal, issued, effects, grants>>

LoopAborted(i) ==
  /\ pc[i] = "loop"
  /\ mem[i].next < mem[i].max
  /\ aborted[i]
  /\ Throw(i, mem[i], "interrupted")
  /\ UNCHANGED <<aborted, journal, issued, effects, grants>>

\* A preModel middleware answers in the model's place.
ShortCircuit(i) ==
  /\ pc[i] = "loop"
  /\ mem[i].next < mem[i].max
  /\ ~aborted[i]
  /\ Persist(i, [mem[i] EXCEPT !.next = @ + 1, !.out = TRUE],
             "completed", "resolved")
  /\ UNCHANGED <<aborted, journal, issued, effects, grants>>

CallModel(i) ==
  /\ pc[i] = "loop"
  /\ mem[i].next < mem[i].max
  /\ ~aborted[i]
  /\ Goto(i, "model")
  /\ UNCHANGED <<mem, saving, aborted, journal, issued, effects, grants>>

\* The call rejects, or resolves after the abort: runOnError may retry.
ModelFails(i) ==
  /\ pc[i] = "model"
  /\ \/ Continue(i)
     \/ Throw(i, mem[i], "failed")
     \/ aborted[i] /\ Throw(i, mem[i], "interrupted")
  /\ UNCHANGED <<aborted, journal, issued, effects, grants>>

ModelAnswers(i) ==
  /\ pc[i] = "model"
  /\ ~aborted[i]
  /\ Goto(i, "answer")
  /\ UNCHANGED <<mem, saving, aborted, journal, issued, effects, grants>>

\* A postModel middleware asks for a retry.
RetryAnswer(i) ==
  /\ pc[i] = "answer"
  /\ Continue(i)
  /\ UNCHANGED <<aborted, journal, issued, effects, grants>>

\* The parser of tool calls throws.
ParseThrows(i) ==
  /\ pc[i] = "answer"
  /\ Throw(i, mem[i], "failed")
  /\ UNCHANGED <<aborted, journal, issued, effects, grants>>

FinalAnswer(i) ==
  /\ pc[i] = "answer"
  /\ Persist(i, [mem[i] EXCEPT !.next = @ + 1, !.out = TRUE],
             "completed", "resolved")
  /\ UNCHANGED <<aborted, journal, issued, effects, grants>>

\* Mutant of AskTools: the calls are numbered from zero.
AskToolsFromZero(i) ==
  /\ pc[i] = "answer"
  /\ \E n \in 1..MaxCalls :
       /\ issued + n <= MaxActions
       /\ Persist(i, [mem[i] EXCEPT !.next = @ + 1,
                                    !.pending = [k \in 1..n |-> issued + k - 1]],
                  "running", "tools")
       /\ issued' = issued + n
  /\ UNCHANGED <<aborted, journal, effects, grants>>

AskTools(i) ==
  /\ pc[i] = "answer"
  /\ \E n \in 1..MaxCalls :
       /\ issued + n <= MaxActions
       /\ Persist(i, [mem[i] EXCEPT !.next = @ + 1,
                                    !.pending = [k \in 1..n |-> issued + k]],
                  "running", "tools")
       /\ issued' = issued + n
  /\ UNCHANGED <<aborted, journal, effects, grants>>

-----------------------------------------------------------------------------
\* What the loop does of its own accord once the model or the tool it waits
\* for has answered.
AgentRuns(i) ==
  \/ Rename(i) \/ Saved(i)
  \/ ToolsDone(i) \/ StopCondition(i) \/ NextTool(i)
  \/ Refuse(i) \/ GateThrows(i) \/ Execute(i)
  \/ ReachLimit(i) \/ ThrowLimit(i) \/ LoopAborted(i)
  \/ ShortCircuit(i) \/ CallModel(i)
  \/ RetryAnswer(i) \/ ParseThrows(i) \/ FinalAnswer(i) \/ AskTools(i)

AgentStep(i) ==
  AgentRuns(i) \/ SaveFails(i) \/ ToolReturns(i) \/ ModelFails(i) \/ ModelAnswers(i)

AgentInit ==
  /\ pc = [i \in Agent |-> "idle"]
  /\ mem = [i \in Agent |-> FreshLocals(1)]
  /\ saving = [i \in Agent |-> NotWriting("running")]
  /\ aborted = [i \in Agent |-> FALSE]
  /\ issued = 0
  /\ effects = [a \in Action |-> 0]
  /\ grants = [a \in Action |-> 0]

AgentTypeOK ==
  /\ pc \in [Agent -> PC]
  /\ mem \in [Agent -> Locals]
  /\ saving \in [Agent -> [cp : Checkpoint, then : Continuation]]
  /\ aborted \in [Agent -> BOOLEAN]
  /\ journal \in Checkpoint \cup {NoCheckpoint}
  /\ issued \in 0..MaxActions
  /\ effects \in [Action -> Nat]
  /\ grants \in [Action -> Nat]

-----------------------------------------------------------------------------
(* What the journal promises *)

\* No side effect is repeated without confirmation: a call is started at most
\* once more than its replay was confirmed (agent.ts:545-547).
NoUnconfirmedRepeat == \A a \in Action : effects[a] <= 1 + grants[a]

\* Every call that may have had its side effect is known to the journal, as
\* pending (so that a resume asks) or with its observation (so that a resume
\* does not repeat it).
JournalKnowsEffects ==
  \A a \in Action :
    effects[a] > 0 =>
      /\ journal # NoCheckpoint
      /\ a \in Elems(journal.pending) \cup Elems(journal.steps)

\* The journal records each call at most once: never two observations of it,
\* never pending and observed.
JournalHasNoDuplicates ==
  journal # NoCheckpoint =>
    LET all == journal.steps \o journal.pending
    IN Cardinality(Elems(all)) = Len(all)

\* A run recorded as completed or exhausted has answered every call.
EndedRunsHaveNothingPending ==
  journal.status \in {"completed", "exhausted"} => journal.pending = <<>>

-----------------------------------------------------------------------------
(* What holds of the calls that an invocation has in hand *)

\* Where an invocation is, a write in between left out.
Stage(i) == IF pc[i] \in {"saving", "renamed"} THEN saving[i].then ELSE pc[i]

\* What is being written is what is in memory.
SavingMemory ==
  \A i \in Agent : pc[i] \in {"saving", "renamed"} =>
    /\ saving[i].cp.pending = mem[i].pending
    /\ saving[i].cp.steps = mem[i].steps

CallInHand ==
  \A i \in Agent : Stage(i) \in {"gate", "executing"} => mem[i].pending # <<>>

\* Pending calls are distinct and among the n that have been asked for.
ProperCalls(s, n) ==
  /\ \A j, k \in 1..Len(s) : s[j] = s[k] => j = k
  /\ \A k \in 1..Len(s) : s[k] <= n

NotAskedNotTried == \A a \in Action : a > issued => effects[a] = 0

\* The calls an invocation may still execute: all that are pending, except the
\* one that is executing.
Executable(i) ==
  CASE Stage(i) \in {"tools", "gate"} -> Elems(mem[i].pending)
    [] Stage(i) = "executing"         -> Elems(Tail(mem[i].pending))
    [] OTHER                          -> {}
=============================================================================
