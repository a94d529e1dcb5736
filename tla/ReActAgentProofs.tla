--------------------------- MODULE ReActAgentProofs --------------------------
(***************************************************************************)
(* What the steps of an invocation of the durable loop do, whoever starts  *)
(* and stops it: the types they keep, the few shapes they have, and what   *)
(* the start of an invocation leaves it with.                              *)
(***************************************************************************)
EXTENDS ReActAgent, TLAPS

-----------------------------------------------------------------------------
(* Type correctness *)

LEMMA LatestType ==
  ASSUME NEW S, NEW s \in Seq(S)
  PROVE  Latest(s) \in Seq(S)
<1>1. CASE Len(s) <= ArrayLimit
  BY <1>1 DEF Latest
<1>2. CASE ~(Len(s) <= ArrayLimit)
  <2>1. ArrayLimit \in Nat \ {0}
    BY BoundsAssumption
  <2>2. Len(s) \in Nat /\ Len(s) - ArrayLimit + 1 \in 1..Len(s)
    BY <1>2, <2>1
  <2>3. SubSeq(s, Len(s) - ArrayLimit + 1, Len(s)) \in Seq(S)
    BY <2>2
  <2> QED
    BY <1>2, <2>3 DEF Latest
<1> QED
  BY <1>1, <1>2

LEMMA SanitizedType ==
  ASSUME NEW cp \in Checkpoint
  PROVE  Sanitized(cp) \in Checkpoint
<1>1. Latest(cp.pending) \in Seq(Action) /\ Latest(cp.steps) \in Seq(Action)
  BY LatestType DEF Checkpoint
<1> QED
  BY <1>1 DEF Sanitized, Checkpoint

LEMMA SnapshotType ==
  ASSUME NEW m \in Locals, NEW status \in Status
  PROVE  Snapshot(m, status) \in Checkpoint
BY DEF Snapshot, Checkpoint, Locals

LEMMA FreshType ==
  ASSUME NEW max \in Nat
  PROVE  FreshLocals(max) \in Locals
BY DEF FreshLocals, Locals

LEMMA RestoredType ==
  ASSUME NEW cp \in Checkpoint, NEW max \in Nat
  PROVE  RestoredLocals(cp, max) \in Locals
BY DEF RestoredLocals, Locals, Checkpoint

LEMMA NotWritingType ==
  ASSUME NEW status \in Status
  PROVE  NotWriting(status) \in [cp : Checkpoint, then : Continuation]
<1>1. Snapshot(FreshLocals(1), status) \in Checkpoint
  BY FreshType, SnapshotType
<1> QED
  BY <1>1 DEF NotWriting, Continuation, Running

\* The three functions that describe the invocations have their types.
LocalTypes ==
  /\ pc \in [Agent -> PC]
  /\ mem \in [Agent -> Locals]
  /\ saving \in [Agent -> [cp : Checkpoint, then : Continuation]]

LEMMA PersistType ==
  ASSUME LocalTypes, NEW i \in Agent, NEW m \in Locals, NEW status \in Status,
         NEW then \in Continuation, Persist(i, m, status, then)
  PROVE  LocalTypes'
<1>1. [cp |-> Snapshot(m, status), then |-> then] \in [cp : Checkpoint, then : Continuation]
  BY SnapshotType
<1>2. "saving" \in PC
  BY DEF PC, Running
<1> QED
  BY <1>1, <1>2 DEF Persist, Goto, LocalTypes

LEMMA LeaveType ==
  ASSUME LocalTypes, aborted \in [Agent -> BOOLEAN],
         NEW i \in Agent, NEW how \in PC, NEW status \in Status,
         Leave(i, how, status)
  PROVE  LocalTypes' /\ aborted' \in [Agent -> BOOLEAN]
<1>1. FreshLocals(1) \in Locals /\ NotWriting(status) \in [cp : Checkpoint, then : Continuation]
  BY FreshType, NotWritingType
<1> QED
  BY <1>1 DEF Leave, Goto, LocalTypes

LEMMA AnsweredType ==
  ASSUME NEW m \in Locals, m.pending # <<>>
  PROVE  [m EXCEPT !.steps = Append(@, Head(m.pending)),
                   !.pending = Tail(@)] \in Locals
<1>1. m.steps \in Seq(Action) /\ m.pending \in Seq(Action)
  BY DEF Locals
<1>2. Head(m.pending) \in Action /\ Tail(m.pending) \in Seq(Action)
  BY <1>1
<1>3. Append(m.steps, Head(m.pending)) \in Seq(Action)
  BY <1>1, <1>2
<1> QED
  BY <1>2, <1>3 DEF Locals

LEMMA RecordType ==
  ASSUME LocalTypes, NEW i \in Agent, mem[i].pending # <<>>, RecordObservation(i)
  PROVE  LocalTypes'
<1> DEFINE m == [mem[i] EXCEPT !.steps = Append(@, Head(mem[i].pending)),
                               !.pending = Tail(@)]
<1>1. mem[i] \in Locals
  BY DEF LocalTypes
<1>2. m \in Locals
  BY <1>1, AnsweredType
<1>3. Persist(i, m, "running", "tools")
  BY DEF RecordObservation
<1>4. "running" \in Status /\ "tools" \in Continuation
  BY DEF Status, Continuation, Running
<1> HIDE DEF m
<1> QED
  BY <1>2, <1>3, <1>4, PersistType

LEMMA GotoType ==
  ASSUME LocalTypes, NEW i \in Agent, NEW where \in PC, Goto(i, where),
         UNCHANGED <<mem, saving>>
  PROVE  LocalTypes'
BY DEF Goto, LocalTypes

\* The values of pc and of status that the actions name.
LEMMA Names ==
  /\ Running \subseteq PC
  /\ Ended \subseteq PC
  /\ Running \ {"saving", "renamed"} \subseteq Continuation
  /\ Ended \subseteq Continuation
  /\ Continuation \subseteq PC
  /\ {"running", "completed", "failed", "interrupted", "exhausted"} = Status
BY DEF PC, Status, Continuation, Running, Ended

\* What the actions of the loop write keeps the types of the locals.
LEMMA LocalsUpdates ==
  ASSUME NEW m \in Locals
  PROVE  /\ m.next \in Nat /\ m.max \in Nat
         /\ [m EXCEPT !.resuming = FALSE] \in Locals
         /\ [m EXCEPT !.out = TRUE] \in Locals
         /\ [m EXCEPT !.next = @ + 1] \in Locals
         /\ [m EXCEPT !.next = @ + 1, !.out = TRUE] \in Locals
         /\ [m EXCEPT !.next = m.max, !.out = TRUE] \in Locals
         /\ \A s \in Seq(Action) :
              [m EXCEPT !.next = @ + 1, !.pending = s] \in Locals
<1>1. m.next \in Nat /\ m.max \in Nat /\ m.next + 1 \in Nat
  BY DEF Locals
<1>2. [m EXCEPT !.resuming = FALSE] \in Locals
  BY DEF Locals
<1>3. [m EXCEPT !.out = TRUE] \in Locals
  BY DEF Locals
<1>4. [m EXCEPT !.next = @ + 1] \in Locals
  BY <1>1 DEF Locals
<1>5. [m EXCEPT !.next = @ + 1, !.out = TRUE] \in Locals
  BY <1>1 DEF Locals
<1>6. [m EXCEPT !.next = m.max, !.out = TRUE] \in Locals
  BY <1>1 DEF Locals
<1>7. ASSUME NEW s \in Seq(Action)
      PROVE  [m EXCEPT !.next = @ + 1, !.pending = s] \in Locals
  BY <1>1 DEF Locals
<1> QED
  BY <1>1, <1>2, <1>3, <1>4, <1>5, <1>6, <1>7

LEMMA AskedType ==
  ASSUME NEW n \in Nat, issued \in Nat, issued + n <= MaxActions
  PROVE  [k \in 1..n |-> issued + k] \in Seq(Action)
<1>1. \A k \in 1..n : issued + k \in Action
  BY BoundsAssumption DEF Action
<1> QED
  BY <1>1

LEMMA AgentStepTypes ==
  ASSUME AgentTypeOK, CallInHand, NEW i \in Agent, AgentStep(i)
  PROVE  LocalTypes' /\ aborted' \in [Agent -> BOOLEAN]
<1> USE Names
<1>1. LocalTypes /\ aborted \in [Agent -> BOOLEAN] /\ issued \in 0..MaxActions
  BY DEF AgentTypeOK, LocalTypes
<1>2. mem[i] \in Locals /\ pc[i] \in PC /\ saving[i].then \in Continuation
      /\ saving[i].cp.status \in Status
  BY <1>1 DEF LocalTypes, Checkpoint
<1>3. pc[i] \in {"gate", "executing"} => mem[i].pending # <<>>
  BY DEF CallInHand, Stage
<1>4. CASE Rename(i)
  BY <1>1, <1>4, GotoType DEF Rename, Running
<1>5. CASE Saved(i)
  <2>1. CASE saving[i].then \in Ended
    BY <1>1, <1>2, <1>5, <2>1, LeaveType DEF Saved
  <2>2. CASE saving[i].then \notin Ended
    <3>1. NotWriting("running") \in [cp : Checkpoint, then : Continuation]
      BY NotWritingType DEF Status
    <3> QED
      BY <1>1, <1>2, <1>5, <2>2, <3>1 DEF Saved, Goto, LocalTypes
  <2> QED
    BY <2>1, <2>2
<1>6. CASE SaveFails(i)
  <2>1. CASE saving[i].then = "rejected"
    BY <1>1, <1>2, <1>6, <2>1, LeaveType DEF SaveFails, Ended
  <2>2. CASE saving[i].then # "rejected"
    BY <1>1, <1>2, <1>6, <2>2, PersistType DEF SaveFails, Throw, Ended
  <2> QED
    BY <2>1, <2>2
<1>7. CASE ToolsDone(i)
  <2>1. [mem[i] EXCEPT !.resuming = FALSE] \in Locals
    BY <1>2, LocalsUpdates
  <2> QED
    BY <1>1, <1>7, <2>1, PersistType, GotoType DEF ToolsDone, Running
<1>8. CASE StopCondition(i)
  <2>1. [mem[i] EXCEPT !.out = TRUE] \in Locals
    BY <1>2, LocalsUpdates
  <2> QED
    BY <1>1, <1>8, <2>1, PersistType DEF StopCondition, Ended
<1>9. CASE NextTool(i)
  BY <1>1, <1>2, <1>9, PersistType DEF NextTool, Throw, Running, Ended
<1>10. CASE Refuse(i) \/ ToolReturns(i)
  BY <1>1, <1>3, <1>10, RecordType DEF Refuse, ToolReturns
<1>11. CASE GateThrows(i) \/ ThrowLimit(i) \/ LoopAborted(i) \/ ParseThrows(i)
  BY <1>1, <1>2, <1>11, PersistType
     DEF GateThrows, ThrowLimit, LoopAborted, ParseThrows, Throw, Ended
<1>12. CASE Execute(i)
  BY <1>1, <1>12, GotoType DEF Execute, Running
<1>13. CASE ReachLimit(i)
  <2>1. [mem[i] EXCEPT !.next = mem[i].max, !.out = TRUE] \in Locals
    BY <1>2, LocalsUpdates
  <2> QED
    BY <1>1, <1>13, <2>1, PersistType, SMTT(30) DEF ReachLimit, Running
<1>14. CASE ShortCircuit(i) \/ FinalAnswer(i)
  <2>1. [mem[i] EXCEPT !.next = @ + 1, !.out = TRUE] \in Locals
    BY <1>2, LocalsUpdates
  <2> QED
    BY <1>1, <1>14, <2>1, PersistType, SMTT(30) DEF ShortCircuit, FinalAnswer, Ended
<1>15. CASE CallModel(i) \/ ModelAnswers(i)
  BY <1>1, <1>15, GotoType DEF CallModel, ModelAnswers, Running
<1>16. CASE ModelFails(i) \/ RetryAnswer(i)
  <2>1. [mem[i] EXCEPT !.next = @ + 1] \in Locals
    BY <1>2, LocalsUpdates
  <2> QED
    BY <1>1, <1>2, <1>16, <2>1, PersistType
       DEF ModelFails, RetryAnswer, Continue, Throw, Running, Ended
<1>17. CASE AskTools(i)
  <2>1. PICK n \in 1..MaxCalls :
          /\ issued + n <= MaxActions
          /\ Persist(i, [mem[i] EXCEPT !.next = @ + 1,
                                       !.pending = [k \in 1..n |-> issued + k]],
                     "running", "tools")
    BY <1>17 DEF AskTools
  <2>2. [k \in 1..n |-> issued + k] \in Seq(Action)
    BY <1>1, <2>1, AskedType, BoundsAssumption, SMTT(30)
  <2>3. [mem[i] EXCEPT !.next = @ + 1,
                       !.pending = [k \in 1..n |-> issued + k]] \in Locals
    BY <1>2, <2>2, LocalsUpdates
  <2>4. aborted' = aborted
    BY <1>17 DEF AskTools
  <2> QED
    BY <1>1, <2>1, <2>3, <2>4, PersistType DEF Running
<1> QED
  BY <1>4, <1>5, <1>6, <1>7, <1>8, <1>9, <1>10, <1>11, <1>12, <1>13, <1>14,
     <1>15, <1>16, <1>17 DEF AgentStep, AgentRuns

\* What a step of invocation i does to the variables that LocalTypes leaves out.
LEMMA AgentStepRest ==
  ASSUME AgentTypeOK, CallInHand, NEW i \in Agent, AgentStep(i)
  PROVE  /\ journal' \in Checkpoint \cup {NoCheckpoint}
         /\ issued' \in 0..MaxActions
         /\ effects' \in [Action -> Nat]
         /\ grants' \in [Action -> Nat]
<1> USE DEF AgentTypeOK
<1>1. saving[i].cp \in Checkpoint /\ mem[i] \in Locals
  OBVIOUS
<1>2. CASE Rename(i)
  BY <1>1, <1>2, SanitizedType DEF Rename
<1>3. CASE Execute(i)
  <2>1. mem[i].pending # <<>>
    BY <1>3 DEF CallInHand, Stage, Execute
  <2>2. mem[i].pending \in Seq(Action)
    BY <1>1 DEF Locals
  <2>3. Head(mem[i].pending) \in Action
    BY <2>1, <2>2
  <2> QED
    BY <1>3, <2>3 DEF Execute
<1>4. CASE AskTools(i)
  BY <1>4, BoundsAssumption DEF AskTools
<1>5. CASE UNCHANGED <<journal, issued, effects, grants>>
  BY <1>5
<1> QED
  BY <1>2, <1>3, <1>4, <1>5
     DEF AgentStep, AgentRuns, Saved, SaveFails, ToolsDone, StopCondition,
         NextTool, Refuse, GateThrows, ToolReturns, ReachLimit, ThrowLimit,
         LoopAborted, ShortCircuit, CallModel, ModelFails, ModelAnswers,
         RetryAnswer, ParseThrows, FinalAnswer

-----------------------------------------------------------------------------
(* The shapes of a step *)

\* Stages in which the invocation has nothing left to execute.
Idling == PC \ {"tools", "gate", "executing", "saving", "renamed"}

\* Only invocation i moves, and what it writes is what it holds in memory.
Own(i) ==
  /\ Live(i)
  /\ \A j \in Agent : j # i => /\ pc'[j] = pc[j]
                              /\ mem'[j] = mem[j]
                              /\ saving'[j] = saving[j]
  /\ pc'[i] \in {"saving", "renamed"} =>
       /\ saving'[i].cp.pending = mem'[i].pending
       /\ saving'[i].cp.steps = mem'[i].steps

SameCalls(i) ==
  mem'[i].pending = mem[i].pending /\ mem'[i].steps = mem[i].steps

\* The calls stay as they are; the invocation goes on to where it executes
\* none, stays where it is, or takes the next call in hand.
Shift(i) ==
  /\ SameCalls(i)
  /\ pc[i] = "saving" => pc'[i] = "saving"
  /\ UNCHANGED <<journal, issued, effects, grants>>
  /\ \/ Stage(i)' \in Idling
     \/ Stage(i)' = Stage(i)
     \/ /\ Stage(i) = "tools" /\ Stage(i)' = "gate"
        /\ mem[i].pending # <<>>

\* The checkpoint reaches the file.
Write(i) ==
  /\ SameCalls(i)
  /\ pc[i] = "saving" /\ pc'[i] = "renamed"
  /\ journal' = Sanitized(saving[i].cp)
  /\ Stage(i)' = Stage(i)
  /\ UNCHANGED <<issued, effects, grants>>

\* The call in hand is executed.
Try(i) ==
  /\ SameCalls(i)
  /\ pc[i] = "gate"
  /\ Stage(i) = "gate" /\ Stage(i)' = "executing"
  /\ effects' = [effects EXCEPT ![Head(mem[i].pending)] = @ + 1]
  /\ UNCHANGED <<journal, issued, grants>>

\* The call in hand is answered.
Answer(i) ==
  /\ pc[i] \in {"gate", "executing"} /\ pc'[i] = "saving"
  /\ Stage(i) \in {"gate", "executing"} /\ Stage(i)' = "tools"
  /\ mem'[i].pending = Tail(mem[i].pending)
  /\ mem'[i].steps = Append(mem[i].steps, Head(mem[i].pending))
  /\ UNCHANGED <<journal, issued, effects, grants>>

\* The model asks for n new calls.
Request(i) ==
  /\ pc[i] = "answer" /\ pc'[i] = "saving"
  /\ Stage(i) = "answer" /\ Stage(i)' = "tools"
  /\ \E n \in 1..MaxCalls :
       /\ issued + n <= MaxActions
       /\ issued' = issued + n
       /\ mem'[i].pending = [k \in 1..n |-> issued + k]
  /\ mem'[i].steps = mem[i].steps
  /\ UNCHANGED <<journal, effects, grants>>

\* The invocation ends.
End(i) ==
  /\ Stage(i)' \in Ended /\ pc'[i] \in Ended
  /\ mem'[i].pending = <<>> /\ mem'[i].steps = <<>>
  /\ UNCHANGED <<journal, issued, effects, grants>>

Shape(i) ==
  /\ Own(i)
  /\ Shift(i) \/ Write(i) \/ Try(i) \/ Answer(i) \/ Request(i) \/ End(i)

\* Persist moves one invocation, and writes what it leaves in memory.
LEMMA PersistShape ==
  ASSUME AgentTypeOK, NEW i \in Agent, NEW m, NEW status, NEW then,
         Persist(i, m, status, then), Live(i)
  PROVE  /\ Own(i)
         /\ Stage(i)' = then /\ pc'[i] = "saving"
         /\ mem'[i] = m
BY DEF Persist, Goto, Snapshot, Own, Stage, AgentTypeOK

LEMMA LeaveShape ==
  ASSUME AgentTypeOK, NEW i \in Agent, NEW how \in Ended, NEW status,
         Leave(i, how, status), Live(i)
  PROVE  /\ Own(i)
         /\ Stage(i)' = how /\ pc'[i] = how
         /\ mem'[i].pending = <<>> /\ mem'[i].steps = <<>>
BY DEF Leave, Goto, Own, Stage, FreshLocals, AgentTypeOK, Ended

LEMMA GotoShape ==
  ASSUME AgentTypeOK, NEW i \in Agent, NEW where \in PC \ {"saving", "renamed"},
         Goto(i, where), UNCHANGED <<mem, saving>>, Live(i)
  PROVE  /\ Own(i)
         /\ Stage(i)' = where
         /\ SameCalls(i)
BY DEF Goto, Own, Stage, SameCalls, AgentTypeOK

LEMMA RecordShape ==
  ASSUME AgentTypeOK, CallInHand, NEW i \in Agent, RecordObservation(i),
         pc[i] \in {"gate", "executing"},
         UNCHANGED <<journal, issued, effects, grants>>
  PROVE  Own(i) /\ Answer(i)
<1> DEFINE m == [mem[i] EXCEPT !.steps = Append(@, Head(mem[i].pending)),
                               !.pending = Tail(@)]
<1>1. Persist(i, m, "running", "tools") /\ Live(i)
  BY DEF RecordObservation, Live, Running
<1>2. Own(i) /\ Stage(i)' = "tools" /\ pc'[i] = "saving" /\ mem'[i] = m
  BY <1>1, PersistShape
<1>3. mem[i] \in Locals
  BY DEF AgentTypeOK
<1>4. m.pending = Tail(mem[i].pending)
      /\ m.steps = Append(mem[i].steps, Head(mem[i].pending))
  BY <1>3 DEF Locals
<1> HIDE DEF m
<1>5. Stage(i) \in {"gate", "executing"}
  BY DEF Stage
<1> QED
  BY <1>2, <1>4, <1>5 DEF Answer

\* Every step of the loop has one of the shapes.
LEMMA StepShape ==
  ASSUME AgentTypeOK, CallInHand, SavingMemory, NEW i \in Agent, AgentStep(i)
  PROVE  Shape(i)
<1> DEFINE quiet == UNCHANGED <<journal, issued, effects, grants>>
<1>1. mem[i] \in Locals /\ pc[i] \in PC /\ saving[i].then \in Continuation
  BY DEF AgentTypeOK
<1>2. \A m, status, then :
        /\ Persist(i, m, status, then) /\ Live(i) /\ quiet
        /\ m.pending = mem[i].pending /\ m.steps = mem[i].steps
        /\ then \in Idling
        => Shape(i)
  BY PersistShape DEF Shape, Shift, SameCalls
<1>3. \A status : Throw(i, mem[i], status) /\ Live(i) /\ quiet => Shape(i)
  BY <1>2 DEF Throw, Idling, PC, Ended
<1>4. Continue(i) /\ Live(i) /\ quiet => Shape(i)
  BY <1>1, <1>2 DEF Continue, Idling, PC, Running, Locals
<1>5. CASE Rename(i)
  BY <1>5 DEF Rename, Goto, Shape, Own, Write, SameCalls, Stage, Live, Running,
              SavingMemory, AgentTypeOK
<1>6. CASE Saved(i)
  <2>1. CASE saving[i].then \in Ended
    BY <1>6, <2>1, LeaveShape DEF Saved, Live, Running, Shape, End
  <2>2. CASE saving[i].then \notin Ended
    BY <1>1, <1>6, <2>2 DEF Saved, Goto, Shape, Own, Shift, SameCalls, Stage,
              Live, Running, Continuation, AgentTypeOK
  <2> QED
    BY <2>1, <2>2
<1>7. CASE SaveFails(i)
  <2>1. CASE saving[i].then = "rejected"
    BY <1>7, <2>1, LeaveShape DEF SaveFails, Live, Running, Shape, End, Ended
  <2>2. CASE saving[i].then # "rejected"
    BY <1>3, <1>7, <2>2 DEF SaveFails, Live, Running
  <2> QED
    BY <2>1, <2>2
<1>8. CASE ToolsDone(i)
  <2>1. CASE mem[i].resuming
    BY <1>1, <1>2, <1>8, <2>1
       DEF ToolsDone, Live, Running, Locals, Idling, PC
  <2>2. CASE ~mem[i].resuming
    BY <1>8, <2>2, GotoShape
       DEF ToolsDone, Live, Running, Shape, Shift, Idling, PC
  <2> QED
    BY <2>1, <2>2
<1>9. CASE StopCondition(i) \/ ShortCircuit(i) \/ FinalAnswer(i)
  BY <1>1, <1>2, <1>9
     DEF StopCondition, ShortCircuit, FinalAnswer, Live, Running, Locals,
         Idling, PC, Ended
<1>10. CASE NextTool(i)
  <2>1. CASE aborted[i]
    BY <1>3, <1>10, <2>1 DEF NextTool, Live, Running
  <2>2. CASE ~aborted[i]
    BY <1>10, <2>2, PersistShape
       DEF NextTool, Live, Running, Shape, Shift, SameCalls, Stage
  <2> QED
    BY <2>1, <2>2
<1>11. CASE Refuse(i) \/ ToolReturns(i)
  BY <1>11, RecordShape DEF Refuse, ToolReturns, Shape
<1>12. CASE GateThrows(i) \/ ThrowLimit(i) \/ LoopAborted(i) \/ ParseThrows(i)
  BY <1>3, <1>12
     DEF GateThrows, ThrowLimit, LoopAborted, ParseThrows, Live, Running
<1>13. CASE Execute(i)
  <2>1. Own(i) /\ Stage(i)' = "executing" /\ SameCalls(i)
    BY <1>13, GotoShape DEF Execute, Live, Running, PC
  <2> QED
    BY <1>13, <2>1 DEF Execute, Shape, Try, Stage
<1>14. CASE ReachLimit(i)
  BY <1>1, <1>2, <1>14
     DEF ReachLimit, Live, Running, Locals, Idling, PC
<1>15. CASE CallModel(i) \/ ModelAnswers(i)
  BY <1>15, GotoShape
     DEF CallModel, ModelAnswers, Live, Running, Shape, Shift, Idling, PC
<1>16. CASE ModelFails(i) \/ RetryAnswer(i)
  BY <1>3, <1>4, <1>16 DEF ModelFails, RetryAnswer, Live, Running
<1>17. CASE AskTools(i)
  <2>1. PICK n \in 1..MaxCalls :
          /\ issued + n <= MaxActions
          /\ Persist(i, [mem[i] EXCEPT !.next = @ + 1,
                                       !.pending = [k \in 1..n |-> issued + k]],
                     "running", "tools")
          /\ issued' = issued + n
    BY <1>17 DEF AskTools
  <2> DEFINE m == [mem[i] EXCEPT !.next = @ + 1,
                                 !.pending = [k \in 1..n |-> issued + k]]
  <2>2. m.pending = [k \in 1..n |-> issued + k] /\ m.steps = mem[i].steps
    BY <1>1 DEF Locals
  <2>3. Persist(i, m, "running", "tools")
    BY <2>1
  <2> HIDE DEF m
  <2>4. Own(i) /\ Stage(i)' = "tools" /\ pc'[i] = "saving" /\ mem'[i] = m
    BY <1>17, <2>3, PersistShape DEF AskTools, Live, Running
  <2>5. Stage(i) = "answer" /\ pc[i] = "answer" /\ UNCHANGED <<journal, effects, grants>>
    BY <1>17 DEF AskTools, Stage
  <2> QED
    BY <2>1, <2>2, <2>4, <2>5 DEF Shape, Request
<1> QED
  BY <1>5, <1>6, <1>7, <1>8, <1>9, <1>10, <1>11, <1>12, <1>13, <1>14, <1>15,
     <1>16, <1>17 DEF AgentStep, AgentRuns

-----------------------------------------------------------------------------
(* Starting an invocation *)

\* Invocation i begins a run, or resumes it from the checkpoint cp.
Begins(i, cp) ==
  \/ cp = NoCheckpoint /\ \E max \in 1..MaxIterations : BeginFresh(i, max)
  \/ /\ cp # NoCheckpoint
     /\ \E max \in Nat, confirm \in BOOLEAN : BeginResume(i, cp, max, confirm)

\* What that leaves it with: no calls, or those of the checkpoint; and it
\* executes them only when their replay is granted.
Entry(i, cp) ==
  /\ pc[i] = "idle"
  /\ \A j \in Agent : j # i => /\ pc'[j] = pc[j]
                              /\ mem'[j] = mem[j]
                              /\ saving'[j] = saving[j]
  /\ pc'[i] \in {"saving", "renamed"} =>
       /\ saving'[i].cp.pending = mem'[i].pending
       /\ saving'[i].cp.steps = mem'[i].steps
  /\ UNCHANGED <<journal, issued, effects>>
  /\ \/ mem'[i].pending = <<>>
     \/ cp # NoCheckpoint /\ mem'[i].pending = cp.pending
  /\ \/ Stage(i)' \in Idling /\ UNCHANGED grants
     \/ /\ Stage(i)' = "tools"
        /\ grants' = [a \in Action |-> IF a \in Elems(mem'[i].pending)
                                       THEN grants[a] + 1 ELSE grants[a]]

LEMMA BeginTypes ==
  ASSUME AgentTypeOK, NEW i \in Agent, NEW cp \in Checkpoint \cup {NoCheckpoint},
         Begins(i, cp)
  PROVE  AgentTypeOK' /\ Entry(i, cp)
<1> USE Names DEF AgentTypeOK
<1>1. LocalTypes
  BY DEF LocalTypes
<1>2. ASSUME NEW max \in 1..MaxIterations, BeginFresh(i, max)
      PROVE  AgentTypeOK' /\ Entry(i, cp)
  <2>1. Persist(i, FreshLocals(max), "running", "loop") /\ max \in Nat
    BY <1>2 DEF BeginFresh
  <2>2. FreshLocals(max) \in Locals
    BY <2>1, FreshType
  <2>3. LocalTypes'
    BY <1>1, <2>1, <2>2, PersistType DEF Running
  <2>4. UNCHANGED <<aborted, journal, issued, effects, grants>>
    BY <1>2 DEF BeginFresh
  <2>5. Entry(i, cp)
    BY <1>2, <2>1, <2>4 DEF BeginFresh, Entry, Persist, Goto, Snapshot, Stage,
                            Idling, PC, Running, FreshLocals
  <2> QED
    BY <2>3, <2>4, <2>5 DEF LocalTypes
<1>3. ASSUME NEW max \in Nat, NEW confirm \in BOOLEAN,
             BeginResume(i, cp, max, confirm), cp # NoCheckpoint
      PROVE  AgentTypeOK' /\ Entry(i, cp)
  <2>1. cp \in Checkpoint /\ pc[i] = "idle"
    BY <1>3 DEF BeginResume
  <2> DEFINE m == RestoredLocals(cp, max)
  <2>2. m \in Locals /\ m.pending = cp.pending
    BY <2>1, RestoredType DEF RestoredLocals
  <2>3. [m EXCEPT !.resuming = FALSE] \in Locals
        /\ [m EXCEPT !.resuming = FALSE].pending = cp.pending
    BY <2>2, LocalsUpdates DEF Locals
  <2>4. UNCHANGED <<journal, issued, effects>>
    BY <1>3 DEF BeginResume
  <2>5. CASE Leave(i, "resolved", "completed") /\ UNCHANGED grants
    <3>1. LocalTypes' /\ aborted' \in [Agent -> BOOLEAN]
      BY <1>1, <2>5, LeaveType DEF Ended
    <3>2. Entry(i, cp)
      BY <2>1, <2>4, <2>5
         DEF Entry, Leave, Goto, Stage, Idling, PC, Ended, FreshLocals
    <3> QED
      BY <2>4, <2>5, <3>1, <3>2 DEF LocalTypes
  <2>6. CASE /\ Persist(i, [m EXCEPT !.resuming = FALSE], "running", "loop")
             /\ UNCHANGED <<aborted, grants>>
    <3> DEFINE n == [m EXCEPT !.resuming = FALSE]
    <3>1. n \in Locals /\ n.pending = cp.pending
          /\ Persist(i, n, "running", "loop")
      BY <2>3, <2>6
    <3> HIDE DEF n, m
    <3>2. LocalTypes'
      BY <1>1, <3>1, PersistType DEF Running
    <3>3. Entry(i, cp)
      BY <1>3, <2>1, <2>4, <2>6, <3>1
         DEF Entry, Persist, Goto, Snapshot, Stage, Idling, PC, Running
    <3> QED
      BY <2>4, <2>6, <3>2, <3>3 DEF LocalTypes
  <2>7. CASE Throw(i, m, "interrupted") /\ UNCHANGED <<aborted, grants>>
    <3> HIDE DEF m
    <3>1. LocalTypes'
      BY <1>1, <2>2, <2>7, PersistType DEF Throw, Ended
    <3>2. Entry(i, cp)
      BY <1>3, <2>1, <2>2, <2>4, <2>7
         DEF Entry, Throw, Persist, Goto, Snapshot, Stage, Idling, PC, Ended
    <3> QED
      BY <2>4, <2>7, <3>1, <3>2 DEF LocalTypes
  <2>8. CASE /\ confirm
             /\ mem' = [mem EXCEPT ![i] = m]
             /\ Goto(i, "tools")
             /\ grants' = [a \in Action |->
                             IF confirm /\ a \in Elems(cp.pending)
                             THEN grants[a] + 1 ELSE grants[a]]
             /\ UNCHANGED <<saving, aborted>>
    <3> HIDE DEF m
    <3>1. LocalTypes'
      BY <2>2, <2>8 DEF Goto, LocalTypes, Running
    <3>2. grants' \in [Action -> Nat]
      BY <2>8
    <3>3. Entry(i, cp)
      BY <1>3, <2>1, <2>2, <2>4, <2>8 DEF Entry, Goto, Stage
    <3> QED
      BY <2>4, <2>8, <3>1, <3>2, <3>3 DEF LocalTypes
  <2> QED
    BY <1>3, <2>5, <2>6, <2>7, <2>8 DEF BeginResume, MayReplay
<1> QED
  BY <1>2, <1>3 DEF Begins

-----------------------------------------------------------------------------
(* Sequences of calls *)

LEMMA CallsAreNumbers ==
  ASSUME NEW s \in Seq(Action)
  PROVE  \A k \in 1..Len(s) : s[k] \in Nat
<1>1. Action \subseteq Nat
  BY DEF Action
<1>2. \A k \in 1..Len(s) : s[k] \in Action
  OBVIOUS
<1> QED
  BY <1>1, <1>2

\* Taking off the first call keeps the calls distinct and sets it apart.
LEMMA TailOfCalls ==
  ASSUME NEW s \in Seq(Action), s # <<>>
  PROVE  /\ Head(s) \in Elems(s)
         /\ Elems(Tail(s)) \subseteq Elems(s)
         /\ ProperCalls(s, issued) => /\ ProperCalls(Tail(s), issued)
                              /\ Head(s) \notin Elems(Tail(s))
<1>1. Len(s) \in Nat \ {0} /\ Head(s) = s[1]
  OBVIOUS
<1>2. Len(Tail(s)) = Len(s) - 1
      /\ \A k \in 1..Len(Tail(s)) : k + 1 \in 1..Len(s) /\ Tail(s)[k] = s[k + 1]
  BY <1>1
<1>3. Head(s) \in Elems(s)
  BY <1>1 DEF Elems
<1>4. Elems(Tail(s)) \subseteq Elems(s)
  BY <1>2 DEF Elems
<1>5. ASSUME ProperCalls(s, issued)
      PROVE  ProperCalls(Tail(s), issued)
  <2>1. ASSUME NEW j \in 1..Len(Tail(s)), NEW k \in 1..Len(Tail(s)),
               Tail(s)[j] = Tail(s)[k]
        PROVE  j = k
    <3>1. j + 1 = k + 1
      BY <1>2, <1>5, <2>1 DEF ProperCalls
    <3> QED
      BY <3>1
  <2>2. \A k \in 1..Len(Tail(s)) : Tail(s)[k] <= issued
    BY <1>2, <1>5 DEF ProperCalls
  <2> QED
    BY <2>1, <2>2 DEF ProperCalls
<1>6. ASSUME ProperCalls(s, issued), Head(s) \in Elems(Tail(s))
      PROVE  FALSE
  <2>1. PICK k \in 1..Len(Tail(s)) : Tail(s)[k] = s[1]
    BY <1>1, <1>6 DEF Elems
  <2>2. k + 1 = 1
    BY <1>1, <1>2, <1>6, <2>1 DEF ProperCalls
  <2> QED
    BY <2>2
<1> QED
  BY <1>3, <1>4, <1>5, <1>6

\* What sanitizeValue keeps of distinct calls is distinct.
LEMMA LatestOfCalls ==
  ASSUME NEW s \in Seq(Action), ProperCalls(s, issued)
  PROVE  ProperCalls(Latest(s), issued)
<1>1. CASE Len(s) <= ArrayLimit
  BY <1>1 DEF Latest
<1>2. CASE ~(Len(s) <= ArrayLimit)
  <2> DEFINE off == Len(s) - ArrayLimit
             t == SubSeq(s, off + 1, Len(s))
  <2>1. ArrayLimit \in Nat \ {0} /\ Len(s) \in Nat
    BY BoundsAssumption
  <2>2. off \in Nat /\ off + 1 \in 1..Len(s)
    BY <1>2, <2>1
  <2> HIDE DEF off
  <2>3. Len(t) = Len(s) - off
        /\ \A k \in 1..Len(t) : off + k \in 1..Len(s) /\ t[k] = s[off + k]
    BY <2>1, <2>2
  <2>4. Latest(s) = t
    BY <1>2 DEF Latest, off
  <2> HIDE DEF t
  <2>5. ASSUME NEW j \in 1..Len(t), NEW k \in 1..Len(t), t[j] = t[k]
        PROVE  j = k
    <3>1. off + j = off + k
      BY <2>3, <2>5 DEF ProperCalls
    <3> QED
      BY <2>2, <2>3, <3>1
  <2>6. \A k \in 1..Len(t) : t[k] <= issued
    BY <2>3 DEF ProperCalls
  <2> QED
    BY <2>4, <2>5, <2>6 DEF ProperCalls
<1> QED
  BY <1>1, <1>2

\* An invocation that another one's step leaves alone, and that is not alive,
\* keeps what the invariant says of it.
LEMMA Bystander ==
  ASSUME NEW i \in Agent, NEW j \in Agent, j # i, ~Live(j),
         pc'[j] = pc[j], mem'[j] = mem[j], saving'[j] = saving[j]
  PROVE  /\ ~Live(j)'
         /\ Stage(j)' = pc[j]
         /\ pc[j] \notin {"saving", "renamed", "tools", "gate", "executing"}
         /\ Executable(j)' = {}
BY DEF Live, Stage, Executable, Running
=============================================================================
