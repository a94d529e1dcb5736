------------------------- MODULE AgentSidecarProofs -------------------------
(***************************************************************************)
(* The sidecar admits one run at a time, repeats no side effect without    *)
(* confirmation although an invocation it gave up may still be at work,    *)
(* and records no more iterations than the limit.  For any set of requests *)
(* and any bounds.                                                         *)
(***************************************************************************)
EXTENDS AgentSidecar, ReActAgentProofs, FiniteSetTheorems

-----------------------------------------------------------------------------
(* Type correctness *)

\* The variables of the handlers have their types.
ServerTypes ==
  /\ active \in Agent \cup {NoAgent}
  /\ handler \in [Agent -> HandlerState]
  /\ resumeFrom \in [Agent -> CheckpointOrNone]
  /\ marked \in [Agent -> CheckpointOrNone]
  /\ verdict \in [Agent -> Status]

LEMMA LimitType ==
  ASSUME NEW cp \in Checkpoint, NEW n \in Nat
  PROVE  ResumeLimit(cp, n) \in Nat /\ ResumeLimit(cp, n) >= cp.max
BY DEF ResumeLimit, Checkpoint

\* Calling agent.run is beginning the invocation with what the handler loaded.
LEMMA RunBegins ==
  ASSUME TypeOK, NEW i \in Agent, RunAgent(i)
  PROVE  /\ AgentTypeOK' /\ Entry(i, resumeFrom[i])
         /\ Begins(i, resumeFrom[i])
<1>1. AgentTypeOK /\ resumeFrom[i] \in Checkpoint \cup {NoCheckpoint}
  BY DEF TypeOK, CheckpointOrNone
<1>2. Begins(i, resumeFrom[i])
  <2>1. CASE resumeFrom[i] = NoCheckpoint
    BY <2>1 DEF RunAgent, Begins
  <2>2. CASE resumeFrom[i] # NoCheckpoint
    <3>1. PICK requested \in 1..MaxIterations, confirm \in BOOLEAN :
            BeginResume(i, resumeFrom[i], ResumeLimit(resumeFrom[i], requested), confirm)
      BY <2>2 DEF RunAgent
    <3>2. requested \in Nat /\ resumeFrom[i] \in Checkpoint
      BY <1>1, <2>2
    <3>3. ResumeLimit(resumeFrom[i], requested) \in Nat
      BY <3>2, LimitType
    <3> QED
      BY <2>2, <3>1, <3>3 DEF Begins
  <2> QED
    BY <2>1, <2>2
<1> QED
  BY <1>1, <1>2, BeginTypes

\* The handlers' steps that leave the invocations alone.
HandlerOnly(i) ==
  \/ RequestFresh(i) \/ RequestResume(i) \/ Admit(i) \/ SetupThrows(i)
  \/ AgentResolved(i) \/ AgentRejected(i) \/ MarkLoad(i) \/ MarkFails(i)

LEMMA ServerStepTypes ==
  ASSUME TypeOK, NEW i \in Agent,
         HandlerOnly(i) \/ RunAgent(i) \/ Timeout(i) \/ MarkSave(i)
  PROVE  ServerTypes'
<1>1. /\ journal \in CheckpointOrNone
      /\ saving[i].cp.status \in Status
      /\ {"failed", "interrupted"} \subseteq Status
      /\ NoCheckpoint \in CheckpointOrNone
  BY DEF TypeOK, AgentTypeOK, CheckpointOrNone, Checkpoint, Status
<1>2. ServerTypes
  BY DEF TypeOK, ServerTypes
<1>3. HandlerState = {"none", "loaded", "setup", "racing", "marking", "writing", "done"}
  BY DEF HandlerState
<1>4. CASE RequestFresh(i) \/ RequestResume(i) \/ Admit(i) \/ MarkLoad(i) \/ RunAgent(i)
  BY <1>1, <1>2, <1>3, <1>4
     DEF RequestFresh, RequestResume, Admit, MarkLoad, RunAgent, Move, ServerTypes
<1>5. CASE SetupThrows(i) \/ AgentRejected(i) \/ Timeout(i)
  BY <1>1, <1>2, <1>3, <1>5
     DEF SetupThrows, AgentRejected, Timeout, Fail, Move, ServerTypes
<1>6. CASE AgentResolved(i) \/ MarkFails(i) \/ MarkSave(i)
  BY <1>1, <1>2, <1>3, <1>6
     DEF AgentResolved, MarkFails, MarkSave, Finish, Move, ServerTypes
<1> QED
  BY <1>4, <1>5, <1>6 DEF HandlerOnly

LEMMA CrashTypes ==
  ASSUME TypeOK, Crash
  PROVE  TypeOK'
<1>1. FreshLocals(1) \in Locals
      /\ NotWriting("running") \in [cp : Checkpoint, then : Continuation]
  BY FreshType, NotWritingType DEF Status
<1>2. "dead" \in PC /\ {"none", "done"} \subseteq HandlerState
  BY DEF PC, Ended, HandlerState
<1>3. pc' \in [Agent -> PC] /\ handler' \in [Agent -> HandlerState]
  BY <1>2 DEF Crash, TypeOK, AgentTypeOK
<1>4. /\ mem' \in [Agent -> Locals]
      /\ saving' \in [Agent -> [cp : Checkpoint, then : Continuation]]
  BY <1>1 DEF Crash
<1>5. /\ aborted' \in [Agent -> BOOLEAN]
      /\ active' \in Agent \cup {NoAgent}
      /\ resumeFrom' \in [Agent -> CheckpointOrNone]
      /\ marked' \in [Agent -> CheckpointOrNone]
  BY DEF Crash, CheckpointOrNone
<1> QED
  BY <1>3, <1>4, <1>5 DEF Crash, TypeOK, AgentTypeOK

LEMMA NextTypes ==
  ASSUME TypeOK, CallInHand, WritingMarked, [Next]_vars
  PROVE  TypeOK'
<1>1. AgentTypeOK /\ ServerTypes
  BY DEF TypeOK, ServerTypes
<1>2. ASSUME NEW i \in Agent, HandlerOnly(i)
      PROVE  TypeOK'
  <2>1. UNCHANGED agentVars
    BY <1>2 DEF HandlerOnly, RequestFresh, RequestResume, Admit, SetupThrows,
                AgentResolved, AgentRejected, MarkLoad, MarkFails
  <2>2. AgentTypeOK'
    BY <1>1, <2>1 DEF agentVars, AgentTypeOK
  <2> QED
    BY <1>2, <2>2, ServerStepTypes DEF ServerTypes, TypeOK
<1>3. ASSUME NEW i \in Agent, RunAgent(i)
      PROVE  TypeOK'
  BY <1>3, RunBegins, ServerStepTypes DEF ServerTypes, TypeOK
<1>4. ASSUME NEW i \in Agent, Timeout(i)
      PROVE  TypeOK'
  <2>1. AgentTypeOK'
    BY <1>1, <1>4 DEF Timeout, AgentTypeOK
  <2> QED
    BY <1>4, <2>1, ServerStepTypes DEF ServerTypes, TypeOK
<1>5. ASSUME NEW i \in Agent, MarkSave(i)
      PROVE  TypeOK'
  <2>1. marked[i] \in Checkpoint /\ verdict[i] \in Status
    BY <1>1, <1>5 DEF MarkSave, WritingMarked, ServerTypes, CheckpointOrNone
  <2>2. [marked[i] EXCEPT !.status = verdict[i]] \in Checkpoint
    BY <2>1 DEF Checkpoint
  <2>3. AgentTypeOK'
    BY <1>1, <1>5, <2>2, SanitizedType DEF MarkSave, AgentTypeOK
  <2> QED
    BY <1>5, <2>3, ServerStepTypes DEF ServerTypes, TypeOK
<1>6. ASSUME NEW i \in Agent, AgentStep(i), UNCHANGED serverVars
      PROVE  TypeOK'
  <2>1. AgentTypeOK'
    BY <1>1, <1>6, AgentStepTypes, AgentStepRest DEF AgentTypeOK, LocalTypes
  <2> QED
    BY <1>1, <1>6, <2>1 DEF serverVars, ServerTypes, TypeOK
<1>7. CASE UNCHANGED vars
  BY <1>1, <1>7 DEF vars, agentVars, serverVars, AgentTypeOK, ServerTypes, TypeOK
<1> QED
  BY <1>2, <1>3, <1>4, <1>5, <1>6, <1>7, CrashTypes
     DEF Next, AllUsed, HandlerRuns, HandlerOnly

-----------------------------------------------------------------------------
(* One handler in its run *)

LEMMA NextOneHandler ==
  ASSUME TypeOK, OneHandlerInRun, [Next]_vars
  PROVE  OneHandlerInRun'
<1> USE NoAgentAssumption DEF TypeOK
<1>1. ASSUME NEW i \in Agent, RequestFresh(i) \/ RequestResume(i) \/ Admit(i)
      PROVE  OneHandlerInRun'
  BY <1>1 DEF RequestFresh, RequestResume, Admit, Move, OneHandlerInRun, InRun
<1>2. ASSUME NEW i \in Agent,
             \/ RunAgent(i) \/ SetupThrows(i) \/ AgentRejected(i) \/ Timeout(i)
             \/ MarkLoad(i)
      PROVE  OneHandlerInRun'
  BY <1>2 DEF RunAgent, SetupThrows, AgentRejected, Timeout, MarkLoad, Fail,
              Move, OneHandlerInRun, InRun
<1>3. ASSUME NEW i \in Agent, AgentResolved(i) \/ MarkSave(i) \/ MarkFails(i)
      PROVE  OneHandlerInRun'
  <2>1. InRun(i) /\ Finish(i)
    BY <1>3 DEF AgentResolved, MarkSave, MarkFails, InRun
  <2> QED
    BY <2>1 DEF Finish, Move, OneHandlerInRun, InRun
<1>4. CASE Crash
  BY <1>4 DEF Crash, OneHandlerInRun, InRun
<1>5. CASE UNCHANGED serverVars
  BY <1>5 DEF serverVars, OneHandlerInRun, InRun
<1> QED
  BY <1>1, <1>2, <1>3, <1>4, <1>5 DEF Next, AllUsed, vars, HandlerRuns

LEMMA NextWritingMarked ==
  ASSUME TypeOK, WritingMarked, [Next]_vars
  PROVE  WritingMarked'
<1> USE DEF TypeOK
<1>1. ASSUME NEW i \in Agent,
             \/ RequestFresh(i) \/ RequestResume(i) \/ Admit(i)
             \/ RunAgent(i) \/ SetupThrows(i) \/ AgentRejected(i) \/ Timeout(i)
             \/ MarkLoad(i)
      PROVE  WritingMarked'
  BY <1>1 DEF RequestFresh, RequestResume, Admit, RunAgent, SetupThrows,
              AgentRejected, Timeout, MarkLoad, Fail, Move, WritingMarked
<1>2. ASSUME NEW i \in Agent, AgentResolved(i) \/ MarkSave(i) \/ MarkFails(i)
      PROVE  WritingMarked'
  BY <1>2 DEF AgentResolved, MarkSave, MarkFails, Finish, Move, WritingMarked
<1>3. CASE Crash
  BY <1>3 DEF Crash, WritingMarked
<1>4. CASE UNCHANGED serverVars
  BY <1>4 DEF serverVars, WritingMarked
<1> QED
  BY <1>1, <1>2, <1>3, <1>4 DEF Next, AllUsed, vars, HandlerRuns
-----------------------------------------------------------------------------
(* The pending calls of every checkpoint *)

\* A handler comes to hold no checkpoint but one from the journal.
Loaded ==
  \A j \in Agent : /\ resumeFrom'[j] \in {NoCheckpoint, resumeFrom[j], journal}
                   /\ marked'[j] \in {NoCheckpoint, marked[j], journal}

LEMMA NextLoaded ==
  ASSUME TypeOK, [Next]_vars
  PROVE  Loaded
<1> USE DEF TypeOK
<1>1. ASSUME NEW i \in Agent,
             \/ RequestFresh(i) \/ RequestResume(i) \/ Admit(i)
             \/ RunAgent(i) \/ SetupThrows(i) \/ AgentRejected(i) \/ Timeout(i)
             \/ MarkLoad(i)
      PROVE  Loaded
  BY <1>1 DEF RequestFresh, RequestResume, Admit, RunAgent, SetupThrows,
              AgentRejected, Timeout, MarkLoad, Fail, Loaded
<1>2. ASSUME NEW i \in Agent, AgentResolved(i) \/ MarkSave(i) \/ MarkFails(i)
      PROVE  Loaded
  BY <1>2 DEF AgentResolved, MarkSave, MarkFails, Finish, Loaded
<1>3. CASE Crash
  BY <1>3 DEF Crash, Loaded
<1>4. CASE UNCHANGED serverVars
  BY <1>4 DEF serverVars, Loaded
<1> QED
  BY <1>1, <1>2, <1>3, <1>4 DEF Next, AllUsed, vars, HandlerRuns

\* Every step is one of an invocation, the start of one, the end of all, or
\* leaves the invocations alone but for the signal.
StepOf ==
  \/ \E i \in Agent : Shape(i)
  \/ \E i \in Agent : Entry(i, resumeFrom[i])
  \/ Crash
  \/ /\ UNCHANGED <<pc, mem, saving, issued, effects, grants>>
     /\ journal' = journal \/ \E i \in Agent : MarkSave(i)

LEMMA NextStepOf ==
  ASSUME TypeOK, CallInHand, SavingMemory, [Next]_vars
  PROVE  StepOf
<1>1. AgentTypeOK
  BY DEF TypeOK
<1>2. ASSUME NEW i \in Agent, HandlerOnly(i)
      PROVE  StepOf
  BY <1>2 DEF HandlerOnly, RequestFresh, RequestResume, Admit, SetupThrows,
              AgentResolved, AgentRejected, MarkLoad, MarkFails, agentVars, StepOf
<1>3. ASSUME NEW i \in Agent, RunAgent(i)
      PROVE  StepOf
  BY <1>3, RunBegins DEF StepOf
<1>4. ASSUME NEW i \in Agent, Timeout(i) \/ MarkSave(i)
      PROVE  StepOf
  BY <1>4 DEF Timeout, MarkSave, StepOf
<1>5. ASSUME NEW i \in Agent, AgentStep(i)
      PROVE  StepOf
  BY <1>1, <1>5, StepShape DEF StepOf
<1>6. CASE UNCHANGED vars
  BY <1>6 DEF vars, agentVars, StepOf
<1> QED
  BY <1>2, <1>3, <1>4, <1>5, <1>6 DEF Next, AllUsed, HandlerRuns, HandlerOnly, StepOf

LEMMA ProperGrows ==
  ASSUME NEW s \in Seq(Action), NEW n \in Nat, NEW m \in Nat, n <= m,
         ProperCalls(s, n)
  PROVE  ProperCalls(s, m)
<1>1. \A k \in 1..Len(s) : s[k] \in Nat
  BY CallsAreNumbers
<1> QED
  BY <1>1 DEF ProperCalls

LEMMA HeldTypes ==
  ASSUME TypeOK
  PROVE  /\ issued \in Nat
         /\ \A j \in Agent :
              /\ mem[j].pending \in Seq(Action)
              /\ resumeFrom[j] # NoCheckpoint => resumeFrom[j].pending \in Seq(Action)
              /\ marked[j] # NoCheckpoint => marked[j] \in Checkpoint
                                             /\ marked[j].pending \in Seq(Action)
         /\ journal # NoCheckpoint => journal.pending \in Seq(Action)
BY SMTT(30) DEF TypeOK, AgentTypeOK, Locals, Checkpoint, CheckpointOrNone

LEMMA ProperHeld ==
  ASSUME CallsProper
  PROVE  /\ journal # NoCheckpoint => ProperCalls(journal.pending, issued)
         /\ \A j \in Agent :
              /\ ProperCalls(mem[j].pending, issued)
              /\ resumeFrom[j] # NoCheckpoint => ProperCalls(resumeFrom[j].pending, issued)
              /\ marked[j] # NoCheckpoint => ProperCalls(marked[j].pending, issued)
BY DEF CallsProper, Everywhere

\* What a step makes of the calls of the invocations and of the journal.
CallsKept ==
  /\ issued' >= issued
  /\ \A j \in Agent : ProperCalls(mem'[j].pending, issued')
  /\ journal' # NoCheckpoint => ProperCalls(journal'.pending, issued')

LEMMA ShapeCalls ==
  ASSUME TypeOK, TypeOK', CallInHand, SavingMemory, CallsProper,
         NEW i \in Agent, Shape(i)
  PROVE  CallsKept
<1> DEFINE calls == mem[i].pending
<1>1. /\ calls \in Seq(Action) /\ issued \in Nat
      /\ journal # NoCheckpoint => journal.pending \in Seq(Action)
      /\ \A j \in Agent : mem[j].pending \in Seq(Action)
  BY HeldTypes
<1>2. /\ journal # NoCheckpoint => ProperCalls(journal.pending, issued)
      /\ \A j \in Agent : ProperCalls(mem[j].pending, issued)
  BY ProperHeld
<1>3. issued' \in Nat /\ issued' >= issued
  <2>1. CASE Request(i)
    BY <1>1, <2>1, BoundsAssumption DEF Request
  <2>2. CASE issued' = issued
    BY <1>1, <2>2
  <2> QED
    BY <2>1, <2>2 DEF Shape, Shift, Write, Try, Answer, End
<1>4. ProperCalls(mem'[i].pending, issued')
  <2>1. CASE Shift(i) \/ Write(i) \/ Try(i)
    BY <1>2, <2>1 DEF Shift, Write, Try, SameCalls
  <2>2. CASE Answer(i)
    <3>1. calls # <<>> /\ mem'[i].pending = Tail(calls) /\ issued' = issued
      BY <2>2 DEF Answer, CallInHand
    <3> QED
      BY <1>1, <1>2, <3>1, TailOfCalls
  <2>3. CASE Request(i)
    <3>1. PICK n \in 1..MaxCalls :
            issued' = issued + n /\ mem'[i].pending = [k \in 1..n |-> issued + k]
      BY <2>3 DEF Request
    <3>2. n \in Nat
      BY <3>1, BoundsAssumption
    <3> QED
      BY <1>1, <3>1, <3>2 DEF ProperCalls
  <2>4. CASE End(i)
    BY <2>4 DEF End, ProperCalls
  <2> QED
    BY <2>1, <2>2, <2>3, <2>4 DEF Shape
<1>5. ASSUME NEW j \in Agent, j # i
      PROVE  ProperCalls(mem'[j].pending, issued')
  <2>1. mem'[j] = mem[j]
    BY <1>5 DEF Shape, Own
  <2> QED
    BY <1>1, <1>2, <1>3, <2>1, ProperGrows
<1>6. ASSUME journal' # NoCheckpoint
      PROVE  ProperCalls(journal'.pending, issued')
  <2>1. CASE journal' = journal
    BY <1>1, <1>2, <1>3, <1>6, <2>1, ProperGrows
  <2>2. CASE Write(i)
    <3>1. saving[i].cp.pending = calls /\ saving[i].cp \in Checkpoint
      BY <2>2 DEF Write, SavingMemory, TypeOK, AgentTypeOK
    <3>2. journal'.pending = Latest(calls) /\ issued' = issued
      BY <2>2, <3>1 DEF Write, Sanitized, Checkpoint
    <3> QED
      BY <1>1, <1>2, <3>2, LatestOfCalls
  <2> QED
    BY <2>1, <2>2 DEF Shape, Shift, Try, Answer, Request, End
<1> QED
  BY <1>3, <1>4, <1>5, <1>6 DEF CallsKept

LEMMA StepCalls ==
  ASSUME TypeOK, TypeOK', CallInHand, SavingMemory, WritingMarked, CallsProper, StepOf
  PROVE  CallsKept
<1>1. /\ issued \in Nat
      /\ journal # NoCheckpoint => ProperCalls(journal.pending, issued)
      /\ \A j \in Agent :
           /\ ProperCalls(mem[j].pending, issued)
           /\ resumeFrom[j] # NoCheckpoint => ProperCalls(resumeFrom[j].pending, issued)
  BY HeldTypes, ProperHeld
<1>2. ASSUME NEW i \in Agent, Entry(i, resumeFrom[i])
      PROVE  CallsKept
  <2>1. UNCHANGED <<issued, journal>> /\ \A j \in Agent : j # i => mem'[j] = mem[j]
    BY <1>2 DEF Entry
  <2>2. ProperCalls(<<>>, issued)
    BY DEF ProperCalls
  <2>3. ProperCalls(mem'[i].pending, issued)
    BY <1>1, <1>2, <2>2 DEF Entry
  <2> QED
    BY <1>1, <2>1, <2>3 DEF CallsKept
<1>3. CASE Crash
  <2>1. \A j \in Agent : mem'[j].pending = <<>>
    BY <1>3 DEF Crash, FreshLocals
  <2>2. ProperCalls(<<>>, issued)
    BY DEF ProperCalls
  <2> QED
    BY <1>1, <1>3, <2>1, <2>2 DEF Crash, CallsKept
<1>4. CASE UNCHANGED <<mem, issued>> /\ journal' = journal
  BY <1>1, <1>4 DEF CallsKept
<1>5. ASSUME NEW i \in Agent, MarkSave(i)
      PROVE  CallsKept
  <2>1. /\ marked[i] \in Checkpoint /\ marked[i].pending \in Seq(Action)
        /\ ProperCalls(marked[i].pending, issued)
    BY <1>5, HeldTypes, ProperHeld DEF MarkSave, WritingMarked
  <2>2. journal'.pending = Latest(marked[i].pending)
    BY <1>5, <2>1 DEF MarkSave, Sanitized, Checkpoint
  <2>3. UNCHANGED <<mem, issued>>
    BY <1>5 DEF MarkSave
  <2> QED
    BY <1>1, <2>1, <2>2, <2>3, LatestOfCalls DEF CallsKept
<1> QED
  BY <1>2, <1>3, <1>4, <1>5, ShapeCalls DEF StepOf

LEMMA NextCallsProper ==
  ASSUME TypeOK, CallsProper, CallsKept, Loaded, TypeOK'
  PROVE  CallsProper'
<1>1. issued \in Nat /\ issued' \in Nat /\ issued <= issued'
  BY HeldTypes DEF TypeOK, AgentTypeOK, CallsKept
<1>2. ASSUME NEW cp, cp # NoCheckpoint => /\ cp.pending \in Seq(Action)
                                          /\ ProperCalls(cp.pending, issued)
      PROVE  cp # NoCheckpoint => ProperCalls(cp.pending, issued')
  BY <1>1, <1>2, ProperGrows
<1>3. ASSUME NEW j \in Agent
      PROVE  /\ resumeFrom'[j] # NoCheckpoint => ProperCalls(resumeFrom'[j].pending, issued')
             /\ marked'[j] # NoCheckpoint => ProperCalls(marked'[j].pending, issued')
  BY <1>2, HeldTypes, ProperHeld DEF Loaded
<1> QED
  BY <1>3 DEF CallsKept, CallsProper, Everywhere
-----------------------------------------------------------------------------
(* What an invocation has in hand *)

LEMMA NextHand ==
  ASSUME TypeOK, TypeOK', CallInHand, SavingMemory, StepOf
  PROVE  CallInHand' /\ SavingMemory'
<1>1. ASSUME NEW i \in Agent, Own(i) \/ Entry(i, resumeFrom[i]),
             Stage(i)' \in {"gate", "executing"} => mem'[i].pending # <<>>
      PROVE  CallInHand' /\ SavingMemory'
  <2>1. \A j \in Agent : j # i => /\ pc'[j] = pc[j]
                                 /\ mem'[j] = mem[j]
                                 /\ saving'[j] = saving[j]
    BY <1>1 DEF Own, Entry
  <2>2. pc'[i] \in {"saving", "renamed"} =>
          /\ saving'[i].cp.pending = mem'[i].pending
          /\ saving'[i].cp.steps = mem'[i].steps
    BY <1>1 DEF Own, Entry
  <2>3. CallInHand'
    BY <1>1, <2>1 DEF CallInHand, Stage
  <2>4. SavingMemory'
    BY <2>1, <2>2 DEF SavingMemory
  <2> QED
    BY <2>3, <2>4
<1>2. ASSUME NEW i \in Agent, Shape(i)
      PROVE  CallInHand' /\ SavingMemory'
  <2>1. Stage(i)' \in {"gate", "executing"} => mem'[i].pending # <<>>
    BY <1>2 DEF Shape, Shift, Write, Try, Answer, Request, End, SameCalls,
                CallInHand, Idling, Ended
  <2> QED
    BY <1>1, <1>2, <2>1 DEF Shape
<1>3. ASSUME NEW i \in Agent, Entry(i, resumeFrom[i])
      PROVE  CallInHand' /\ SavingMemory'
  BY <1>1, <1>3 DEF Entry, Idling
<1>4. CASE Crash
  <2>1. \A j \in Agent : pc'[j] \in Ended \cup {"idle"}
    BY <1>4 DEF Crash, Ended
  <2> QED
    BY <2>1 DEF CallInHand, SavingMemory, Stage, Ended
<1>5. CASE UNCHANGED <<pc, mem, saving>>
  BY <1>5 DEF CallInHand, SavingMemory, Stage
<1> QED
  BY <1>2, <1>3, <1>4, <1>5 DEF StepOf

-----------------------------------------------------------------------------
(* Who may still execute a call *)

\* The calls that an invocation may execute are pending ones.
LEMMA ExecutableCalls ==
  ASSUME TypeOK, CallInHand, CallsProper, NEW i \in Agent, NEW a \in Executable(i)
  PROVE  a \in Action /\ a <= issued
<1>1. mem[i].pending \in Seq(Action) /\ ProperCalls(mem[i].pending, issued)
  BY HeldTypes, ProperHeld
<1>2. a \in Elems(mem[i].pending)
  <2>1. CASE Stage(i) \in {"tools", "gate"}
    BY <2>1 DEF Executable
  <2>2. CASE Stage(i) = "executing"
    <3>1. mem[i].pending # <<>> /\ a \in Elems(Tail(mem[i].pending))
      BY <2>2 DEF Executable, CallInHand
    <3> QED
      BY <1>1, <3>1, TailOfCalls
  <2>3. CASE Stage(i) \notin {"tools", "gate", "executing"}
    BY <2>3 DEF Executable
  <2> QED
    BY <2>1, <2>2, <2>3
<1> QED
  BY <1>1, <1>2 DEF Elems, ProperCalls

\* With one invocation moving, whether the others may execute a call stays.
LEMMA OtherExecutors ==
  ASSUME NEW i \in Agent, NEW j \in Agent,
         pc'[j] = pc[j], mem'[j] = mem[j], saving'[j] = saving[j]
  PROVE  Executable(j)' = Executable(j)
BY DEF Executable, Stage

\* The number of executors of a call, when there are fewer, one more, one less.
LEMMA FewerExecutors ==
  ASSUME NEW a, IsFiniteSet(Executors(a)), Executors(a)' \subseteq Executors(a)
  PROVE  /\ IsFiniteSet(Executors(a)') /\ Cardinality(Executors(a)') \in Nat
         /\ Cardinality(Executors(a)) \in Nat
         /\ Cardinality(Executors(a)') <= Cardinality(Executors(a))
BY FS_Subset, FS_CardinalityType

LEMMA OneMoreExecutor ==
  ASSUME NEW a, NEW i, IsFiniteSet(Executors(a)),
         Executors(a)' \subseteq Executors(a) \cup {i}
  PROVE  /\ IsFiniteSet(Executors(a)') /\ Cardinality(Executors(a)') \in Nat
         /\ Cardinality(Executors(a)) \in Nat
         /\ Cardinality(Executors(a)') <= Cardinality(Executors(a)) + 1
<1> DEFINE T == Executors(a) \cup {i}
<1>1. /\ IsFiniteSet(T) /\ Cardinality(Executors(a)) \in Nat /\ Cardinality(T) \in Nat
      /\ Cardinality(T) <= Cardinality(Executors(a)) + 1
  BY FS_AddElement, FS_CardinalityType
<1>2. Executors(a)' \in SUBSET T
  OBVIOUS
<1> HIDE DEF T
<1>3. /\ IsFiniteSet(Executors(a)') /\ Cardinality(Executors(a)') <= Cardinality(T)
      /\ Cardinality(Executors(a)') \in Nat
  BY <1>1, <1>2, FS_Subset, FS_CardinalityType
<1> QED
  BY <1>1, <1>3

LEMMA OneLessExecutor ==
  ASSUME NEW a, NEW i \in Executors(a), IsFiniteSet(Executors(a)),
         Executors(a)' \subseteq Executors(a) \ {i}
  PROVE  /\ IsFiniteSet(Executors(a)') /\ Cardinality(Executors(a)') \in Nat
         /\ Cardinality(Executors(a)) \in Nat
         /\ Cardinality(Executors(a)') + 1 <= Cardinality(Executors(a))
<1> DEFINE T == Executors(a) \ {i}
<1>1. IsFiniteSet(T) /\ Cardinality(T) = Cardinality(Executors(a)) - 1
  BY FS_RemoveElement
<1>2. Executors(a)' \in SUBSET T
  OBVIOUS
<1>3. Cardinality(Executors(a)) \in Nat
  BY FS_CardinalityType
<1> HIDE DEF T
<1>4. /\ IsFiniteSet(Executors(a)') /\ Cardinality(Executors(a)') <= Cardinality(T)
      /\ Cardinality(Executors(a)') \in Nat
  BY <1>1, <1>2, FS_Subset, FS_CardinalityType
<1> QED
  BY <1>1, <1>3, <1>4

LEMMA ExecutorsMove ==
  ASSUME NEW i \in Agent, NEW a,
         \A j \in Agent : j # i => Executable(j)' = Executable(j)
  PROVE  /\ Executors(a)' \subseteq Executors(a) \cup {i}
         /\ (a \in Executable(i)' => a \in Executable(i)) =>
              Executors(a)' \subseteq Executors(a)
         /\ a \notin Executable(i)' => Executors(a)' \subseteq Executors(a) \ {i}
         /\ i \in Executors(a) <=> a \in Executable(i)
BY DEF Executors

\* Covered, of one call.
CoveredCall(a) ==
  /\ IsFiniteSet(Executors(a))
  /\ effects[a] + Cardinality(Executors(a)) <= 1 + grants[a]

LEMMA ShapeCovers ==
  ASSUME TypeOK, TypeOK', CallInHand, CallsProper, NotAskedNotTried, Covered,
         NEW i \in Agent, Shape(i)
  PROVE  Covered' /\ NotAskedNotTried'
<1> DEFINE calls == mem[i].pending
<1>1. /\ calls \in Seq(Action) /\ ProperCalls(calls, issued)
      /\ issued \in Nat /\ Action \subseteq Nat
      /\ effects \in [Action -> Nat] /\ grants \in [Action -> Nat]
  BY HeldTypes, ProperHeld DEF TypeOK, AgentTypeOK, Action
<1>2. \A j \in Agent : j # i => Executable(j)' = Executable(j)
  BY OtherExecutors DEF Shape, Own
<1>3. \A a \in Action : CoveredCall(a) /\ effects[a] \in Nat /\ grants[a] \in Nat
  BY <1>1 DEF Covered, CoveredCall
<1>4. CASE Executable(i)' \subseteq Executable(i) /\ UNCHANGED <<effects, grants, issued>>
  <2>1. ASSUME NEW a \in Action
        PROVE  CoveredCall(a)'
    <3>1. Executors(a)' \subseteq Executors(a)
      BY <1>2, <1>4, ExecutorsMove
    <3> QED
      BY <1>3, <1>4, <3>1, FewerExecutors DEF CoveredCall
  <2> QED
    BY <1>4, <2>1 DEF CoveredCall, Covered, NotAskedNotTried
<1>5. CASE Shift(i) \/ Write(i)
  <2>1. mem'[i].pending = calls /\ UNCHANGED <<effects, grants, issued>>
    BY <1>5 DEF Shift, Write, SameCalls
  <2>2. Executable(i)' \subseteq Executable(i)
    <3>1. CASE Stage(i)' \in Idling
      BY <3>1 DEF Executable, Idling
    <3>2. CASE Stage(i)' = Stage(i)
      BY <2>1, <3>2 DEF Executable
    <3>3. CASE Stage(i) = "tools" /\ Stage(i)' = "gate"
      BY <2>1, <3>3 DEF Executable
    <3> QED
      BY <1>5, <3>1, <3>2, <3>3 DEF Shift, Write
  <2> QED
    BY <1>4, <2>1, <2>2
<1>6. CASE Answer(i)
  <2>1. calls # <<>> /\ mem'[i].pending = Tail(calls)
        /\ Stage(i) \in {"gate", "executing"} /\ Stage(i)' = "tools"
    BY <1>6 DEF Answer, CallInHand
  <2>2. Executable(i)' = Elems(Tail(calls))
    BY <2>1 DEF Executable
  <2>3. Executable(i)' \subseteq Executable(i)
    BY <1>1, <2>1, <2>2, TailOfCalls DEF Executable
  <2> QED
    BY <1>4, <1>6, <2>3 DEF Answer
<1>7. CASE End(i)
  <2>1. Executable(i)' = {}
    BY <1>7 DEF End, Executable, Ended
  <2> QED
    BY <1>4, <1>7, <2>1 DEF End
<1>8. CASE Try(i)
  <2>1. /\ calls # <<>> /\ mem'[i].pending = calls
        /\ Stage(i) = "gate" /\ Stage(i)' = "executing"
        /\ effects' = [effects EXCEPT ![Head(calls)] = @ + 1]
        /\ UNCHANGED <<grants, issued>>
    BY <1>8 DEF Try, SameCalls, CallInHand
  <2>2. Executable(i) = Elems(calls) /\ Executable(i)' = Elems(Tail(calls))
    BY <2>1 DEF Executable
  <2>3. /\ Head(calls) \in Elems(calls) /\ Head(calls) \notin Elems(Tail(calls))
        /\ Elems(Tail(calls)) \subseteq Elems(calls)
    BY <1>1, <2>1, TailOfCalls
  <2>4. Head(calls) \in Action /\ Head(calls) <= issued
    BY <2>2, <2>3, ExecutableCalls
  <2>5. ASSUME NEW a \in Action
        PROVE  CoveredCall(a)'
    <3>1. CASE a = Head(calls)
      <4>1. i \in Executors(a) /\ Executors(a)' \subseteq Executors(a) \ {i}
        <5>1. a \in Executable(i) /\ a \notin Executable(i)'
          BY <2>2, <2>3, <3>1
        <5> QED
          BY <1>2, <5>1, ExecutorsMove
      <4>2. /\ IsFiniteSet(Executors(a)') /\ Cardinality(Executors(a)') \in Nat
            /\ Cardinality(Executors(a)) \in Nat
            /\ Cardinality(Executors(a)') + 1 <= Cardinality(Executors(a))
        BY <1>3, <4>1, OneLessExecutor DEF CoveredCall
      <4>3. effects'[a] = effects[a] + 1
        BY <1>1, <2>1, <3>1
      <4> QED
        BY SMTT(30), <1>3, <2>1, <4>2, <4>3 DEF CoveredCall
    <3>2. CASE a # Head(calls)
      <4>1. Executors(a)' \subseteq Executors(a)
        BY <1>2, <2>2, <2>3, ExecutorsMove
      <4>2. effects'[a] = effects[a]
        BY <1>1, <2>1, <3>2
      <4> QED
        BY <1>3, <2>1, <4>1, <4>2, FewerExecutors DEF CoveredCall
    <3> QED
      BY <3>1, <3>2
  <2>6. NotAskedNotTried'
    <3>1. \A a \in Action : a > issued => a # Head(calls)
      BY <1>1, <2>4
    <3> QED
      BY <1>1, <2>1, <3>1 DEF NotAskedNotTried
  <2> QED
    BY <2>5, <2>6 DEF Covered, CoveredCall
<1>9. CASE Request(i)
  <2>1. PICK n \in 1..MaxCalls :
          issued' = issued + n /\ mem'[i].pending = [k \in 1..n |-> issued + k]
    BY <1>9 DEF Request
  <2>2. n \in Nat /\ issued' \in Nat /\ issued' >= issued
    BY <1>1, <2>1, BoundsAssumption
  <2>3. Stage(i)' = "tools" /\ UNCHANGED <<effects, grants>>
    BY <1>9 DEF Request
  <2>4. \A a \in Executable(i)' : a > issued
    BY <1>1, <2>1, <2>2, <2>3 DEF Executable, Elems
  <2>5. ASSUME NEW a \in Action
        PROVE  CoveredCall(a)'
    <3>1. CASE a \in Executable(i)'
      <4>1. a > issued /\ effects[a] = 0
        BY <2>4, <3>1 DEF NotAskedNotTried
      <4>2. ~(a <= issued)
        BY <1>1, <4>1
      <4>3. Executors(a) = {}
        BY <4>2, ExecutableCalls DEF Executors
      <4>4. Executors(a)' \subseteq Executors(a) \cup {i}
        BY <1>2, ExecutorsMove
      <4>5. /\ IsFiniteSet(Executors(a)') /\ Cardinality(Executors(a)') \in Nat
            /\ Cardinality(Executors(a)') <= Cardinality(Executors(a)) + 1
        BY <1>3, <4>4, OneMoreExecutor DEF CoveredCall
      <4>6. Cardinality(Executors(a)) = 0
        BY <4>3, FS_EmptySet
      <4> QED
        BY <1>3, <2>3, <4>1, <4>5, <4>6 DEF CoveredCall
    <3>2. CASE a \notin Executable(i)'
      <4>1. Executors(a)' \subseteq Executors(a)
        BY <1>2, <3>2, ExecutorsMove
      <4> QED
        BY <1>3, <2>3, <4>1, FewerExecutors DEF CoveredCall
    <3> QED
      BY <3>1, <3>2
  <2>6. NotAskedNotTried'
    <3>1. \A a \in Action : a > issued' => a > issued
      BY <1>1, <2>2
    <3> QED
      BY <2>3, <3>1 DEF NotAskedNotTried
  <2> QED
    BY <2>5, <2>6 DEF Covered, CoveredCall
<1> QED
  BY <1>5, <1>6, <1>7, <1>8, <1>9 DEF Shape

LEMMA EntryCovers ==
  ASSUME TypeOK, TypeOK', NotAskedNotTried, Covered,
         NEW i \in Agent, Entry(i, resumeFrom[i])
  PROVE  Covered' /\ NotAskedNotTried'
<1>1. /\ effects \in [Action -> Nat] /\ grants \in [Action -> Nat]
      /\ UNCHANGED <<issued, effects>>
      /\ \A j \in Agent : j # i => Executable(j)' = Executable(j)
  BY OtherExecutors DEF Entry, TypeOK, AgentTypeOK
<1>2. \A a \in Action : CoveredCall(a) /\ effects[a] \in Nat /\ grants[a] \in Nat
  BY <1>1 DEF Covered, CoveredCall
<1>3. ASSUME NEW a \in Action
      PROVE  CoveredCall(a)'
  <2>1. CASE a \notin Executable(i)'
    <3>1. Executors(a)' \subseteq Executors(a)
      BY <1>1, <2>1, ExecutorsMove
    <3>2. grants'[a] >= grants[a] /\ grants'[a] \in Nat
      BY <1>1, <1>2 DEF Entry
    <3> QED
      BY <1>1, <1>2, <3>1, <3>2, FewerExecutors DEF CoveredCall
  <2>2. CASE a \in Executable(i)'
    <3>1. Stage(i)' = "tools" /\ Executable(i)' = Elems(mem'[i].pending)
      BY <2>2 DEF Entry, Executable, Idling
    <3>2. grants'[a] = grants[a] + 1
      BY <1>1, <2>2, <3>1 DEF Entry, Idling
    <3>3. Executors(a)' \subseteq Executors(a) \cup {i}
      BY <1>1, ExecutorsMove
    <3>4. /\ IsFiniteSet(Executors(a)') /\ Cardinality(Executors(a)') \in Nat
          /\ Cardinality(Executors(a)) \in Nat
          /\ Cardinality(Executors(a)') <= Cardinality(Executors(a)) + 1
      BY <1>2, <3>3, OneMoreExecutor DEF CoveredCall
    <3> QED
      BY <1>1, <1>2, <3>2, <3>4 DEF CoveredCall
  <2> QED
    BY <2>1, <2>2
<1>4. NotAskedNotTried'
  BY <1>1 DEF NotAskedNotTried
<1> QED
  BY <1>3, <1>4 DEF Covered, CoveredCall

LEMMA NextCovers ==
  ASSUME TypeOK, TypeOK', CallInHand, CallsProper, NotAskedNotTried, Covered, StepOf
  PROVE  Covered' /\ NotAskedNotTried'
<1>1. /\ effects \in [Action -> Nat] /\ grants \in [Action -> Nat]
  BY DEF TypeOK, AgentTypeOK
<1>2. CASE UNCHANGED <<pc, mem, saving, issued, effects, grants>>
  <2>1. \A a \in Action : Executors(a)' = Executors(a)
    BY <1>2 DEF Executors, Executable, Stage
  <2> QED
    BY <1>2, <2>1 DEF Covered, NotAskedNotTried
<1>3. CASE Crash
  <2>1. \A j \in Agent : Executable(j)' = {}
    <3>1. \A j \in Agent : pc'[j] \in Ended \cup {"idle"}
      BY <1>3 DEF Crash, Ended
    <3> QED
      BY <3>1 DEF Executable, Stage, Ended
  <2>2. \A a \in Action : Executors(a)' \subseteq Executors(a)
    BY <2>1 DEF Executors
  <2>3. UNCHANGED <<issued, effects, grants>>
    BY <1>3 DEF Crash
  <2>4. ASSUME NEW a \in Action
        PROVE  CoveredCall(a)'
    BY <1>1, <2>2, <2>3, FewerExecutors DEF Covered, CoveredCall
  <2> QED
    BY <2>3, <2>4 DEF Covered, CoveredCall, NotAskedNotTried
<1> QED
  BY <1>2, <1>3, ShapeCovers, EntryCovers DEF StepOf
-----------------------------------------------------------------------------
(* Iterations and their limit *)

\* Limits, of one invocation.
LocalLimits(i) ==
  /\ mem[i].next <= mem[i].max
  /\ saving[i].cp.next <= saving[i].cp.max
  /\ Stage(i) \in {"model", "answer"} => mem[i].next < mem[i].max

LEMMA PersistLimits ==
  ASSUME AgentTypeOK, NEW i \in Agent, NEW m, NEW status, NEW then,
         Persist(i, m, status, then), m.next <= m.max,
         then \notin {"model", "answer"}
  PROVE  LocalLimits(i)'
<1>1. mem'[i] = m /\ saving'[i] = [cp |-> Snapshot(m, status), then |-> then]
      /\ pc'[i] = "saving"
  BY DEF Persist, Goto, AgentTypeOK
<1>2. saving'[i].cp.next = m.next /\ saving'[i].cp.max = m.max /\ Stage(i)' = then
  BY <1>1 DEF Snapshot, Stage
<1> QED
  BY <1>1, <1>2 DEF LocalLimits

LEMMA LeaveLimits ==
  ASSUME AgentTypeOK, NEW i \in Agent, NEW how \in Ended, NEW status,
         Leave(i, how, status)
  PROVE  LocalLimits(i)'
<1>1. mem'[i] = FreshLocals(1) /\ saving'[i] = NotWriting(status) /\ pc'[i] = how
  BY DEF Leave, Goto, AgentTypeOK
<1>2. Stage(i)' = how
  BY <1>1 DEF Stage, Ended
<1> QED
  BY <1>1, <1>2 DEF LocalLimits, FreshLocals, NotWriting, Snapshot, Ended

\* A step of the loop: the limit is looked at before every call of the model.
LEMMA StepLimits ==
  ASSUME AgentTypeOK, NEW i \in Agent, LocalLimits(i), AgentStep(i)
  PROVE  LocalLimits(i)'
<1> USE DEF Throw
<1>1. /\ mem[i] \in Locals /\ mem[i].next \in Nat /\ mem[i].max \in Nat
      /\ mem[i].next <= mem[i].max
      /\ pc[i] \in {"model", "answer"} => mem[i].next < mem[i].max
      /\ pc \in [Agent -> PC] /\ saving[i].then \in Continuation
  BY DEF AgentTypeOK, Locals, LocalLimits, Stage
<1>2. CASE Rename(i)
  BY <1>1, <1>2 DEF Rename, Goto, LocalLimits, Stage
<1>3. CASE Saved(i)
  <2>1. CASE saving[i].then \in Ended
    BY <1>3, <2>1, LeaveLimits DEF Saved
  <2>2. CASE saving[i].then \notin Ended
    <3>1. /\ mem' = mem /\ pc'[i] = saving[i].then /\ pc[i] = "renamed"
          /\ saving'[i] = NotWriting("running")
      BY <1>1, <1>3, <2>2 DEF Saved, Goto, AgentTypeOK
    <3>2. Stage(i)' = Stage(i)
      BY <1>1, <3>1 DEF Stage, Continuation, Running
    <3> QED
      BY <3>1, <3>2 DEF LocalLimits, NotWriting, Snapshot, FreshLocals
  <2> QED
    BY <2>1, <2>2
<1>4. CASE SaveFails(i)
  <2>1. CASE saving[i].then = "rejected"
    BY <1>4, <2>1, LeaveLimits DEF SaveFails, Ended
  <2>2. CASE saving[i].then # "rejected"
    BY <1>1, <1>4, <2>2, PersistLimits DEF SaveFails
  <2> QED
    BY <2>1, <2>2
<1>5. CASE ToolsDone(i)
  <2>1. CASE Persist(i, [mem[i] EXCEPT !.resuming = FALSE], "running", "loop")
    <3> DEFINE m == [mem[i] EXCEPT !.resuming = FALSE]
    <3>1. m.next <= m.max /\ Persist(i, m, "running", "loop")
      BY <1>1, <2>1 DEF Locals
    <3> HIDE DEF m
    <3> QED
      BY <3>1, PersistLimits
  <2>2. CASE Goto(i, "loop") /\ UNCHANGED <<mem, saving>>
    BY <1>1, <2>2 DEF Goto, LocalLimits, Stage
  <2> QED
    BY <1>5, <2>1, <2>2 DEF ToolsDone
<1>6. CASE StopCondition(i)
  <2> DEFINE m == [mem[i] EXCEPT !.out = TRUE]
  <2>1. m.next <= m.max
    BY <1>1 DEF Locals
  <2>2. Persist(i, m, "completed", "resolved")
    BY <1>6 DEF StopCondition
  <2> HIDE DEF m
  <2> QED
    BY <2>1, <2>2, PersistLimits
<1>7. CASE \/ NextTool(i) \/ GateThrows(i) \/ ThrowLimit(i) \/ LoopAborted(i)
           \/ ParseThrows(i)
  BY <1>1, <1>7, PersistLimits
     DEF NextTool, GateThrows, ThrowLimit, LoopAborted, ParseThrows
<1>8. CASE Refuse(i) \/ ToolReturns(i)
  <2> DEFINE m == [mem[i] EXCEPT !.steps = Append(@, Head(mem[i].pending)),
                                 !.pending = Tail(@)]
  <2>1. m.next <= m.max
    BY <1>1 DEF Locals
  <2>2. Persist(i, m, "running", "tools")
    BY <1>8 DEF Refuse, ToolReturns, RecordObservation
  <2> HIDE DEF m
  <2> QED
    BY <2>1, <2>2, PersistLimits
<1>9. CASE Execute(i) \/ CallModel(i) \/ ModelAnswers(i)
  BY <1>1, <1>9 DEF Execute, CallModel, ModelAnswers, Goto, LocalLimits, Stage
<1>10. CASE ReachLimit(i)
  <2> DEFINE m == [mem[i] EXCEPT !.next = mem[i].max, !.out = TRUE]
  <2>1. m.next <= m.max
    BY <1>1 DEF Locals
  <2>2. Persist(i, m, "exhausted", "limit")
    BY <1>10 DEF ReachLimit
  <2> HIDE DEF m
  <2> QED
    BY <2>1, <2>2, PersistLimits
<1>11. CASE ShortCircuit(i) \/ FinalAnswer(i)
  <2> DEFINE m == [mem[i] EXCEPT !.next = @ + 1, !.out = TRUE]
  <2>1. m.next <= m.max
    BY <1>1, <1>11 DEF Locals, ShortCircuit, FinalAnswer
  <2>2. Persist(i, m, "completed", "resolved")
    BY <1>11 DEF ShortCircuit, FinalAnswer
  <2> HIDE DEF m
  <2> QED
    BY <2>1, <2>2, PersistLimits
<1>12. CASE Continue(i)
  <2> DEFINE m == [mem[i] EXCEPT !.next = @ + 1]
  <2>1. m.next <= m.max
    BY <1>1, <1>12 DEF Locals, Continue
  <2>2. Persist(i, m, "running", "loop")
    BY <1>12 DEF Continue
  <2> HIDE DEF m
  <2> QED
    BY <2>1, <2>2, PersistLimits
<1>13. CASE ModelFails(i) \/ RetryAnswer(i)
  BY <1>1, <1>12, <1>13, PersistLimits DEF ModelFails, RetryAnswer
<1>14. CASE AskTools(i)
  <2>1. PICK n \in 1..MaxCalls :
          Persist(i, [mem[i] EXCEPT !.next = @ + 1,
                                    !.pending = [k \in 1..n |-> issued + k]],
                  "running", "tools")
    BY <1>14 DEF AskTools
  <2> DEFINE m == [mem[i] EXCEPT !.next = @ + 1,
                                 !.pending = [k \in 1..n |-> issued + k]]
  <2>2. m.next <= m.max
    BY <1>1, <1>14 DEF Locals, AskTools
  <2>3. Persist(i, m, "running", "tools")
    BY <2>1
  <2> HIDE DEF m
  <2> QED
    BY <2>2, <2>3, PersistLimits
<1> QED
  BY <1>2, <1>3, <1>4, <1>5, <1>6, <1>7, <1>8, <1>9, <1>10, <1>11, <1>13, <1>14
     DEF AgentStep, AgentRuns

\* The start of a run: a resume never lowers the limit.
LEMMA EntryLimits ==
  ASSUME TypeOK, Limits, NEW i \in Agent, RunAgent(i)
  PROVE  LocalLimits(i)'
<1>1. AgentTypeOK /\ resumeFrom[i] \in CheckpointOrNone
  BY DEF TypeOK
<1>2. CASE resumeFrom[i] = NoCheckpoint
  <2>1. PICK max \in 1..MaxIterations : BeginFresh(i, max)
    BY <1>2 DEF RunAgent
  <2>2. FreshLocals(max).next <= FreshLocals(max).max
    BY <2>1 DEF FreshLocals
  <2> QED
    BY <1>1, <2>1, <2>2, PersistLimits DEF BeginFresh
<1>3. CASE resumeFrom[i] # NoCheckpoint
  <2> DEFINE cp == resumeFrom[i]
  <2>1. PICK requested \in 1..MaxIterations, confirm \in BOOLEAN :
          BeginResume(i, cp, ResumeLimit(cp, requested), confirm)
    BY <1>3 DEF RunAgent
  <2>2. cp \in Checkpoint /\ cp.next \in Nat /\ cp.max \in Nat /\ cp.next <= cp.max
    BY <1>1, <1>3 DEF CheckpointOrNone, Checkpoint, Limits, Everywhere, WithinItsLimit
  <2>3. PICK max : max = ResumeLimit(cp, requested)
    OBVIOUS
  <2>4. max \in Nat /\ cp.next <= max
    BY <2>1, <2>2, <2>3, LimitType
  <2> DEFINE m == RestoredLocals(cp, max)
             n == [m EXCEPT !.resuming = FALSE]
  <2>5. BeginResume(i, cp, max, confirm)
    BY <2>1, <2>3
  <2>6. m.next <= m.max /\ n.next <= n.max
    BY <2>4 DEF RestoredLocals
  <2>7. \/ Leave(i, "resolved", "completed")
        \/ Persist(i, n, "running", "loop")
        \/ Persist(i, m, "interrupted", "rejected")
        \/ mem' = [mem EXCEPT ![i] = m] /\ Goto(i, "tools") /\ saving' = saving
    BY <2>5 DEF BeginResume, Throw
  <2> HIDE DEF m, n
  <2>8. CASE Leave(i, "resolved", "completed")
    BY <1>1, <2>8, LeaveLimits DEF Ended
  <2>9. CASE Persist(i, n, "running", "loop") \/ Persist(i, m, "interrupted", "rejected")
    BY <1>1, <2>6, <2>9, PersistLimits
  <2>10. CASE mem' = [mem EXCEPT ![i] = m] /\ Goto(i, "tools") /\ saving' = saving
    <3>1. saving[i].cp.next <= saving[i].cp.max
      BY DEF Limits, WithinItsLimit
    <3>2. mem'[i] = m /\ pc'[i] = "tools"
      BY <1>1, <2>10 DEF Goto, AgentTypeOK
    <3> QED
      BY <2>6, <2>10, <3>1, <3>2 DEF LocalLimits, Stage
  <2> QED
    BY <2>7, <2>8, <2>9, <2>10
<1> QED
  BY <1>2, <1>3

LEMMA NextLimits ==
  ASSUME TypeOK, CallInHand, SavingMemory, WritingMarked, Limits, Loaded, [Next]_vars
  PROVE  Limits'
<1>1. /\ journal # NoCheckpoint => journal.next <= journal.max
      /\ \A j \in Agent :
           /\ LocalLimits(j)
           /\ resumeFrom[j] # NoCheckpoint => resumeFrom[j].next <= resumeFrom[j].max
           /\ marked[j] # NoCheckpoint => marked[j].next <= marked[j].max
  BY DEF Limits, Everywhere, WithinItsLimit, LocalLimits
<1>2. ASSUME journal' # NoCheckpoint => journal'.next <= journal'.max,
             \A j \in Agent : LocalLimits(j)'
      PROVE  Limits'
  <2>1. \A j \in Agent :
          /\ resumeFrom'[j] # NoCheckpoint => resumeFrom'[j].next <= resumeFrom'[j].max
          /\ marked'[j] # NoCheckpoint => marked'[j].next <= marked'[j].max
    BY <1>1 DEF Loaded
  <2> QED
    BY <1>2, <2>1 DEF Limits, Everywhere, WithinItsLimit, LocalLimits
<1>3. ASSUME NEW i \in Agent, LocalLimits(i)',
             \A j \in Agent : j # i => /\ pc'[j] = pc[j]
                                       /\ mem'[j] = mem[j]
                                       /\ saving'[j] = saving[j]
      PROVE  \A j \in Agent : LocalLimits(j)'
  <2>1. ASSUME NEW j \in Agent, j # i
        PROVE  LocalLimits(j)'
    BY <1>1, <1>3, <2>1 DEF LocalLimits, Stage
  <2> QED
    BY <1>3, <2>1
<1>4. ASSUME NEW i \in Agent, AgentStep(i)
      PROVE  Limits'
  <2>1. Shape(i) /\ LocalLimits(i)'
    BY <1>1, <1>4, StepShape, StepLimits DEF TypeOK
  <2>2. \A j \in Agent : LocalLimits(j)'
    BY <1>3, <2>1 DEF Shape, Own
  <2>3. journal' # NoCheckpoint => journal'.next <= journal'.max
    <3>1. CASE Write(i)
      <4>1. saving[i].cp \in Checkpoint /\ saving[i].cp.next <= saving[i].cp.max
        BY <1>1 DEF TypeOK, AgentTypeOK, LocalLimits
      <4> QED
        BY <3>1, <4>1 DEF Write, Sanitized, Checkpoint
    <3>2. CASE journal' = journal
      BY <1>1, <3>2
    <3> QED
      BY <2>1, <3>1, <3>2 DEF Shape, Shift, Try, Answer, Request, End
  <2> QED
    BY <1>2, <2>2, <2>3
<1>5. ASSUME NEW i \in Agent, RunAgent(i)
      PROVE  Limits'
  <2>1. Entry(i, resumeFrom[i]) /\ LocalLimits(i)'
    BY <1>5, RunBegins, EntryLimits
  <2>2. \A j \in Agent : LocalLimits(j)'
    BY <1>3, <2>1 DEF Entry
  <2>3. journal' = journal
    BY <2>1 DEF Entry
  <2> QED
    BY <1>1, <1>2, <2>2, <2>3
<1>6. CASE Crash
  <2>1. ASSUME NEW j \in Agent
        PROVE  LocalLimits(j)'
    <3>1. /\ mem'[j] = FreshLocals(1) /\ saving'[j] = NotWriting("running")
          /\ pc'[j] \in Ended \cup {"idle"}
      BY <1>6 DEF Crash, Ended
    <3> QED
      BY <3>1 DEF LocalLimits, FreshLocals, NotWriting, Snapshot, Stage, Ended
  <2>2. journal' = journal
    BY <1>6 DEF Crash
  <2> QED
    BY <1>1, <1>2, <2>1, <2>2
<1>7. CASE UNCHANGED <<pc, mem, saving>> /\ (journal' = journal \/ \E i \in Agent : MarkSave(i))
  <2>1. \A j \in Agent : LocalLimits(j)'
    BY <1>1, <1>7 DEF LocalLimits, Stage
  <2>2. journal' # NoCheckpoint => journal'.next <= journal'.max
    <3>1. CASE journal' = journal
      BY <1>1, <3>1
    <3>2. ASSUME NEW i \in Agent, MarkSave(i)
          PROVE  journal'.next <= journal'.max
      <4>1. marked[i] \in Checkpoint /\ marked[i].next <= marked[i].max
        BY <1>1, <3>2, HeldTypes DEF MarkSave, WritingMarked
      <4> QED
        BY <3>2, <4>1 DEF MarkSave, Sanitized, Checkpoint
    <3> QED
      BY <1>7, <3>1, <3>2
  <2> QED
    BY <1>2, <2>1, <2>2
<1>8. ASSUME NEW i \in Agent, HandlerOnly(i) \/ Timeout(i) \/ MarkSave(i)
      PROVE  Limits'
  BY <1>7, <1>8 DEF HandlerOnly, RequestFresh, RequestResume, Admit, SetupThrows,
              AgentResolved, AgentRejected, MarkLoad, MarkFails, agentVars,
              Timeout, MarkSave
<1>9. CASE UNCHANGED vars
  BY <1>7, <1>9 DEF vars, agentVars
<1> QED
  BY <1>4, <1>5, <1>6, <1>8, <1>9 DEF Next, AllUsed, HandlerRuns, HandlerOnly

-----------------------------------------------------------------------------
(* The theorems *)

LEMMA InitIInv ==
  ASSUME Init
  PROVE  IInv
<1> USE DEF Init, AgentInit, NoHandlers
<1>1. FreshLocals(1) \in Locals
      /\ NotWriting("running") \in [cp : Checkpoint, then : Continuation]
  BY FreshType, NotWritingType DEF Status
<1>2. ASSUME journal # NoCheckpoint
      PROVE  /\ journal \in Checkpoint
             /\ journal.pending = <<>>
             /\ journal.next <= journal.max
  <2>1. PICK max \in 1..MaxIterations : journal = Snapshot(FreshLocals(max), "running")
    BY <1>2 DEF LeftBehind
  <2>2. max \in Nat /\ FreshLocals(max) \in Locals /\ "running" \in Status
    BY <2>1, FreshType DEF Status
  <2>3. journal \in Checkpoint
    BY <2>1, <2>2, SnapshotType
  <2>4. journal.pending = <<>> /\ journal.next = 0 /\ journal.max = max
    BY <2>1 DEF Snapshot, FreshLocals
  <2> QED
    BY <2>2, <2>3, <2>4
<1>3. TypeOK
  BY <1>1, <1>2, BoundsAssumption
     DEF TypeOK, AgentTypeOK, PC, HandlerState, CheckpointOrNone, Status
<1>4. \A i \in Agent : /\ Stage(i) = "idle" /\ mem[i].pending = <<>>
                       /\ mem[i].next <= mem[i].max
                       /\ saving[i].cp.next <= saving[i].cp.max
  BY DEF Stage, FreshLocals, NotWriting, Snapshot
<1>5. OneHandlerInRun /\ WritingMarked /\ SavingMemory /\ CallInHand
  BY <1>4, NoAgentAssumption
     DEF OneHandlerInRun, InRun, WritingMarked, SavingMemory, CallInHand
<1>6. CallsProper /\ Limits
  BY <1>2, <1>4 DEF CallsProper, Limits, Everywhere, ProperCalls, WithinItsLimit
<1>7. NotAskedNotTried
  BY DEF NotAskedNotTried
<1>8. Covered
  <2>1. \A a \in Action : Executors(a) = {}
    BY <1>4 DEF Executors, Executable
  <2> QED
    BY <2>1, FS_EmptySet DEF Covered
<1> QED
  BY <1>3, <1>5, <1>6, <1>7, <1>8 DEF IInv

LEMMA NextIInv ==
  ASSUME IInv, [Next]_vars
  PROVE  IInv'
<1> USE DEF IInv
<1>1. TypeOK'
  BY NextTypes
<1>2. Loaded /\ StepOf
  BY NextLoaded, NextStepOf
<1>3. OneHandlerInRun' /\ WritingMarked'
  BY NextOneHandler, NextWritingMarked
<1>4. CallInHand' /\ SavingMemory'
  BY <1>1, <1>2, NextHand
<1>5. CallsProper'
  BY <1>1, <1>2, StepCalls, NextCallsProper
<1>6. Covered' /\ NotAskedNotTried'
  BY <1>1, <1>2, NextCovers
<1>7. Limits'
  BY <1>2, NextLimits
<1> QED
  BY <1>1, <1>3, <1>4, <1>5, <1>6, <1>7

\* The inductive invariant holds of every behaviour of the sidecar.
THEOREM SidecarInvariance == Spec => []IInv
<1>1. Init => IInv
  BY InitIInv
<1>2. IInv /\ [Next]_vars => IInv'
  BY NextIInv
<1> QED
  BY <1>1, <1>2, PTL DEF Spec

\* Every variable of the invocations and of the handlers keeps its type: a
\* mark writes a checkpoint that was loaded, never a run that has no file
\* (markStatus, run-journal.mjs; agent_run, server.mjs).
THEOREM SidecarTypes == Spec => []TypeOK
<1>1. IInv => TypeOK
  BY DEF IInv
<1> QED
  BY <1>1, SidecarInvariance, PTL

\* activeAgentRun names exactly the handler in its run, for any number of
\* requests whose first check was passed before another one was admitted
\* (server.mjs:1970 and 2013).
THEOREM AdmitsOne == Spec => []OneHandlerInRun
<1>1. IInv => OneHandlerInRun
  BY DEF IInv
<1> QED
  BY <1>1, SidecarInvariance, PTL

\* No side effect is repeated without confirmation, although an invocation
\* that lost its race may still execute what a later one has resumed from the
\* journal (agent.ts:545-547).
THEOREM RepeatsAreConfirmedInSidecar == Spec => []NoUnconfirmedRepeat
<1>1. ASSUME IInv
      PROVE  NoUnconfirmedRepeat
  <2>1. ASSUME NEW a \in Action
        PROVE  effects[a] <= 1 + grants[a]
    <3>1. effects[a] \in Nat /\ grants[a] \in Nat
      BY <1>1 DEF IInv, TypeOK, AgentTypeOK
    <3>2. Cardinality(Executors(a)) \in Nat
      BY <1>1, FS_CardinalityType DEF IInv, Covered
    <3>3. effects[a] + Cardinality(Executors(a)) <= 1 + grants[a]
      BY <1>1 DEF IInv, Covered
    <3> QED
      BY <3>1, <3>2, <3>3
  <2> QED
    BY <2>1 DEF NoUnconfirmedRepeat
<1> QED
  BY <1>1, SidecarInvariance, PTL

\* The journal never claims more iterations than the limit it records, over
\* any number of resumes, exhaustions and marks (server.mjs:2001-2004).
THEOREM LimitIsKept == Spec => []WithinLimit
<1>1. IInv => WithinLimit
  BY DEF IInv, Limits, Everywhere, WithinItsLimit, WithinLimit
<1> QED
  BY <1>1, SidecarInvariance, PTL
=============================================================================
