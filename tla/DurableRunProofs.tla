-------------------------- MODULE DurableRunProofs --------------------------
(***************************************************************************)
(* Type correctness of the durable run, and that it never repeats a side   *)
(* effect without confirmation, for any set of invocations and any bounds. *)
(***************************************************************************)
EXTENDS DurableRun, ReActAgentProofs

-----------------------------------------------------------------------------
(* The inductive invariant *)

\* With one invocation moving, the parts of the invariant that speak of every
\* invocation need be shown for it only.
LEMMA OnlyOneMoves ==
  ASSUME NEW i \in Agent, CallsProper, issued \in Nat, issued' \in Nat,
         issued' >= issued, TypeOK, TypeOK',
         \A j \in Agent : j # i => /\ ~Live(j)
                                   /\ pc'[j] = pc[j]
                                   /\ mem'[j] = mem[j]
                                   /\ saving'[j] = saving[j],
         pc'[i] \in {"saving", "renamed"} =>
            /\ saving'[i].cp.pending = mem'[i].pending
            /\ saving'[i].cp.steps = mem'[i].steps,
         Stage(i)' \in {"gate", "executing"} => mem'[i].pending # <<>>,
         ProperCalls(mem'[i].pending, issued'),
         journal' # NoCheckpoint => ProperCalls(journal'.pending, issued'),
         \A a \in Executable(i)' : effects'[a] <= grants'[a]
  PROVE  OneLive' /\ SavingMemory' /\ CallInHand' /\ CallsProper' /\ Covered'
<1>1. \A j \in Agent : j # i =>
        /\ ~Live(j)'
        /\ Stage(j)' = pc[j]
        /\ pc[j] \notin {"saving", "renamed", "tools", "gate", "executing"}
        /\ Executable(j)' = {}
  BY Bystander
<1>2. OneLive'
  BY <1>1 DEF OneLive
<1>3. SavingMemory'
  BY <1>1 DEF SavingMemory
<1>4. CallInHand'
  BY <1>1 DEF CallInHand
<1>5. ASSUME NEW j \in Agent, j # i
      PROVE  ProperCalls(mem'[j].pending, issued')
  <2>1. mem[j].pending \in Seq(Action)
    BY DEF TypeOK, AgentTypeOK, Locals
  <2>2. \A k \in 1..Len(mem[j].pending) : mem[j].pending[k] \in Nat
    BY <2>1, CallsAreNumbers
  <2>3. ProperCalls(mem[j].pending, issued) /\ mem'[j] = mem[j]
    BY <1>5 DEF CallsProper
  <2> QED
    BY <2>2, <2>3 DEF ProperCalls
<1>6. CallsProper'
  BY <1>5 DEF CallsProper
<1>7. Covered'
  BY <1>1 DEF Covered
<1> QED
  BY <1>2, <1>3, <1>4, <1>6, <1>7

\* What the calls of invocation i and of the journal must satisfy after a step,
\* besides what OnlyOneMoves carries over.
Kept(i) ==
  /\ issued' >= issued
  /\ Stage(i)' \in {"gate", "executing"} => mem'[i].pending # <<>>
  /\ ProperCalls(mem'[i].pending, issued')
  /\ journal' # NoCheckpoint => ProperCalls(journal'.pending, issued')
  /\ \A a \in Executable(i)' : effects'[a] <= grants'[a]
  /\ NotAskedNotTried'
  /\ NoUnconfirmedRepeat'

LEMMA ShapeKeeps ==
  ASSUME IInv, TypeOK', NEW i \in Agent, Shape(i)
  PROVE  Kept(i)
<1> DEFINE calls == mem[i].pending
<1>1. /\ calls \in Seq(Action) /\ ProperCalls(calls, issued)
      /\ issued \in Nat /\ issued' \in Nat
      /\ effects \in [Action -> Nat] /\ grants \in [Action -> Nat]
      /\ Action \subseteq Nat
  BY DEF IInv, TypeOK, AgentTypeOK, Locals, CallsProper, Action
<1>2. /\ journal # NoCheckpoint => ProperCalls(journal.pending, issued)
      /\ NotAskedNotTried
      /\ NoUnconfirmedRepeat
      /\ \A a \in Executable(i) : effects[a] <= grants[a]
      /\ Stage(i) \in {"gate", "executing"} => calls # <<>>
  BY DEF IInv, CallsProper, Covered, CallInHand
<1>3. CASE Shift(i)
  <2>1. mem'[i].pending = calls /\ UNCHANGED <<journal, issued, effects, grants>>
    BY <1>3 DEF Shift, SameCalls
  <2>2. ProperCalls(mem'[i].pending, issued')
        /\ (journal' # NoCheckpoint => ProperCalls(journal'.pending, issued'))
        /\ NotAskedNotTried' /\ NoUnconfirmedRepeat'
    BY <1>1, <1>2, <2>1 DEF ProperCalls, NotAskedNotTried, NoUnconfirmedRepeat
  <2>3. CASE Stage(i)' \in Idling
    <3>1. Executable(i)' = {} /\ Stage(i)' \notin {"gate", "executing"}
      BY <2>3 DEF Executable, Idling
    <3> QED
      BY <1>1, <2>1, <2>2, <3>1 DEF Kept
  <2>4. CASE Stage(i)' = Stage(i)
    <3>1. Executable(i)' = Executable(i)
      BY <2>1, <2>4 DEF Executable
    <3> QED
      BY <1>1, <1>2, <2>1, <2>2, <2>4, <3>1 DEF Kept
  <2>5. CASE Stage(i) = "tools" /\ Stage(i)' = "gate" /\ calls # <<>>
    <3>1. Executable(i)' = Executable(i)
      BY <2>1, <2>5 DEF Executable
    <3> QED
      BY <1>1, <1>2, <2>1, <2>2, <2>5, <3>1 DEF Kept
  <2> QED
    BY <1>3, <2>3, <2>4, <2>5 DEF Shift
<1>4. CASE Write(i)
  <2>1. mem'[i].pending = calls /\ UNCHANGED <<issued, effects, grants>>
        /\ Stage(i)' = Stage(i)
    BY <1>4 DEF Write, SameCalls
  <2>2. journal'.pending = Latest(calls)
    <3>1. saving[i].cp.pending = calls /\ saving[i].cp \in Checkpoint
      BY <1>4 DEF Write, IInv, SavingMemory, TypeOK, AgentTypeOK
    <3> QED
      BY <1>4, <3>1 DEF Write, Sanitized, Checkpoint
  <2>3. ProperCalls(Latest(calls), issued)
    BY <1>1, LatestOfCalls
  <2>4. ProperCalls(mem'[i].pending, issued') /\ ProperCalls(journal'.pending, issued')
    BY <1>1, <2>1, <2>2, <2>3 DEF ProperCalls
  <2>5. Executable(i)' = Executable(i)
    BY <2>1 DEF Executable
  <2>6. NotAskedNotTried' /\ NoUnconfirmedRepeat'
    BY <1>2, <2>1 DEF NotAskedNotTried, NoUnconfirmedRepeat
  <2> QED
    BY <1>1, <1>2, <2>1, <2>4, <2>5, <2>6 DEF Kept
<1>5. CASE Try(i)
  <2>1. /\ mem'[i].pending = calls /\ UNCHANGED <<journal, issued, grants>>
        /\ Stage(i) = "gate" /\ Stage(i)' = "executing"
        /\ effects' = [effects EXCEPT ![Head(calls)] = @ + 1]
    BY <1>5 DEF Try, SameCalls
  <2>2. /\ Head(calls) \in Elems(calls)
        /\ Elems(Tail(calls)) \subseteq Elems(calls)
        /\ Head(calls) \notin Elems(Tail(calls))
        /\ Head(calls) \in Action /\ Head(calls) <= issued
    <3>1. calls # <<>>
      BY <1>2, <2>1
    <3>2. Head(calls) = calls[1] /\ 1 \in 1..Len(calls)
      BY <1>1, <3>1
    <3>3. Head(calls) <= issued
      BY <1>1, <3>2 DEF ProperCalls
    <3>4. Head(calls) \in Action
      BY <1>1, <3>1
    <3> QED
      BY <1>1, <3>1, <3>3, <3>4, TailOfCalls
  <2>3. \A a \in Elems(calls) : effects[a] <= grants[a]
    BY <1>2, <2>1 DEF Executable
  <2>4. \A a \in Executable(i)' : effects'[a] <= grants'[a]
    <3>1. Executable(i)' = Elems(Tail(calls))
      BY <2>1 DEF Executable
    <3>2. \A a \in Elems(Tail(calls)) : a \in Action
      BY <1>1 DEF Elems
    <3>3. \A a \in Elems(Tail(calls)) : effects'[a] = effects[a]
      BY <1>1, <2>1, <2>2, <3>2
    <3> QED
      BY <2>1, <2>2, <2>3, <3>1, <3>3
  <2>5. NotAskedNotTried'
    BY <1>1, <1>2, <2>1, <2>2 DEF NotAskedNotTried
  <2>6. NoUnconfirmedRepeat'
    BY <1>1, <1>2, <2>1, <2>2, <2>3 DEF NoUnconfirmedRepeat
  <2>7. ProperCalls(mem'[i].pending, issued')
        /\ (journal' # NoCheckpoint => ProperCalls(journal'.pending, issued'))
    BY <1>1, <1>2, <2>1 DEF ProperCalls
  <2> QED
    BY <1>1, <1>2, <2>1, <2>4, <2>5, <2>6, <2>7 DEF Kept
<1>6. CASE Answer(i)
  <2>1. /\ mem'[i].pending = Tail(calls)
        /\ UNCHANGED <<journal, issued, effects, grants>>
        /\ Stage(i) \in {"gate", "executing"} /\ Stage(i)' = "tools"
    BY <1>6 DEF Answer
  <2>2. ProperCalls(Tail(calls), issued) /\ Elems(Tail(calls)) \subseteq Elems(calls)
    BY <1>1, <1>2, <2>1, TailOfCalls
  <2>3. Executable(i)' = Elems(Tail(calls))
    BY <2>1 DEF Executable
  <2>4. Executable(i)' \subseteq Executable(i)
    BY <2>1, <2>2, <2>3 DEF Executable
  <2>5. ProperCalls(mem'[i].pending, issued')
        /\ (journal' # NoCheckpoint => ProperCalls(journal'.pending, issued'))
    BY <1>2, <2>1, <2>2 DEF ProperCalls
  <2>6. NotAskedNotTried' /\ NoUnconfirmedRepeat'
    BY <1>2, <2>1 DEF NotAskedNotTried, NoUnconfirmedRepeat
  <2> QED
    BY <1>1, <1>2, <2>1, <2>4, <2>5, <2>6 DEF Kept
<1>7. CASE Request(i)
  <2>1. PICK n \in 1..MaxCalls :
          issued' = issued + n /\ mem'[i].pending = [k \in 1..n |-> issued + k]
    BY <1>7 DEF Request
  <2>2. Stage(i)' = "tools" /\ UNCHANGED <<journal, effects, grants>>
    BY <1>7 DEF Request
  <2>3. n \in Nat \ {0} /\ issued' >= issued
    BY <1>1, <2>1, BoundsAssumption
  <2>4. Len(mem'[i].pending) = n
        /\ \A k \in 1..n : mem'[i].pending[k] = issued + k
    BY <2>1, <2>3
  <2>5. ProperCalls(mem'[i].pending, issued')
    BY <1>1, <2>1, <2>3, <2>4 DEF ProperCalls
  <2>6. ASSUME journal' # NoCheckpoint
        PROVE  ProperCalls(journal'.pending, issued')
    <3>1. journal.pending \in Seq(Action) /\ ProperCalls(journal.pending, issued)
      BY <1>2, <2>2, <2>6 DEF IInv, TypeOK, AgentTypeOK, Checkpoint
    <3>2. \A k \in 1..Len(journal.pending) : journal.pending[k] \in Nat
      BY <3>1, CallsAreNumbers
    <3>3. \A k \in 1..Len(journal.pending) : journal.pending[k] <= issued'
      BY <1>1, <2>3, <3>1, <3>2 DEF ProperCalls
    <3>4. \A j, k \in 1..Len(journal.pending) :
            journal.pending[j] = journal.pending[k] => j = k
      BY <3>1 DEF ProperCalls
    <3>5. journal' = journal
      BY <2>2
    <3> QED
      BY <3>3, <3>4, <3>5 DEF ProperCalls
  <2>7. \A a \in Executable(i)' : effects'[a] <= grants'[a]
    <3>1. Executable(i)' = Elems(mem'[i].pending)
      BY <2>2 DEF Executable
    <3>2. ASSUME NEW a \in Elems(mem'[i].pending)
          PROVE  a \in Action /\ a > issued
      <4>1. mem'[i].pending \in Seq(Action)
        BY DEF TypeOK, AgentTypeOK, Locals
      <4>2. PICK k \in 1..n : a = mem'[i].pending[k]
        BY <2>4 DEF Elems
      <4>3. a = issued + k
        BY <2>4, <4>2
      <4>4. a \in Action
        BY <2>4, <4>1, <4>2
      <4> QED
        BY <1>1, <2>3, <4>3, <4>4
    <3> QED
      <4>1. \A a \in Executable(i)' : effects[a] = 0 /\ grants[a] \in Nat
        BY <1>1, <1>2, <3>1, <3>2 DEF NotAskedNotTried
      <4> QED
        BY <2>2, <4>1
  <2>8. NotAskedNotTried'
    <3>1. \A a \in Action : a > issued' => a > issued
      BY <1>1, <2>3
    <3> QED
      BY <1>2, <2>2, <3>1 DEF NotAskedNotTried
  <2>9. NoUnconfirmedRepeat'
    BY <1>2, <2>2 DEF NoUnconfirmedRepeat
  <2> QED
    BY <2>2, <2>3, <2>5, <2>6, <2>7, <2>8, <2>9 DEF Kept
<1>8. CASE End(i)
  <2>1. /\ Stage(i)' \in Ended /\ mem'[i].pending = <<>>
        /\ UNCHANGED <<journal, issued, effects, grants>>
    BY <1>8 DEF End
  <2>2. Executable(i)' = {} /\ Stage(i)' \notin {"gate", "executing"}
    BY <2>1 DEF Executable, Ended
  <2>3. ProperCalls(mem'[i].pending, issued')
        /\ (journal' # NoCheckpoint => ProperCalls(journal'.pending, issued'))
    BY <1>2, <2>1 DEF ProperCalls
  <2>4. NotAskedNotTried' /\ NoUnconfirmedRepeat'
    BY <1>2, <2>1 DEF NotAskedNotTried, NoUnconfirmedRepeat
  <2> QED
    BY <1>1, <2>1, <2>2, <2>3, <2>4 DEF Kept
<1> QED
  BY <1>3, <1>4, <1>5, <1>6, <1>7, <1>8 DEF Shape

LEMMA EntryKeeps ==
  ASSUME IInv, TypeOK', NEW i \in Agent, Entry(i, journal)
  PROVE  Kept(i)
<1>1. /\ issued \in Nat
      /\ effects \in [Action -> Nat] /\ grants \in [Action -> Nat]
      /\ UNCHANGED <<journal, issued, effects>>
      /\ mem'[i].pending \in Seq(Action)
  BY DEF IInv, TypeOK, AgentTypeOK, Locals, Entry
<1>2. ProperCalls(mem'[i].pending, issued')
      /\ (journal' # NoCheckpoint => ProperCalls(journal'.pending, issued'))
  <2>1. ASSUME journal' # NoCheckpoint
        PROVE  ProperCalls(journal'.pending, issued')
    <3>1. ProperCalls(journal.pending, issued)
      BY <1>1, <2>1 DEF IInv, CallsProper
    <3> QED
      BY <1>1, <3>1 DEF ProperCalls
  <2>2. CASE mem'[i].pending = <<>>
    BY <2>1, <2>2 DEF ProperCalls
  <2>3. CASE journal # NoCheckpoint /\ mem'[i].pending = journal.pending
    BY <1>1, <2>1, <2>3
  <2> QED
    BY <2>2, <2>3 DEF Entry
<1>3. \A a \in Elems(mem'[i].pending) : a \in Action
  BY <1>1 DEF Elems
<1>4. NotAskedNotTried'
  BY <1>1 DEF IInv, NotAskedNotTried
<1>5. CASE Stage(i)' \in Idling /\ UNCHANGED grants
  <2>1. Executable(i)' = {} /\ Stage(i)' \notin {"gate", "executing"}
    BY <1>5 DEF Executable, Idling
  <2>2. NoUnconfirmedRepeat'
    BY <1>1, <1>5 DEF IInv, NoUnconfirmedRepeat
  <2> QED
    BY <1>1, <1>2, <1>4, <2>1, <2>2 DEF Kept
<1>6. CASE /\ Stage(i)' = "tools"
           /\ grants' = [a \in Action |-> IF a \in Elems(mem'[i].pending)
                                          THEN grants[a] + 1 ELSE grants[a]]
  <2>1. Executable(i)' = Elems(mem'[i].pending)
    BY <1>6 DEF Executable
  <2>2. \A a \in Action : effects[a] <= 1 + grants[a]
    BY DEF IInv, NoUnconfirmedRepeat
  <2>3. \A a \in Executable(i)' : effects'[a] <= grants'[a]
    BY <1>1, <1>3, <1>6, <2>1, <2>2
  <2>4. NoUnconfirmedRepeat'
    BY <1>1, <1>6, <2>2 DEF NoUnconfirmedRepeat
  <2> QED
    BY <1>1, <1>2, <1>4, <1>6, <2>3, <2>4 DEF Kept
<1> QED
  BY <1>5, <1>6 DEF Entry

\* Starting an invocation is beginning it with what the journal holds.
LEMMA StartTypes ==
  ASSUME TypeOK, NEW i \in Agent, StartFresh(i) \/ StartResume(i)
  PROVE  TypeOK' /\ NoneLive /\ Entry(i, journal)
<1>1. NoneLive /\ AgentTypeOK /\ journal \in Checkpoint \cup {NoCheckpoint}
  BY DEF StartFresh, StartResume, TypeOK, AgentTypeOK
<1>2. 1..MaxIterations \subseteq Nat
  OBVIOUS
<1>3. Begins(i, journal)
  BY <1>2 DEF StartFresh, StartResume, Begins
<1> QED
  BY <1>1, <1>3, BeginTypes DEF TypeOK

LEMMA InitIInv ==
  ASSUME Init
  PROVE  IInv
<1> USE DEF Init, AgentInit
<1>1. FreshLocals(1) \in Locals
      /\ NotWriting("running") \in [cp : Checkpoint, then : Continuation]
  BY FreshType, NotWritingType DEF Status
<1>2. TypeOK
  BY <1>1, BoundsAssumption DEF TypeOK, AgentTypeOK, PC
<1>3. \A i \in Agent : ~Live(i) /\ Stage(i) = "idle" /\ mem[i].pending = <<>>
  BY DEF Live, Running, Stage, FreshLocals
<1>4. OneLive /\ SavingMemory /\ CallInHand
  BY <1>3 DEF OneLive, SavingMemory, CallInHand
<1>5. CallsProper
  BY <1>3 DEF CallsProper, ProperCalls
<1>6. Covered
  BY <1>3 DEF Covered, Executable
<1>7. NotAskedNotTried /\ NoUnconfirmedRepeat
  BY DEF NotAskedNotTried, NoUnconfirmedRepeat
<1> QED
  BY <1>2, <1>4, <1>5, <1>6, <1>7 DEF IInv

LEMMA NextIInv ==
  ASSUME IInv, [Next]_vars
  PROVE  IInv'
<1>1. TypeOK /\ AgentTypeOK /\ OneLive /\ CallInHand /\ SavingMemory
  BY DEF IInv, TypeOK
<1>2. issued \in Nat
  BY <1>1 DEF TypeOK, AgentTypeOK
<1>3. ASSUME NEW i \in Agent, AgentStep(i)
      PROVE  IInv'
  <2>1. TypeOK'
    BY <1>1, <1>3, AgentStepTypes, AgentStepRest DEF TypeOK, AgentTypeOK, LocalTypes
  <2>2. Shape(i)
    BY <1>1, <1>3, StepShape
  <2>3. Kept(i)
    BY <2>1, <2>2, ShapeKeeps
  <2>4. issued' \in Nat
    BY <2>1 DEF TypeOK, AgentTypeOK
  <2>5. \A j \in Agent : j # i => /\ ~Live(j)
                                  /\ pc'[j] = pc[j]
                                  /\ mem'[j] = mem[j]
                                  /\ saving'[j] = saving[j]
    BY <1>1, <2>2 DEF Shape, Own, OneLive
  <2>6. OneLive' /\ SavingMemory' /\ CallInHand' /\ CallsProper' /\ Covered'
    BY <1>1, <1>2, <2>1, <2>2, <2>3, <2>4, <2>5, OnlyOneMoves
       DEF Kept, Shape, Own, IInv
  <2> QED
    BY <2>1, <2>3, <2>6 DEF Kept, IInv
<1>4. ASSUME NEW i \in Agent, StartFresh(i) \/ StartResume(i)
      PROVE  IInv'
  <2>1. TypeOK' /\ NoneLive /\ Entry(i, journal)
    BY <1>1, <1>4, StartTypes
  <2>2. Kept(i)
    BY <2>1, EntryKeeps
  <2>3. issued' \in Nat
    BY <2>1 DEF TypeOK, AgentTypeOK
  <2>4. \A j \in Agent : j # i => /\ ~Live(j)
                                  /\ pc'[j] = pc[j]
                                  /\ mem'[j] = mem[j]
                                  /\ saving'[j] = saving[j]
    BY <2>1 DEF Entry, NoneLive
  <2>5. OneLive' /\ SavingMemory' /\ CallInHand' /\ CallsProper' /\ Covered'
    BY <1>1, <1>2, <2>1, <2>2, <2>3, <2>4, OnlyOneMoves
       DEF Kept, Entry, IInv
  <2> QED
    BY <2>1, <2>2, <2>5 DEF Kept, IInv
<1>5. ASSUME NEW i \in Agent, Abort(i)
      PROVE  IInv'
  <2>1. UNCHANGED <<pc, mem, saving, journal, issued, effects, grants>>
        /\ aborted' \in [Agent -> BOOLEAN]
    BY <1>1, <1>5 DEF Abort, TypeOK, AgentTypeOK
  <2> QED
    BY <2>1 DEF IInv, TypeOK, AgentTypeOK, OneLive, Live, SavingMemory,
                CallInHand, Stage, CallsProper, ProperCalls, NotAskedNotTried,
                Covered, Executable, NoUnconfirmedRepeat
<1>6. ASSUME NEW i \in Agent, Crash(i)
      PROVE  IInv'
  <2>1. Leave(i, "dead", "running") /\ Live(i)
        /\ UNCHANGED <<journal, issued, effects, grants>>
    BY <1>6 DEF Crash
  <2>2. /\ Own(i)
        /\ Stage(i)' = "dead" /\ pc'[i] = "dead"
        /\ mem'[i].pending = <<>> /\ mem'[i].steps = <<>>
    BY <1>1, <2>1, LeaveShape DEF Ended
  <2>3. Shape(i)
    BY <2>1, <2>2 DEF Shape, End, Ended
  <2>4. TypeOK'
    <3>1. LocalTypes' /\ aborted' \in [Agent -> BOOLEAN]
      BY <1>1, <2>1, LeaveType, Names DEF Ended, TypeOK, AgentTypeOK, LocalTypes
    <3> QED
      BY <1>1, <2>1, <3>1 DEF TypeOK, AgentTypeOK, LocalTypes
  <2>5. Kept(i)
    BY <2>3, <2>4, ShapeKeeps
  <2>6. \A j \in Agent : j # i => /\ ~Live(j)
                                  /\ pc'[j] = pc[j]
                                  /\ mem'[j] = mem[j]
                                  /\ saving'[j] = saving[j]
    BY <1>1, <2>2 DEF Own, OneLive
  <2>7. OneLive' /\ SavingMemory' /\ CallInHand' /\ CallsProper' /\ Covered'
    BY <1>1, <1>2, <2>1, <2>2, <2>4, <2>5, <2>6, OnlyOneMoves
       DEF Kept, Own, IInv
  <2> QED
    BY <2>4, <2>5, <2>7 DEF Kept, IInv
<1>7. CASE UNCHANGED vars
  BY <1>7 DEF vars, agentVars, IInv, TypeOK, AgentTypeOK, OneLive, Live,
              SavingMemory, CallInHand, Stage, CallsProper, ProperCalls,
              NotAskedNotTried, Covered, Executable, NoUnconfirmedRepeat
<1> QED
  BY <1>3, <1>4, <1>5, <1>6, <1>7 DEF Next, AllUsed

-----------------------------------------------------------------------------
(* The theorems *)

\* The inductive invariant holds of every behaviour.
THEOREM Invariance == Spec => []IInv
<1>1. Init => IInv
  BY InitIInv
<1>2. IInv /\ [Next]_vars => IInv'
  BY NextIInv
<1> QED
  BY <1>1, <1>2, PTL DEF Spec

\* Every variable keeps its type: in particular, the loop never takes a call
\* in hand, nor the journal a call, that was not asked for
\* (executePendingActions, agent.ts:536-630).
THEOREM TypeCorrect == Spec => []TypeOK
<1>1. IInv => TypeOK
  BY DEF IInv
<1> QED
  BY <1>1, Invariance, PTL

\* No side effect is repeated without confirmation, however often the run is
\* aborted, crashes, fails to write its journal and is resumed, and however
\* much of the journal sanitizeValue drops (agent.ts:545-547).
THEOREM RepeatsAreConfirmed == Spec => []NoUnconfirmedRepeat
<1>1. IInv => NoUnconfirmedRepeat
  BY DEF IInv
<1> QED
  BY <1>1, Invariance, PTL
=============================================================================
