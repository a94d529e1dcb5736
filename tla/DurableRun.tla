----------------------------- MODULE DurableRun -----------------------------
(***************************************************************************)
(* The durable run under a caller that awaits it: an invocation is started *)
(* only when no other is alive, may be aborted, and may die with its       *)
(* process at any point; a later one resumes from the journal, with or     *)
(* without confirming the replay of pending tools.                         *)
(***************************************************************************)
EXTENDS ReActAgent

vars == agentVars

NoneLive == \A i \in Agent : ~Live(i)

StartFresh(i) ==
  /\ NoneLive
  /\ journal = NoCheckpoint
  /\ \E max \in 1..MaxIterations : BeginFresh(i, max)

StartResume(i) ==
  /\ NoneLive
  /\ journal # NoCheckpoint
  /\ \E max \in 1..MaxIterations, confirm \in BOOLEAN :
       BeginResume(i, journal, max, confirm)

Abort(i) ==
  /\ Live(i)
  /\ ~aborted[i]
  /\ aborted' = [aborted EXCEPT ![i] = TRUE]
  /\ UNCHANGED <<pc, mem, saving, journal, issued, effects, grants>>

\* The process stops: nothing in memory survives, the file does.
Crash(i) ==
  /\ Live(i)
  /\ Leave(i, "dead", "running")
  /\ UNCHANGED <<journal, issued, effects, grants>>

\* Every invocation of the bounded set has been used.
AllUsed ==
  /\ \A i \in Agent : pc[i] \in Ended
  /\ UNCHANGED vars

Init == AgentInit /\ journal = NoCheckpoint

Next ==
  \/ \E i \in Agent : StartFresh(i) \/ StartResume(i) \/ Abort(i) \/ Crash(i)
  \/ \E i \in Agent : AgentStep(i)
  \/ AllUsed

Spec == Init /\ [][Next]_vars

\* The event loop runs a ready continuation; the model call and the tool
\* settle.  Starting, aborting, crashing and failing writes are not assured.
Fairness ==
  \A i \in Agent :
    /\ WF_vars(AgentRuns(i))
    /\ WF_vars(ToolReturns(i))
    /\ WF_vars(ModelFails(i) \/ ModelAnswers(i))

FairSpec == Spec /\ Fairness

-----------------------------------------------------------------------------
TypeOK == AgentTypeOK

\* A recorded observation is never lost or reordered: the steps of the next
\* checkpoint extend those of the last one (recordObservation, save).
ObservationsKept ==
  [][journal # NoCheckpoint =>
       /\ journal' # NoCheckpoint
       /\ Len(journal.steps) <= Len(journal'.steps)
       /\ SubSeq(journal'.steps, 1, Len(journal.steps)) = journal.steps]_vars

\* Every invocation ends: retries, tool calls and resumes cannot keep the
\* loop going beyond its iteration limit.
RunEnds == \A i \in Agent : Live(i) ~> ~Live(i)

\* Journal and history implement the promise.
Recorded(field) == IF journal = NoCheckpoint THEN {} ELSE Elems(journal[field])

Promise == INSTANCE ReplayPromise WITH
  pending  <- Recorded("pending"),
  observed <- Recorded("steps"),
  attempts <- effects

ImplementsPromise == Promise!Spec

-----------------------------------------------------------------------------
(* The inductive invariant behind NoUnconfirmedRepeat *)

OneLive == \A i, j \in Agent : Live(i) /\ Live(j) => i = j

CallsProper ==
  /\ \A i \in Agent : ProperCalls(mem[i].pending, issued)
  /\ journal # NoCheckpoint => ProperCalls(journal.pending, issued)

Covered == \A i \in Agent : \A a \in Executable(i) : effects[a] <= grants[a]

IInv ==
  /\ TypeOK
  /\ OneLive
  /\ SavingMemory
  /\ CallInHand
  /\ CallsProper
  /\ NotAskedNotTried
  /\ Covered
  /\ NoUnconfirmedRepeat

-----------------------------------------------------------------------------
(* What the journal needs besides: the calls of a record are in the order in *)
(* which the model asked for them, and only an invocation that executes them *)
(* or has been rejected has pending ones.                                    *)

Calls(r) == r.steps \o r.pending

\* No call has a smaller number than its place, and none has a larger one than
\* the last call, n, that was asked for.
InOrder(s, n) ==
  /\ \A j, k \in 1..Len(s) : j < k => s[j] < s[k]
  /\ \A k \in 1..Len(s) : k <= s[k] /\ s[k] <= n

CallsInOrder ==
  /\ \A i \in Agent : InOrder(Calls(mem[i]), issued)
  /\ journal # NoCheckpoint => InOrder(Calls(journal), issued)

\* Where an invocation has answered every call the model asked for.
Quiet == {"loop", "model", "answer", "limit", "resolved"}

NothingInHand(i) ==
  /\ Stage(i) \in Quiet => mem[i].pending = <<>>
  /\ pc[i] \in {"saving", "renamed"} /\ saving[i].cp.status \in {"completed", "exhausted"} =>
       mem[i].pending = <<>>

JInv ==
  /\ CallsInOrder
  /\ \A i \in Agent : NothingInHand(i)
  /\ EndedRunsHaveNothingPending

-----------------------------------------------------------------------------
(* When nothing is cut off, the journal is at most one change of the calls   *)
(* behind the invocation that lives.                                         *)

NothingCut == ArrayLimit >= MaxActions

Agrees(i) ==
  /\ journal # NoCheckpoint
  /\ mem[i].steps = journal.steps
  /\ mem[i].pending = journal.pending

\* A run that has not been saved, calls asked for, a call answered.
OneAhead(i) ==
  \/ journal = NoCheckpoint /\ mem[i].steps = <<>> /\ mem[i].pending = <<>>
  \/ /\ journal # NoCheckpoint
     /\ journal.pending = <<>>
     /\ mem[i].steps = journal.steps
  \/ /\ journal # NoCheckpoint
     /\ journal.pending # <<>>
     /\ mem[i].steps = Append(journal.steps, Head(journal.pending))
     /\ mem[i].pending = Tail(journal.pending)

Followed(i) ==
  /\ Live(i) => Agrees(i) \/ OneAhead(i)
  /\ Live(i) /\ pc[i] # "saving" => Agrees(i)

FInv == (\A i \in Agent : Followed(i)) /\ JournalKnowsEffects
=============================================================================
