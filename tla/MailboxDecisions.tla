--------------------------- MODULE MailboxDecisions ---------------------------
(***************************************************************************)
(* Asks and decision gates of the mailbox                                  *)
(* (packages/agents/src/mailbox/store.ts): one question that several       *)
(* callers wait for and answer, and one gate that several callers wait for *)
(* and resolve.  The callers are agents and people, and may work on the    *)
(* same database file from several processes, so the steps are statements. *)
(***************************************************************************)
EXTENDS Naturals, FiniteSets

CONSTANTS
  Waiter,      \* calls of awaitAsk and of awaitGate
  Answer,      \* answers and resolutions
  None         \* no answer

VARIABLES
  ask,         \* the row of the question in mailbox_asks
  elapsed,     \* its timeoutMs, if any, have passed
  asking,      \* where each call of awaitAsk is
  outcome,     \* what each call of awaitAsk has returned
  accepted,    \* history: the answers for which answerAsk returned true
  gate,        \* the row of the gate in mailbox_gates
  waiting,     \* where each call of awaitGate is
  overdue,     \* calls of awaitGate whose deadline has passed
  passed       \* what each call of awaitGate has returned

askVars == <<ask, elapsed, asking, outcome, accepted>>
gateVars == <<gate, waiting, overdue, passed>>
vars == <<askVars, gateVars>>

AskRow == [timed : BOOLEAN, answered : BOOLEAN, timedOut : BOOLEAN,
           answer : Answer \cup {None}]
GateRow == [resolved : BOOLEAN, resolution : Answer \cup {None}]
\* The rows that the statements can produce.
AskRows == {r \in AskRow : /\ r.answered <=> r.answer # None
                           /\ ~(r.answered /\ r.timedOut)}
GateRows == {r \in GateRow : r.resolved <=> r.resolution # None}
NoRow == [exists |-> FALSE]

-----------------------------------------------------------------------------
(* ask, answerAsk, awaitAsk *)

\* timed: timeoutMs is not 0.
PoseAsk ==
  /\ ask = NoRow
  /\ \E timed \in BOOLEAN :
       ask' = [timed |-> timed, answered |-> FALSE, timedOut |-> FALSE, answer |-> None]
  /\ UNCHANGED <<elapsed, asking, outcome, accepted, gateVars>>

\* UPDATE ... WHERE answered = 0 AND timed_out = 0; it changes no row, and
\* returns false, otherwise.
AnswerAsk(v) ==
  /\ ask # NoRow
  /\ ~ask.answered /\ ~ask.timedOut
  /\ ask' = [ask EXCEPT !.answered = TRUE, !.answer = v]
  /\ accepted' = accepted \cup {v}
  /\ UNCHANGED <<elapsed, asking, outcome, gateVars>>

AwaitAsk(w) ==
  /\ asking[w] = "idle"
  /\ asking' = [asking EXCEPT ![w] = "polling"]
  /\ UNCHANGED <<ask, elapsed, outcome, accepted, gateVars>>

ReturnAsk(w) ==
  /\ asking' = [asking EXCEPT ![w] = "returned"]
  /\ outcome' = [outcome EXCEPT ![w] = ask]

\* The row is read; the wait for the next poll is a step that changes nothing.
PollAsk(w) ==
  /\ asking[w] = "polling"
  /\ \/ /\ ask = NoRow
        /\ asking' = [asking EXCEPT ![w] = "thrown"]
        /\ UNCHANGED outcome
     \/ /\ ask # NoRow
        /\ ask.answered \/ ask.timedOut
        /\ ReturnAsk(w)
     \/ /\ ask # NoRow
        /\ ~ask.answered /\ ~ask.timedOut
        /\ ask.timed /\ elapsed
        /\ asking' = [asking EXCEPT ![w] = "expiring"]
        /\ UNCHANGED outcome
  /\ UNCHANGED <<ask, elapsed, accepted, gateVars>>

\* UPDATE ... SET timed_out = 1 WHERE answered = 0.
ExpireAsk(w) ==
  /\ asking[w] = "expiring"
  /\ ask' = [ask EXCEPT !.timedOut = ~ask.answered]
  /\ asking' = [asking EXCEPT ![w] = "expired"]
  /\ UNCHANGED <<elapsed, outcome, accepted, gateVars>>

\* Mutant of RereadAsk: the row that was read before the update is returned.
ReturnTimedOut(w) ==
  /\ asking[w] = "expired"
  /\ asking' = [asking EXCEPT ![w] = "returned"]
  /\ outcome' = [outcome EXCEPT ![w] =
                   [ask EXCEPT !.answered = FALSE, !.timedOut = TRUE, !.answer = None]]
  /\ UNCHANGED <<ask, elapsed, accepted, gateVars>>

RereadAsk(w) ==
  /\ asking[w] = "expired"
  /\ ReturnAsk(w)
  /\ UNCHANGED <<ask, elapsed, accepted, gateVars>>

Elapse ==
  /\ ask # NoRow
  /\ ~elapsed
  /\ elapsed' = TRUE
  /\ UNCHANGED <<ask, asking, outcome, accepted, gateVars>>

-----------------------------------------------------------------------------
(* createGate, resolveGate, awaitGate *)

CreateGate ==
  /\ gate = NoRow
  /\ gate' = [resolved |-> FALSE, resolution |-> None]
  /\ UNCHANGED <<askVars, waiting, overdue, passed>>

\* UPDATE ... WHERE resolved = 0.
ResolveGate(v) ==
  /\ gate # NoRow
  /\ ~gate.resolved
  /\ gate' = [resolved |-> TRUE, resolution |-> v]
  /\ UNCHANGED <<askVars, waiting, overdue, passed>>

AwaitGate(w) ==
  /\ waiting[w] = "idle"
  /\ waiting' = [waiting EXCEPT ![w] = "polling"]
  /\ UNCHANGED <<askVars, gate, overdue, passed>>

\* Mutant of PollGate: the deadline is not looked at.
PollGateForEver(w) ==
  /\ waiting[w] = "polling"
  /\ gate # NoRow
  /\ gate.resolved
  /\ waiting' = [waiting EXCEPT ![w] = "returned"]
  /\ passed' = [passed EXCEPT ![w] = gate.resolution]
  /\ UNCHANGED <<askVars, gate, overdue>>

PollGate(w) ==
  /\ waiting[w] = "polling"
  /\ \/ /\ gate # NoRow
        /\ gate.resolved
        /\ waiting' = [waiting EXCEPT ![w] = "returned"]
        /\ passed' = [passed EXCEPT ![w] = gate.resolution]
     \/ /\ gate # NoRow => ~gate.resolved /\ w \in overdue
        /\ waiting' = [waiting EXCEPT ![w] = "thrown"]
        /\ UNCHANGED passed
  /\ UNCHANGED <<askVars, gate, overdue>>

Overdue(w) ==
  /\ waiting[w] = "polling"
  /\ w \notin overdue
  /\ overdue' = overdue \cup {w}
  /\ UNCHANGED <<askVars, gate, waiting, passed>>

-----------------------------------------------------------------------------
Init ==
  /\ ask = NoRow /\ gate = NoRow
  /\ elapsed = FALSE
  /\ asking = [w \in Waiter |-> "idle"]
  /\ outcome = [w \in Waiter |-> NoRow]
  /\ accepted = {}
  /\ waiting = [w \in Waiter |-> "idle"]
  /\ overdue = {}
  /\ passed = [w \in Waiter |-> None]

Next ==
  \/ PoseAsk \/ Elapse \/ CreateGate
  \/ \E v \in Answer : AnswerAsk(v) \/ ResolveGate(v)
  \/ \E w \in Waiter :
       \/ AwaitAsk(w) \/ PollAsk(w) \/ ExpireAsk(w) \/ RereadAsk(w)
       \/ AwaitGate(w) \/ PollGate(w) \/ Overdue(w)

Spec == Init /\ [][Next]_vars

\* The timers fire and the statements are executed; nobody needs to answer.
Fairness ==
  /\ WF_vars(Elapse)
  /\ \A w \in Waiter :
       /\ WF_vars(PollAsk(w)) /\ WF_vars(ExpireAsk(w)) /\ WF_vars(RereadAsk(w))
       /\ WF_vars(PollGate(w)) /\ WF_vars(Overdue(w))

FairSpec == Spec /\ Fairness

-----------------------------------------------------------------------------
TypeOK ==
  /\ ask \in AskRows \cup {NoRow}
  /\ elapsed \in BOOLEAN
  /\ asking \in [Waiter -> {"idle", "polling", "expiring", "expired", "returned", "thrown"}]
  /\ outcome \in [Waiter -> AskRows \cup {NoRow}]
  /\ accepted \subseteq Answer
  /\ gate \in GateRows \cup {NoRow}
  /\ waiting \in [Waiter -> {"idle", "polling", "returned", "thrown"}]
  /\ overdue \subseteq Waiter
  /\ passed \in [Waiter -> Answer \cup {None}]

\* Whoever has waited for the question knows its one and final outcome: the
\* answer whose answerAsk returned true, or, when the question timed out, that
\* no answer was or will be taken (store.ts:338-375).
OneOutcome ==
  \A w \in Waiter : asking[w] = "returned" =>
    /\ outcome[w] = ask
    /\ IF ask.timedOut THEN accepted = {} ELSE accepted = {ask.answer}

\* Whoever passed the gate passed it with the same resolution
\* (store.ts:457-466, 493-510).
OneResolution ==
  \A w \in Waiter : waiting[w] = "returned" => gate.resolved /\ passed[w] = gate.resolution

\* A call of awaitAsk with a timeout, and every call of awaitGate, ends
\* although nobody answers (store.ts:350-375, 493-510).
WaitersEnd ==
  \A w \in Waiter :
    /\ asking[w] # "idle" /\ ask # NoRow /\ ask.timed ~> asking[w] \in {"returned", "thrown"}
    /\ waiting[w] # "idle" ~> waiting[w] \in {"returned", "thrown"}
=============================================================================
