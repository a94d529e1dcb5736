--------------------------- MODULE FallbackManager ---------------------------
(***************************************************************************)
(* The provider fallback (packages/ai-engine/src/gateway/                  *)
(* fallbackManager.ts, executeWithFailover): calls that go through a chain *)
(* of models until one answers, a circuit breaker that leaves out models   *)
(* which keep failing, and a budget for the session and for the day, read  *)
(* from a log that outlives the process.                                   *)
(*                                                                         *)
(* All steps between two awaits are one step; the delay before the next    *)
(* model of a chain is part of its call, since nothing is read after it.   *)
(***************************************************************************)
EXTENDS Naturals, Sequences, FiniteSets, Sublists

CONSTANTS
  Caller,        \* calls of executeWithFailover at a time
  Model,
  Chain,         \* fallbackChain
  None,          \* no model is asked for
  SessionLimit,  \* maxCostPerSession
  DayLimit,      \* maxCostPerDay
  MaxCost        \* bound: cost of an answer

VARIABLES
  sessionCost,  \* getSessionTotalCost()
  dayCost,      \* getDayTotalCost()
  failures,     \* consecutiveModelFailures, 3 for all that is more
  unhealthy,    \* models whose modelUnhealthyUntil is still to come
  at,           \* where each call is: "idle", "chain" or "local"
  chain         \* the models of its activeChain that it has still to try

costs == <<sessionCost, dayCost>>
health == <<failures, unhealthy>>
vars == <<costs, health, at, chain>>

Threshold == 3
Busy == {c \in Caller : at[c] # "idle"}

-----------------------------------------------------------------------------
\* Mutant of WithinBudget: what earlier sessions of the day have cost is not counted.
WithinSession == sessionCost < SessionLimit

\* The totals have not reached their limits.
WithinBudget == sessionCost < SessionLimit /\ dayCost < DayLimit

\* The model that is asked for comes first; unhealthy models are left out unless
\* no other is left.
ActiveChain(m) ==
  LET all == IF m = None THEN Chain ELSE <<m>> \o Without(Chain, {m})
      healthy == Without(all, unhealthy)
  IN IF healthy # <<>> THEN healthy ELSE all

\* The call goes on with these models, or else with the local one.
GoOn(c, models) ==
  /\ chain' = [chain EXCEPT ![c] = models]
  /\ at' = [at EXCEPT ![c] = IF models = <<>> THEN "local" ELSE "chain"]

Return(c) == at' = [at EXCEPT ![c] = "idle"] /\ chain' = [chain EXCEPT ![c] = <<>>]

\* executeWithFailover, when the budget lets it begin.
Execute(c, m) ==
  /\ at[c] = "idle"
  /\ WithinBudget
  /\ GoOn(c, ActiveChain(m))
  /\ UNCHANGED <<costs, health>>

\* logCost with success 1, although the limit was reached meanwhile; 0 stands also
\* for a cost that could not be logged.
LogCost(cost) == sessionCost' = sessionCost + cost /\ dayCost' = dayCost + cost

\* The model answers in time.
Answers(c, cost) ==
  /\ at[c] = "chain"
  /\ LET model == Head(chain[c])
     IN /\ failures' = [failures EXCEPT ![model] = 0]
        /\ unhealthy' = unhealthy \ {model}
  /\ LogCost(cost)
  /\ Return(c)

\* An error or the timeout of the model, which a slow answer cannot undo.
Fails(c) ==
  /\ at[c] = "chain"
  /\ LET model == Head(chain[c])
     IN /\ failures' = [failures EXCEPT ![model] = IF @ < Threshold THEN @ + 1 ELSE @]
        /\ unhealthy' = IF failures'[model] = Threshold THEN unhealthy \cup {model} ELSE unhealthy
  /\ GoOn(c, Tail(chain[c]))
  /\ UNCHANGED costs

\* The local model answers, for nothing, or fails; there is no timeout.
LocalEnds(c) ==
  /\ at[c] = "local"
  /\ Return(c)
  /\ UNCHANGED <<costs, health>>

-----------------------------------------------------------------------------
(* Time and the process *)

\* 60 s after its last failure; the count of failures stays.
Rested(model) ==
  /\ model \in unhealthy
  /\ unhealthy' = unhealthy \ {model}
  /\ UNCHANGED <<costs, failures, at, chain>>

Midnight ==
  /\ dayCost' = 0
  /\ UNCHANGED <<sessionCost, health, at, chain>>

\* A new process with a session of its own on the same log.
Restart ==
  /\ sessionCost' = 0
  /\ failures' = [m \in Model |-> 0]
  /\ unhealthy' = {}
  /\ at' = [c \in Caller |-> "idle"]
  /\ chain' = [c \in Caller |-> <<>>]
  /\ UNCHANGED dayCost

-----------------------------------------------------------------------------
Init ==
  /\ sessionCost = 0
  /\ dayCost = 0
  /\ failures = [m \in Model |-> 0]
  /\ unhealthy = {}
  /\ at = [c \in Caller |-> "idle"]
  /\ chain = [c \in Caller |-> <<>>]

Next ==
  \/ \E c \in Caller :
       \/ \E m \in Model \cup {None} : Execute(c, m)
       \/ \E cost \in 0..MaxCost : Answers(c, cost)
       \/ Fails(c)
       \/ LocalEnds(c)
  \/ \E m \in Model : Rested(m)
  \/ Midnight
  \/ Restart

Spec == Init /\ [][Next]_vars

-----------------------------------------------------------------------------
TypeOK ==
  /\ sessionCost \in Nat
  /\ dayCost \in Nat
  /\ failures \in [Model -> 0..Threshold]
  /\ unhealthy \subseteq {m \in Model : failures[m] = Threshold}
  /\ at \in [Caller -> {"idle", "chain", "local"}]
  /\ chain \in [Caller -> Seq(Model)]

\* A limit is overrun by no more than the calls that were under way when it was
\* reached can cost, across midnight and across sessions of one day
\* (fallbackManager.ts:399-411, 452-478).
OverrunBounded ==
  LET slack == MaxCost * (Cardinality(Caller) - Cardinality(Busy))
  IN /\ sessionCost < SessionLimit + slack
     /\ dayCost < DayLimit + slack
=============================================================================
