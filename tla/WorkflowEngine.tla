---------------------------- MODULE WorkflowEngine ----------------------------
(***************************************************************************)
(* One run of a workflow (packages/agents/src/workflow/workflow-advanced.ts).*)
(* The steps are tried in the order of the list; a step runs what it        *)
(* depends on first, is retried after a backoff, may be skipped or time out,*)
(* and is rolled back when it fails for good.  The workflow may be aborted  *)
(* from the outside at any time.                                            *)
(***************************************************************************)
EXTENDS Naturals, Sequences, FiniteSets

CONSTANTS
  Graphs,      \* the dependencies that are considered: a list of steps for each step
  MaxAttempts, \* retry.maxAttempts of every step, at least 1
  Timed,       \* the steps with timeoutMs
  Conditional, \* the steps with when()
  MayThrow     \* the callbacks that may throw

VARIABLES
  dependsOn,  \* the graph of this workflow
  goOn,       \* continueOnError
  pc,
  next,       \* the step of the list that is tried
  stack,      \* the steps in progress, each with its next dependency and its attempts
  executed,
  aborted,    \* the overall controller is aborted, from the outside or by its timeout
  failed,     \* workflowError # null
  results,    \* the status in stepResults
  running,    \* calls of execute() under way, those abandoned by a timeout included
  rolledBack,
  outcome     \* what run() returns, or "rejected"

workflow == <<dependsOn, goOn>>
vars == <<dependsOn, goOn, pc, next, stack, executed, aborted, failed, results, running,
          rolledBack, outcome>>

-----------------------------------------------------------------------------
Step == DOMAIN dependsOn
Top == stack[Len(stack)]
InProgress == {stack[i].step : i \in DOMAIN stack}
Below == SubSeq(stack, 1, Len(stack) - 1)

\* An error leaves every step that is in progress, up to the loop over the list.
Throws ==
  /\ pc' = "caught"
  /\ stack' = <<>>
  /\ failed' = TRUE
  /\ UNCHANGED <<workflow, next, executed, aborted, rolledBack, outcome>>

\* A step is done: back to the step that depends on it, or to the list.
Returns(st) ==
  /\ IF st = <<>>
     THEN pc' = "loop" /\ next' = next + 1 /\ stack' = st
     ELSE /\ pc' = "deps"
          /\ stack' = [st EXCEPT ![Len(st)].dep = @ + 1]
          /\ UNCHANGED next
  /\ UNCHANGED <<workflow, aborted, failed, rolledBack, outcome>>

\* tryStep().
TryStep(s) ==
  \/ /\ aborted \/ (s \notin executed /\ s \in InProgress)
     /\ Throws
     /\ UNCHANGED <<results, running>>
  \/ /\ ~aborted /\ s \in executed
     /\ Returns(stack)
     /\ UNCHANGED <<executed, results, running>>
  \/ /\ ~aborted /\ s \notin executed \cup InProgress
     /\ pc' = "deps"
     /\ stack' = Append(stack, [step |-> s, dep |-> 1, attempt |-> 0])
     /\ UNCHANGED <<workflow, next, executed, aborted, failed, results, running,
                    rolledBack, outcome>>

-----------------------------------------------------------------------------
(* A step *)

Start ==
  /\ pc = "start"
  /\ \/ pc' = "loop" /\ UNCHANGED outcome
     \/ "onStart" \in MayThrow /\ pc' = "ended" /\ outcome' = "rejected"
  /\ UNCHANGED <<workflow, next, stack, executed, aborted, failed, results, running,
                 rolledBack>>

Loop ==
  /\ pc = "loop"
  /\ next \in Step
  /\ TryStep(next)

\* Mutant of Dependency: the last dependency is not waited for.
DependencyButLast ==
  /\ pc = "deps"
  /\ LET deps == dependsOn[Top.step]
     IN IF Top.dep < Len(deps)
        THEN TryStep(deps[Top.dep])
        ELSE /\ pc' = "ready"
             /\ UNCHANGED <<workflow, next, stack, executed, aborted, failed, results,
                            running, rolledBack, outcome>>

\* runStep() tries the dependencies one after the other.
Dependency ==
  /\ pc = "deps"
  /\ LET deps == dependsOn[Top.step]
     IN IF Top.dep <= Len(deps)
        THEN TryStep(deps[Top.dep])
        ELSE /\ pc' = "ready"
             /\ UNCHANGED <<workflow, next, stack, executed, aborted, failed, results,
                            running, rolledBack, outcome>>

WhenThrows ==
  /\ pc = "ready"
  /\ Top.step \in Conditional
  /\ "when" \in MayThrow
  /\ Throws
  /\ UNCHANGED <<results, running>>

\* when() returns false.
Skip ==
  /\ pc = "ready"
  /\ Top.step \in Conditional
  /\ results' = [results EXCEPT ![Top.step] = "skipped"]
  /\ \/ executed' = executed \cup {Top.step} /\ Returns(Below)
     \/ "onStepFinish" \in MayThrow /\ Throws
  /\ UNCHANGED running

\* An attempt begins; onStepStart is called before the try.
Attempt ==
  /\ pc \in {"ready", "retry"}
  /\ \/ /\ pc' = "executing"
        /\ stack' = [stack EXCEPT ![Len(stack)].attempt = @ + 1]
        /\ running' = [running EXCEPT ![Top.step] = @ + 1]
        /\ UNCHANGED <<workflow, next, executed, aborted, failed, rolledBack, outcome>>
     \/ "onStepStart" \in MayThrow /\ Throws /\ UNCHANGED running
  /\ UNCHANGED results

\* The catch: another attempt after a backoff, unless the error is not to be retried,
\* the attempts are used up or the workflow is aborted.  The two callbacks of the
\* catch throw like the error does.
Errored ==
  /\ results' = [results EXCEPT ![Top.step] = "failed"]
  /\ \/ /\ Top.attempt < MaxAttempts
        /\ ~aborted
        /\ pc' = "backoff"
        /\ UNCHANGED <<workflow, next, stack, executed, aborted, failed, rolledBack,
                       outcome>>
     \/ Throws

Ends(s) == running' = [running EXCEPT ![s] = @ - 1]

\* execute() resolves.  onStepFinish is called inside the try: when it throws, the
\* step that succeeded is retried.
Succeeds ==
  /\ pc = "executing"
  /\ Ends(Top.step)
  /\ \/ /\ results' = [results EXCEPT ![Top.step] = "success"]
        /\ executed' = executed \cup {Top.step}
        /\ Returns(Below)
     \/ "onStepFinish" \in MayThrow /\ Errored

\* execute() rejects.
Fails ==
  /\ pc = "executing"
  /\ Ends(Top.step)
  /\ Errored

\* The timeout of the step wins the race: execute() goes on, told to abort.
TimesOut ==
  /\ pc = "executing"
  /\ Top.step \in Timed
  /\ Errored
  /\ UNCHANGED running

\* A call that was abandoned ends; nobody looks at its result.
AbandonedEnds(s) ==
  /\ running[s] > IF pc = "executing" /\ Top.step = s THEN 1 ELSE 0
  /\ Ends(s)
  /\ UNCHANGED <<workflow, pc, next, stack, executed, aborted, failed, results,
                 rolledBack, outcome>>

\* sleep(): an abort ends it with an error.
Backoff ==
  /\ pc = "backoff"
  /\ \/ aborted /\ Throws
     \/ /\ ~aborted
        /\ pc' = "retry"
        /\ UNCHANGED <<workflow, next, stack, executed, aborted, failed, rolledBack, outcome>>
  /\ UNCHANGED <<results, running>>

-----------------------------------------------------------------------------
(* The workflow *)

Ended(how) == pc' = "ended" /\ outcome' = how

\* The loop over the list catches: the step of the list, and not the one that failed,
\* is rolled back.  What rollback() throws goes to onError; what that throws ends run().
Caught ==
  /\ pc = "caught"
  /\ \/ "onError" \in MayThrow /\ Ended("rejected") /\ UNCHANGED <<next, rolledBack>>
     \/ /\ rolledBack' \in {rolledBack, rolledBack \cup {next}}
        /\ IF goOn
           THEN pc' = "loop" /\ next' = next + 1
           ELSE pc' = "finish" /\ UNCHANGED next
        /\ UNCHANGED outcome
  /\ UNCHANGED <<workflow, stack, executed, aborted, failed, results, running>>

\* onFinish, and the result.
Finish ==
  /\ pc = "finish" \/ (pc = "loop" /\ next \notin Step)
  /\ \/ Ended(IF aborted THEN "aborted" ELSE IF failed THEN "failed" ELSE "success")
     \/ "onFinish" \in MayThrow /\ Ended("rejected")
  /\ UNCHANGED <<workflow, next, stack, executed, aborted, failed, results, running, rolledBack>>

\* The signal, or the time budget; a signal that was aborted before is not heard.
Abort ==
  /\ ~aborted
  /\ pc # "ended"
  /\ aborted' = TRUE
  /\ UNCHANGED <<workflow, pc, next, stack, executed, failed, results, running, rolledBack,
                 outcome>>

Init ==
  /\ dependsOn \in Graphs
  /\ goOn \in BOOLEAN
  /\ pc = "start"
  /\ next = 1
  /\ stack = <<>>
  /\ executed = {}
  /\ aborted = FALSE
  /\ failed = FALSE
  /\ results = [s \in Step |-> "none"]
  /\ running = [s \in Step |-> 0]
  /\ rolledBack = {}
  /\ outcome = "none"

Next ==
  \/ Start \/ Loop \/ Dependency \/ Skip \/ WhenThrows \/ Attempt
  \/ Succeeds \/ Fails \/ TimesOut \/ Backoff
  \/ \E s \in Step : AbandonedEnds(s)
  \/ Caught \/ Finish \/ Abort

Spec == Init /\ [][Next]_vars

-----------------------------------------------------------------------------
TypeOK ==
  /\ dependsOn \in Graphs
  /\ goOn \in BOOLEAN
  /\ pc \in {"start", "loop", "deps", "ready", "retry", "executing", "backoff", "caught",
            "finish", "ended"}
  /\ next \in 1..(Len(dependsOn) + 1)
  /\ stack \in Seq([step : Step, dep : Nat \ {0}, attempt : 0..MaxAttempts])
  /\ Len(stack) = Cardinality(InProgress)
  /\ executed \subseteq Step
  /\ aborted \in BOOLEAN
  /\ failed \in BOOLEAN
  /\ results \in [Step -> {"none", "success", "failed", "skipped"}]
  /\ running \in [Step -> Nat]
  /\ rolledBack \subseteq Step
  /\ outcome \in {"none", "success", "failed", "aborted", "rejected"}

\* A step executes only when all that it depends on is done, also if it is reached
\* through a step later in the list, after failures, retries and abandoned calls;
\* what is done has its result and is not executed again; and a workflow that reports
\* success has done every step and rolled nothing back (workflow-advanced.ts:173-205,
\* 258-292, 296-322).
StepsInOrder ==
  /\ \A s \in Step : running[s] > 0 =>
       \A i \in DOMAIN dependsOn[s] : dependsOn[s][i] \in executed
  /\ \A s \in executed : results[s] \in {"success", "skipped"} /\ s \notin InProgress
  /\ outcome = "success" => executed = Step /\ rolledBack = {}
=============================================================================
