------------------------ MODULE DurableJournalProofs ------------------------
(***************************************************************************)
(* What the journal of a durable run says of the tool calls: each at most  *)
(* once, none left over by a run that ended, and, when sanitizeValue cuts  *)
(* nothing off, every call that may have had its effect; then the journal  *)
(* also implements the promise.  For any set of invocations and any bounds.*)
(***************************************************************************)
EXTENDS DurableRunProofs, FiniteSetTheorems

-----------------------------------------------------------------------------
(* Sequences of calls in order *)

LEMMA Concatenation ==
  ASSUME NEW S, NEW s \in Seq(S), NEW t \in Seq(S), NEW k \in 1..(Len(s) + Len(t))
  PROVE  (s \o t)[k] = IF k <= Len(s) THEN s[k] ELSE t[k - Len(s)]
OBVIOUS

LEMMA InOrderGrows ==
  ASSUME NEW s \in Seq(Action), NEW n \in Nat, NEW m \in Nat, n <= m, InOrder(s, n)
  PROVE  InOrder(s, m)
<1>1. \A k \in 1..Len(s) : s[k] \in Nat
  BY CallsAreNumbers
<1> QED
  BY <1>1 DEF InOrder

\* Calls in order are no more than were asked for.
LEMMA InOrderBounds ==
  ASSUME NEW s \in Seq(Action), NEW n \in Nat, InOrder(s, n)
  PROVE  Len(s) <= n
<1>1. \A k \in 1..Len(s) : s[k] \in Nat /\ k <= s[k] /\ s[k] <= n
  BY CallsAreNumbers DEF InOrder
<1>2. CASE Len(s) = 0
  BY <1>2
<1>3. CASE Len(s) # 0
  <2>1. Len(s) \in 1..Len(s)
    BY <1>3
  <2>2. s[Len(s)] \in Nat /\ Len(s) <= s[Len(s)] /\ s[Len(s)] <= n
    BY <1>1, <2>1
  <2> QED
    BY <2>2
<1> QED
  BY <1>2, <1>3

\* Recording the observation of the call in hand moves it, and only it, from
\* the pending calls to the end of the steps.
LEMMA AnsweredCalls ==
  ASSUME NEW s \in Seq(Action), NEW p \in Seq(Action), p # <<>>
  PROVE  Append(s, Head(p)) \o Tail(p) = s \o p
<1>1. Head(p) = p[1] /\ Head(p) \in Action /\ Tail(p) \in Seq(Action)
      /\ Len(p) \in Nat \ {0} /\ Len(Tail(p)) = Len(p) - 1
  OBVIOUS
<1>2. \A k \in 1..Len(Tail(p)) : Tail(p)[k] = p[k + 1]
  BY <1>1
<1> DEFINE t == Append(s, Head(p))
<1>3. t \in Seq(Action) /\ Len(t) = Len(s) + 1 /\ t[Len(s) + 1] = p[1]
      /\ \A k \in 1..Len(s) : t[k] = s[k]
  BY <1>1
<1>4. Len(s) \in Nat
  OBVIOUS
<1> HIDE DEF t
<1>5. /\ t \o Tail(p) \in Seq(Action) /\ s \o p \in Seq(Action)
      /\ Len(t \o Tail(p)) = Len(s) + Len(p) /\ Len(s \o p) = Len(s) + Len(p)
  BY <1>1, <1>3, <1>4
<1>6. ASSUME NEW k \in 1..(Len(s) + Len(p))
      PROVE  (t \o Tail(p))[k] = IF k <= Len(s) + 1 THEN t[k] ELSE Tail(p)[k - (Len(s) + 1)]
  <2>1. k \in 1..(Len(t) + Len(Tail(p))) /\ Len(t) = Len(s) + 1
    BY <1>1, <1>3, <1>4
  <2>2. (t \o Tail(p))[k] = IF k <= Len(t) THEN t[k] ELSE Tail(p)[k - Len(t)]
    BY <1>1, <1>3, <2>1, Concatenation
  <2> QED
    BY <2>1, <2>2
<1>7. \A k \in 1..(Len(s) + Len(p)) :
        (s \o p)[k] = IF k <= Len(s) THEN s[k] ELSE p[k - Len(s)]
  BY Concatenation
<1> DEFINE l == t \o Tail(p)
           r == s \o p
<1> HIDE DEF l, r
<1>8. ASSUME NEW k \in 1..(Len(s) + Len(p))
      PROVE  l[k] = r[k]
  <2>1. k \in Nat \ {0} /\ k <= Len(s) + Len(p)
    BY <1>1, <1>4
  <2>2. l[k] = IF k <= Len(s) + 1 THEN t[k] ELSE Tail(p)[k - (Len(s) + 1)]
    BY <1>6 DEF l
  <2>3. r[k] = IF k <= Len(s) THEN s[k] ELSE p[k - Len(s)]
    BY <1>7 DEF r
  <2>4. CASE k <= Len(s) + 1
    BY <1>1, <1>3, <1>4, <2>1, <2>2, <2>3, <2>4
  <2>5. CASE k > Len(s) + 1
    <3> DEFINE g == k - (Len(s) + 1)
    <3>1. g \in 1..Len(Tail(p)) /\ g + 1 = k - Len(s)
      BY <1>1, <1>4, <2>1, <2>5
    <3>2. Tail(p)[g] = p[g + 1]
      BY <1>2, <3>1
    <3>3. l[k] = Tail(p)[g] /\ r[k] = p[k - Len(s)]
      BY <1>4, <2>1, <2>2, <2>3, <2>5
    <3> QED
      BY <3>1, <3>2, <3>3
  <2> QED
    BY <1>4, <2>1, <2>4, <2>5
<1>9. /\ l \in Seq(Action) /\ r \in Seq(Action)
      /\ Len(l) = Len(s) + Len(p) /\ Len(r) = Len(s) + Len(p)
  BY <1>5 DEF l, r
<1>10. l = r
  BY <1>8, <1>9
<1> QED
  BY <1>10 DEF l, r, t

\* New calls follow those that were asked for before.
LEMMA RequestedCalls ==
  ASSUME NEW s \in Seq(Action), NEW n \in Nat, NEW c \in Nat, InOrder(s, n),
         NEW p \in Seq(Action), p = [k \in 1..c |-> n + k]
  PROVE  InOrder(s \o p, n + c)
<1> DEFINE r == s \o p
<1>1. Len(s) \in Nat /\ Len(s) <= n /\ Len(p) = c
  BY InOrderBounds
<1>2. \A k \in 1..Len(s) : s[k] \in Nat /\ k <= s[k] /\ s[k] <= n
  BY CallsAreNumbers DEF InOrder
<1>3. \A j, k \in 1..Len(s) : j < k => s[j] < s[k]
  BY DEF InOrder
<1>4. Len(r) = Len(s) + c
      /\ \A k \in 1..Len(r) : r[k] = IF k <= Len(s) THEN s[k] ELSE n + (k - Len(s))
  BY <1>1
<1> HIDE DEF r
<1>5. ASSUME NEW j \in 1..Len(r), NEW k \in 1..Len(r), j < k
      PROVE  r[j] < r[k]
  <2>1. CASE k <= Len(s)
    BY <1>1, <1>3, <1>4, <1>5, <2>1
  <2>2. CASE j <= Len(s) /\ ~(k <= Len(s))
    <3>1. r[j] = s[j] /\ r[k] = n + (k - Len(s)) /\ s[j] \in Nat /\ s[j] <= n
      BY <1>1, <1>2, <1>4, <2>2
    <3> QED
      BY <1>1, <1>4, <2>2, <3>1
  <2>3. CASE ~(j <= Len(s))
    <3>1. r[j] = n + (j - Len(s)) /\ r[k] = n + (k - Len(s))
      BY <1>1, <1>4, <1>5, <2>3
    <3> QED
      BY <1>1, <1>4, <1>5, <3>1
  <2> QED
    BY <1>1, <1>4, <1>5, <2>1, <2>2, <2>3
<1>6. ASSUME NEW k \in 1..Len(r)
      PROVE  k <= r[k] /\ r[k] <= n + c
  BY SMTT(30), <1>1, <1>2, <1>4
<1>7. InOrder(r, n + c)
  BY <1>5, <1>6 DEF InOrder
<1> QED
  BY <1>7 DEF r

\* What sanitizeValue keeps of a sequence is its last entries.
LEMMA LatestIsSuffix ==
  ASSUME NEW S, NEW s \in Seq(S)
  PROVE  \E d \in Nat :
           /\ d <= Len(s)
           /\ Len(Latest(s)) = Len(s) - d
           /\ \A k \in 1..Len(s) - d : Latest(s)[k] = s[k + d]
<1>1. ArrayLimit \in Nat \ {0} /\ Len(s) \in Nat
  BY BoundsAssumption
<1>2. CASE Len(s) <= ArrayLimit
  <2>1. Latest(s) = s
    BY <1>2 DEF Latest
  <2> WITNESS 0 \in Nat
  <2>2. \A k \in 1..Len(s) - 0 : s[k] = s[k + 0]
    BY <1>1
  <2> QED
    BY <1>1, <2>1, <2>2
<1>3. CASE ~(Len(s) <= ArrayLimit)
  <2> DEFINE d == Len(s) - ArrayLimit
             t == SubSeq(s, d + 1, Len(s))
  <2>1. d \in Nat /\ d <= Len(s) /\ d + 1 \in 1..Len(s)
    BY <1>1, <1>3
  <2>2. Latest(s) = t
    BY <1>3 DEF Latest
  <2> HIDE DEF d
  <2>3. Len(t) = Len(s) - d /\ \A k \in 1..Len(s) - d : t[k] = s[k + d]
    BY <1>1, <2>1
  <2> QED
    BY <2>1, <2>2, <2>3
<1> QED
  BY <1>2, <1>3

LEMMA LatestIsWhole ==
  ASSUME NEW s, Len(s) <= ArrayLimit
  PROVE  Latest(s) = s
BY DEF Latest

\* Cutting off the oldest steps and the oldest pending calls keeps the order.
LEMMA TruncatedCalls ==
  ASSUME NEW s \in Seq(Action), NEW p \in Seq(Action), NEW n \in Nat,
         InOrder(s \o p, n)
  PROVE  InOrder(Latest(s) \o Latest(p), n)
<1>1. PICK d \in Nat :
        /\ d <= Len(s)
        /\ Len(Latest(s)) = Len(s) - d
        /\ \A k \in 1..Len(s) - d : Latest(s)[k] = s[k + d]
  BY LatestIsSuffix
<1>2. PICK e \in Nat :
        /\ e <= Len(p)
        /\ Len(Latest(p)) = Len(p) - e
        /\ \A k \in 1..Len(p) - e : Latest(p)[k] = p[k + e]
  BY LatestIsSuffix
<1>3. Latest(s) \in Seq(Action) /\ Latest(p) \in Seq(Action)
  BY LatestType
<1>4. Len(s) \in Nat /\ Len(p) \in Nat
  OBVIOUS
<1> DEFINE r == s \o p
           q == Latest(s) \o Latest(p)
           at(k) == IF k <= Len(s) - d THEN k + d ELSE k + d + e
<1>5. r \in Seq(Action) /\ Len(r) = Len(s) + Len(p)
      /\ (\A k \in 1..Len(s) : r[k] = s[k])
      /\ (\A k \in 1..Len(p) : r[Len(s) + k] = p[k])
  BY <1>4
<1>6. Len(q) = (Len(s) - d) + (Len(p) - e)
      /\ \A k \in 1..Len(q) : q[k] = IF k <= Len(s) - d THEN Latest(s)[k]
                                     ELSE Latest(p)[k - (Len(s) - d)]
  BY <1>1, <1>2, <1>3, <1>4, SMTT(30)
<1>7. \A k \in 1..Len(r) : r[k] \in Nat
  BY <1>5, CallsAreNumbers
<1>8. /\ \A j, k \in 1..Len(r) : j < k => r[j] < r[k]
      /\ \A k \in 1..Len(r) : k <= r[k] /\ r[k] <= n
  BY DEF InOrder
<1> HIDE DEF r, q
<1>9. ASSUME NEW k \in 1..Len(q)
      PROVE  at(k) \in 1..Len(r) /\ q[k] = r[at(k)] /\ k <= at(k)
  <2>1. CASE k <= Len(s) - d
    <3>1. k + d \in 1..Len(s) /\ q[k] = s[k + d]
      BY <1>1, <1>4, <1>6, <2>1
    <3> QED
      BY SMTT(30), <1>1, <1>4, <1>5, <2>1, <3>1
  <2>2. CASE ~(k <= Len(s) - d)
    <3> DEFINE g == k - (Len(s) - d)
    <3>1. g \in 1..Len(p) - e /\ q[k] = Latest(p)[g]
      BY <1>1, <1>2, <1>4, <1>6, <2>2
    <3>3. Len(s) + (g + e) = k + d + e
      BY <1>1, <1>2, <1>4
    <3> HIDE DEF g
    <3>2. g + e \in 1..Len(p) /\ q[k] = p[g + e]
      BY <1>2, <1>4, <3>1
    <3>4. Len(s) + (g + e) \in 1..Len(r) /\ q[k] = r[Len(s) + (g + e)]
      BY <1>4, <1>5, <3>2
    <3>5. at(k) = k + d + e /\ k <= k + d + e
      BY <1>1, <1>2, <2>2
    <3> QED
      BY <3>3, <3>4, <3>5
  <2> QED
    BY <2>1, <2>2
<1>10. ASSUME NEW j \in 1..Len(q), NEW k \in 1..Len(q), j < k
       PROVE  at(j) < at(k)
  BY <1>1, <1>2, <1>4, <1>6, <1>10
<1> HIDE DEF at
<1>11. \A j, k \in 1..Len(q) : j < k => q[j] < q[k]
  BY <1>8, <1>9, <1>10
<1>12. ASSUME NEW k \in 1..Len(q)
       PROVE  k <= q[k] /\ q[k] <= n
  <2>1. at(k) \in Nat /\ r[at(k)] \in Nat /\ at(k) <= r[at(k)] /\ r[at(k)] <= n
    BY <1>7, <1>8, <1>9
  <2> QED
    BY <1>9, <2>1
<1>13. InOrder(q, n)
  BY <1>11, <1>12 DEF InOrder
<1> QED
  BY <1>13 DEF q

\* No call of the first part of an ordered sequence is in the second.
LEMMA InOrderApart ==
  ASSUME NEW s \in Seq(Action), NEW p \in Seq(Action), NEW n \in Nat,
         InOrder(s \o p, n)
  PROVE  Elems(s) \cap Elems(p) = {}
<1> DEFINE r == s \o p
<1>1. Len(s) \in Nat /\ Len(p) \in Nat
  OBVIOUS
<1>2. Len(r) = Len(s) + Len(p)
      /\ (\A k \in 1..Len(s) : r[k] = s[k])
      /\ (\A k \in 1..Len(p) : r[Len(s) + k] = p[k])
  BY <1>1
<1>3. \A k \in 1..Len(s) : s[k] \in Nat
  BY CallsAreNumbers
<1>4. \A j, k \in 1..Len(r) : j < k => r[j] < r[k]
  BY DEF InOrder
<1> HIDE DEF r
<1>5. ASSUME NEW j \in 1..Len(s), NEW k \in 1..Len(p), s[j] = p[k]
      PROVE  FALSE
  <2>1. j \in 1..Len(r) /\ Len(s) + k \in 1..Len(r) /\ j < Len(s) + k
    BY <1>1, <1>2
  <2>2. s[j] < p[k]
    BY <1>2, <1>4, <2>1
  <2> QED
    BY <1>3, <1>5, <2>2
<1> QED
  BY <1>5 DEF Elems

\* Calls in order are as many as they are long: none occurs twice.
LEMMA InOrderDistinct ==
  ASSUME NEW s \in Seq(Action), NEW n \in Nat, InOrder(s, n)
  PROVE  Cardinality(Elems(s)) = Len(s)
<1>1. Len(s) \in Nat /\ \A k \in 1..Len(s) : s[k] \in Nat
  BY CallsAreNumbers
<1>2. \A j, k \in 1..Len(s) : j < k => s[j] < s[k]
  BY DEF InOrder
<1> DEFINE f == [k \in 1..Len(s) |-> s[k]]
<1>3. \A j, k \in 1..Len(s) : s[j] = s[k] => j = k
  <2>1. ASSUME NEW j \in 1..Len(s), NEW k \in 1..Len(s), s[j] = s[k], j # k
        PROVE  FALSE
    <3>1. j < k \/ k < j
      BY <1>1, <2>1
    <3>2. s[j] < s[k] \/ s[k] < s[j]
      BY <1>2, <3>1
    <3> QED
      BY <1>1, <2>1, <3>2
  <2> QED
    BY <2>1
<1>4. f \in Bijection(1..Len(s), Elems(s))
  BY <1>3 DEF Bijection, Injection, Surjection, IsInjective, Elems
<1>5. ExistsBijection(1..Len(s), Elems(s))
  BY <1>4 DEF ExistsBijection
<1> QED
  BY <1>1, <1>5, FS_CountingElements
-----------------------------------------------------------------------------
(* What is left of the calls when a run ends *)

LEMMA PersistHand ==
  ASSUME TypeOK, NEW i \in Agent, NEW m, NEW status, NEW then,
         Persist(i, m, status, then),
         then \in Quiet \/ status \in {"completed", "exhausted"} => m.pending = <<>>
  PROVE  NothingInHand(i)'
BY DEF Persist, Goto, Snapshot, NothingInHand, Stage, TypeOK, AgentTypeOK

LEMMA LeaveHand ==
  ASSUME TypeOK, NEW i \in Agent, NEW how \in Ended, NEW status,
         Leave(i, how, status)
  PROVE  NothingInHand(i)'
BY DEF Leave, Goto, FreshLocals, NothingInHand, Stage, Ended, TypeOK, AgentTypeOK

LEMMA GotoHand ==
  ASSUME TypeOK, NEW i \in Agent, NEW where \in PC \ {"saving", "renamed"},
         Goto(i, where), mem' = mem,
         where \in Quiet => mem[i].pending = <<>>
  PROVE  NothingInHand(i)'
BY DEF Goto, NothingInHand, Stage, TypeOK, AgentTypeOK

LEMMA StepHand ==
  ASSUME TypeOK, NEW i \in Agent, AgentStep(i), NothingInHand(i)
  PROVE  NothingInHand(i)'
<1>1. mem[i] \in Locals /\ pc[i] \in PC /\ saving[i].then \in Continuation
  BY DEF TypeOK, AgentTypeOK
<1>2. /\ pc[i] \in Quiet => mem[i].pending = <<>>
      /\ pc[i] \in {"saving", "renamed"} /\ saving[i].then \in Quiet =>
           mem[i].pending = <<>>
  BY DEF NothingInHand, Stage, Quiet
<1>3. \A status : Throw(i, mem[i], status)
                  /\ (status \in {"completed", "exhausted"} => mem[i].pending = <<>>)
                  => NothingInHand(i)'
  BY PersistHand DEF Throw, Quiet
<1>4. Continue(i) /\ mem[i].pending = <<>> => NothingInHand(i)'
  BY <1>1, PersistHand DEF Continue, Locals
<1>5. CASE Rename(i)
  BY <1>5 DEF Rename, Goto, NothingInHand, Stage, TypeOK, AgentTypeOK
<1>6. CASE Saved(i)
  <2>1. CASE saving[i].then \in Ended
    BY <1>6, <2>1, LeaveHand DEF Saved
  <2>2. CASE saving[i].then \notin Ended
    BY <1>1, <1>2, <1>6, <2>2, Names DEF Saved, Goto, NothingInHand, Stage,
              Continuation, TypeOK, AgentTypeOK
  <2> QED
    BY <2>1, <2>2
<1>7. CASE SaveFails(i)
  <2>1. CASE saving[i].then = "rejected"
    BY <1>7, <2>1, LeaveHand DEF SaveFails, Ended
  <2>2. CASE saving[i].then # "rejected"
    BY <1>3, <1>7, <2>2 DEF SaveFails
  <2> QED
    BY <2>1, <2>2
<1>8. CASE ToolsDone(i)
  <2>1. CASE mem[i].resuming
    BY <1>1, <1>8, <2>1, PersistHand DEF ToolsDone, Locals
  <2>2. CASE ~mem[i].resuming
    BY <1>8, <2>2, GotoHand, Names DEF ToolsDone, Running
  <2> QED
    BY <2>1, <2>2
<1>9. CASE StopCondition(i) \/ ShortCircuit(i) \/ FinalAnswer(i)
  <2>1. mem[i].pending = <<>>
    BY <1>2, <1>9 DEF StopCondition, ShortCircuit, FinalAnswer, Quiet
  <2> QED
    BY <1>1, <1>9, <2>1, PersistHand DEF StopCondition, ShortCircuit, FinalAnswer, Locals
<1>10. CASE NextTool(i)
  BY <1>3, <1>10, PersistHand DEF NextTool, Quiet
<1>11. CASE Refuse(i) \/ ToolReturns(i)
  BY <1>11, PersistHand DEF Refuse, ToolReturns, RecordObservation, Quiet
<1>12. CASE GateThrows(i) \/ ThrowLimit(i) \/ LoopAborted(i) \/ ParseThrows(i)
  BY <1>2, <1>3, <1>12
     DEF GateThrows, ThrowLimit, LoopAborted, ParseThrows, Quiet
<1>13. CASE Execute(i)
  BY <1>13, GotoHand DEF Execute, PC, Running, Quiet
<1>14. CASE ReachLimit(i)
  <2>1. mem[i].pending = <<>>
    BY <1>2, <1>14 DEF ReachLimit, Quiet
  <2> QED
    BY <1>1, <1>14, <2>1, PersistHand DEF ReachLimit, Locals
<1>15. CASE CallModel(i) \/ ModelAnswers(i)
  <2>1. mem[i].pending = <<>>
    BY <1>2, <1>15 DEF CallModel, ModelAnswers, Quiet
  <2> QED
    BY <1>15, <2>1, GotoHand DEF CallModel, ModelAnswers, PC, Running
<1>16. CASE ModelFails(i) \/ RetryAnswer(i)
  <2>1. mem[i].pending = <<>>
    BY <1>2, <1>16 DEF ModelFails, RetryAnswer, Quiet
  <2> QED
    BY <1>3, <1>4, <1>16, <2>1 DEF ModelFails, RetryAnswer
<1>17. CASE AskTools(i)
  BY <1>17, PersistHand DEF AskTools, Quiet
<1> QED
  BY <1>5, <1>6, <1>7, <1>8, <1>9, <1>10, <1>11, <1>12, <1>13, <1>14, <1>15,
     <1>16, <1>17 DEF AgentStep, AgentRuns

\* What an invocation that starts has: nothing, or the calls of the journal.
Holds(i) ==
  \/ /\ mem'[i].pending = <<>> /\ mem'[i].steps = <<>>
     /\ ~Live(i)' \/ (journal = NoCheckpoint /\ pc'[i] = "saving")
  \/ /\ journal # NoCheckpoint
     /\ mem'[i].pending = journal.pending /\ mem'[i].steps = journal.steps

LEMMA StartHand ==
  ASSUME TypeOK, NEW i \in Agent, StartFresh(i) \/ StartResume(i)
  PROVE  NothingInHand(i)' /\ Holds(i)
<1>1. CASE StartFresh(i)
  <2>1. PICK max \in 1..MaxIterations : Persist(i, FreshLocals(max), "running", "loop")
    BY <1>1 DEF StartFresh, BeginFresh
  <2>2. FreshLocals(max).pending = <<>> /\ FreshLocals(max).steps = <<>>
    BY DEF FreshLocals
  <2>3. mem'[i] = FreshLocals(max) /\ pc'[i] = "saving" /\ journal = NoCheckpoint
    BY <1>1, <2>1 DEF StartFresh, Persist, Goto, TypeOK, AgentTypeOK
  <2> QED
    BY <2>1, <2>2, <2>3, PersistHand DEF Holds
<1>2. CASE StartResume(i)
  <2>1. PICK max \in 1..MaxIterations, confirm \in BOOLEAN :
          BeginResume(i, journal, max, confirm)
    BY <1>2 DEF StartResume
  <2> DEFINE m == RestoredLocals(journal, max)
             n == [m EXCEPT !.resuming = FALSE]
  <2>2. journal # NoCheckpoint
    BY <1>2 DEF StartResume
  <2>3. /\ m.pending = journal.pending /\ m.steps = journal.steps
        /\ n.pending = journal.pending /\ n.steps = journal.steps
    BY DEF RestoredLocals
  <2> HIDE DEF n, m
  <2>4. CASE Leave(i, "resolved", "completed")
    <3>1. ~Live(i)' /\ mem'[i].pending = <<>> /\ mem'[i].steps = <<>>
      BY <2>4 DEF Leave, Goto, FreshLocals, Live, Running, TypeOK, AgentTypeOK
    <3> QED
      BY <2>4, <3>1, LeaveHand DEF Holds, Ended
  <2>5. CASE Persist(i, n, "running", "loop") /\ journal.pending = <<>>
    <3>1. mem'[i] = n
      BY <2>5 DEF Persist, TypeOK, AgentTypeOK
    <3> QED
      BY <2>2, <2>3, <2>5, <3>1, PersistHand DEF Holds
  <2>6. CASE Throw(i, m, "interrupted")
    <3>1. mem'[i] = m
      BY <2>6 DEF Throw, Persist, TypeOK, AgentTypeOK
    <3> QED
      BY <2>2, <2>3, <2>6, <3>1, PersistHand DEF Holds, Throw, Quiet
  <2>7. CASE mem' = [mem EXCEPT ![i] = m] /\ Goto(i, "tools")
    <3>1. mem'[i] = m /\ pc'[i] = "tools"
      BY <2>7 DEF Goto, TypeOK, AgentTypeOK
    <3> QED
      BY <2>2, <2>3, <3>1 DEF Holds, NothingInHand, Stage, Quiet
  <2> QED
    BY <2>1, <2>4, <2>5, <2>6, <2>7 DEF BeginResume, n, m
<1> QED
  BY <1>1, <1>2

-----------------------------------------------------------------------------
(* The calls of the journal and of the invocations stay in order *)

\* What a step of invocation i makes of its calls and of the journal.
Ordered(i) ==
  /\ issued' >= issued
  /\ InOrder(Calls(mem'[i]), issued')
  /\ journal' # NoCheckpoint => InOrder(Calls(journal'), issued')
  /\ EndedRunsHaveNothingPending'

LEMMA CallsType ==
  ASSUME TypeOK
  PROVE  /\ issued \in Nat
         /\ \A i \in Agent : /\ mem[i].steps \in Seq(Action)
                             /\ mem[i].pending \in Seq(Action)
                             /\ Calls(mem[i]) \in Seq(Action)
         /\ journal # NoCheckpoint => /\ journal.steps \in Seq(Action)
                                      /\ journal.pending \in Seq(Action)
                                      /\ Calls(journal) \in Seq(Action)
<1>1. issued \in Nat
  BY DEF TypeOK, AgentTypeOK
<1>2. ASSUME NEW i \in Agent
      PROVE  mem[i].steps \in Seq(Action) /\ mem[i].pending \in Seq(Action)
  BY DEF TypeOK, AgentTypeOK, Locals
<1>3. journal # NoCheckpoint =>
        journal.steps \in Seq(Action) /\ journal.pending \in Seq(Action)
  BY DEF TypeOK, AgentTypeOK, Checkpoint
<1> QED
  BY <1>1, <1>2, <1>3 DEF Calls

\* What sanitizeValue makes of the checkpoint in the making.
LEMMA Written ==
  ASSUME TypeOK, SavingMemory, NEW i \in Agent, Write(i)
  PROVE  /\ journal' # NoCheckpoint
         /\ journal'.pending = Latest(mem[i].pending)
         /\ journal'.steps = Latest(mem[i].steps)
         /\ journal'.status = saving[i].cp.status
<1>1. saving[i].cp \in Checkpoint
  BY DEF TypeOK, AgentTypeOK
<1>2. saving[i].cp.pending = mem[i].pending /\ saving[i].cp.steps = mem[i].steps
  BY DEF Write, SavingMemory
<1>3. journal' = [saving[i].cp EXCEPT !.pending = Latest(@), !.steps = Latest(@)]
  BY DEF Write, Sanitized
<1>4. journal'.status # "none"
  BY <1>1, <1>3 DEF Checkpoint, Status
<1> QED
  BY <1>1, <1>2, <1>3, <1>4 DEF Checkpoint, NoCheckpoint

LEMMA ShapeOrders ==
  ASSUME IInv, TypeOK', JInv, NEW i \in Agent, Shape(i)
  PROVE  Ordered(i)
<1> DEFINE s == mem[i].steps
           p == mem[i].pending
<1>1. /\ issued \in Nat /\ issued' \in Nat
      /\ s \in Seq(Action) /\ p \in Seq(Action)
      /\ journal # NoCheckpoint => Calls(journal) \in Seq(Action)
      /\ mem'[i].pending \in Seq(Action)
  <2>1. issued' \in Nat /\ mem'[i].pending \in Seq(Action)
    BY DEF TypeOK, AgentTypeOK, Locals
  <2> QED
    BY <2>1, CallsType DEF IInv
<1>2. /\ InOrder(s \o p, issued)
      /\ journal # NoCheckpoint => InOrder(Calls(journal), issued)
      /\ EndedRunsHaveNothingPending
  BY DEF JInv, CallsInOrder, Calls
<1>3. CASE Shift(i) \/ Try(i)
  BY <1>1, <1>2, <1>3
     DEF Shift, Try, SameCalls, Ordered, Calls, EndedRunsHaveNothingPending
<1>4. CASE Write(i)
  <2>1. /\ journal' # NoCheckpoint
        /\ journal'.pending = Latest(p)
        /\ journal'.steps = Latest(s)
        /\ journal'.status = saving[i].cp.status
    BY <1>4, Written DEF IInv
  <2>2. InOrder(Calls(journal'), issued)
    BY <1>1, <1>2, <2>1, TruncatedCalls DEF Calls
  <2>3. EndedRunsHaveNothingPending'
    <3>1. journal'.status \in {"completed", "exhausted"} => p = <<>>
      BY <1>4, <2>1 DEF JInv, NothingInHand, Write
    <3>2. Latest(<<>>) = <<>>
      BY LatestIsWhole, BoundsAssumption
    <3> QED
      BY <2>1, <3>1, <3>2 DEF EndedRunsHaveNothingPending
  <2> QED
    BY <1>1, <1>2, <1>4, <2>2, <2>3 DEF Write, SameCalls, Ordered, Calls
<1>5. CASE Answer(i)
  <2>1. p # <<>>
    BY <1>5 DEF Answer, IInv, CallInHand
  <2>2. mem'[i].steps \o mem'[i].pending = s \o p
    BY <1>1, <1>5, <2>1, AnsweredCalls DEF Answer
  <2>3. UNCHANGED <<journal, issued>>
    BY <1>5 DEF Answer
  <2>4. InOrder(Calls(mem'[i]), issued')
    BY <1>2, <2>2, <2>3 DEF Calls
  <2> QED
    BY <1>1, <1>2, <2>3, <2>4 DEF Ordered, EndedRunsHaveNothingPending
<1>6. CASE Request(i)
  <2>1. PICK n \in 1..MaxCalls :
          issued' = issued + n /\ mem'[i].pending = [k \in 1..n |-> issued + k]
    BY <1>6 DEF Request
  <2>2. n \in Nat
    BY BoundsAssumption
  <2>3. p = <<>>
    BY <1>6 DEF Request, JInv, NothingInHand, Quiet
  <2>4. InOrder(s, issued)
    BY <1>1, <1>2, <2>3
  <2>5. InOrder(s \o mem'[i].pending, issued + n)
    BY <1>1, <2>1, <2>2, <2>4, RequestedCalls
  <2>6. journal # NoCheckpoint => InOrder(Calls(journal), issued')
    BY <1>1, <1>2, <2>1, <2>2, InOrderGrows
  <2> QED
    BY <1>1, <1>2, <1>6, <2>1, <2>2, <2>5, <2>6
       DEF Request, Ordered, Calls, EndedRunsHaveNothingPending
<1>7. CASE End(i)
  <2>1. InOrder(Calls(mem'[i]), issued')
    BY <1>1, <1>7 DEF End, Calls, InOrder
  <2> QED
    BY <1>1, <1>2, <1>7, <2>1 DEF End, Ordered, Calls, EndedRunsHaveNothingPending
<1> QED
  BY <1>3, <1>4, <1>5, <1>6, <1>7 DEF Shape

LEMMA StartOrders ==
  ASSUME IInv, JInv, NEW i \in Agent, Entry(i, journal), Holds(i)
  PROVE  Ordered(i)
<1>1. UNCHANGED <<journal, issued>> /\ issued \in Nat
  BY CallsType DEF Entry, IInv
<1>2. /\ journal # NoCheckpoint => InOrder(Calls(journal), issued)
      /\ EndedRunsHaveNothingPending
  BY DEF JInv, CallsInOrder
<1>3. InOrder(Calls(mem'[i]), issued)
  <2>1. CASE mem'[i].pending = <<>> /\ mem'[i].steps = <<>>
    BY <1>1, <2>1 DEF Calls, InOrder
  <2>2. CASE /\ journal # NoCheckpoint
             /\ mem'[i].pending = journal.pending /\ mem'[i].steps = journal.steps
    BY <1>2, <2>2 DEF Calls
  <2> QED
    BY <2>1, <2>2 DEF Holds
<1> QED
  BY <1>1, <1>2, <1>3 DEF Ordered, EndedRunsHaveNothingPending

\* With one invocation moving, its calls and those of the journal are all that
\* may come out of order.
LEMMA OthersOrdered ==
  ASSUME IInv, TypeOK', JInv, NEW i \in Agent, Ordered(i), NothingInHand(i)',
         \A j \in Agent : j # i => /\ pc'[j] = pc[j]
                                   /\ mem'[j] = mem[j]
                                   /\ saving'[j] = saving[j]
  PROVE  JInv'
<1>1. ASSUME NEW j \in Agent
      PROVE  InOrder(Calls(mem'[j]), issued') /\ NothingInHand(j)'
  <2>1. CASE j = i
    BY <2>1 DEF Ordered
  <2>2. CASE j # i
    <3>1. InOrder(Calls(mem[j]), issued) /\ NothingInHand(j)
      BY DEF JInv, CallsInOrder
    <3>2. issued \in Nat /\ issued' \in Nat /\ issued <= issued'
          /\ Calls(mem[j]) \in Seq(Action)
      <4>1. issued' \in Nat
        BY DEF TypeOK, AgentTypeOK
      <4> QED
        BY <4>1, CallsType DEF IInv, Ordered
    <3>3. InOrder(Calls(mem[j]), issued')
      BY <3>1, <3>2, InOrderGrows
    <3> QED
      BY <2>2, <3>1, <3>3 DEF NothingInHand, Stage
  <2> QED
    BY <2>1, <2>2
<1> QED
  BY <1>1 DEF JInv, CallsInOrder, Ordered

LEMMA NextJInv ==
  ASSUME IInv, IInv', JInv, [Next]_vars
  PROVE  JInv'
<1>1. TypeOK /\ TypeOK' /\ AgentTypeOK /\ CallInHand /\ SavingMemory
  BY DEF IInv, TypeOK
<1>2. ASSUME NEW i \in Agent, AgentStep(i)
      PROVE  JInv'
  <2>1. Shape(i)
    BY <1>1, <1>2, StepShape
  <2>2. Ordered(i)
    BY <1>1, <2>1, ShapeOrders
  <2>3. NothingInHand(i)'
    BY <1>1, <1>2, StepHand DEF JInv
  <2> QED
    BY <1>1, <2>1, <2>2, <2>3, OthersOrdered DEF Shape, Own
<1>3. ASSUME NEW i \in Agent, StartFresh(i) \/ StartResume(i)
      PROVE  JInv'
  <2>1. Entry(i, journal) /\ NothingInHand(i)' /\ Holds(i)
    BY <1>1, <1>3, StartTypes, StartHand
  <2>2. Ordered(i)
    BY <2>1, StartOrders
  <2> QED
    BY <1>1, <2>1, <2>2, OthersOrdered DEF Entry
<1>4. ASSUME NEW i \in Agent, Crash(i)
      PROVE  JInv'
  <2>1. Shape(i) /\ NothingInHand(i)'
    BY <1>1, <1>4, LeaveShape, LeaveHand DEF Crash, Shape, End, Ended
  <2>2. Ordered(i)
    BY <1>1, <2>1, ShapeOrders
  <2> QED
    BY <1>1, <2>1, <2>2, OthersOrdered DEF Shape, Own
<1>5. CASE UNCHANGED <<pc, mem, saving, journal, issued>>
  BY <1>5 DEF JInv, CallsInOrder, NothingInHand, Stage, EndedRunsHaveNothingPending
<1> QED
  BY <1>2, <1>3, <1>4, <1>5 DEF Next, Abort, AllUsed, vars, agentVars

LEMMA InitJInv ==
  ASSUME Init
  PROVE  JInv
<1>1. \A i \in Agent : Calls(mem[i]) = <<>> /\ mem[i].pending = <<>>
  BY DEF Init, AgentInit, FreshLocals, Calls
<1>2. CallsInOrder
  BY <1>1 DEF Init, CallsInOrder, InOrder
<1>3. EndedRunsHaveNothingPending
  BY DEF Init, NoCheckpoint, EndedRunsHaveNothingPending
<1> QED
  BY <1>1, <1>2, <1>3 DEF JInv, NothingInHand

THEOREM JournalInvariance == Spec => [](IInv /\ JInv)
<1>1. Init => JInv
  BY InitJInv
<1>2. IInv /\ IInv' /\ JInv /\ [Next]_vars => JInv'
  BY NextJInv
<1> QED
  BY <1>1, <1>2, Invariance, PTL DEF Spec

\* The journal never records a call twice: neither two observations of it, nor
\* a call that is both answered and pending, whatever sanitizeValue cuts off
\* (recordObservation, agent.ts:507-520).
THEOREM NoCallTwice == Spec => []JournalHasNoDuplicates
<1>1. IInv /\ JInv => JournalHasNoDuplicates
  BY CallsType, InOrderDistinct
     DEF IInv, JInv, CallsInOrder, Calls, JournalHasNoDuplicates
<1> QED
  BY <1>1, JournalInvariance, PTL

\* A run recorded as completed or exhausted has answered every call.
THEOREM NothingLeftOver == Spec => []EndedRunsHaveNothingPending
<1>1. IInv /\ JInv => EndedRunsHaveNothingPending
  BY DEF JInv
<1> QED
  BY <1>1, JournalInvariance, PTL

-----------------------------------------------------------------------------
(* Nothing cut off: the journal follows the invocation that lives *)

\* No more calls are recorded than sanitizeValue keeps, so it keeps them all.
LEMMA WrittenWhole ==
  ASSUME NothingCut, TypeOK, SavingMemory, CallsInOrder, NEW i \in Agent, Write(i)
  PROVE  /\ journal' # NoCheckpoint
         /\ journal'.pending = mem[i].pending
         /\ journal'.steps = mem[i].steps
<1> DEFINE s == mem[i].steps
           p == mem[i].pending
<1>1. s \in Seq(Action) /\ p \in Seq(Action) /\ s \o p \in Seq(Action) /\ issued \in Nat
  BY CallsType DEF Calls
<1>2. InOrder(s \o p, issued)
  BY DEF CallsInOrder, Calls
<1>3. Len(s \o p) <= issued
  BY <1>1, <1>2, InOrderBounds
<1>4. issued <= ArrayLimit /\ ArrayLimit \in Nat
  BY BoundsAssumption DEF NothingCut, TypeOK, AgentTypeOK
<1>5. Len(s) <= ArrayLimit /\ Len(p) <= ArrayLimit
  <2>1. Len(s \o p) = Len(s) + Len(p) /\ Len(s) \in Nat /\ Len(p) \in Nat
        /\ issued \in Nat
    BY <1>1
  <2>2. Len(s) + Len(p) <= issued
    BY <1>3, <2>1
  <2> HIDE DEF s, p
  <2> QED
    BY <1>4, <2>1, <2>2
<1>6. Latest(s) = s /\ Latest(p) = p
  BY <1>5, LatestIsWhole
<1> QED
  BY <1>6, Written

\* What a checkpoint that is written does to the journal: nothing, a first
\* record without calls, new calls, or one call answered.
Advance(i) ==
  /\ journal' # NoCheckpoint
  /\ \/ /\ journal # NoCheckpoint
        /\ journal'.pending = journal.pending /\ journal'.steps = journal.steps
     \/ /\ journal = NoCheckpoint
        /\ journal'.pending = <<>> /\ journal'.steps = <<>>
     \/ /\ journal # NoCheckpoint /\ journal.pending = <<>>
        /\ journal'.steps = journal.steps
        /\ journal'.pending = mem[i].pending
     \/ /\ journal # NoCheckpoint /\ journal.pending # <<>>
        /\ journal'.steps = Append(journal.steps, Head(journal.pending))
        /\ journal'.pending = Tail(journal.pending)

LEMMA WriteAdvances ==
  ASSUME NothingCut, IInv, JInv, NEW i \in Agent, Write(i), Followed(i)
  PROVE  Advance(i)
<1>1. /\ journal' # NoCheckpoint
      /\ journal'.pending = mem[i].pending
      /\ journal'.steps = mem[i].steps
  BY WrittenWhole DEF IInv, JInv
<1>2. Live(i)
  BY DEF Write, Live, Running
<1> QED
  BY <1>1, <1>2 DEF Followed, Agrees, OneAhead, Advance

\* Elements of the sequences that answering a call makes.
LEMMA AnsweredElems ==
  ASSUME NEW s \in Seq(Action), NEW p \in Seq(Action), p # <<>>
  PROVE  /\ Elems(Append(s, Head(p))) = Elems(s) \cup {Head(p)}
         /\ Elems(p) = {Head(p)} \cup Elems(Tail(p))
<1>1. Elems(Append(s, Head(p))) = Elems(s) \cup {Head(p)}
  <2> DEFINE t == Append(s, Head(p))
  <2>1. Len(s) \in Nat /\ Len(t) = Len(s) + 1 /\ t[Len(s) + 1] = Head(p)
        /\ \A k \in 1..Len(s) : t[k] = s[k]
    OBVIOUS
  <2> HIDE DEF t
  <2>2. 1..Len(t) = 1..Len(s) \cup {Len(s) + 1}
    BY <2>1
  <2>3. Elems(t) = Elems(s) \cup {Head(p)}
    BY <2>1, <2>2 DEF Elems
  <2> QED
    BY <2>3 DEF t
<1>2. Elems(p) = {Head(p)} \cup Elems(Tail(p))
  <2>1. Len(p) \in Nat \ {0} /\ Head(p) = p[1] /\ Len(Tail(p)) = Len(p) - 1
        /\ \A k \in 1..Len(p) - 1 : Tail(p)[k] = p[k + 1]
    OBVIOUS
  <2>2. \A k \in 1..Len(p) : k = 1 \/ (k - 1 \in 1..Len(p) - 1 /\ p[k] = Tail(p)[k - 1])
    <3>1. ASSUME NEW k \in 1..Len(p), k # 1
          PROVE  k - 1 \in 1..Len(p) - 1 /\ p[k] = Tail(p)[k - 1]
      <4>1. k - 1 \in 1..Len(p) - 1 /\ (k - 1) + 1 = k
        BY <2>1, <3>1
      <4>2. Tail(p)[k - 1] = p[(k - 1) + 1]
        BY <2>1, <4>1
      <4> QED
        BY <4>1, <4>2
    <3> QED
      BY <3>1
  <2>3. \A k \in 1..Len(p) - 1 : k + 1 \in 1..Len(p)
    BY <2>1
  <2>4. 1 \in 1..Len(p)
    BY <2>1
  <2>5. Elems(p) \subseteq {Head(p)} \cup Elems(Tail(p))
    BY <2>1, <2>2 DEF Elems
  <2>6. {Head(p)} \cup Elems(Tail(p)) \subseteq Elems(p)
    BY <2>1, <2>3, <2>4 DEF Elems
  <2> QED
    BY <2>5, <2>6
<1> QED
  BY <1>1, <1>2

LEMMA NoElems == Elems(<<>>) = {}
BY DEF Elems

\* What the journal records, of an advance: no call that was known is lost.
LEMMA AdvanceKnows ==
  ASSUME TypeOK, NEW i \in Agent, Advance(i), journal # NoCheckpoint
  PROVE  Elems(journal.pending) \cup Elems(journal.steps)
           \subseteq Elems(journal'.pending) \cup Elems(journal'.steps)
<1>1. journal.steps \in Seq(Action) /\ journal.pending \in Seq(Action)
  BY CallsType
<1>2. CASE journal'.pending = journal.pending /\ journal'.steps = journal.steps
  BY <1>2
<1>3. CASE journal.pending = <<>> /\ journal'.steps = journal.steps
  BY <1>3, NoElems
<1>4. CASE /\ journal.pending # <<>>
           /\ journal'.steps = Append(journal.steps, Head(journal.pending))
           /\ journal'.pending = Tail(journal.pending)
  <2>1. /\ Elems(journal'.steps) = Elems(journal.steps) \cup {Head(journal.pending)}
        /\ Elems(journal.pending) = {Head(journal.pending)} \cup Elems(journal'.pending)
    BY <1>1, <1>4, AnsweredElems
  <2> QED
    BY <2>1
<1> QED
  BY <1>2, <1>3, <1>4 DEF Advance

\* What a step leaves of FInv to be shown for every invocation.
Follows(i) == Followed(i)' /\ JournalKnowsEffects'

LEMMA ShapeFollows ==
  ASSUME NothingCut, IInv, JInv, FInv, NEW i \in Agent, Shape(i)
  PROVE  Follows(i)
<1>1. Live(i) /\ Followed(i) /\ JournalKnowsEffects
  BY DEF Shape, Own, FInv
<1>2. CASE Shift(i)
  BY <1>1, <1>2 DEF Shift, SameCalls, Followed, Agrees, OneAhead, Follows,
                    JournalKnowsEffects
<1>3. CASE Write(i)
  <2>1. /\ journal' # NoCheckpoint
        /\ journal'.pending = mem'[i].pending
        /\ journal'.steps = mem'[i].steps
        /\ effects' = effects
    BY <1>3, WrittenWhole DEF IInv, JInv, Write, SameCalls
  <2>2. Followed(i)'
    BY <2>1 DEF Followed, Agrees
  <2>3. Advance(i)
    BY <1>1, <1>3, WriteAdvances
  <2>4. JournalKnowsEffects'
    BY <1>1, <2>1, <2>3, AdvanceKnows DEF IInv, JournalKnowsEffects
  <2> QED
    BY <2>2, <2>4 DEF Follows
<1>4. CASE Try(i)
  <2>1. Agrees(i) /\ mem[i].pending # <<>> /\ mem[i].pending \in Seq(Action)
    BY <1>1, <1>4, CallsType DEF Try, Followed, IInv, CallInHand
  <2>2. Head(mem[i].pending) \in Elems(journal.pending)
    BY <2>1, TailOfCalls DEF Agrees
  <2>3. JournalKnowsEffects'
    BY <1>1, <1>4, <2>1, <2>2
       DEF Try, Agrees, JournalKnowsEffects, IInv, TypeOK, AgentTypeOK
  <2>4. Followed(i)'
    BY <1>4, <2>1 DEF Try, SameCalls, Followed, Agrees
  <2> QED
    BY <2>3, <2>4 DEF Follows
<1>5. CASE Answer(i)
  <2>1. Agrees(i) /\ mem[i].pending # <<>>
    BY <1>1, <1>5 DEF Answer, Followed, IInv, CallInHand
  <2>2. OneAhead(i)'
    BY <1>5, <2>1 DEF Answer, Agrees, OneAhead
  <2> QED
    BY <1>1, <1>5, <2>2 DEF Answer, Followed, Follows, JournalKnowsEffects
<1>6. CASE Request(i)
  <2>1. Agrees(i) /\ mem[i].pending = <<>>
    BY <1>1, <1>6 DEF Request, Followed, JInv, NothingInHand, Quiet
  <2>2. OneAhead(i)'
    BY <1>6, <2>1 DEF Request, Agrees, OneAhead
  <2> QED
    BY <1>1, <1>6, <2>2 DEF Request, Followed, Follows, JournalKnowsEffects
<1>7. CASE End(i)
  BY <1>1, <1>7 DEF End, Live, Running, Ended, Followed, Follows, JournalKnowsEffects
<1> QED
  BY <1>2, <1>3, <1>4, <1>5, <1>6, <1>7 DEF Shape

LEMMA StartFollows ==
  ASSUME FInv, NEW i \in Agent, Entry(i, journal), Holds(i)
  PROVE  Follows(i)
<1>1. UNCHANGED <<journal, effects>>
  BY DEF Entry
<1>2. JournalKnowsEffects'
  BY <1>1 DEF FInv, JournalKnowsEffects
<1>3. Followed(i)'
  BY <1>1 DEF Holds, Followed, Agrees, OneAhead
<1> QED
  BY <1>2, <1>3 DEF Follows

LEMMA OthersFollow ==
  ASSUME NEW i \in Agent, Follows(i),
         \A j \in Agent : j # i => pc'[j] = pc[j] /\ ~Live(j)
  PROVE  FInv'
<1>1. \A j \in Agent : j # i => ~Live(j)'
  BY DEF Live
<1> QED
  BY <1>1 DEF Follows, FInv, Followed

LEMMA NextFInv ==
  ASSUME NothingCut, IInv, JInv, FInv, [Next]_vars
  PROVE  FInv'
<1>1. TypeOK /\ AgentTypeOK /\ CallInHand /\ SavingMemory /\ OneLive
  BY DEF IInv, TypeOK
<1>2. ASSUME NEW i \in Agent, Shape(i)
      PROVE  FInv'
  <2>1. \A j \in Agent : j # i => pc'[j] = pc[j] /\ ~Live(j)
    BY <1>1, <1>2 DEF Shape, Own, OneLive
  <2> QED
    BY <1>2, <2>1, ShapeFollows, OthersFollow
<1>3. ASSUME NEW i \in Agent, AgentStep(i)
      PROVE  FInv'
  BY <1>1, <1>2, <1>3, StepShape
<1>4. ASSUME NEW i \in Agent, StartFresh(i) \/ StartResume(i)
      PROVE  FInv'
  <2>1. NoneLive /\ Entry(i, journal) /\ Holds(i)
    BY <1>1, <1>4, StartTypes, StartHand
  <2>2. \A j \in Agent : j # i => pc'[j] = pc[j] /\ ~Live(j)
    BY <2>1 DEF Entry, NoneLive
  <2> QED
    BY <2>1, <2>2, StartFollows, OthersFollow
<1>5. ASSUME NEW i \in Agent, Crash(i)
      PROVE  FInv'
  <2>1. Shape(i)
    BY <1>1, <1>5, LeaveShape DEF Crash, Shape, End, Ended
  <2> QED
    BY <1>2, <2>1
<1>6. CASE UNCHANGED <<pc, mem, journal, effects>>
  BY <1>6 DEF FInv, Followed, Agrees, OneAhead, Live, JournalKnowsEffects
<1> QED
  BY <1>3, <1>4, <1>5, <1>6 DEF Next, Abort, AllUsed, vars, agentVars

THEOREM FollowingInvariance ==
  ASSUME NothingCut
  PROVE  Spec => [](IInv /\ JInv /\ FInv)
<1>1. Init => FInv
  BY DEF Init, AgentInit, FInv, Followed, Live, Running, JournalKnowsEffects
<1>2. IInv /\ JInv /\ FInv /\ [Next]_vars => FInv'
  BY NextFInv
<1> QED
  BY <1>1, <1>2, JournalInvariance, PTL DEF Spec

\* When no more calls can be asked for than sanitizeValue keeps, the journal
\* knows every call that may have had its side effect: a resume asks before it
\* repeats it (the comment at agent.ts:545-547).
THEOREM EffectsAreKnown ==
  ASSUME NothingCut
  PROVE  Spec => []JournalKnowsEffects
<1>1. FInv => JournalKnowsEffects
  BY DEF FInv
<1> QED
  BY <1>1, FollowingInvariance, PTL

\* What a step makes of the journal, of the attempts and of the confirmations.
NextEffect ==
  \/ UNCHANGED <<journal, effects, grants>>
  \/ \E i \in Agent : Advance(i) /\ Write(i)
  \/ \E i \in Agent : Try(i) /\ Agrees(i)
  \/ /\ UNCHANGED <<journal, effects>>
     /\ \/ grants' = grants
        \/ /\ journal # NoCheckpoint
           /\ grants' = [a \in Action |-> IF a \in Elems(journal.pending)
                                          THEN grants[a] + 1 ELSE grants[a]]

LEMMA NextHasEffect ==
  ASSUME NothingCut, IInv, JInv, FInv, [Next]_vars
  PROVE  NextEffect
<1>1. TypeOK /\ AgentTypeOK /\ CallInHand /\ SavingMemory
  BY DEF IInv, TypeOK
<1>2. ASSUME NEW i \in Agent, Shape(i)
      PROVE  NextEffect
  <2>1. Live(i) /\ Followed(i)
    BY <1>2 DEF Shape, Own, FInv
  <2>2. CASE Shift(i) \/ Answer(i) \/ Request(i) \/ End(i)
    BY <2>2 DEF Shift, Answer, Request, End, NextEffect
  <2>3. CASE Write(i)
    BY <2>1, <2>3, WriteAdvances DEF NextEffect
  <2>4. CASE Try(i)
    <3>1. Agrees(i)
      BY <2>1, <2>4 DEF Try, Followed
    <3> QED
      BY <2>4, <3>1 DEF NextEffect
  <2> QED
    BY <1>2, <2>2, <2>3, <2>4 DEF Shape
<1>3. ASSUME NEW i \in Agent, AgentStep(i)
      PROVE  NextEffect
  BY <1>1, <1>2, <1>3, StepShape
<1>4. ASSUME NEW i \in Agent, StartFresh(i) \/ StartResume(i)
      PROVE  NextEffect
  <2>1. Entry(i, journal) /\ Holds(i) /\ grants \in [Action -> Nat]
    BY <1>1, <1>4, StartTypes, StartHand DEF TypeOK, AgentTypeOK
  <2>2. UNCHANGED <<journal, effects>>
    BY <2>1 DEF Entry
  <2>3. CASE mem'[i].pending = <<>>
    <3>1. Elems(mem'[i].pending) = {}
      BY <2>3, NoElems
    <3>2. grants' = grants
      BY <2>1, <3>1 DEF Entry
    <3> QED
      BY <2>2, <3>2 DEF NextEffect
  <2>4. CASE journal # NoCheckpoint /\ mem'[i].pending = journal.pending
    BY <2>1, <2>2, <2>4 DEF Entry, NextEffect
  <2> QED
    BY <2>1, <2>3, <2>4 DEF Entry
<1>5. ASSUME NEW i \in Agent, Crash(i)
      PROVE  NextEffect
  BY <1>5 DEF Crash, NextEffect
<1>6. CASE UNCHANGED <<journal, effects, grants>>
  BY <1>6 DEF NextEffect
<1> QED
  BY <1>3, <1>4, <1>5, <1>6 DEF Next, Abort, AllUsed, vars, agentVars

\* Under the same condition an observation, once recorded, stays where it is in
\* every later checkpoint (recordObservation, save).
THEOREM ObservationsStay ==
  ASSUME NothingCut
  PROVE  Spec => ObservationsKept
<1> DEFINE Kept1 == journal # NoCheckpoint =>
             /\ journal' # NoCheckpoint
             /\ Len(journal.steps) <= Len(journal'.steps)
             /\ SubSeq(journal'.steps, 1, Len(journal.steps)) = journal.steps
<1>1. ASSUME IInv, JInv, FInv, [Next]_vars
      PROVE  Kept1
  <2>1. SUFFICES ASSUME journal # NoCheckpoint
                 PROVE  Kept1
    OBVIOUS
  <2> DEFINE s == journal.steps
  <2>2. s \in Seq(Action) /\ journal.pending \in Seq(Action)
    BY <1>1, <2>1, CallsType DEF IInv
  <2>3. CASE journal' # NoCheckpoint /\ journal'.steps = s
    <3>1. SubSeq(s, 1, Len(s)) = s /\ Len(s) \in Nat
      BY <2>2
    <3> QED
      BY <2>3, <3>1
  <2>4. CASE /\ journal' # NoCheckpoint /\ journal.pending # <<>>
             /\ journal'.steps = Append(s, Head(journal.pending))
    <3> DEFINE t == Append(s, Head(journal.pending))
    <3>1. Head(journal.pending) \in Action
      BY <2>2, <2>4
    <3>2. Len(t) = Len(s) + 1 /\ Len(s) \in Nat /\ SubSeq(t, 1, Len(s)) = s
      BY <2>2, <3>1
    <3> QED
      BY <2>4, <3>2
  <2>5. NextEffect
    BY <1>1, NextHasEffect
  <2> QED
    BY <2>1, <2>3, <2>4, <2>5 DEF NextEffect, Advance, Try
<1>2. IInv /\ JInv /\ FInv /\ [Next]_vars => [Kept1]_vars
  BY <1>1
<1> QED
  BY <1>2, FollowingInvariance, PTL DEF Spec, ObservationsKept

-----------------------------------------------------------------------------
(* The refinement *)

LEMMA InitImplements == Init => Promise!Init
BY DEF Init, AgentInit, Promise!Init, Recorded

LEMMA StepImplements ==
  ASSUME NothingCut, IInv, JInv, FInv, [Next]_vars
  PROVE  [Promise!Next]_(Promise!vars)
<1> DEFINE P == Recorded("pending")
           O == Recorded("steps")
<1>1. TypeOK /\ NextEffect
  BY NextHasEffect DEF IInv
<1>2. /\ P \subseteq Action /\ O \subseteq Action
      /\ P' = IF journal' = NoCheckpoint THEN {} ELSE Elems(journal'.pending)
      /\ O' = IF journal' = NoCheckpoint THEN {} ELSE Elems(journal'.steps)
  <2>1. journal # NoCheckpoint =>
          journal.steps \in Seq(Action) /\ journal.pending \in Seq(Action)
    BY <1>1, CallsType
  <2> QED
    BY <2>1 DEF Recorded, Elems
<1>3. CASE UNCHANGED <<journal, effects, grants>>
  BY <1>2, <1>3 DEF Promise!vars, Recorded
<1>4. ASSUME NEW i \in Agent, Advance(i), Write(i)
      PROVE  [Promise!Next]_(Promise!vars)
  <2>1. UNCHANGED <<effects, grants>>
    BY <1>4 DEF Write
  <2>2. CASE P' = P /\ O' = O
    BY <2>1, <2>2 DEF Promise!vars
  <2>3. CASE /\ journal # NoCheckpoint /\ journal.pending = <<>>
             /\ journal'.steps = journal.steps
             /\ journal'.pending = mem[i].pending
    <3>1. P = {} /\ O' = O /\ P' = Elems(mem[i].pending) /\ O = Elems(journal'.steps)
      BY <1>2, <1>4, <2>3, NoElems DEF Recorded, Advance
    <3>2. P' \in SUBSET (Action \ (P \cup O))
      <4>1. /\ mem[i].steps \in Seq(Action) /\ mem[i].pending \in Seq(Action)
            /\ InOrder(mem[i].steps \o mem[i].pending, issued)
            /\ issued \in Nat
        BY <1>1, CallsType DEF JInv, CallsInOrder, Calls
      <4>2. journal'.steps = mem[i].steps
        BY <1>4, WrittenWhole DEF IInv, JInv
      <4>3. Elems(mem[i].steps) \cap Elems(mem[i].pending) = {}
        BY <4>1, InOrderApart
      <4>4. Elems(mem[i].pending) \subseteq Action
        BY <4>1 DEF Elems
      <4> QED
        BY <3>1, <4>2, <4>3, <4>4
    <3> HIDE DEF P, O
    <3>3. Promise!Ask
      BY <2>1, <3>1, <3>2 DEF Promise!Ask, P, O
    <3> QED
      BY <3>3 DEF Promise!Next
  <2>4. CASE /\ journal # NoCheckpoint /\ journal.pending # <<>>
             /\ journal'.steps = Append(journal.steps, Head(journal.pending))
             /\ journal'.pending = Tail(journal.pending)
    <3> DEFINE p == journal.pending
               h == Head(p)
    <3>1. /\ journal.steps \in Seq(Action) /\ p \in Seq(Action)
          /\ ProperCalls(p, issued)
      BY <1>1, <2>4, CallsType DEF IInv, CallsProper
    <3>2. h \in P /\ h \in Action
      BY <1>2, <2>4, <3>1, TailOfCalls DEF Recorded
    <3>3. h \notin Elems(Tail(p)) /\ Elems(p) = {h} \cup Elems(Tail(p))
          /\ Elems(Append(journal.steps, h)) = Elems(journal.steps) \cup {h}
      BY <2>4, <3>1, TailOfCalls, AnsweredElems
    <3>4. P' = P \ {h} /\ O' = O \cup {h}
      BY <1>2, <1>4, <2>4, <3>3 DEF Recorded, Advance
    <3> HIDE DEF P, O, h
    <3>5. Promise!Observe(h)
      BY <2>1, <3>2, <3>4 DEF Promise!Observe, P, O
    <3> QED
      BY <3>2, <3>5 DEF Promise!Next
  <2>5. CASE /\ journal # NoCheckpoint
             /\ journal'.pending = journal.pending /\ journal'.steps = journal.steps
    BY <1>2, <1>4, <2>2, <2>5 DEF Recorded, Advance
  <2>6. CASE /\ journal = NoCheckpoint
             /\ journal'.pending = <<>> /\ journal'.steps = <<>>
    BY <1>2, <1>4, <2>2, <2>6, NoElems DEF Recorded, Advance
  <2> QED
    BY <1>4, <2>3, <2>4, <2>5, <2>6 DEF Advance
<1>5. ASSUME NEW i \in Agent, Try(i), Agrees(i)
      PROVE  [Promise!Next]_(Promise!vars)
  <2> DEFINE h == Head(mem[i].pending)
  <2>1. mem[i].pending # <<>> /\ mem[i].pending \in Seq(Action)
    BY <1>1, <1>5, CallsType DEF Try, IInv, CallInHand
  <2>2. h \in P /\ h \in Action
    BY <1>2, <1>5, <2>1, TailOfCalls DEF Agrees, Recorded
  <2>3. effects[h] <= grants[h]
    <3>1. h \in Executable(i)
      BY <1>5, <2>1, TailOfCalls DEF Try, Executable
    <3> QED
      BY <3>1 DEF IInv, Covered
  <2>4. /\ effects' = [effects EXCEPT ![h] = @ + 1]
        /\ P' = P /\ O' = O /\ grants' = grants
    BY <1>2, <1>5 DEF Try, Recorded
  <2> HIDE DEF P, O, h
  <2>5. Promise!Attempt(h)
    BY <2>2, <2>3, <2>4 DEF Promise!Attempt, P, O
  <2> QED
    BY <2>2, <2>5 DEF Promise!Next
<1>6. CASE /\ UNCHANGED <<journal, effects>>
           /\ journal # NoCheckpoint
           /\ grants' = [a \in Action |-> IF a \in Elems(journal.pending)
                                          THEN grants[a] + 1 ELSE grants[a]]
  <2>1. P' = P /\ O' = O /\ P = Elems(journal.pending)
    BY <1>2, <1>6 DEF Recorded
  <2>2. grants' = [a \in Action |-> IF a \in P THEN grants[a] + 1 ELSE grants[a]]
    BY <1>6, <2>1
  <2> HIDE DEF P, O
  <2>3. Promise!Confirm
    BY <1>6, <2>1, <2>2 DEF Promise!Confirm, P, O
  <2> QED
    BY <2>3 DEF Promise!Next
<1> QED
  BY <1>1, <1>3, <1>4, <1>5, <1>6 DEF NextEffect

\* Journal and side effects implement the promise: a call is asked for once,
\* its effect is tried while it is recorded as pending, again only after a
\* confirmation, and never once its observation is recorded.
THEOREM PromiseKept ==
  ASSUME NothingCut
  PROVE  Spec => ImplementsPromise
<1>1. IInv /\ JInv /\ FInv /\ [Next]_vars => [Promise!Next]_(Promise!vars)
  BY StepImplements
<1> QED
  BY <1>1, InitImplements, FollowingInvariance, PTL
     DEF Spec, ImplementsPromise, Promise!Spec
=============================================================================
