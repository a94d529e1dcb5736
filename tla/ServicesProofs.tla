--------------------------- MODULE ServicesProofs ---------------------------
(***************************************************************************)
(* Proofs about Services: what the components claim holds however their    *)
(* callers interleave, for every value of the constants.                   *)
(***************************************************************************)
EXTENDS Services, FiniteSetTheorems, WellFoundedInduction, TLAPS

(* A step of Services is a step of each component, or leaves it alone. *)
LEMMA StepOfEach ==
  ASSUME [Next]_vars
  PROVE  /\ [Cron!Next]_cronVars
         /\ [Decisions!Next]_decisionVars
         /\ [Fallback!Next]_fallbackVars
         /\ [Review!Next]_reviewVars
         /\ [Server!Next]_serverVars
         /\ [Directory!Next]_directoryVars
         /\ [Spawner!Next]_spawnerVars
         /\ [Channel!Next]_channelVars
         /\ [Workflow!Next]_workflowVars
<1>1. CASE Next
  BY <1>1 DEF Next, Runs
<1>2. CASE UNCHANGED vars
  BY <1>2 DEF vars
<1>3. QED
  BY <1>1, <1>2

-----------------------------------------------------------------------------
(* Sublists *)

\* The smallest element of a set of numbers.
LEMMA SmallestNumber ==
  ASSUME NEW S \in SUBSET Nat, S # {}
  PROVE  \E x \in S : \A y \in S : x <= y
<1> DEFINE R == OpToRel(<, Nat)
<1>1. \A x, y \in Nat : x < y => <<x, y>> \in R
  BY DEF OpToRel
<1>2. IsWellFoundedOn(R, Nat)
  BY NatLessThanWellFounded
<1> HIDE DEF R
<1>3. PICK x \in S : \A y \in S : ~ (<<y, x>> \in R)
  BY <1>2, WFMin
<1>4. ASSUME NEW y \in S PROVE x <= y
  <2>1. x \in Nat /\ y \in Nat /\ ~ (y < x)
    BY <1>1, <1>3
  <2>2. QED
    BY <2>1
<1>5. QED
  BY <1>4

\* How many of the positions come up to i.
UpTo(I, i) == {k \in I : k <= i}

LEMMA UpToCounts ==
  ASSUME NEW n \in Nat, NEW I \in SUBSET (1..n)
  PROVE  /\ IsFiniteSet(I) /\ Cardinality(I) \in Nat
         /\ \A i \in 0..n : IsFiniteSet(UpTo(I, i)) /\ Cardinality(UpTo(I, i)) \in Nat
         /\ Cardinality(UpTo(I, 0)) = 0
         /\ Cardinality(UpTo(I, n)) = Cardinality(I)
         /\ \A i \in 1..n : Cardinality(UpTo(I, i)) =
              IF i \in I THEN Cardinality(UpTo(I, i - 1)) + 1
                          ELSE Cardinality(UpTo(I, i - 1))
<1>1. IsFiniteSet(I) /\ Cardinality(I) \in Nat
  <2>1. IsFiniteSet(1..n)
    BY FS_Interval
  <2>2. QED
    BY <2>1, FS_Subset, FS_CardinalityType
<1>2. ASSUME NEW i \in 0..n
      PROVE  IsFiniteSet(UpTo(I, i)) /\ Cardinality(UpTo(I, i)) \in Nat
  <2>1. UpTo(I, i) \in SUBSET I
    BY DEF UpTo
  <2>2. QED
    BY <1>1, <2>1, FS_Subset, FS_CardinalityType
<1> \A k \in I : k \in Nat /\ 1 <= k /\ k <= n
  OBVIOUS
<1>3. Cardinality(UpTo(I, 0)) = 0
  <2>1. UpTo(I, 0) = {}
    <3>1. \A k \in I : ~(k <= 0)
      OBVIOUS
    <3>2. QED
      BY <3>1, Zenon DEF UpTo
  <2>2. QED
    BY <2>1, FS_EmptySet
<1>4. UpTo(I, n) = I
  BY Zenon DEF UpTo
<1>5. ASSUME NEW i \in 1..n
      PROVE  Cardinality(UpTo(I, i)) = IF i \in I THEN Cardinality(UpTo(I, i - 1)) + 1
                                                    ELSE Cardinality(UpTo(I, i - 1))
  <2>1. i - 1 \in 0..n /\ i \notin UpTo(I, i - 1)
    BY DEF UpTo
  <2> \A k \in I : k <= i <=> k <= i - 1 \/ k = i
    OBVIOUS
  <2>2. i \in I => UpTo(I, i) = UpTo(I, i - 1) \cup {i}
    BY Zenon DEF UpTo
  <2>3. i \notin I => UpTo(I, i) = UpTo(I, i - 1)
    BY Zenon DEF UpTo
  <2>4. IsFiniteSet(UpTo(I, i - 1))
    BY <1>2, <2>1
  <2>5. Cardinality(UpTo(I, i - 1) \cup {i}) = Cardinality(UpTo(I, i - 1)) + 1
    BY <2>1, <2>4, FS_AddElement
  <2>6. QED
    BY <2>2, <2>3, <2>5
<1>6. QED
  BY <1>1, <1>2, <1>3, <1>4, <1>5

\* The positions are counted without gaps ...
LEMMA EachCounted ==
  ASSUME NEW n \in Nat, NEW I \in SUBSET (1..n), NEW j \in 1..Cardinality(I)
  PROVE  \E i \in I : Cardinality(UpTo(I, i)) = j
<1> DEFINE C(i) == Cardinality(UpTo(I, i))
           Enough == {i \in 0..n : C(i) >= j}
<1>1. /\ \A i \in 0..n : C(i) \in Nat
      /\ C(0) = 0 /\ C(n) = Cardinality(I) /\ Cardinality(I) \in Nat
      /\ \A i \in 1..n : C(i) = IF i \in I THEN C(i - 1) + 1 ELSE C(i - 1)
  BY UpToCounts
<1> HIDE DEF C
<1>2. n \in Enough /\ Enough \in SUBSET Nat
  BY <1>1
<1>3. PICK i \in Enough : \A k \in Enough : i <= k
  BY <1>2, SmallestNumber
<1>4. i \in 1..n
  BY <1>1
<1>5. i - 1 \in 0..n /\ i - 1 \notin Enough
  BY <1>3, <1>4
<1>6. C(i - 1) < j
  BY <1>1, <1>5
<1>7. i \in I /\ C(i) = j
  BY <1>1, <1>3, <1>4, <1>6
<1>8. QED
  BY <1>7 DEF C

\* ... and none twice.
LEMMA CountedOnce ==
  ASSUME NEW n \in Nat, NEW I \in SUBSET (1..n), NEW i \in I
  PROVE  /\ Cardinality(UpTo(I, i)) \in 1..Cardinality(I)
         /\ \A k \in I : k < i => Cardinality(UpTo(I, k)) < Cardinality(UpTo(I, i))
<1>1. IsFiniteSet(I) /\ Cardinality(I) \in Nat
  BY UpToCounts
<1>2. /\ UpTo(I, i) \in SUBSET I /\ i \in UpTo(I, i)
      /\ IsFiniteSet(UpTo(I, i)) /\ Cardinality(UpTo(I, i)) \in Nat
  <2>1. UpTo(I, i) \in SUBSET I /\ i \in UpTo(I, i)
    BY DEF UpTo
  <2>2. QED
    BY <1>1, <2>1, FS_Subset, FS_CardinalityType
<1>3. Cardinality(UpTo(I, i)) <= Cardinality(I)
  BY <1>1, <1>2, FS_Subset
<1>4. Cardinality(UpTo(I, i)) # 0
  BY <1>2, FS_EmptySet
<1>5. ASSUME NEW k \in I, k < i
      PROVE  Cardinality(UpTo(I, k)) < Cardinality(UpTo(I, i))
  <2>1. UpTo(I, k) \in SUBSET UpTo(I, i) /\ i \notin UpTo(I, k)
    <3>1. ~(i <= k) /\ \A l \in I : l <= k => l <= i
      BY <1>5
    <3>2. QED
      BY <3>1, Zenon DEF UpTo
  <2>2. /\ Cardinality(UpTo(I, k)) <= Cardinality(UpTo(I, i))
        /\ Cardinality(UpTo(I, k)) # Cardinality(UpTo(I, i))
    BY <1>2, <2>1, FS_Subset
  <2>3. Cardinality(UpTo(I, k)) \in Nat
    BY <1>2, <2>1, FS_Subset, FS_CardinalityType
  <2>4. QED
    BY <1>2, <2>2, <2>3
<1>6. QED
  BY <1>1, <1>2, <1>3, <1>4, <1>5

(* A sublist has the elements at its positions and no others.              *)
LEMMA SublistProperties ==
  ASSUME NEW S, NEW s \in Seq(S), NEW I \in SUBSET (1..Len(s))
  PROVE  /\ Sublist(s, I) \in Seq(S)
         /\ Len(Sublist(s, I)) = Cardinality(I)
         /\ Len(Sublist(s, I)) <= Len(s)
         /\ \A j \in 1..Len(Sublist(s, I)) : \E i \in I : Sublist(s, I)[j] = s[i]
         /\ \A i \in I : \E j \in 1..Len(Sublist(s, I)) : Sublist(s, I)[j] = s[i]
<1> DEFINE C(i) == Cardinality(UpTo(I, i))
           At(j) == CHOOSE i \in I : C(i) = j
<1>1. Cardinality(I) \in Nat /\ Len(s) \in Nat /\ Cardinality(I) <= Len(s)
  <2>1. Len(s) \in Nat /\ IsFiniteSet(1..Len(s)) /\ Cardinality(1..Len(s)) = Len(s)
    BY FS_Interval
  <2>2. QED
    BY <2>1, FS_Subset, FS_CardinalityType
<1>2. ASSUME NEW j \in 1..Cardinality(I) PROVE At(j) \in I /\ C(At(j)) = j
  BY <1>1, EachCounted
<1>3. Sublist(s, I) = [j \in 1..Cardinality(I) |-> s[At(j)]]
  BY DEF Sublist, UpTo
<1>4. \A i \in I : C(i) \in 1..Cardinality(I)
  BY <1>1, CountedOnce
<1>5. \A i, k \in I : C(i) = C(k) => i = k
  <2> SUFFICES ASSUME NEW i \in I, NEW k \in I, C(i) = C(k), i # k PROVE FALSE
    OBVIOUS
  <2>1. C(i) \in Nat /\ C(k) \in Nat /\ (i < k \/ k < i)
    BY <1>1, <1>4
  <2>2. (i < k => C(i) < C(k)) /\ (k < i => C(k) < C(i))
    BY <1>1, CountedOnce
  <2>3. QED
    BY <2>1, <2>2
<1> HIDE DEF C, At
<1>6. \A j \in 1..Cardinality(I) : s[At(j)] \in S
  <2>1. \A i \in I : s[i] \in S
    BY <1>1
  <2>2. QED
    BY <1>2, <2>1, Zenon
<1>7. Sublist(s, I) \in Seq(S) /\ Len(Sublist(s, I)) = Cardinality(I)
  BY <1>1, <1>3, <1>6
<1>8. \A j \in 1..Cardinality(I) : \E i \in I : Sublist(s, I)[j] = s[i]
  BY <1>2, <1>3
<1>9. ASSUME NEW i \in I
      PROVE  C(i) \in 1..Cardinality(I) /\ Sublist(s, I)[C(i)] = s[i]
  BY <1>2, <1>3, <1>4, <1>5
<1>10. QED
  BY <1>1, <1>7, <1>8, <1>9

LEMMA WithoutProperties ==
  ASSUME NEW S, NEW s \in Seq(S), NEW T
  PROVE  /\ Without(s, T) \in Seq(S)
         /\ Len(Without(s, T)) <= Len(s)
         /\ \A j \in 1..Len(Without(s, T)) : Without(s, T)[j] \notin T
         /\ \A i \in 1..Len(s) : s[i] \notin T =>
              \E j \in 1..Len(Without(s, T)) : Without(s, T)[j] = s[i]
         /\ \A j \in 1..Len(Without(s, T)) :
              \E i \in 1..Len(s) : Without(s, T)[j] = s[i]
<1> DEFINE I == {i \in DOMAIN s : s[i] \notin T}
<1>1. I \in SUBSET (1..Len(s))
  OBVIOUS
<1>2. \A i \in 1..Len(s) : i \in I <=> s[i] \notin T
  OBVIOUS
<1>3. Without(s, T) = Sublist(s, I)
  BY DEF Without
<1> HIDE DEF I
<1>4. QED
  BY SMTT(30), <1>1, <1>2, <1>3, SublistProperties

-----------------------------------------------------------------------------
(* CronScheduler *)

\* A timer that was cleared by its task leaves its handle, and the task completed.
CronInv ==
  /\ Cron!TypeOK
  /\ Cron!TimersMatchTasks
  /\ \A k \in Task : tasks[k].intervalId = "cleared" => tasks[k].status = "completed"

TaskRecord ==
  [kind : {"interval", "cron"}, status : {"active", "completed"}, runs : 0..MaxRuns,
   limit : 0..MaxIterations, intervalId : {"none", "live", "cleared"}, fired : BOOLEAN]

AbsentRecord ==
  [kind : {"absent"}, status : {"none"}, runs : {0}, limit : {0}, intervalId : {"none"},
   fired : {FALSE}]

LEMMA OneAbsent == AbsentRecord = {Cron!Absent}
<1>1. Cron!Absent \in AbsentRecord
  BY DEF Cron!Absent, AbsentRecord
<1>2. ASSUME NEW t \in AbsentRecord PROVE t = Cron!Absent
  BY <1>2 DEF Cron!Absent, AbsentRecord
<1>3. QED
  BY <1>1, <1>2

\* What CronInv says of one task, its timers and the scheduler.
TimerFits(t, timers, on) ==
  /\ t \in AbsentRecord \cup TaskRecord
  /\ timers = IF t.intervalId = "live" THEN 1 ELSE 0
  /\ t.intervalId = "live" => t.status = "active"
  /\ t.intervalId = "cleared" => t.status = "completed"
  /\ on /\ t.kind = "interval" /\ t.status = "active" => t.intervalId = "live"

CronShape ==
  /\ started \in BOOLEAN
  /\ tasks = [k \in Task |-> tasks[k]] /\ live = [k \in Task |-> live[k]]

LEMMA CronInvByTask ==
  CronInv <=> CronShape /\ \A k \in Task : TimerFits(tasks[k], live[k], started)
<1> USE OneAbsent DEF Cron!TypeOK, Cron!TimersMatchTasks, TimerFits, CronShape, TaskRecord
<1>1. ASSUME CronInv PROVE CronShape /\ \A k \in Task : TimerFits(tasks[k], live[k], started)
  <2>1. CronShape
    BY <1>1 DEF CronInv
  <2>2. ASSUME NEW k \in Task PROVE TimerFits(tasks[k], live[k], started)
    BY <1>1, <2>2 DEF CronInv
  <2>3. QED
    BY <2>1, <2>2
<1>2. ASSUME CronShape, \A k \in Task : TimerFits(tasks[k], live[k], started) PROVE CronInv
  <2>1. Cron!TypeOK
    BY <1>2
  <2>2. Cron!TimersMatchTasks
    BY <1>2
  <2>3. QED
    BY <1>2, <2>1, <2>2 DEF CronInv
<1>3. QED
  BY <1>1, <1>2

LEMMA CronInitially == Init => CronInv
<1> SUFFICES ASSUME Init PROVE CronInv
  OBVIOUS
<1>1. Cron!Init
  BY DEF Init
<1>2. TimerFits(Cron!Absent, 0, FALSE)
  BY OneAbsent DEF TimerFits, Cron!Absent
<1>3. CronShape /\ \A k \in Task : TimerFits(tasks[k], live[k], started)
  BY <1>1, <1>2 DEF Cron!Init, CronShape
<1>4. QED
  BY <1>3, CronInvByTask

LEMMA CronStep == CronInv /\ [Cron!Next]_cronVars => CronInv'
<1> SUFFICES ASSUME CronInv, [Cron!Next]_cronVars PROVE CronInv'
  OBVIOUS
<1>1. CronShape /\ \A k \in Task : TimerFits(tasks[k], live[k], started)
  BY CronInvByTask
<1> USE CronBounds DEF CronShape
<1>2. ASSUME CronShape', \A k \in Task : TimerFits(tasks'[k], live'[k], started') PROVE CronInv'
  <2>1. (CronShape /\ \A k \in Task : TimerFits(tasks[k], live[k], started))'
    BY <1>2 DEF TimerFits
  <2>2. QED
    BY <2>1, CronInvByTask, PTL
<1>3. CASE Cron!Start
  <2>1. ASSUME NEW k \in Task PROVE TimerFits(tasks'[k], live'[k], started')
    <3>1. CASE k \in Cron!Restartable
      <4>1. tasks[k] \in TaskRecord /\ tasks[k].intervalId = "none"
        BY <1>1, <3>1 DEF TimerFits, Cron!Restartable, AbsentRecord
      <4>2. tasks'[k] = [tasks[k] EXCEPT !.intervalId = "live"] /\ live'[k] = live[k] + 1
        BY <1>3, <3>1 DEF Cron!Start
      <4>3. QED
        BY <1>1, <3>1, <4>1, <4>2 DEF TimerFits, TaskRecord, Cron!Restartable
    <3>2. CASE k \notin Cron!Restartable
      <4>1. tasks'[k] = tasks[k] /\ live'[k] = live[k]
        BY <1>3, <3>2 DEF Cron!Start
      <4>2. tasks[k].kind = "interval" /\ tasks[k].status = "active" =>
              tasks[k].intervalId = "live"
        <5> SUFFICES ASSUME tasks[k].kind = "interval", tasks[k].status = "active",
                            tasks[k].intervalId # "live"
                     PROVE  FALSE
          OBVIOUS
        <5>1. tasks[k] # Cron!Absent
          BY DEF Cron!Absent
        <5>2. tasks[k] \in TaskRecord
          BY <1>1, <5>1, OneAbsent DEF TimerFits
        <5>3. tasks[k].intervalId = "none"
          BY <1>1, <5>2 DEF TimerFits, TaskRecord
        <5>4. QED
          BY <3>2, <5>1, <5>3 DEF Cron!Restartable, Cron!Scheduled
      <4>3. QED
        BY <1>1, <4>1, <4>2 DEF TimerFits
    <3>3. QED
      BY <3>1, <3>2
  <2>2. CronShape'
    BY <1>3 DEF Cron!Start
  <2>3. QED
    BY <1>2, <2>1, <2>2
<1>4. CASE Cron!Stop
  <2>1. ASSUME NEW k \in Task PROVE TimerFits(tasks'[k], live'[k], started')
    <3>1. tasks'[k] = [tasks[k] EXCEPT !.intervalId = "none"] /\ live'[k] = Cron!Cleared(k)
      BY <1>4 DEF Cron!Stop
    <3>2. live'[k] = 0 /\ started' = FALSE
      BY <1>1, <1>4, <3>1 DEF TimerFits, Cron!Cleared, Cron!Stop
    <3>3. tasks'[k] \in AbsentRecord \cup TaskRecord /\ tasks'[k].intervalId = "none"
      BY <1>1, <3>1 DEF TimerFits, TaskRecord, AbsentRecord
    <3>4. QED
      BY <3>2, <3>3 DEF TimerFits
  <2>2. CronShape'
    BY <1>4 DEF Cron!Stop
  <2>3. QED
    BY <1>2, <2>1, <2>2
<1>5. CASE Cron!Minute
  <2>1. ASSUME NEW k \in Task PROVE TimerFits(tasks'[k], live'[k], started')
    <3>1. tasks'[k] = [tasks[k] EXCEPT !.fired = FALSE] /\ live'[k] = live[k]
      BY <1>1, <1>5 DEF Cron!Minute
    <3>2. QED
      BY <1>1, <1>5, <3>1, ZenonT(60) DEF TimerFits, TaskRecord, AbsentRecord, Cron!Minute
  <2>2. CronShape'
    <3>1. tasks' = [k \in Task |-> [tasks[k] EXCEPT !.fired = FALSE]]
      BY <1>5 DEF Cron!Minute
    <3>2. QED
      BY <1>1, <1>5, <3>1 DEF Cron!Minute
  <2>3. QED
    BY <1>2, <2>1, <2>2
<1>6. ASSUME NEW k \in Task, NEW kind \in {"interval", "cron"}, NEW limit \in 0..MaxIterations,
             Cron!AddTask(k, kind, limit)
      PROVE  CronInv'
  <2>1. ASSUME NEW j \in Task PROVE TimerFits(tasks'[j], live'[j], started')
    <3>1. CASE j = k
      <4>1. live[k] = 0
        BY <1>1, <1>6 DEF Cron!AddTask, Cron!Scheduled, TimerFits, Cron!Absent
      <4>2. /\ live'[k] = IF kind = "interval" THEN 1 ELSE 0
            /\ tasks'[k] = [kind |-> kind, status |-> "active", runs |-> 0, limit |-> limit,
                           intervalId |-> IF kind = "interval" THEN "live" ELSE "none",
                           fired |-> FALSE]
        BY <1>1, <1>6, <4>1 DEF Cron!AddTask
      <4>3. tasks'[k] \in TaskRecord
        BY <4>2 DEF TaskRecord
      <4>4. QED
        BY <3>1, <4>2, <4>3 DEF TimerFits
    <3>2. CASE j # k
      BY <1>1, <1>6, <3>2 DEF Cron!AddTask
    <3>3. QED
      BY <3>1, <3>2
  <2>2. CronShape'
    BY <1>1, <1>6 DEF Cron!AddTask
  <2>3. QED
    BY <1>2, <2>1, <2>2
<1>7. ASSUME NEW k \in Task, Cron!RemoveTask(k) PROVE CronInv'
  <2>1. ASSUME NEW j \in Task PROVE TimerFits(tasks'[j], live'[j], started')
    <3>1. CASE j = k
      <4>1. tasks'[k] = Cron!Absent /\ live'[k] = 0
        BY <1>1, <1>7 DEF Cron!RemoveTask, Cron!Cleared, TimerFits
      <4>2. QED
        BY <3>1, <4>1, OneAbsent DEF TimerFits, Cron!Absent
    <3>2. CASE j # k
      BY <1>1, <1>7, <3>2 DEF Cron!RemoveTask
    <3>3. QED
      BY <3>1, <3>2
  <2>2. CronShape'
    BY <1>1, <1>7 DEF Cron!RemoveTask
  <2>3. QED
    BY <1>2, <2>1, <2>2
<1>8. ASSUME NEW K \in SUBSET Task, \A k \in K : tasks[k].status = "active", Cron!Execute(K)
      PROVE  CronInv'
  <2>1. ASSUME NEW k \in Task PROVE TimerFits(tasks'[k], live'[k], started')
    <3>1. CASE k \in K
      <4>1. /\ tasks'[k] = Cron!Executed(k)
            /\ live'[k] = IF Cron!Completes(k) THEN Cron!Cleared(k) ELSE live[k]
            /\ tasks[k].runs < MaxRuns
            /\ started' = started
        BY <1>8, <3>1 DEF Cron!Execute
      <4>2. tasks[k] \in TaskRecord /\ tasks[k].runs + 1 \in 0..MaxRuns
        <5>1. tasks[k] # Cron!Absent
          BY <1>8, <3>1 DEF Cron!Absent
        <5>2. tasks[k] \in TaskRecord
          BY <1>1, <5>1, OneAbsent DEF TimerFits
        <5>3. QED
          BY <4>1, <5>2 DEF TaskRecord
      <4>3. CASE Cron!Completes(k)
        <5>1. /\ tasks'[k] \in TaskRecord
              /\ tasks'[k].status = "completed"
              /\ tasks'[k].intervalId # "live"
          BY <4>1, <4>2, <4>3 DEF Cron!Executed, TaskRecord
        <5>2. live'[k] = 0
          BY <1>1, <4>1, <4>3 DEF TimerFits, Cron!Cleared
        <5>3. QED
          BY <5>1, <5>2 DEF TimerFits
      <4>4. CASE ~Cron!Completes(k)
        BY ZenonT(60), <1>1, <1>8, <3>1, <4>1, <4>2, <4>4 DEF Cron!Executed, TimerFits, TaskRecord
      <4>5. QED
        BY <4>3, <4>4
    <3>2. CASE k \notin K
      BY <1>1, <1>8, <3>2 DEF Cron!Execute
    <3>3. QED
      BY <3>1, <3>2
  <2>2. CronShape'
    BY <1>1, <1>8 DEF Cron!Execute
  <2>3. QED
    BY <1>2, <2>1, <2>2
<1>9. ASSUME NEW k \in Task, Cron!TimerFires(k) PROVE CronInv'
  BY <1>8, <1>9 DEF Cron!TimerFires
<1>10. ASSUME NEW matching \in SUBSET Task, Cron!Tick(matching) PROVE CronInv'
  BY <1>8, <1>10 DEF Cron!Tick
<1>11. CASE UNCHANGED cronVars
  BY <1>1, <1>2, <1>11 DEF cronVars
<1>12. QED
  BY <1>3, <1>4, <1>5, <1>6, <1>7, <1>9, <1>10, <1>11 DEF Cron!Next

(* However tasks are added, removed and completed and the scheduler is     *)
(* stopped and started, the timers that run are those of the active        *)
(* interval tasks (cron.ts:14-55, 86-100, 148-151).                        *)
THEOREM TimersAreThoseOfTasks == Spec => []TimersMatchTasks
<1>1. Init => CronInv
  BY CronInitially
<1>2. CronInv /\ [Next]_vars => CronInv'
  BY CronStep, StepOfEach
<1>3. CronInv => TimersMatchTasks
  BY DEF CronInv, TimersMatchTasks
<1>4. QED
  BY <1>1, <1>2, <1>3, PTL DEF Spec

-----------------------------------------------------------------------------
(* MailboxDecisions *)

\* The row of a question tells which answer was accepted; a call that expires or
\* has returned has a row, which is final once the update was executed.
DecisionInv ==
  /\ Decisions!TypeOK
  /\ accepted = IF ask # Decisions!NoRow /\ ask.answered THEN {ask.answer} ELSE {}
  /\ \A w \in Waiter :
       /\ asking[w] \in {"expiring", "expired", "returned"} => ask \in Decisions!AskRows
       /\ asking[w] \in {"expired", "returned"} => ask.answered \/ ask.timedOut
       /\ asking[w] = "returned" => told[w] = ask
       /\ waiting[w] = "returned" => /\ gate \in Decisions!GateRows
                                     /\ gate.resolved
                                     /\ passed[w] = gate.resolution

LEMMA RowsAreRows ==
  /\ Decisions!NoRow \notin Decisions!AskRows
  /\ Decisions!NoRow \notin Decisions!GateRows
<1>1. ASSUME NEW r \in Decisions!AskRow PROVE r # Decisions!NoRow
  BY DEF Decisions!AskRow, Decisions!NoRow
<1>2. ASSUME NEW r \in Decisions!GateRow PROVE r # Decisions!NoRow
  BY DEF Decisions!GateRow, Decisions!NoRow
<1>3. QED
  BY <1>1, <1>2 DEF Decisions!AskRows, Decisions!GateRows

LEMMA DecisionsInitially == Init => DecisionInv
<1> SUFFICES ASSUME Init PROVE DecisionInv
  OBVIOUS
<1>1. Decisions!Init
  BY DEF Init
<1>2. QED
  BY <1>1 DEF Decisions!Init, DecisionInv, Decisions!TypeOK

LEMMA DecisionStep == DecisionInv /\ [Decisions!Next]_decisionVars => DecisionInv'
<1> SUFFICES ASSUME DecisionInv, [Decisions!Next]_decisionVars PROVE DecisionInv'
  OBVIOUS
<1> USE DecisionBounds, RowsAreRows
    DEF DecisionInv, Decisions!TypeOK, Decisions!askVars, Decisions!gateVars
<1>1. CASE Decisions!PoseAsk
  <2>1. ask' \in Decisions!AskRows /\ ~ask'.answered
    BY <1>1 DEF Decisions!PoseAsk, Decisions!AskRows, Decisions!AskRow
  <2>2. QED
    BY <1>1, <2>1 DEF Decisions!PoseAsk
<1>2. CASE Decisions!Elapse
  BY <1>2 DEF Decisions!Elapse
<1>3. CASE Decisions!CreateGate
  <2>1. gate' \in Decisions!GateRows
    BY <1>3 DEF Decisions!CreateGate, Decisions!GateRows, Decisions!GateRow
  <2>2. QED
    BY <1>3, <2>1 DEF Decisions!CreateGate
<1>4. ASSUME NEW v \in Decision, Decisions!AnswerAsk(v) PROVE DecisionInv'
  <2>1. ask' \in Decisions!AskRows /\ ask'.answered /\ ask'.answer = v
    BY <1>4 DEF Decisions!AnswerAsk, Decisions!AskRows, Decisions!AskRow
  <2>2. QED
    BY <1>4, <2>1 DEF Decisions!AnswerAsk
<1>5. ASSUME NEW v \in Decision, Decisions!ResolveGate(v) PROVE DecisionInv'
  <2>1. gate' \in Decisions!GateRows
    BY <1>5 DEF Decisions!ResolveGate, Decisions!GateRows, Decisions!GateRow
  <2>2. QED
    BY <1>5, <2>1 DEF Decisions!ResolveGate
<1>6. ASSUME NEW w \in Waiter, Decisions!AwaitAsk(w) PROVE DecisionInv'
  BY <1>6 DEF Decisions!AwaitAsk
<1>7. ASSUME NEW w \in Waiter, Decisions!PollAsk(w) PROVE DecisionInv'
  BY <1>7 DEF Decisions!PollAsk, Decisions!ReturnAsk
<1>8. ASSUME NEW w \in Waiter, Decisions!ExpireAsk(w) PROVE DecisionInv'
  <2>1. /\ ask' \in Decisions!AskRows
        /\ ask'.answered \/ ask'.timedOut
        /\ ask'.answered = ask.answered /\ ask'.answer = ask.answer
    BY <1>8 DEF Decisions!ExpireAsk, Decisions!AskRows, Decisions!AskRow
  <2>2. ask.answered \/ ask.timedOut => ask' = ask
    BY <1>8 DEF Decisions!ExpireAsk, Decisions!AskRows, Decisions!AskRow
  <2>3. QED
    BY <1>8, <2>1, <2>2 DEF Decisions!ExpireAsk
<1>9. ASSUME NEW w \in Waiter, Decisions!RereadAsk(w) PROVE DecisionInv'
  BY <1>9 DEF Decisions!RereadAsk, Decisions!ReturnAsk
<1>10. ASSUME NEW w \in Waiter, Decisions!AwaitGate(w) PROVE DecisionInv'
  BY <1>10 DEF Decisions!AwaitGate
<1>11. ASSUME NEW w \in Waiter, Decisions!PollGate(w) PROVE DecisionInv'
  BY <1>11 DEF Decisions!PollGate, Decisions!GateRows, Decisions!GateRow
<1>12. ASSUME NEW w \in Waiter, Decisions!Overdue(w) PROVE DecisionInv'
  BY <1>12 DEF Decisions!Overdue
<1>13. CASE UNCHANGED decisionVars
  BY <1>13 DEF decisionVars
<1>14. QED
  BY <1>1, <1>2, <1>3, <1>4, <1>5, <1>6, <1>7, <1>8, <1>9, <1>10, <1>11, <1>12, <1>13
     DEF Decisions!Next

(* Whoever has waited for a question learns its one and final outcome, and *)
(* whoever passed a gate its one resolution, although answers, resolutions *)
(* and timeouts come from several processes (store.ts:338-375, 457-510).   *)
THEOREM OneResultForAll == Spec => []OneResult
<1>1. Init => DecisionInv
  BY DecisionsInitially
<1>2. DecisionInv /\ [Next]_vars => DecisionInv'
  BY DecisionStep, StepOfEach
<1>3. DecisionInv => OneResult
  <2> SUFFICES ASSUME DecisionInv PROVE OneResult
    OBVIOUS
  <2>1. Decisions!OneOutcome
    BY RowsAreRows DEF DecisionInv, Decisions!OneOutcome, Decisions!AskRows
  <2>2. Decisions!OneResolution
    BY DEF DecisionInv, Decisions!OneResolution
  <2>3. QED
    BY <2>1, <2>2 DEF OneResult
<1>4. QED
  BY <1>1, <1>2, <1>3, PTL DEF Spec

-----------------------------------------------------------------------------
(* FallbackManager *)

FallbackInv ==
  /\ Fallback!TypeOK
  /\ Fallback!OverrunBounded
  /\ \A c \in Caller : at[c] = "chain" => chain[c] # <<>>

\* What calls that are not under way yet could cost at most.
Slack(idle) == MaxCost * idle

LEMMA SlackProperties ==
  /\ \A n \in Nat : Slack(n) \in Nat /\ Slack(n + 1) = Slack(n) + MaxCost
  /\ \A m, n \in Nat : n <= m => Slack(n) <= Slack(m)
<1>1. ASSUME NEW n \in Nat PROVE Slack(n) \in Nat /\ Slack(n + 1) = Slack(n) + MaxCost
  BY FallbackBounds DEF Slack
<1>2. ASSUME NEW m \in Nat, NEW n \in Nat, n <= m PROVE Slack(n) <= Slack(m)
  <2>1. m - n \in Nat /\ m = n + (m - n)
    BY <1>2
  <2>2. Slack(m) = Slack(n) + MaxCost * (m - n) /\ MaxCost * (m - n) \in Nat
    BY <2>1, FallbackBounds DEF Slack
  <2>3. QED
    BY <1>1, <2>2
<1>3. QED
  BY <1>1, <1>2

\* How the calls under way are counted.
LEMMA BusyCounted ==
  /\ IsFiniteSet(Fallback!Busy) /\ IsFiniteSet(Fallback!Busy')
  /\ Cardinality(Caller) - Cardinality(Fallback!Busy) \in Nat
  /\ Cardinality(Caller) - Cardinality(Fallback!Busy') \in Nat
<1>1. Fallback!Busy \in SUBSET Caller /\ Fallback!Busy' \in SUBSET Caller
  BY DEF Fallback!Busy
<1>2. /\ IsFiniteSet(Caller)
      /\ Cardinality(Caller) \in Nat
  BY FallbackBounds, FS_CardinalityType
<1>3. /\ IsFiniteSet(Fallback!Busy) /\ Cardinality(Fallback!Busy) <= Cardinality(Caller)
      /\ IsFiniteSet(Fallback!Busy') /\ Cardinality(Fallback!Busy') <= Cardinality(Caller)
  BY <1>1, <1>2, FS_Subset
<1>4. Cardinality(Fallback!Busy) \in Nat /\ Cardinality(Fallback!Busy') \in Nat
  BY <1>3, FS_CardinalityType
<1>5. QED
  BY <1>2, <1>3, <1>4

(* The operators of the instance are those of the modules it extends.     *)
LEMMA FallbackCounts == \A S : Fallback!Cardinality(S) = Cardinality(S)
BY DEF Fallback!Cardinality, Cardinality

LEMMA ActiveChainIsChain ==
  ASSUME NEW m \in Model \cup {None} PROVE Fallback!ActiveChain(m) \in Seq(Model)
<1> DEFINE all == IF m = None THEN Chain ELSE <<m>> \o Fallback!Without(Chain, {m})
<1>1. \A s : \A T : Fallback!Without(s, T) = Without(s, T)
  BY DEF Fallback!Without, Fallback!Sublist, Without, Sublist, Fallback!Cardinality, Cardinality
<1>2. Without(Chain, {m}) \in Seq(Model)
  BY FallbackBounds, WithoutProperties
<1>3. all \in Seq(Model)
  BY <1>1, <1>2, FallbackBounds
<1> HIDE DEF all
<1>4. Without(all, unhealthy) \in Seq(Model)
  BY <1>3, WithoutProperties
<1>5. Fallback!ActiveChain(m) \in {all, Without(all, unhealthy)}
  BY <1>1 DEF Fallback!ActiveChain, all
<1>6. QED
  BY <1>3, <1>4, <1>5

LEMMA FallbackInitially == Init => FallbackInv
<1> SUFFICES ASSUME Init PROVE FallbackInv
  OBVIOUS
<1>1. Fallback!Init
  BY DEF Init
<1>2. Fallback!TypeOK /\ \A c \in Caller : at[c] # "chain"
  BY <1>1 DEF Fallback!Init, Fallback!TypeOK, Fallback!Threshold
<1>3. Fallback!OverrunBounded
  <2>1. Slack(Cardinality(Caller) - Cardinality(Fallback!Busy)) \in Nat
    BY BusyCounted, SlackProperties
  <2>2. sessionCost = 0 /\ dayCost = 0
    BY <1>1 DEF Fallback!Init
  <2>3. QED
    BY <2>1, <2>2, FallbackBounds, FallbackCounts DEF Fallback!OverrunBounded, Slack
<1>4. QED
  BY <1>2, <1>3 DEF FallbackInv

\* The calls that are not under way.
Idle == Cardinality(Caller) - Cardinality(Fallback!Busy)

LEMMA OverrunBySlack ==
  Fallback!OverrunBounded <=> /\ sessionCost < SessionLimit + Slack(Idle)
                              /\ dayCost < DayLimit + Slack(Idle)
BY FallbackCounts DEF Fallback!OverrunBounded, Slack, Idle

LEMMA FallbackStep == FallbackInv /\ [Fallback!Next]_fallbackVars => FallbackInv'
<1> SUFFICES ASSUME FallbackInv, [Fallback!Next]_fallbackVars PROVE FallbackInv'
  OBVIOUS
<1>a. /\ Idle \in Nat /\ Idle' \in Nat
      /\ Slack(Idle) \in Nat /\ Slack(Idle') \in Nat
  BY BusyCounted, SlackProperties DEF Idle
<1>b. /\ sessionCost \in Nat /\ dayCost \in Nat
      /\ sessionCost < SessionLimit + Slack(Idle) /\ dayCost < DayLimit + Slack(Idle)
      /\ SessionLimit \in Nat \ {0} /\ DayLimit \in Nat \ {0} /\ MaxCost \in Nat
  BY OverrunBySlack, FallbackBounds DEF FallbackInv, Fallback!TypeOK
\* A bound that holds for the numbers after the step holds for the state after it.
<1>c. ASSUME /\ sessionCost' < SessionLimit + Slack(Idle')
             /\ dayCost' < DayLimit + Slack(Idle'),
             Fallback!TypeOK',
             \A c \in Caller : at'[c] = "chain" => chain'[c] # <<>>
      PROVE  FallbackInv'
  <2>1. Slack(Idle)' = Slack(Idle')
    BY DEF Slack
  <2>2. (sessionCost < SessionLimit + Slack(Idle) /\ dayCost < DayLimit + Slack(Idle))'
    BY <1>c, <2>1
  <2>3. Fallback!OverrunBounded'
    BY <2>2, OverrunBySlack, PTL
  <2>4. QED
    BY <1>c, <2>3 DEF FallbackInv
<1>1. ASSUME NEW c \in Caller, NEW m \in Model \cup {None}, Fallback!Execute(c, m)
      PROVE  FallbackInv'
  <2>1. Fallback!ActiveChain(m) \in Seq(Model)
    BY ActiveChainIsChain
  <2>2. Fallback!TypeOK' /\ \A d \in Caller : at'[d] = "chain" => chain'[d] # <<>>
    BY <1>1, <2>1 DEF FallbackInv, Fallback!TypeOK, Fallback!Execute, Fallback!GoOn, Fallback!costs, Fallback!health
  <2>3. /\ sessionCost' < SessionLimit /\ dayCost' < DayLimit
        /\ sessionCost' = sessionCost /\ dayCost' = dayCost
    BY <1>1 DEF Fallback!Execute, Fallback!WithinBudget, Fallback!costs
  <2>4. QED
    BY <1>a, <1>b, <1>c, <2>2, <2>3
<1>2. ASSUME NEW c \in Caller, NEW cost \in 0..MaxCost, Fallback!Answers(c, cost)
      PROVE  FallbackInv'
  <2>1. Fallback!TypeOK' /\ \A d \in Caller : at'[d] = "chain" => chain'[d] # <<>>
    <3>1. Head(chain[c]) \in Model
      BY <1>2 DEF FallbackInv, Fallback!TypeOK, Fallback!Answers
    <3>2. QED
      BY <1>2, <3>1 DEF FallbackInv, Fallback!TypeOK, Fallback!Answers, Fallback!LogCost,
                        Fallback!Return, Fallback!Threshold
  <2>2. Idle' = Idle + 1
    <3>1. c \in Fallback!Busy /\ Fallback!Busy' = Fallback!Busy \ {c}
      BY <1>2 DEF FallbackInv, Fallback!TypeOK, Fallback!Answers, Fallback!Return, Fallback!Busy
    <3>2. Cardinality(Fallback!Busy') = Cardinality(Fallback!Busy) - 1
      BY <3>1, BusyCounted, FS_RemoveElement
    <3>3. Cardinality(Caller) \in Nat /\ Cardinality(Fallback!Busy) \in Nat
      BY FallbackBounds, BusyCounted, FS_CardinalityType
    <3>4. QED
      BY <3>2, <3>3 DEF Idle
  <2>3. sessionCost' = sessionCost + cost /\ dayCost' = dayCost + cost
    BY <1>2 DEF Fallback!Answers, Fallback!LogCost
  <2>4. Slack(Idle') = Slack(Idle) + MaxCost
    BY <1>a, <2>2, SlackProperties
  <2>5. QED
    BY SMTT(30), <1>a, <1>b, <1>c, <2>1, <2>3, <2>4
<1>3. ASSUME NEW c \in Caller, Fallback!Fails(c) PROVE FallbackInv'
  <2>1. Fallback!TypeOK' /\ \A d \in Caller : at'[d] = "chain" => chain'[d] # <<>>
    <3>1. Head(chain[c]) \in Model /\ Tail(chain[c]) \in Seq(Model)
      BY <1>3 DEF FallbackInv, Fallback!TypeOK, Fallback!Fails
    <3>2. QED
      BY <1>3, <3>1 DEF FallbackInv, Fallback!TypeOK, Fallback!Fails, Fallback!GoOn,
                        Fallback!Threshold, Fallback!costs
  <2>2. Fallback!Busy' = Fallback!Busy
    BY <1>3 DEF FallbackInv, Fallback!TypeOK, Fallback!Fails, Fallback!GoOn, Fallback!Busy
  <2>3. sessionCost' = sessionCost /\ dayCost' = dayCost
    BY <1>3 DEF Fallback!Fails, Fallback!costs
  <2>4. QED
    BY <1>b, <1>c, <2>1, <2>2, <2>3 DEF Idle
<1>4. ASSUME NEW c \in Caller, Fallback!LocalEnds(c) PROVE FallbackInv'
  <2>1. Fallback!TypeOK' /\ \A d \in Caller : at'[d] = "chain" => chain'[d] # <<>>
    BY <1>4 DEF FallbackInv, Fallback!TypeOK, Fallback!LocalEnds, Fallback!Return,
                Fallback!costs, Fallback!health
  <2>2. Slack(Idle) <= Slack(Idle')
    <3>1. Fallback!Busy' \in SUBSET Fallback!Busy
      BY <1>4 DEF FallbackInv, Fallback!TypeOK, Fallback!LocalEnds, Fallback!Return, Fallback!Busy
    <3>2. Cardinality(Fallback!Busy') <= Cardinality(Fallback!Busy)
      BY <3>1, BusyCounted, FS_Subset
    <3>3. /\ Cardinality(Caller) \in Nat /\ Cardinality(Fallback!Busy) \in Nat
          /\ Cardinality(Fallback!Busy') \in Nat
      BY FallbackBounds, BusyCounted, FS_CardinalityType
    <3>4. Idle <= Idle'
      BY <3>2, <3>3 DEF Idle
    <3>5. QED
      BY <1>a, <3>4, SlackProperties
  <2>3. sessionCost' = sessionCost /\ dayCost' = dayCost
    BY <1>4 DEF Fallback!LocalEnds, Fallback!costs
  <2>4. QED
    BY <1>a, <1>b, <1>c, <2>1, <2>2, <2>3
<1>5. ASSUME NEW m \in Model, Fallback!Rested(m) PROVE FallbackInv'
  <2>1. Fallback!TypeOK' /\ UNCHANGED <<sessionCost, dayCost, at, chain>>
    BY <1>5 DEF FallbackInv, Fallback!TypeOK, Fallback!Rested, Fallback!costs
  <2>2. QED
    BY <1>b, <1>c, <2>1 DEF Idle, Fallback!Busy, FallbackInv
<1>6. CASE Fallback!Midnight
  <2>1. Fallback!TypeOK' /\ UNCHANGED <<sessionCost, at, chain>> /\ dayCost' = 0
    BY <1>6 DEF FallbackInv, Fallback!TypeOK, Fallback!Midnight, Fallback!health
  <2>2. QED
    BY <1>a, <1>b, <1>c, <2>1 DEF Idle, Fallback!Busy, FallbackInv
<1>7. CASE Fallback!Restart
  <2>1. /\ Fallback!TypeOK' /\ sessionCost' = 0 /\ dayCost' = dayCost
        /\ at' = [c \in Caller |-> "idle"]
    BY <1>7 DEF FallbackInv, Fallback!TypeOK, Fallback!Restart, Fallback!Threshold
  <2>2. Fallback!Busy' = {}
    BY <2>1 DEF Fallback!Busy
  <2>3. Idle' = Cardinality(Caller) /\ Idle <= Cardinality(Caller)
    <3>1. Cardinality(Fallback!Busy') = 0
      BY <2>2, FS_EmptySet
    <3>2. Cardinality(Caller) \in Nat /\ Cardinality(Fallback!Busy) \in Nat
      BY FallbackBounds, BusyCounted, FS_CardinalityType
    <3>3. QED
      BY <3>1, <3>2 DEF Idle
  <2>4. Slack(Idle) <= Slack(Idle')
    BY <1>a, <2>3, SlackProperties
  <2>5. QED
    BY <1>a, <1>b, <1>c, <2>1, <2>4
<1>8. CASE UNCHANGED fallbackVars
  <2>1. Fallback!TypeOK' /\ UNCHANGED <<sessionCost, dayCost, at, chain>>
    BY <1>8 DEF FallbackInv, Fallback!TypeOK, fallbackVars
  <2>2. QED
    BY <1>b, <1>c, <2>1 DEF Idle, Fallback!Busy, FallbackInv
<1>9. QED
  BY <1>1, <1>2, <1>3, <1>4, <1>5, <1>6, <1>7, <1>8 DEF Fallback!Next

(* A limit is overrun by no more than the calls that were under way when   *)
(* it was reached can cost, across midnight and across sessions            *)
(* (fallbackManager.ts:399-411, 452-478).                                  *)
THEOREM BudgetOverrunIsBounded == Spec => []OverrunBounded
<1>1. Init => FallbackInv
  BY FallbackInitially
<1>2. FallbackInv /\ [Next]_vars => FallbackInv'
  BY FallbackStep, StepOfEach
<1>3. FallbackInv => OverrunBounded
  BY DEF FallbackInv, OverrunBounded
<1>4. QED
  BY <1>1, <1>2, <1>3, PTL DEF Spec

-----------------------------------------------------------------------------
(* EditReview *)

\* The active run has found the user's own mode, a run that is new has no tool on
\* its way, and a pending proposal is one that its tool waits for.
ReviewInv ==
  /\ Review!TypeOK
  /\ Review!EditsAreAccepted
  /\ Review!ModeOfActiveRun
  /\ active # NoRun => run[active] = "running" /\ previous[active] = "custom"
  /\ \A r \in Run : run[r] = "new" => tool[r] = "idle"
  /\ \A r \in pending : tool[r] = "review"

LEMMA ReviewInitially == Init => ReviewInv
<1> SUFFICES ASSUME Init PROVE ReviewInv
  OBVIOUS
<1>1. Review!Init
  BY DEF Init
<1>2. (CHOOSE f \in File : TRUE) \in File
  BY ReviewBounds
<1>3. Review!TypeOK
  BY <1>1, <1>2, ReviewBounds
     DEF Review!Init, Review!TypeOK, Review!Content, Review!NoCopy, Review!Absent
<1>4. QED
  BY <1>1, <1>3
     DEF Review!Init, ReviewInv, Review!EditsAreAccepted, Review!ModeOfActiveRun

(* The modes of the runs, and how the tool of each run gets on. *)
LEMMA WriteTypes ==
  ASSUME Review!TypeOK, NEW r \in Run, NEW f \in File,
         Review!Write(r, f) \/ UNCHANGED <<disk, writes, wrote>>
  PROVE  /\ disk' \in [File -> Review!Content]
         /\ writes' \in 0..MaxWrites
         /\ wrote' \in [Run -> SUBSET Review!Content]
<1>1. CASE UNCHANGED <<disk, writes, wrote>>
  BY <1>1 DEF Review!TypeOK
<1>2. CASE Review!Write(r, f)
  <2>1. writes + 1 \in Review!Content /\ writes + 1 \in 0..MaxWrites
    BY <1>2, ReviewBounds DEF Review!Write, Review!TypeOK, Review!Content
  <2>2. QED
    BY <1>2, <2>1 DEF Review!Write, Review!TypeOK
<1>3. QED
  BY <1>1, <1>2

LEMMA ReviewStep == ReviewInv /\ [Review!Next]_reviewVars => ReviewInv'
<1> SUFFICES ASSUME ReviewInv, [Review!Next]_reviewVars PROVE ReviewInv'
  OBVIOUS
<1> USE ReviewBounds
    DEF ReviewInv, Review!TypeOK, Review!EditsAreAccepted, Review!ModeOfActiveRun,
        Review!Content, Review!NoCopy, Review!Absent, Review!Move, Review!runVars,
        Review!checkpoints
<1>1. ASSUME NEW r \in Run, NEW m \in {"custom", "auto"}, Review!StartRun(r, m)
      PROVE  ReviewInv'
  BY <1>1 DEF Review!StartRun
<1>2. ASSUME NEW r \in Run, Review!EndRun(r) PROVE ReviewInv'
  <2>1. /\ order' \in Seq(Run)
        /\ copy' \in [Run -> [File -> Review!Content \cup {Review!NoCopy}]]
        /\ marker' \in [Run -> SUBSET File]
    <3> DEFINE S == {Len(order), KeepRuns}
    <3>1. \E x \in S : \A y \in S : x <= y
      BY SmallestNumber
    <3>2. Review!Min(S) \in S /\ \A y \in S : Review!Min(S) <= y
      <4> HIDE DEF S
      <4>1. QED
        BY <3>1 DEF Review!Min
    <3>3. Review!Min(S) \in Nat /\ Review!Min(S) <= Len(order)
      BY <3>2
    <3>4. order' = [i \in 1..Review!Min(S) |-> order[i]]
      BY <1>2 DEF Review!EndRun, Review!Pruned
    <3> HIDE DEF S
    <3>5. order' \in Seq(Run)
      <4>1. PICK n \in Nat : n = Review!Min(S)
        BY <3>3
      <4>2. \A i \in 1..n : order[i] \in Run
        BY <3>3, <4>1
      <4>3. order' = [i \in 1..n |-> order[i]]
        BY <3>4, <4>1
      <4>4. QED
        BY <4>2, <4>3
    <3>6. QED
      BY <1>2, <3>5 DEF Review!EndRun, Review!Pruned
  <2>2. QED
    BY <1>2, <2>1 DEF Review!EndRun, Review!Drained
<1>3. ASSUME NEW r \in Run, Review!CallTool(r) PROVE ReviewInv'
  BY <1>3 DEF Review!CallTool
<1>4. ASSUME NEW r \in Run, NEW f \in File, Review!EditUnreviewed(r, f) PROVE ReviewInv'
  BY <1>4 DEF Review!EditUnreviewed, Review!Write
<1>5. ASSUME NEW r \in Run, NEW f \in File, Review!AskApproval(r, f) PROVE ReviewInv'
  BY <1>5 DEF Review!AskApproval
<1>6. ASSUME NEW r \in Run, NEW f \in File, Review!ReadOriginal(r, f) PROVE ReviewInv'
  BY <1>6 DEF Review!ReadOriginal
<1>7. ASSUME NEW r \in Run, Review!Approval(r) PROVE ReviewInv'
  <2>1. /\ edit[r].file \in File
        /\ Review!Write(r, edit[r].file) \/ UNCHANGED <<disk, writes, wrote>>
    BY <1>7 DEF Review!Approval
  <2>2. /\ disk' \in [File -> Review!Content] /\ writes' \in 0..MaxWrites
        /\ wrote' \in [Run -> SUBSET Review!Content]
    BY <2>1, WriteTypes
  <2>3. QED
    BY <1>7, <2>2 DEF Review!Approval
<1>8. ASSUME NEW r \in Run, Review!ProposeThrows(r) \/ Review!Propose(r) PROVE ReviewInv'
  <2>1. CASE Review!ProposeThrows(r)
    BY <2>1 DEF Review!ProposeThrows
  <2>2. CASE Review!Propose(r)
    BY <2>2 DEF Review!Propose
  <2>3. QED
    BY <1>8, <2>1, <2>2
<1>9. ASSUME NEW r \in Run, NEW accepted_ \in BOOLEAN, Review!Answer(r, accepted_)
      PROVE  ReviewInv'
  BY <1>9 DEF Review!Answer
<1>10. ASSUME NEW r \in Run, Review!ProposalTimesOut(r) PROVE ReviewInv'
  BY <1>10 DEF Review!ProposalTimesOut
<1>11. ASSUME NEW r \in Run, Review!Checkpoint(r) PROVE ReviewInv'
  <2>1. <<r>> \o Review!Without(order, {r}) \in Seq(Run)
    <3>1. Review!Without(order, {r}) = Without(order, {r})
      BY DEF Review!Without, Review!Sublist, Without, Sublist, Review!Cardinality, Cardinality
    <3>2. Without(order, {r}) \in Seq(Run)
      BY WithoutProperties
    <3>3. QED
      BY <3>1, <3>2
  <2>2. order' \in Seq(Run)
    BY <1>11, <2>1 DEF Review!Checkpoint
  <2>3. /\ copy' \in [Run -> [File -> Review!Content \cup {Review!NoCopy}]]
        /\ marker' \in [Run -> SUBSET File]
    <3>1. edit[r].file \in File /\ edit[r].original \in Review!Content
      OBVIOUS
    <3>2. \/ UNCHANGED <<copy, marker>>
          \/ /\ marker' = [marker EXCEPT ![r] = @ \cup {edit[r].file}]
             /\ UNCHANGED copy
          \/ /\ copy' = [copy EXCEPT ![r][edit[r].file] = edit[r].original]
             /\ UNCHANGED marker
      BY <1>11 DEF Review!Checkpoint
    <3>3. [copy[r] EXCEPT ![edit[r].file] = edit[r].original]
            \in [File -> Review!Content \cup {Review!NoCopy}]
      BY <3>1
    <3>4. CASE copy' = [copy EXCEPT ![r][edit[r].file] = edit[r].original] /\ UNCHANGED marker
      BY <3>3, <3>4
    <3>5. CASE /\ marker' = [marker EXCEPT ![r] = @ \cup {edit[r].file}]
               /\ UNCHANGED copy
      BY <3>1, <3>5
    <3>6. QED
      BY <3>2, <3>4, <3>5
  <2>4. QED
    BY <1>11, <2>2, <2>3 DEF Review!Checkpoint
<1>12. ASSUME NEW r \in Run, Review!Apply(r) PROVE ReviewInv'
  <2>1. /\ edit[r].file \in File
        /\ Review!Write(r, edit[r].file) \/ UNCHANGED <<disk, writes, wrote>>
    BY <1>12 DEF Review!Apply
  <2>2. /\ disk' \in [File -> Review!Content] /\ writes' \in 0..MaxWrites
        /\ wrote' \in [Run -> SUBSET Review!Content]
    BY <2>1, WriteTypes
  <2>3. QED
    BY <1>12, <2>2 DEF Review!Apply
<1>13. ASSUME NEW f \in File, Review!WriteElsewhere(f) PROVE ReviewInv'
  BY <1>13 DEF Review!WriteElsewhere
<1>14. CASE UNCHANGED reviewVars
  BY <1>14 DEF reviewVars
<1>15. QED
  <2>1. ASSUME NEW r \in Run, NEW f \in File,
               Review!EditUnreviewed(r, f) \/ Review!AskApproval(r, f)
                 \/ Review!ReadOriginal(r, f)
        PROVE  ReviewInv'
    BY <1>4, <1>5, <1>6, <2>1
  <2>2. ASSUME NEW r \in Run,
               \/ Review!EndRun(r) \/ Review!CallTool(r) \/ Review!Approval(r)
               \/ Review!ProposeThrows(r) \/ Review!Propose(r) \/ Review!ProposalTimesOut(r)
               \/ Review!Checkpoint(r) \/ Review!Apply(r)
        PROVE  ReviewInv'
    BY <1>2, <1>3, <1>7, <1>8, <1>10, <1>11, <1>12, <2>2
  <2>3. CASE Review!Next
    BY <1>1, <1>9, <1>13, <2>1, <2>2, <2>3, ZenonT(60) DEF Review!Next
  <2>4. QED
    BY <1>14, <2>3

(* A run that is not in mode "auto" writes a file only when the user has   *)
(* accepted this very edit (server.mjs:424-431, 471-479, 2079-2082).       *)
THEOREM WrittenEditsWereAccepted == Spec => []EditsAreAccepted
<1>1. Init => ReviewInv
  BY ReviewInitially
<1>2. ReviewInv /\ [Next]_vars => ReviewInv'
  BY ReviewStep, StepOfEach
<1>3. ReviewInv => EditsAreAccepted
  BY DEF ReviewInv, EditsAreAccepted
<1>4. QED
  BY <1>1, <1>2, <1>3, PTL DEF Spec

(* The global permission mode is that of the active run, and the user's    *)
(* own when none is, although the tool of a run that timed out goes on     *)
(* after the next run has begun (server.mjs:2024-2025, 2086-2100, 2562).   *)
THEOREM ModeIsOfActiveRun == Spec => []ModeOfActiveRun
<1>1. Init => ReviewInv
  BY ReviewInitially
<1>2. ReviewInv /\ [Next]_vars => ReviewInv'
  BY ReviewStep, StepOfEach
<1>3. ReviewInv => ModeOfActiveRun
  BY DEF ReviewInv, ModeOfActiveRun
<1>4. QED
  BY <1>1, <1>2, <1>3, PTL DEF Spec

-----------------------------------------------------------------------------
(* CommunicationServer *)

\* The socket of a device, while it is open, has that device at its other end.
DeviceFits(v, d) ==
  /\ v \in [socket : 0..opened, connected : BOOLEAN, secret : 0..secrets]
  /\ v.connected => v.socket \in room \cap Server!Open
  /\ v.socket \in Server!Open => owner[v.socket] = d

LifeInv ==
  /\ listening \in BOOLEAN /\ closing \in BOOLEAN
  /\ code \in [over : BOOLEAN, locked : BOOLEAN, misses : 0..(MaxMisses - 1)]
  /\ refresh \in {"idle", "running", "disposed"}

SocketInv ==
  /\ opened \in 0..MaxSockets
  /\ owner \in [Server!Socket -> Device \cup {NoDevice}]
  /\ room \subseteq Server!Open
  /\ \A s \in Server!Open : s <= opened

DeviceInv ==
  /\ devices = [d \in Device |-> devices[d]]
  /\ \A d \in Device : DeviceFits(devices[d], d)

SecretInv ==
  /\ paired \in [Device -> 0..secrets]
  /\ secrets \in 0..MaxPairs
  /\ token \in [Device -> 0..secrets]

ApprovalInv ==
  /\ approving \in BOOLEAN
  /\ listed \subseteq {c \in Command : approval[c] = "waiting"}
  /\ approval \in [Command -> {"none", "waiting", "approved", "rejected"}]

ServerInv == LifeInv /\ SocketInv /\ DeviceInv /\ SecretInv /\ ApprovalInv

LEMMA ServerHolds == ServerInv => Server!TypeOK /\ Server!ConnectedCanHear
<1> SUFFICES ASSUME ServerInv PROVE Server!TypeOK /\ Server!ConnectedCanHear
  OBVIOUS
<1> USE DEF ServerInv, DeviceInv, DeviceFits
<1>1. Server!ConnectedCanHear
  BY DEF Server!ConnectedCanHear
<1>2. devices \in [Device -> [socket : 0..opened, connected : BOOLEAN, secret : 0..secrets]]
  OBVIOUS
<1>3. Server!TypeOK
  BY <1>2 DEF Server!TypeOK, LifeInv, SocketInv, SecretInv, ApprovalInv
<1>4. QED
  BY <1>1, <1>3

LEMMA ServerInitially == Init => ServerInv
<1> SUFFICES ASSUME Init PROVE ServerInv
  OBVIOUS
<1>1. Server!Init
  BY DEF Init
<1> USE ServerBounds DEF Server!Init, Server!Open, Server!Socket
<1>2. LifeInv
  <2>1. 0 \in 0..(MaxMisses - 1)
    OBVIOUS
  <2>2. QED
    BY <1>1, <2>1 DEF LifeInv
<1>3. SocketInv /\ SecretInv /\ ApprovalInv
  <2>1. 0 \in 0..MaxSockets /\ 0 \in 0..MaxPairs
    OBVIOUS
  <2>2. SocketInv
    BY <1>1, <2>1 DEF SocketInv
  <2>3. SecretInv
    BY <1>1, <2>1 DEF SecretInv
  <2>4. ApprovalInv
    BY <1>1 DEF ApprovalInv
  <2>5. QED
    BY <2>2, <2>3, <2>4
<1>4. DeviceInv
  BY <1>1 DEF DeviceInv, DeviceFits, Server!Unknown
<1>5. QED
  BY <1>2, <1>3, <1>4 DEF ServerInv

LEMMA ServerStep == ServerInv /\ [Server!Next]_serverVars => ServerInv'
<1> SUFFICES ASSUME ServerInv, [Server!Next]_serverVars PROVE ServerInv'
  OBVIOUS
<1> USE ServerBounds
    DEF ServerInv, Server!server, Server!pairing, Server!sockets, Server!registry,
        Server!approvals, Server!sessions
<1>1. CASE Server!Start
  <2>1. LifeInv' /\ SocketInv' /\ SecretInv' /\ ApprovalInv'
    BY <1>1 DEF Server!Start, LifeInv, SocketInv, SecretInv, ApprovalInv, Server!Open
  <2>2. DeviceInv'
    <3>1. ASSUME NEW d \in Device PROVE DeviceFits(devices[d], d)'
      <4>1. CASE paired[d] # 0
        <5>1. devices'[d] = [socket |-> 0, connected |-> FALSE, secret |-> paired[d]]
          BY <1>1, <4>1 DEF Server!Start, Server!Unknown
        <5>2. paired[d] \in 0..secrets /\ opened \in Nat /\ 0 \notin Server!Open'
          BY DEF SecretInv, SocketInv, Server!Open, Server!Socket
        <5>3. secrets' = secrets /\ opened' = opened
          BY <1>1 DEF Server!Start
        <5>4. QED
          BY <5>1, <5>2, <5>3 DEF DeviceFits
      <4>2. CASE paired[d] = 0
        <5>1. devices'[d] = devices[d]
          BY <1>1, <4>2 DEF Server!Start
        <5>2. QED
          BY <1>1, <5>1 DEF Server!Start, DeviceInv, DeviceFits, Server!Open
      <4>3. QED
        BY <4>1, <4>2
    <3>2. QED
      BY <1>1, <3>1 DEF Server!Start, DeviceInv
  <2>3. QED
    BY <2>1, <2>2
<1>2. CASE Server!Stop
  <2>1. LifeInv' /\ SocketInv' /\ SecretInv' /\ ApprovalInv'
    BY <1>2 DEF Server!Stop, Server!Disabled, Server!Close, LifeInv, SocketInv, SecretInv,
                ApprovalInv, Server!Open
  <2>2. DeviceInv'
    BY <1>2 DEF Server!Stop, Server!Close, Server!Disconnected, DeviceInv, DeviceFits, Server!Open
  <2>3. QED
    BY <2>1, <2>2
<1>3. CASE Server!Stopped
  <2>1. LifeInv' /\ SocketInv' /\ SecretInv' /\ ApprovalInv'
    BY <1>3 DEF Server!Stopped, LifeInv, SocketInv, SecretInv, ApprovalInv, Server!Open
  <2>2. DeviceInv'
    <3>1. opened' = opened /\ opened \in Nat /\ secrets' = secrets /\ secrets \in Nat
      BY <1>3 DEF Server!Stopped, SocketInv, SecretInv
    <3>2. 0 \notin Server!Open'
      BY DEF Server!Open, Server!Socket
    <3>3. devices' = [d \in Device |-> [socket |-> 0, connected |-> FALSE, secret |-> 0]]
      BY <1>3 DEF Server!Stopped, Server!Unknown
    <3>4. QED
      BY <3>1, <3>2, <3>3 DEF DeviceInv, DeviceFits
  <2>3. QED
    BY <2>1, <2>2
<1>4. ASSUME NEW s \in Server!Socket, NEW d \in Device, Server!Connect(d, s) PROVE ServerInv'
  <2>1. /\ s = opened + 1 /\ opened' = s /\ owner' = [owner EXCEPT ![s] = d]
        /\ UNCHANGED <<secrets, listening, closing, code, refresh, paired, token, approving,
                       listed, approval>>
        /\ \/ UNCHANGED <<devices, room>>
           \/ devices' = [devices EXCEPT ![d].socket = s] /\ room' = room \cup {s}
    BY <1>4 DEF Server!Connect, Server!Confirmed
  <2>2. LifeInv' /\ SecretInv' /\ ApprovalInv'
    BY <2>1 DEF LifeInv, SecretInv, ApprovalInv
  <2>3. SocketInv'
    BY <2>1 DEF SocketInv, Server!Open, Server!Socket
  <2>4. DeviceInv'
    <3>1. ASSUME NEW e \in Device, e # d \/ UNCHANGED <<devices, room>>
          PROVE  DeviceFits(devices[e], e)' /\ devices'[e] = devices[e]
      <4>1. devices'[e] = devices[e] /\ room \subseteq room'
        BY <2>1, <3>1 DEF DeviceInv
      <4>2. QED
        BY <2>1, <4>1 DEF DeviceInv, DeviceFits, SocketInv, Server!Open, Server!Socket
    <3>2. ASSUME devices' = [devices EXCEPT ![d].socket = s], room' = room \cup {s}
          PROVE  DeviceFits(devices[d], d)'
      <4>1. devices'[d] = [devices[d] EXCEPT !.socket = s]
        BY <3>2 DEF DeviceInv
      <4>2. QED
        BY SMTT(30), <2>1, <3>2, <4>1 DEF DeviceInv, DeviceFits, SocketInv, Server!Open, Server!Socket
    <3>3. QED
      BY <2>1, <3>1, <3>2 DEF DeviceInv
  <2>5. QED
    BY <2>2, <2>3, <2>4
<1>5. ASSUME NEW s \in Server!Socket, Server!Disconnect(s) PROVE ServerInv'
  <2>1. LifeInv' /\ SocketInv' /\ SecretInv' /\ ApprovalInv'
    BY <1>5 DEF Server!Disconnect, Server!Close, LifeInv, SocketInv, SecretInv,
                ApprovalInv, Server!Open
  <2>2. DeviceInv'
    BY ZenonT(60), <1>5 DEF Server!Disconnect, Server!Close, Server!Disconnected, DeviceInv, DeviceFits,
                SocketInv, Server!Open
  <2>3. QED
    BY <2>1, <2>2
<1>6. ASSUME NEW s \in Server!Socket, Server!WrongCode(s) PROVE ServerInv'
  <2>1. LifeInv'
    <3>1. CASE code.misses + 1 >= MaxMisses
      <4>1. 0 \in 0..(MaxMisses - 1)
        OBVIOUS
      <4>2. /\ code' = [code EXCEPT !.locked = TRUE, !.misses = 0]
            /\ UNCHANGED <<listening, closing, refresh>>
        BY <1>6, <3>1 DEF Server!WrongCode
      <4>3. QED
        BY <4>1, <4>2 DEF LifeInv
    <3>2. CASE ~ (code.misses + 1 >= MaxMisses)
      <4>1. code.misses + 1 \in 0..(MaxMisses - 1)
        BY <3>2 DEF LifeInv
      <4>2. code' = [code EXCEPT !.misses = @ + 1] /\ UNCHANGED <<listening, closing, refresh>>
        BY <1>6, <3>2 DEF Server!WrongCode
      <4>3. QED
        BY <4>1, <4>2 DEF LifeInv
    <3>3. QED
      BY <3>1, <3>2
  <2>2. QED
    BY <1>6, <2>1 DEF Server!WrongCode, SocketInv, SecretInv, ApprovalInv, DeviceInv,
                      DeviceFits, Server!Open
<1>7. ASSUME NEW s \in Server!Socket, Server!PairByCode(s) PROVE ServerInv'
  <2>1. PICK d \in Device : d = owner[s]
    BY <1>7 DEF Server!PairByCode, SocketInv, Server!Open
  <2>2. /\ s \in Server!Open /\ secrets' = secrets + 1 /\ secrets < MaxPairs
        /\ devices' = [devices EXCEPT ![d] =
                        [socket |-> s, connected |-> TRUE, secret |-> secrets + 1]]
        /\ paired' \in {paired, [e \in Device |-> devices'[e].secret]}
        /\ token' \in {token, [token EXCEPT ![d] = secrets + 1]}
        /\ room' = room \cup {s}
        /\ code' = [code EXCEPT !.misses = 0]
        /\ UNCHANGED <<listening, closing, refresh, opened, owner, approving, listed, approval>>
    BY <1>7, <2>1 DEF Server!PairByCode
  <2>3. LifeInv' /\ SocketInv' /\ ApprovalInv'
    BY <2>2 DEF LifeInv, SocketInv, ApprovalInv, Server!Open
  <2>4. DeviceInv'
    <3>1. ASSUME NEW e \in Device, e # d PROVE DeviceFits(devices[e], e)'
      <4>1. devices'[e] = devices[e]
        BY <2>2, <3>1 DEF DeviceInv
      <4>2. QED
        BY <2>2, <4>1 DEF DeviceInv, DeviceFits, SecretInv, Server!Open
    <3>2. DeviceFits(devices[d], d)'
      <4>1. devices'[d] = [socket |-> s, connected |-> TRUE, secret |-> secrets + 1]
        BY <2>2 DEF DeviceInv
      <4>2. s \in 0..opened
        BY <2>2 DEF SocketInv, Server!Socket
      <4>3. QED
        <5>1. devices'[d] \in [socket : 0..opened', connected : BOOLEAN, secret : 0..secrets']
          <6>1. secrets + 1 \in 0..secrets' /\ opened' = opened
            BY <2>2 DEF SecretInv
          <6>2. QED
            BY <4>1, <4>2, <6>1
        <5>2. /\ devices'[d].socket = s /\ s \in room' /\ owner'[s] = d
              /\ s \in Server!Open'
          BY <2>1, <2>2, <4>1 DEF Server!Open
        <5>3. QED
          BY <5>1, <5>2 DEF DeviceFits
    <3>3. QED
      BY <2>2, <3>1, <3>2 DEF DeviceInv
  <2>5. SecretInv'
    <3>1. [e \in Device |-> devices'[e].secret] \in [Device -> 0..secrets']
      BY <2>4 DEF DeviceInv, DeviceFits
    <3>2. QED
      BY <2>2, <3>1 DEF SecretInv
  <2>6. QED
    BY <2>3, <2>4, <2>5
<1>8. ASSUME NEW s \in Server!Socket, Server!Resume(s) PROVE ServerInv'
  <2>1. PICK d \in Device : d = owner[s]
    BY <1>8 DEF Server!Resume, SocketInv, Server!Open
  <2>2. PICK older : older = {devices[d].socket} \cap (Server!Open \ {s})
    OBVIOUS
  <2>3. /\ s \in Server!Open
        /\ owner' = [t \in Server!Socket |-> IF t \in older THEN NoDevice ELSE owner[t]]
        /\ room' = (room \ older) \cup {s}
        /\ devices' = [devices EXCEPT ![d].socket = s, ![d].connected = TRUE]
        /\ UNCHANGED <<opened, listening, closing, code, refresh, paired, secrets, token,
                       approving, listed, approval>>
    BY <1>8, <2>1, <2>2 DEF Server!Resume, Server!Close
  <2>4. LifeInv' /\ SecretInv' /\ ApprovalInv'
    BY <2>3 DEF LifeInv, SecretInv, ApprovalInv
  <2>5. SocketInv'
    BY <2>2, <2>3 DEF SocketInv, Server!Open, Server!Socket
  <2>6. DeviceInv'
    <3>1. ASSUME NEW e \in Device, e # d PROVE DeviceFits(devices[e], e)'
      <4>1. devices'[e] = devices[e]
        BY <2>3, <3>1 DEF DeviceInv
      <4>2. QED
        BY <2>2, <2>3, <3>1, <4>1 DEF DeviceInv, DeviceFits, SocketInv, Server!Open
    <3>2. DeviceFits(devices[d], d)'
      <4>1. devices'[d] = [devices[d] EXCEPT !.socket = s, !.connected = TRUE]
        BY <2>3 DEF DeviceInv
      <4>2. s \in 0..opened
        BY <2>3 DEF SocketInv, Server!Socket
      <4>3. QED
        BY <2>1, <2>2, <2>3, <4>1, <4>2 DEF DeviceInv, DeviceFits, SocketInv, Server!Open
    <3>3. QED
      BY <2>3, <3>1, <3>2 DEF DeviceInv
  <2>7. QED
    BY <2>4, <2>5, <2>6
<1>9. ASSUME NEW s \in Server!Socket, Server!ResumeRefused(s) PROVE ServerInv'
  BY <1>9 DEF Server!ResumeRefused, LifeInv, SocketInv, SecretInv, ApprovalInv, DeviceInv,
              DeviceFits, Server!Open
<1>10. ASSUME NEW c \in Command, NEW answer \in {"approved", "rejected"}, Server!Settle(c, answer)
       PROVE  ServerInv'
  BY <1>10 DEF Server!Settle, LifeInv, SocketInv, SecretInv, ApprovalInv, DeviceInv,
               DeviceFits, Server!Open
<1>11. CASE Server!CodeOver \/ Server!Regenerate \/ Server!LockoutOver
  <2>1. LifeInv'
    <3>1. CASE Server!CodeOver
      BY <3>1 DEF Server!CodeOver, LifeInv
    <3>2. CASE Server!Regenerate
      BY <3>2 DEF Server!Regenerate, Server!Fresh, LifeInv
    <3>3. CASE Server!LockoutOver
      BY <3>3 DEF Server!LockoutOver, LifeInv
    <3>4. QED
      BY <1>11, <3>1, <3>2, <3>3
  <2>2. QED
    BY <1>11, <2>1
       DEF Server!CodeOver, Server!Regenerate, Server!LockoutOver, SocketInv, SecretInv,
           ApprovalInv, DeviceInv, DeviceFits, Server!Open
<1>12. CASE Server!Enable \/ Server!Disable
  <2>1. ApprovalInv'
    BY <1>12 DEF Server!Enable, Server!Disable, Server!Disabled, ApprovalInv
  <2>2. UNCHANGED <<listening, closing, code, refresh, opened, owner, room, devices, paired,
                   secrets, token>>
    BY <1>12 DEF Server!Enable, Server!Disable
  <2>3. QED
    BY <2>1, <2>2 DEF LifeInv, SocketInv, SecretInv, DeviceInv, DeviceFits, Server!Open
<1>13. ASSUME NEW c \in Command, Server!Ask(c) PROVE ServerInv'
  BY <1>13 DEF Server!Ask, LifeInv, SocketInv, SecretInv, ApprovalInv, DeviceInv, DeviceFits,
               Server!Open
<1>14. CASE UNCHANGED serverVars
  BY <1>14 DEF serverVars, LifeInv, SocketInv, SecretInv, ApprovalInv, DeviceInv, DeviceFits,
               Server!Open
<1>15. QED
  BY <1>1, <1>2, <1>3, <1>4, <1>5, <1>6, <1>7, <1>8, <1>9, <1>10, <1>11, <1>12, <1>13, <1>14
     DEF Server!Next, Server!Answer, Server!ApprovalTimesOut

(* A device that is shown as connected hears every broadcast: its socket   *)
(* is open and in the room, whichever of its sockets opened, resumed or    *)
(* was lost last (server.ts:612-633, 818-826, 876-905).                    *)
THEOREM ConnectedDevicesHear == Spec => []ConnectedCanHear
<1>1. Init => ServerInv
  BY ServerInitially
<1>2. ServerInv /\ [Next]_vars => ServerInv'
  BY ServerStep, StepOfEach
<1>3. ServerInv => ConnectedCanHear
  BY ServerHolds DEF ConnectedCanHear
<1>4. QED
  BY <1>1, <1>2, <1>3, PTL DEF Spec
=============================================================================
