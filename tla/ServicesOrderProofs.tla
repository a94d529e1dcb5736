------------------------- MODULE ServicesOrderProofs -------------------------
(***************************************************************************)
(* More proofs about Services: what the components claim about the order   *)
(* in which they serve, for every value of the constants.                  *)
(***************************************************************************)
EXTENDS ServicesProofs

-----------------------------------------------------------------------------
(* RunDirectory *)

\* The runs that were written after r.
Newer(saved, r) == {other \in SavedRun : saved[other] > saved[r]}

\* What a prune knows: a time that is older than the youngest only of a run that was
\* overtaken, one time for each run; and what it removes has successors enough.
PruneFits(s) ==
  /\ step[s] # "pruning" => names[s] = {} /\ times[s] = {} /\ old[s] = {}
  /\ names[s] # {} => old[s] = {}
  /\ \A k \in times[s] :
       /\ k[2] <= last[k[1]] /\ k[1] \notin names[s]
       /\ k[1] \notin overtaken => k[2] = last[k[1]]
       /\ \A l \in times[s] : l[1] = k[1] => l = k
  /\ \A r \in old[s] :
       /\ \E k \in times[s] : k[1] = r
       /\ r \notin overtaken => Cardinality(Newer(last, r)) >= MaxKept - 1

FileFits(r) ==
  /\ file[r] \in 0..last[r]
  /\ r \notin overtaken => file[r] \in {0, last[r]}
  /\ r \notin overtaken /\ file[r] # last[r] =>
       Cardinality(Newer(last, r)) >= MaxKept - 1

DirectoryInv ==
  /\ Directory!TypeOK
  /\ \A s \in Saver : PruneFits(s)
  /\ \A r \in SavedRun : FileFits(r)

LEMMA DirectoryCounts == \A S : Directory!Cardinality(S) = Cardinality(S)
  BY DEF Directory!Cardinality, Cardinality

LEMMA Enough ==
  ASSUME NEW m \in Nat, NEW n \in Nat, m >= MaxKept - 1, m <= n PROVE n >= MaxKept - 1
BY DirectoryBounds

LEMMA NewerIsFinite ==
  ASSUME NEW saved \in [SavedRun -> Nat], NEW r \in SavedRun
  PROVE  IsFiniteSet(Newer(saved, r)) /\ Cardinality(Newer(saved, r)) \in Nat
<1>1. Newer(saved, r) \in SUBSET SavedRun
  BY DEF Newer
<1>2. QED
  BY <1>1, DirectoryBounds, FS_Subset, FS_CardinalityType

\* A younger time of another run leaves r with as many successors at least.
LEMMA NewerGrows ==
  ASSUME NEW saved \in [SavedRun -> Nat], NEW r \in SavedRun, NEW q \in SavedRun, q # r,
         NEW t \in Nat, saved[q] <= t
  PROVE  Cardinality(Newer(saved, r)) <= Cardinality(Newer([saved EXCEPT ![q] = t], r))
<1> DEFINE later == [saved EXCEPT ![q] = t]
<1>1. later \in [SavedRun -> Nat]
  OBVIOUS
<1>2. Newer(saved, r) \in SUBSET Newer(later, r)
  BY DEF Newer
<1>3. IsFiniteSet(Newer(later, r))
  BY <1>1, NewerIsFinite
<1>4. QED
  BY <1>2, <1>3, FS_Subset

\* Files with a younger time are of different runs that were saved later.
LEMMA KnownAreNewer ==
  ASSUME NEW saved \in [SavedRun -> Nat], NEW known \in SUBSET (SavedRun \X Nat),
         \A k \in known : k[2] <= saved[k[1]],
         \A k, l \in known : l[1] = k[1] => l = k,
         NEW r \in SavedRun
  PROVE  /\ Cardinality({k \in known : k[2] > saved[r]}) \in Nat
         /\ Cardinality({k \in known : k[2] > saved[r]}) <= Cardinality(Newer(saved, r))
<1> DEFINE younger == {k \in known : k[2] > saved[r]}
           runOf == [k \in younger |-> k[1]]
<1>1. runOf \in [younger -> Newer(saved, r)]
  <2> SUFFICES ASSUME NEW k \in younger PROVE k[1] \in Newer(saved, r)
    OBVIOUS
  <2>1. k[1] \in SavedRun /\ k[2] \in Nat /\ k[2] > saved[r] /\ k[2] <= saved[k[1]]
    OBVIOUS
  <2>2. saved[k[1]] \in Nat /\ saved[r] \in Nat
    BY <2>1
  <2>3. QED
    BY <2>1, <2>2 DEF Newer
<1>2. runOf \in Injection(younger, Newer(saved, r))
  BY <1>1 DEF Injection, IsInjective
<1>3. QED
  BY <1>2, NewerIsFinite, FS_Injection, FS_CardinalityType

LEMMA DirectoryInitially == Init => DirectoryInv
<1> SUFFICES ASSUME Init PROVE DirectoryInv
  OBVIOUS
<1>1. Directory!Init
  BY DEF Init
<1>2. Directory!TypeOK
  <2>1. (CHOOSE r \in SavedRun : TRUE) \in SavedRun
    BY DirectoryBounds
  <2>2. 0 \in 0..MaxSaves
    BY DirectoryBounds
  <2>3. QED
    BY <1>1, <2>1, <2>2 DEF Directory!Init, Directory!TypeOK, Directory!Missing, Directory!Time
<1>3. QED
  BY <1>1, <1>2
     DEF Directory!Init, DirectoryInv, PruneFits, FileFits, Directory!Missing

LEMMA DirectoryStep == DirectoryInv /\ [Directory!Next]_directoryVars => DirectoryInv'
<1> SUFFICES ASSUME DirectoryInv, [Directory!Next]_directoryVars PROVE DirectoryInv'
  OBVIOUS
<1> USE DirectoryBounds DEF DirectoryInv, Directory!TypeOK, Directory!Missing, Directory!Time,
        Directory!pruning, Directory!Move
<1>1. last \in [SavedRun -> Nat]
  OBVIOUS
<1>2. ASSUME NEW s \in Saver, Directory!Rename(s) PROVE DirectoryInv'
  <2> DEFINE r == own[s]
             younger == IF last[r] < stamp[s] THEN stamp[s] ELSE last[r]
  <2>0. /\ step[s] = "written" /\ UNCHANGED <<saves, own, stamp, names, times, old>>
        /\ file' = [file EXCEPT ![r] = stamp[s]]
        /\ last' = [last EXCEPT ![r] = younger]
        /\ overtaken' = (IF stamp[s] < last[r] \/ Directory!Known(r) THEN overtaken \cup {r}
                         ELSE overtaken \ {r})
        /\ step' = [step EXCEPT ![s] = "renamed"]
    BY <1>2 DEF Directory!Rename
  <2>1. /\ r \in SavedRun /\ younger \in 0..saves /\ last[r] <= younger /\ younger \in Nat
        /\ stamp[s] \in 0..younger /\ stamp[s] \in Directory!Time \cup {0}
        /\ ~ (stamp[s] < last[r]) => younger = stamp[s]
    OBVIOUS
  <2> HIDE DEF younger
  <2>2. Directory!TypeOK'
    BY <2>0, <2>1
  <2>3. /\ overtaken \subseteq overtaken' \cup {r} /\ overtaken' \subseteq overtaken \cup {r}
        /\ stamp[s] < last[r] \/ Directory!Known(r) => r \in overtaken'
    BY <2>0
  <2>4. ASSUME NEW q \in SavedRun, q # r
        PROVE  Cardinality(Newer(last, q)) <= Cardinality(Newer(last', q))
    <3> HIDE DEF r
    <3>1. QED
      BY <1>1, <2>0, <2>1, <2>4, NewerGrows
  <2>5. ASSUME NEW q \in SavedRun
        PROVE  Cardinality(Newer(last, q)) \in Nat /\ Cardinality(Newer(last', q)) \in Nat
    <3>1. last' \in [SavedRun -> Nat]
      BY <1>1, <2>0, <2>1
    <3>2. QED
      BY <1>1, <3>1, NewerIsFinite
  <2>6. ASSUME NEW other \in Saver PROVE PruneFits(other)'
    <3>1. PruneFits(other)
      OBVIOUS
    <3>2. ASSUME NEW k \in times[other] PROVE k[1] = r => r \in overtaken'
      <4>1. k = <<k[1], k[2]>> /\ k[2] \in Directory!Time
        OBVIOUS
      <4>2. \A q : k[1] = q => <<q, k[2]>> \in times[other]
        BY <4>1
      <4>3. \A q : k[1] = q => Directory!Known(q)
        BY <4>1, <4>2, Zenon DEF Directory!Known
      <4>4. QED
        BY <2>3, <4>3
    <3>3. ASSUME NEW k \in times[other]
          PROVE  /\ k[2] <= last'[k[1]] /\ k[1] \notin names'[other]
                 /\ k[1] \notin overtaken' => k[2] = last'[k[1]]
                 /\ \A l \in times[other] : l[1] = k[1] => l = k
      <4>1. k[1] \in SavedRun /\ k[2] \in Nat
        OBVIOUS
      <4>2. /\ k[2] <= last[k[1]] /\ k[1] \notin names[other]
            /\ k[1] \notin overtaken => k[2] = last[k[1]]
            /\ \A l \in times[other] : l[1] = k[1] => l = k
        BY <3>1 DEF PruneFits
      <4>3. CASE k[1] = r
        <5>1. last'[k[1]] = younger /\ k[1] \in overtaken'
          BY <2>0, <2>1, <3>2, <4>3
        <5>2. QED
          BY <2>0, <2>1, <4>1, <4>2, <4>3, <5>1
      <4>4. CASE k[1] # r
        BY <2>0, <2>3, <4>1, <4>2, <4>4
      <4>5. QED
        BY <4>3, <4>4
    <3>4. ASSUME NEW q \in old[other], q \notin overtaken'
          PROVE  Cardinality(Newer(last', q)) >= MaxKept - 1
      <4>1. q \in SavedRun /\ q # r
        BY <3>1, <3>2, <3>4 DEF PruneFits
      <4>2. Cardinality(Newer(last, q)) >= MaxKept - 1
        BY <2>3, <3>1, <3>4, <4>1 DEF PruneFits
      <4>3. QED
        BY <2>4, <2>5, <4>1, <4>2, Enough
    <3>5. step'[other] # "pruning" => names'[other] = {} /\ times'[other] = {} /\ old'[other] = {}
      BY <2>0, <3>1 DEF PruneFits
    <3>6. QED
      BY <2>0, <3>1, <3>3, <3>4, <3>5 DEF PruneFits
  <2>7. ASSUME NEW q \in SavedRun PROVE FileFits(q)'
    <3>1. CASE q = r
      <4>1. file'[q] = stamp[s] /\ last'[q] = younger
        BY <2>0, <2>1, <3>1
      <4>2. q \notin overtaken' => stamp[s] = younger
        BY <2>1, <2>3, <3>1
      <4>3. QED
        BY <2>1, <4>1, <4>2 DEF FileFits
    <3>2. CASE q # r
      <4>1. file'[q] = file[q] /\ last'[q] = last[q] /\ (q \in overtaken' <=> q \in overtaken)
        BY <2>0, <2>3, <3>2
      <4>2. QED
        BY <2>4, <2>5, <3>2, <4>1, Enough DEF FileFits
    <3>3. QED
      BY <3>1, <3>2
  <2>8. QED
    BY <2>2, <2>6, <2>7
<1>9. ASSUME NEW s \in Saver,
             Directory!SaveFails(s) \/ \E r \in SavedRun : Directory!Write(s, r)
      PROVE  DirectoryInv'
  <2>1. /\ step[s] # "pruning" /\ UNCHANGED <<file, names, times, old, last, overtaken>>
        /\ \E where \in {"idle", "written"} : step' = [step EXCEPT ![s] = where]
    BY <1>9 DEF Directory!SaveFails, Directory!Write
  <2>2. Directory!TypeOK'
    BY <1>9 DEF Directory!SaveFails, Directory!Write
  <2>3. ASSUME NEW other \in Saver PROVE PruneFits(other)'
    <3>1. step'[other] # "pruning" => step[other] # "pruning"
      BY <2>1
    <3>2. QED
      BY <2>1, <3>1 DEF PruneFits
  <2>4. \A q \in SavedRun : FileFits(q)'
    BY <2>1 DEF FileFits
  <2>5. QED
    BY <2>2, <2>3, <2>4
<1>3. ASSUME NEW s \in Saver, Directory!ReadDirectory(s) PROVE DirectoryInv'
  <2> USE <1>3 DEF Directory!ReadDirectory
  <2>1. Directory!TypeOK'
    OBVIOUS
  <2>2. ASSUME NEW other \in Saver PROVE PruneFits(other)'
    BY DEF PruneFits
  <2>3. \A q \in SavedRun : FileFits(q)'
    BY DEF FileFits
  <2>4. QED
    BY <2>1, <2>2, <2>3
<1>4. ASSUME NEW s \in Saver, NEW r \in SavedRun, Directory!Stat(s, r) PROVE DirectoryInv'
  <2> USE <1>4 DEF Directory!Stat
  <2> DEFINE known == times[s] \cup {<<r, file[r]>>}
  <2>1. /\ file[r] <= last[r] /\ file[r] \in Directory!Time
        /\ r \notin overtaken => file[r] = last[r]
    BY DEF FileFits
  <2>2. known \in SUBSET (SavedRun \X Nat)
    BY <2>1
  <2>3. ASSUME NEW k \in known
        PROVE  /\ k[2] <= last[k[1]] /\ k[1] \notin names'[s]
               /\ k[1] \notin overtaken => k[2] = last[k[1]]
               /\ \A l \in known : l[1] = k[1] => l = k
    BY <2>1 DEF PruneFits
  <2>4. ASSUME NEW q \in Directory!BeyondLimit(known)
        PROVE  /\ \E k \in known : k[1] = q
               /\ q \notin overtaken => Cardinality(Newer(last, q)) >= MaxKept - 1
    <3>1. PICK t \in Directory!Time :
            /\ <<q, t>> \in known
            /\ Cardinality({k \in known : k[2] > t}) >= MaxKept - 1
      BY DirectoryCounts DEF Directory!BeyondLimit
    <3>2. CASE q \notin overtaken
      <4>1. q \in SavedRun /\ t = last[q]
        BY <2>3, <3>1, <3>2 DEF Directory!BeyondLimit
      <4>2. /\ \A k \in known : k[2] <= last[k[1]]
            /\ \A k, l \in known : l[1] = k[1] => l = k
        BY <2>3
      <4> HIDE DEF known
      <4>3. /\ Cardinality({k \in known : k[2] > last[q]}) \in Nat
            /\ Cardinality({k \in known : k[2] > last[q]}) <= Cardinality(Newer(last, q))
        BY <1>1, <2>2, <4>1, <4>2, KnownAreNewer
      <4>4. Cardinality(Newer(last, q)) \in Nat
        BY <1>1, <4>1, NewerIsFinite
      <4>5. QED
        BY <3>1, <4>1, <4>3, <4>4, Enough
    <3>3. QED
      BY <3>1, <3>2
  <2>5. Directory!BeyondLimit(known) \subseteq SavedRun
    BY DEF Directory!BeyondLimit
  <2> HIDE DEF known
  <2>6. /\ times' = [times EXCEPT ![s] = IF step'[s] = "idle" THEN {} ELSE known]
        /\ step' = [step EXCEPT ![s] = step'[s]]
        /\ step'[s] \in {"idle", "pruning"}
        /\ old'[s] = {} \/ old'[s] = Directory!BeyondLimit(known)
        /\ names'[s] # {} => old'[s] = {} /\ step'[s] = "pruning"
        /\ step'[s] = "idle" => old'[s] = {}
        /\ old' = [old EXCEPT ![s] = old'[s]]
        /\ names' = [names EXCEPT ![s] = names'[s]] /\ names'[s] \subseteq SavedRun
    BY DEF known
  <2>7. known \subseteq SavedRun \X Directory!Time
    BY <2>1 DEF known
  <2>8. Directory!TypeOK'
    BY <2>5, <2>6, <2>7
  <2>9. PruneFits(s)'
    <3>1. times'[s] = {} \/ times'[s] = known
      BY <2>6
    <3>2. old'[s] # {} => old'[s] = Directory!BeyondLimit(known) /\ times'[s] = known
      BY <2>6
    <3>3. last' = last /\ overtaken' = overtaken
      OBVIOUS
    <3> HIDE <1>4
    <3>4. \A k \in times'[s] :
            /\ k[2] <= last[k[1]] /\ k[1] \notin names'[s]
            /\ k[1] \notin overtaken => k[2] = last[k[1]]
            /\ \A l \in times'[s] : l[1] = k[1] => l = k
      BY <2>3, <3>1
    <3>5. \A q \in old'[s] :
            /\ \E k \in times'[s] : k[1] = q
            /\ q \notin overtaken => Cardinality(Newer(last, q)) >= MaxKept - 1
      BY <2>4, <3>2
    <3>6. /\ step'[s] # "pruning" => names'[s] = {} /\ times'[s] = {} /\ old'[s] = {}
          /\ names'[s] # {} => old'[s] = {}
      BY <2>6
    <3>7. QED
      BY <3>3, <3>4, <3>5, <3>6 DEF PruneFits
  <2>10. ASSUME NEW other \in Saver, other # s PROVE PruneFits(other)'
    BY <2>6, <2>10 DEF PruneFits
  <2>11. \A q \in SavedRun : FileFits(q)'
    BY DEF FileFits
  <2>12. QED
    BY <2>8, <2>9, <2>10, <2>11
<1>5. ASSUME NEW s \in Saver, NEW r \in SavedRun, Directory!StatThrows(s, r)
      PROVE  DirectoryInv'
  <2> USE <1>5 DEF Directory!StatThrows
  <2>1. Directory!TypeOK'
    OBVIOUS
  <2>2. ASSUME NEW other \in Saver PROVE PruneFits(other)'
    BY DEF PruneFits
  <2>3. \A q \in SavedRun : FileFits(q)'
    BY DEF FileFits
  <2>4. QED
    BY <2>1, <2>2, <2>3
<1>6. ASSUME NEW s \in Saver, NEW r \in SavedRun, Directory!Remove(s, r) PROVE DirectoryInv'
  <2> USE <1>6 DEF Directory!Remove
  <2>1. Directory!TypeOK'
    OBVIOUS
  <2>2. ASSUME NEW other \in Saver PROVE PruneFits(other)'
    BY DEF PruneFits
  <2>3. ASSUME NEW q \in SavedRun PROVE FileFits(q)'
    BY DEF FileFits, PruneFits
  <2>4. QED
    BY <2>1, <2>2, <2>3
<1>7. CASE UNCHANGED directoryVars
  BY <1>7 DEF directoryVars, PruneFits, FileFits
<1>8. QED
  BY <1>2, <1>3, <1>4, <1>5, <1>6, <1>7, <1>9 DEF Directory!Next

\* RecentKept: a run stays while fewer than maxRuns - 1 others were written after it,
\* however the saves and the prunes of several runs overlap (run-journal.mjs:92-93,
\* 161-179).
THEOREM RecentRunsAreKept == Spec => []RecentKept
<1>1. DirectoryInv => RecentKept
  <2> SUFFICES ASSUME DirectoryInv, NEW r \in SavedRun \ overtaken,
                      Cardinality(Newer(last, r)) < MaxKept - 1
               PROVE  file[r] = last[r]
    BY DirectoryCounts DEF RecentKept, Directory!RecentKept, Newer
  <2>1. last \in [SavedRun -> Nat]
    BY DEF DirectoryInv, Directory!TypeOK
  <2>2. Cardinality(Newer(last, r)) \in Nat
    BY <2>1, NewerIsFinite
  <2>3. QED
    BY <2>2, DirectoryBounds DEF DirectoryInv, FileFits
<1>2. DirectoryInv /\ [Next]_vars => DirectoryInv'
  BY StepOfEach, DirectoryStep
<1>3. QED
  BY <1>1, <1>2, DirectoryInitially, PTL DEF Spec

-----------------------------------------------------------------------------
(* WorkflowEngine *)

Frame == [step : Workflow!Step, dep : Nat \ {0}, attempt : 0..MaxAttempts]

WorkflowTypes ==
  /\ dependsOn \in Graphs
  /\ goOn \in BOOLEAN
  /\ pc \in {"start", "loop", "deps", "ready", "retry", "executing", "backoff", "caught",
            "finish", "ended"}
  /\ next \in 1..(Len(dependsOn) + 1)
  /\ stack \in Seq(Frame)
  /\ executed \subseteq Workflow!Step
  /\ aborted \in BOOLEAN
  /\ failed \in BOOLEAN
  /\ results \in [Workflow!Step -> {"none", "success", "failed", "skipped"}]
  /\ calls \in [Workflow!Step -> Nat]
  /\ rolledBack \subseteq Workflow!Step
  /\ ending \in {"none", "success", "failed", "aborted", "rejected"}

\* The dependencies that a frame has been through are done.
DoneBefore(frame) ==
  \A i \in DOMAIN dependsOn[frame.step] :
    i < frame.dep => dependsOn[frame.step][i] \in executed

\* The frames are steps that are not done, each once, and each frame waits for the one
\* above it.
StackInv ==
  /\ \A i, j \in 1..Len(stack) : stack[i].step = stack[j].step => i = j
  /\ \A i \in 1..Len(stack) :
       stack[i].step \notin executed /\ DoneBefore(stack[i])
  /\ \A i \in 1..(Len(stack) - 1) :
       /\ stack[i].attempt = 0
       /\ stack[i].dep \in DOMAIN dependsOn[stack[i].step]
       /\ dependsOn[stack[i].step][stack[i].dep] = stack[i + 1].step
  /\ stack # <<>> => stack[1].step = next

\* Where the control is, and what is known of the frame on top.
ControlInv ==
  /\ stack = <<>> <=> pc \in {"start", "loop", "caught", "finish", "ended"}
  /\ pc \in {"deps", "ready"} => stack[Len(stack)].attempt = 0
  /\ pc \in {"retry", "backoff"} => stack[Len(stack)].attempt < MaxAttempts
  /\ pc \in {"ready", "retry", "executing", "backoff"} =>
       stack[Len(stack)].dep > Len(dependsOn[stack[Len(stack)].step])
  /\ pc = "executing" => calls[stack[Len(stack)].step] > 0
  /\ pc = "caught" => next \in Workflow!Step
  /\ pc \in {"caught", "finish"} => failed

\* What has been done.
DoneInv ==
  /\ \A s \in Workflow!Step : calls[s] > 0 =>
       \A i \in DOMAIN dependsOn[s] : dependsOn[s][i] \in executed
  /\ \A s \in executed : results[s] \in {"success", "skipped"}
  /\ ~failed => 1..(next - 1) \subseteq executed /\ rolledBack = {}
  /\ ending = "success" => pc = "ended" /\ ~failed /\ executed = Workflow!Step

WorkflowInv == WorkflowTypes /\ StackInv /\ ControlInv /\ DoneInv

LEMMA GraphOfSteps ==
  ASSUME dependsOn \in Graphs
  PROVE  /\ Len(dependsOn) \in Nat
         /\ Workflow!Step = 1..Len(dependsOn)
         /\ \A s \in Workflow!Step :
              /\ dependsOn[s] \in Seq(Workflow!Step)
              /\ DOMAIN dependsOn[s] = 1..Len(dependsOn[s])
              /\ Len(dependsOn[s]) \in Nat
<1>1. dependsOn \in Seq(Seq(Workflow!Step))
  BY WorkflowBounds DEF Workflow!Step
<1>2. Len(dependsOn) \in Nat /\ Workflow!Step = 1..Len(dependsOn)
  BY <1>1 DEF Workflow!Step
<1>3. \A s \in Workflow!Step : dependsOn[s] \in Seq(Workflow!Step)
  BY <1>1, <1>2
<1>4. QED
  BY <1>2, <1>3

LEMMA WorkflowInitially == Init => WorkflowInv
<1> SUFFICES ASSUME Init PROVE WorkflowInv
  OBVIOUS
<1>1. Workflow!Init
  BY DEF Init
<1>2. dependsOn \in Graphs /\ Len(dependsOn) \in Nat
  BY <1>1, GraphOfSteps DEF Workflow!Init
<1>3. WorkflowTypes
  <2>1. /\ next \in 1..(Len(dependsOn) + 1)
        /\ results \in [Workflow!Step -> {"none", "success", "failed", "skipped"}]
        /\ calls \in [Workflow!Step -> Nat]
    BY <1>1, <1>2 DEF Workflow!Init
  <2>2. dependsOn \in Graphs /\ goOn \in BOOLEAN
    BY <1>1 DEF Workflow!Init
  <2>3. /\ stack \in Seq(Frame) /\ executed \subseteq Workflow!Step
        /\ rolledBack \subseteq Workflow!Step
    BY <1>1 DEF Workflow!Init
  <2>4. pc = "start" /\ aborted \in BOOLEAN /\ failed \in BOOLEAN /\ ending = "none"
    BY <1>1 DEF Workflow!Init
  <2>5. QED
    BY <2>1, <2>2, <2>3, <2>4 DEF WorkflowTypes
<1>4. StackInv
  BY <1>1 DEF Workflow!Init, StackInv
<1>5. ControlInv
  BY <1>1 DEF Workflow!Init, ControlInv
<1>6. DoneInv
  BY <1>1 DEF Workflow!Init, DoneInv
<1>7. QED
  BY <1>3, <1>4, <1>5, <1>6 DEF WorkflowInv

\* What every step keeps of the graph, the results and the calls.
KeepsDone ==
  /\ UNCHANGED <<dependsOn, goOn>>
  /\ results' \in [Workflow!Step -> {"none", "success", "failed", "skipped"}]
  /\ \A s \in executed' : results'[s] \in {"success", "skipped"}
  /\ calls' \in [Workflow!Step -> Nat]
  /\ \A s \in Workflow!Step : calls'[s] > 0 =>
       calls[s] > 0 \/ \A i \in DOMAIN dependsOn[s] : dependsOn[s][i] \in executed

\* An error leaves no frame.
LEMMA ThrowsStep ==
  ASSUME WorkflowInv, Workflow!Throws, KeepsDone, pc # "ended", next \in Workflow!Step
  PROVE  WorkflowInv'
<1> USE DEF WorkflowInv, Workflow!Throws, Workflow!workflow
<1>1. WorkflowTypes'
  BY DEF WorkflowTypes, KeepsDone, Workflow!Step, Frame
<1>2. StackInv'
  BY DEF StackInv
<1>3. ControlInv'
  BY DEF ControlInv, KeepsDone, Workflow!Step
<1>4. DoneInv'
  BY DEF DoneInv, KeepsDone, Workflow!Step
<1>5. QED
  BY <1>1, <1>2, <1>3, <1>4

\* What is needed of the frames that stay when a step is done.
LEMMA ReturnsStep ==
  ASSUME WorkflowInv, KeepsDone, pc # "ended",
         NEW n \in 0..Len(stack),
         Workflow!Returns(SubSeq(stack, 1, n)),
         executed \subseteq executed', executed' \subseteq Workflow!Step,
         \A i \in 1..n : stack[i].step \notin executed',
         n = 0 => next \in executed',
         n > 0 => /\ stack[n].attempt = 0
                  /\ stack[n].dep \in DOMAIN dependsOn[stack[n].step]
                  /\ dependsOn[stack[n].step][stack[n].dep] \in executed'
  PROVE  WorkflowInv'
<1> DEFINE st == SubSeq(stack, 1, n)
<1> USE DEF WorkflowInv
<1>1. /\ dependsOn \in Graphs /\ stack \in Seq(Frame) /\ Len(stack) \in Nat
      /\ dependsOn' = dependsOn /\ Workflow!Step' = Workflow!Step /\ Frame' = Frame
  BY DEF WorkflowTypes, KeepsDone, Workflow!Step, Frame
<1>2. st \in Seq(Frame) /\ Len(st) = n /\ \A i \in 1..n : st[i] = stack[i]
  BY <1>1
<1>3. UNCHANGED <<goOn, aborted, failed, rolledBack, ending>>
  BY DEF Workflow!Returns, KeepsDone
<1>4. ASSUME \A i \in DOMAIN dependsOn : i \in Workflow!Step
      PROVE  \A s \in Workflow!Step : calls'[s] > 0 =>
               \A i \in DOMAIN dependsOn[s] : dependsOn[s][i] \in executed'
  BY DEF DoneInv, KeepsDone
<1>5. CASE n = 0
  <2>1. st = <<>> /\ pc' = "loop" /\ next' = next + 1 /\ stack' = <<>>
    BY <1>2, <1>5 DEF Workflow!Returns
  <2>2. next \in Workflow!Step /\ next' \in 1..(Len(dependsOn) + 1)
    BY <1>1, <1>5, <2>1, GraphOfSteps
  <2>3. WorkflowTypes'
    BY <1>1, <1>3, <2>1, <2>2 DEF WorkflowTypes, KeepsDone
  <2>4. StackInv'
    BY <2>1 DEF StackInv
  <2>5. ControlInv'
    BY <2>1 DEF ControlInv
  <2>6. ~failed => 1..(next' - 1) \subseteq executed'
    BY <1>5, <2>1, <2>2, <1>1, GraphOfSteps DEF DoneInv
  <2>7. DoneInv'
    BY <1>1, <1>3, <1>4, <2>1, <2>6 DEF DoneInv, KeepsDone, Workflow!Step
  <2>8. QED
    BY <2>3, <2>4, <2>5, <2>7
<1>6. CASE n > 0
  <2> DEFINE frame == [stack[n] EXCEPT !.dep = @ + 1]
  <2>1. st # <<>> /\ pc' = "deps" /\ stack' = [st EXCEPT ![n].dep = @ + 1] /\ next' = next
    BY <1>2, <1>6 DEF Workflow!Returns
  <2>2. stack[n] \in Frame /\ stack[n].dep \in Nat \ {0} /\ frame \in Frame
    <3>1. stack[n] \in Frame
      BY <1>1, <1>6
    <3>2. stack[n].dep \in Nat \ {0} /\ stack[n].dep + 1 \in Nat \ {0}
      BY <3>1 DEF Frame
    <3>3. QED
      BY <3>1, <3>2 DEF Frame
  <2>3. /\ frame.step = stack[n].step /\ frame.attempt = stack[n].attempt
        /\ frame.dep = stack[n].dep + 1
    BY <2>2 DEF Frame
  <2> HIDE DEF st
  <2>4. stack' = [st EXCEPT ![n] = frame]
    <3>1. n \in DOMAIN st /\ st[n] = stack[n]
      BY <1>2, <1>6
    <3>2. QED
      BY <2>1, <3>1
  <2> HIDE DEF frame
  <2>5. /\ stack' \in Seq(Frame) /\ Len(stack') = n /\ stack'[n] = frame
        /\ \A i \in 1..(n - 1) : stack'[i] = stack[i]
    BY <1>2, <1>6, <2>2, <2>4
  <2>6. \A i \in 1..n : stack'[i].step = stack[i].step
    BY <1>6, <2>3, <2>5
  <2>7. WorkflowTypes'
    BY <1>1, <1>3, <2>1, <2>5 DEF WorkflowTypes, KeepsDone
  <2>8. StackInv'
    <3>1. \A i, j \in 1..Len(stack') : stack'[i].step = stack'[j].step => i = j
      BY SMTT(30), <2>5, <2>6 DEF StackInv
    <3>2. ASSUME NEW i \in 1..Len(stack')
          PROVE  /\ stack'[i].step \notin executed'
                 /\ \A k \in DOMAIN dependsOn[stack'[i].step] : k < stack'[i].dep =>
                      dependsOn[stack'[i].step][k] \in executed'
      <4>1. i \in 1..n /\ stack[i].step \notin executed'
        BY <2>5
      <4>2. DoneBefore(stack[i])
        BY <4>1 DEF StackInv
      <4>3. CASE i < n
        <5>1. stack'[i] = stack[i]
          BY <2>5, <4>1, <4>3
        <5>2. QED
          BY <4>1, <4>2, <5>1 DEF DoneBefore
      <4>4. CASE i = n
        <5>1. stack'[i].step = stack[n].step /\ stack'[i].dep = stack[n].dep + 1
          BY <2>3, <2>5, <4>4
        <5>2. stack[n].step \in Workflow!Step /\ stack[n].dep \in Nat
          BY <2>2 DEF Frame
        <5>3. ASSUME NEW k \in DOMAIN dependsOn[stack[n].step], k < stack[n].dep + 1
              PROVE  dependsOn[stack[n].step][k] \in executed'
          <6>1. k \in Nat
            BY SMTT(30), <1>1, <5>2, GraphOfSteps
          <6>2. k < stack[n].dep \/ k = stack[n].dep
            BY <5>2, <5>3, <6>1
          <6>3. QED
            BY <4>2, <4>4, <6>2, <1>6 DEF DoneBefore
        <5>4. QED
          BY <4>1, <4>4, <5>1, <5>3
      <4>5. QED
        BY <4>1, <4>3, <4>4
    <3>3. ASSUME NEW i \in 1..(Len(stack') - 1)
          PROVE  /\ stack'[i].attempt = 0
                 /\ stack'[i].dep \in DOMAIN dependsOn[stack'[i].step]
                 /\ dependsOn[stack'[i].step][stack'[i].dep] = stack'[i + 1].step
      <4>1. i \in 1..(n - 1) /\ i + 1 \in 1..n /\ i \in 1..(Len(stack) - 1)
        BY <1>1, <2>5
      <4>2. stack'[i] = stack[i] /\ stack'[i + 1].step = stack[i + 1].step
        BY <2>5, <2>6, <4>1
      <4>3. QED
        BY <4>1, <4>2 DEF StackInv
    <3>4. stack'[1].step = next'
      <4>1. stack # <<>> /\ 1 \in 1..n
        BY <1>1, <1>6
      <4>2. QED
        BY <2>1, <2>6, <4>1 DEF StackInv
    <3>5. QED
      BY <1>1, <3>1, <3>2, <3>3, <3>4 DEF StackInv, DoneBefore
  <2>9. ControlInv'
    <3>1. stack' # <<>>
      BY <1>6, <2>5
    <3>2. QED
      BY <1>6, <2>1, <2>3, <2>5, <3>1 DEF ControlInv
  <2>10. DoneInv'
    BY <1>1, <1>3, <1>4, <2>1 DEF DoneInv, KeepsDone, Workflow!Step
  <2>11. QED
    BY <2>7, <2>8, <2>9, <2>10
<1>7. QED
  BY <1>5, <1>6

\* What an error of the attempt leads to: another attempt, or ThrowsStep.
LEMMA ErroredStep ==
  ASSUME WorkflowInv, Workflow!Errored, pc = "executing", UNCHANGED <<dependsOn, goOn>>,
         calls' \in [Workflow!Step -> Nat],
         \A s \in Workflow!Step : calls'[s] <= calls[s]
  PROVE  WorkflowInv'
<1> USE DEF WorkflowInv, ControlInv, Workflow!Top
<1>1. stack # <<>> /\ Len(stack) \in 1..Len(stack) /\ stack \in Seq(Frame)
  BY DEF WorkflowTypes
<1>2. /\ Workflow!Top \in Frame
      /\ Workflow!Top.step \in Workflow!Step /\ Workflow!Top.step \notin executed
  <2>1. Workflow!Top \in Frame
    BY <1>1
  <2>2. QED
    BY <1>1, <2>1 DEF Frame, StackInv
<1>3. next \in Workflow!Step
  <2>1. 1 \in 1..Len(stack) /\ stack[1] \in Frame
    BY <1>1
  <2>2. QED
    BY <1>1, <2>1 DEF StackInv, Frame
<1>4. ASSUME executed' = executed PROVE KeepsDone
  <2>1. results' = [results EXCEPT ![Workflow!Top.step] = "failed"]
    BY DEF Workflow!Errored
  <2>2. /\ results \in [Workflow!Step -> {"none", "success", "failed", "skipped"}]
        /\ executed \subseteq Workflow!Step /\ calls \in [Workflow!Step -> Nat]
    BY DEF WorkflowTypes
  <2>3. \A s \in executed : results'[s] = results[s]
    BY <1>2, <2>1, <2>2
  <2>4. \A s \in executed' : results'[s] \in {"success", "skipped"}
    BY <1>4, <2>3 DEF DoneInv
  <2>5. \A s \in Workflow!Step : calls'[s] > 0 => calls[s] > 0
    BY <2>2
  <2>6. QED
    BY <1>2, <2>1, <2>2, <2>4, <2>5 DEF KeepsDone
<1>5. CASE Workflow!Throws
  <2>1. executed' = executed
    BY <1>5 DEF Workflow!Throws
  <2>2. QED
    BY <1>3, <1>4, <1>5, <2>1, ThrowsStep
<1>6. CASE /\ Workflow!Top.attempt < MaxAttempts /\ pc' = "backoff"
           /\ UNCHANGED <<next, stack, executed, aborted, failed, rolledBack, ending>>
  <2>1. WorkflowTypes'
    BY <1>4, <1>6 DEF WorkflowTypes, KeepsDone, Workflow!Step, Frame
  <2>2. StackInv'
    BY <1>6 DEF StackInv, DoneBefore
  <2>3. ControlInv'
    BY <1>1, <1>6
  <2>4. DoneInv'
    BY <1>4, <1>6 DEF DoneInv, KeepsDone, Workflow!Step
  <2>5. QED
    BY <2>1, <2>2, <2>3, <2>4
<1>7. QED
  BY <1>5, <1>6 DEF Workflow!Errored

\* Trying a step of the list, or one that the step on top depends on.
LEMMA TryStepStep ==
  ASSUME WorkflowInv, NEW s \in Workflow!Step, Workflow!TryStep(s),
         \/ pc = "loop" /\ s = next
         \/ /\ pc = "deps"
            /\ Workflow!Top.dep \in DOMAIN dependsOn[Workflow!Top.step]
            /\ s = dependsOn[Workflow!Top.step][Workflow!Top.dep]
  PROVE  WorkflowInv'
<1> USE DEF WorkflowInv, ControlInv, Workflow!Top
<1>1. stack \in Seq(Frame) /\ Len(stack) \in Nat /\ dependsOn \in Graphs
  BY DEF WorkflowTypes
<1>2. next \in Workflow!Step
  <2>1. CASE pc = "loop"
    BY <2>1
  <2>2. CASE stack # <<>>
    <3>1. 1 \in 1..Len(stack) /\ stack[1] \in Frame
      BY <1>1, <2>2
    <3>2. QED
      BY <2>2, <3>1 DEF StackInv, Frame
  <2>3. QED
    BY <2>1, <2>2
<1>3. ASSUME executed' = executed, UNCHANGED <<dependsOn, goOn, results, calls>> PROVE KeepsDone
  BY <1>3 DEF KeepsDone, WorkflowTypes, DoneInv
<1>4. CASE Workflow!Throws /\ UNCHANGED <<results, calls>>
  <2>1. KeepsDone
    BY <1>3, <1>4 DEF Workflow!Throws, Workflow!workflow
  <2>2. QED
    BY <1>2, <1>4, <2>1, ThrowsStep
<1>5. CASE s \in executed /\ Workflow!Returns(stack) /\ UNCHANGED <<executed, results, calls>>
  <2>1. KeepsDone
    BY <1>3, <1>5 DEF Workflow!Returns, Workflow!workflow
  <2> DEFINE n == Len(stack)
  <2>2. stack = SubSeq(stack, 1, n) /\ n \in 0..Len(stack)
    BY <1>1
  <2>3. n = 0 => next \in executed'
    BY <1>1, <1>5
  <2>4. n > 0 => /\ stack[n].attempt = 0
                 /\ stack[n].dep \in DOMAIN dependsOn[stack[n].step]
                 /\ dependsOn[stack[n].step][stack[n].dep] \in executed'
    BY <1>1, <1>5
  <2>5. /\ executed \subseteq executed' /\ executed' \subseteq Workflow!Step
        /\ \A i \in 1..n : stack[i].step \notin executed'
    BY <1>5 DEF StackInv, WorkflowTypes
  <2>6. Workflow!Returns(SubSeq(stack, 1, n))
    BY <1>5, <2>2
  <2> HIDE DEF n
  <2>7. QED
    BY <2>1, <2>2, <2>3, <2>4, <2>5, <2>6, ReturnsStep
<1>6. CASE /\ s \notin executed \cup Workflow!InProgress /\ pc' = "deps"
           /\ stack' = Append(stack, [step |-> s, dep |-> 1, attempt |-> 0])
           /\ UNCHANGED <<dependsOn, goOn, next, executed, aborted, failed, results, calls,
                          rolledBack, ending>>
  <2> DEFINE n == Len(stack)
             frame == [step |-> s, dep |-> 1, attempt |-> 0]
  <2>1. frame \in Frame
    BY WorkflowBounds DEF Frame
  <2>2. /\ stack' \in Seq(Frame) /\ Len(stack') = n + 1 /\ stack'[n + 1] = frame
        /\ \A i \in 1..n : stack'[i] = stack[i]
    BY <1>1, <1>6, <2>1
  <2>3. KeepsDone
    BY <1>3, <1>6
  <2>4. \A i \in 1..n : stack[i].step # s
    BY <1>1, <1>6 DEF Workflow!InProgress
  <2> HIDE DEF n, frame
  <2>5. WorkflowTypes'
    BY <1>6, <2>2 DEF WorkflowTypes, Workflow!Step, Frame
  <2>6. frame.step = s /\ frame.dep = 1 /\ frame.attempt = 0 /\ n \in Nat
    BY <1>1 DEF frame, n
  <2>7. StackInv'
    <3>1. ASSUME NEW i \in 1..Len(stack'), NEW j \in 1..Len(stack'),
                 stack'[i].step = stack'[j].step
          PROVE  i = j
      <4>1. i \in 1..n \/ i = n + 1
        BY <2>2, <2>6
      <4>2. j \in 1..n \/ j = n + 1
        BY <2>2, <2>6
      <4>3. CASE i \in 1..n /\ j \in 1..n
        <5>1. stack[i].step = stack[j].step
          BY <2>2, <3>1, <4>3
        <5>2. QED
          BY <4>3, <5>1 DEF StackInv, n
      <4>4. QED
        BY <2>2, <2>4, <2>6, <3>1, <4>1, <4>2, <4>3
    <3>2. ASSUME NEW i \in 1..Len(stack')
          PROVE  /\ stack'[i].step \notin executed
                 /\ \A k \in DOMAIN dependsOn[stack'[i].step] : k < stack'[i].dep =>
                      dependsOn[stack'[i].step][k] \in executed
      <4>1. CASE i \in 1..n
        BY <2>2, <4>1 DEF StackInv, DoneBefore, n
      <4>2. CASE i = n + 1
        <5>1. \A k \in DOMAIN dependsOn[s] : ~ (k < 1)
          BY <1>1, GraphOfSteps
        <5>2. QED
          BY <1>6, <2>2, <2>6, <4>2, <5>1
      <4>3. QED
        BY <2>2, <2>6, <4>1, <4>2
    <3>3. ASSUME NEW i \in 1..(Len(stack') - 1)
          PROVE  /\ stack'[i].attempt = 0
                 /\ stack'[i].dep \in DOMAIN dependsOn[stack'[i].step]
                 /\ dependsOn[stack'[i].step][stack'[i].dep] = stack'[i + 1].step
      <4>1. i \in 1..n
        BY <2>2, <2>6
      <4>2. CASE i < n
        <5>1. i \in 1..(Len(stack) - 1) /\ i + 1 \in 1..n
          BY <2>6, <4>1, <4>2 DEF n
        <5>2. stack'[i] = stack[i] /\ stack'[i + 1] = stack[i + 1]
          BY <2>2, <4>1, <5>1
        <5>3. QED
          BY <5>1, <5>2 DEF StackInv
      <4>3. CASE i = n
        <5>1. stack'[i] = stack[Len(stack)] /\ stack'[i + 1].step = s /\ stack # <<>>
          BY <1>1, <2>2, <2>6, <4>1, <4>3 DEF n
        <5>2. QED
          BY <5>1
      <4>4. QED
        BY <2>6, <4>1, <4>2, <4>3
    <3>4. stack'[1].step = next
      <4>1. CASE stack = <<>>
        BY <2>2, <2>6, <4>1 DEF n
      <4>2. CASE stack # <<>>
        <5>1. 1 \in 1..n
          BY <1>1, <4>2 DEF n
        <5>2. QED
          BY <2>2, <4>2, <5>1 DEF StackInv
      <4>3. QED
        BY <4>1, <4>2
    <3>5. QED
      BY <1>6, <3>1, <3>2, <3>3, <3>4 DEF StackInv, DoneBefore
  <2>8. ControlInv'
    <3>1. stack' # <<>> /\ stack'[Len(stack')].attempt = 0
      BY <2>2, <2>6
    <3>2. QED
      BY <1>6, <3>1
  <2>9. DoneInv'
    BY <1>6 DEF DoneInv, Workflow!Step
  <2>10. QED
    BY <2>5, <2>7, <2>8, <2>9
<1>7. QED
  BY <1>4, <1>5, <1>6 DEF Workflow!TryStep, Workflow!workflow

\* The step on top is done: the one below it goes on.
LEMMA TopIsDone ==
  ASSUME WorkflowInv, stack # <<>>, Workflow!Returns(Workflow!Below),
         executed' = executed \cup {Workflow!Top.step},
         NEW how \in {"success", "skipped"},
         results' = [results EXCEPT ![Workflow!Top.step] = how],
         UNCHANGED <<dependsOn, goOn>>,
         calls' \in [Workflow!Step -> Nat],
         \A s \in Workflow!Step : calls'[s] <= calls[s]
  PROVE  WorkflowInv'
<1> USE DEF WorkflowInv
<1> DEFINE n == Len(stack) - 1
<1>1. stack \in Seq(Frame) /\ Len(stack) \in Nat /\ n \in 0..Len(stack) /\ n + 1 = Len(stack)
  BY DEF WorkflowTypes
<1>2. Workflow!Top = stack[n + 1] /\ Workflow!Top.step \in Workflow!Step
  <2>1. stack[n + 1] \in Frame
    BY <1>1
  <2>2. QED
    BY <1>1, <2>1 DEF Frame, Workflow!Top
<1>3. Workflow!Returns(SubSeq(stack, 1, n))
  BY DEF Workflow!Below
<1>4. KeepsDone
  <2>1. /\ results \in [Workflow!Step -> {"none", "success", "failed", "skipped"}]
        /\ executed \subseteq Workflow!Step /\ calls \in [Workflow!Step -> Nat]
    BY DEF WorkflowTypes
  <2>2. \A s \in executed' : results'[s] \in {"success", "skipped"}
    BY <1>2, <2>1 DEF DoneInv
  <2>3. \A s \in Workflow!Step : calls'[s] > 0 => calls[s] > 0
    BY <2>1
  <2>4. results' \in [Workflow!Step -> {"none", "success", "failed", "skipped"}]
    BY <1>2, <2>1
  <2>5. QED
    BY <2>2, <2>3, <2>4 DEF KeepsDone
<1>5. executed \subseteq executed' /\ executed' \subseteq Workflow!Step
  BY <1>2 DEF WorkflowTypes
<1>6. pc # "ended"
  BY DEF ControlInv
<1> HIDE DEF n
<1>7. ASSUME NEW i \in 1..n PROVE stack[i].step \notin executed'
  <2>1. i \in 1..Len(stack) /\ n + 1 \in 1..Len(stack) /\ i # n + 1
    BY <1>1
  <2>2. QED
    BY <1>2, <2>1 DEF StackInv
<1>8. n = 0 => next \in executed'
  BY <1>1, <1>2 DEF StackInv
<1>9. n > 0 => /\ stack[n].attempt = 0
               /\ stack[n].dep \in DOMAIN dependsOn[stack[n].step]
               /\ dependsOn[stack[n].step][stack[n].dep] \in executed'
  <2> SUFFICES ASSUME n > 0
               PROVE  /\ stack[n].attempt = 0
                      /\ stack[n].dep \in DOMAIN dependsOn[stack[n].step]
                      /\ dependsOn[stack[n].step][stack[n].dep] \in executed'
    OBVIOUS
  <2>1. n \in 1..(Len(stack) - 1)
    BY <1>1
  <2>2. QED
    BY <1>2, <2>1 DEF StackInv
<1>10. QED
  BY <1>1, <1>3, <1>4, <1>5, <1>6, <1>7, <1>8, <1>9, ReturnsStep

LEMMA WorkflowStep == WorkflowInv /\ [Workflow!Next]_workflowVars => WorkflowInv'
<1> SUFFICES ASSUME WorkflowInv, [Workflow!Next]_workflowVars PROVE WorkflowInv'
  OBVIOUS
<1> USE DEF WorkflowInv, ControlInv, Workflow!Top, Workflow!workflow
<1>1. /\ stack \in Seq(Frame) /\ Len(stack) \in Nat /\ dependsOn \in Graphs
      /\ calls \in [Workflow!Step -> Nat]
  BY DEF WorkflowTypes
<1>2. ASSUME stack # <<>>
      PROVE  /\ Len(stack) \in 1..Len(stack) /\ Workflow!Top \in Frame
             /\ Workflow!Top.step \in Workflow!Step /\ Workflow!Top.step \notin executed
             /\ next \in Workflow!Step
  <2>1. Len(stack) \in 1..Len(stack) /\ 1 \in 1..Len(stack)
    BY <1>1, <1>2
  <2>2. Workflow!Top \in Frame /\ stack[1] \in Frame
    BY <1>1, <2>1
  <2>3. QED
    BY <1>2, <2>1, <2>2 DEF Frame, StackInv
<1>3. ASSUME executed' = executed, UNCHANGED <<dependsOn, goOn, results, calls>> PROVE KeepsDone
  BY <1>3 DEF KeepsDone, WorkflowTypes, DoneInv
<1>4. CASE Workflow!Start
  BY <1>4 DEF Workflow!Start, WorkflowTypes, StackInv, DoneInv, DoneBefore, Workflow!Step, Frame
<1>5. CASE Workflow!Loop
  BY <1>5, TryStepStep DEF Workflow!Loop
<1>6. CASE Workflow!Dependency
  <2>1. stack # <<>>
    BY <1>6 DEF Workflow!Dependency
  <2>2. dependsOn[Workflow!Top.step] \in Seq(Workflow!Step) /\ Workflow!Top.dep \in Nat \ {0}
    BY <1>1, <1>2, <2>1, GraphOfSteps DEF Frame
  <2>3. CASE Workflow!Top.dep <= Len(dependsOn[Workflow!Top.step])
    <3>1. Workflow!Top.dep \in DOMAIN dependsOn[Workflow!Top.step]
      BY <2>2, <2>3
    <3>2. dependsOn[Workflow!Top.step][Workflow!Top.dep] \in Workflow!Step
      BY <2>2, <3>1
    <3>3. /\ pc = "deps"
          /\ Workflow!TryStep(dependsOn[Workflow!Top.step][Workflow!Top.dep])
      BY <1>6, <2>3 DEF Workflow!Dependency
    <3>4. QED
      BY <3>1, <3>2, <3>3, TryStepStep
  <2>4. CASE ~ (Workflow!Top.dep <= Len(dependsOn[Workflow!Top.step]))
    <3>1. Workflow!Top.dep > Len(dependsOn[Workflow!Top.step])
      BY <2>2, <2>4
    <3>2. /\ pc = "deps" /\ pc' = "ready"
          /\ UNCHANGED <<dependsOn, goOn, next, stack, executed, aborted, failed, results,
                         calls, rolledBack, ending>>
      BY <1>6, <2>4 DEF Workflow!Dependency
    <3>3. WorkflowTypes'
      BY <3>2 DEF WorkflowTypes, Workflow!Step, Frame
    <3>4. StackInv'
      BY <3>2 DEF StackInv, DoneBefore
    <3>5. ControlInv'
      BY <2>1, <3>1, <3>2
    <3>6. DoneInv'
      BY <3>2 DEF DoneInv, Workflow!Step
    <3>7. QED
      BY <3>3, <3>4, <3>5, <3>6
  <2>5. QED
    BY <2>3, <2>4
<1>7. CASE Workflow!WhenThrows
  <2>1. KeepsDone
    BY <1>3, <1>7 DEF Workflow!WhenThrows, Workflow!Throws
  <2>2. QED
    BY <1>2, <1>7, <2>1, ThrowsStep DEF Workflow!WhenThrows
<1>8. CASE Workflow!Skip
  <2>1. stack # <<>> /\ results' = [results EXCEPT ![Workflow!Top.step] = "skipped"]
        /\ UNCHANGED calls
    BY <1>8 DEF Workflow!Skip
  <2>2. UNCHANGED <<dependsOn, goOn>>
    BY <1>8 DEF Workflow!Skip, Workflow!Returns, Workflow!Throws
  <2>3. calls' \in [Workflow!Step -> Nat] /\ \A s \in Workflow!Step : calls'[s] <= calls[s]
    BY <1>1, <2>1
  <2>4. CASE executed' = executed \cup {Workflow!Top.step} /\ Workflow!Returns(Workflow!Below)
    BY <2>1, <2>2, <2>3, <2>4, TopIsDone
  <2>5. CASE Workflow!Throws
    <3>1. /\ results \in [Workflow!Step -> {"none", "success", "failed", "skipped"}]
          /\ executed \subseteq Workflow!Step /\ executed' = executed
      BY <2>5 DEF WorkflowTypes, Workflow!Throws
    <3>2. KeepsDone
      BY <1>2, <2>1, <2>2, <2>3, <3>1 DEF KeepsDone, DoneInv
    <3>3. QED
      BY <1>2, <2>1, <2>5, <3>2, ThrowsStep
  <2>6. QED
    BY <1>8, <2>4, <2>5 DEF Workflow!Skip
<1>9. CASE Workflow!Attempt
  <2>1. stack # <<>> /\ Workflow!Top.dep > Len(dependsOn[Workflow!Top.step]) /\ UNCHANGED results
    BY <1>9 DEF Workflow!Attempt
  <2>2. CASE Workflow!Throws /\ UNCHANGED calls
    <3>1. KeepsDone
      BY <1>3, <2>1, <2>2 DEF Workflow!Throws
    <3>2. QED
      BY <1>2, <2>1, <2>2, <3>1, ThrowsStep
  <2>3. CASE /\ pc' = "executing"
             /\ stack' = [stack EXCEPT ![Len(stack)].attempt = @ + 1]
             /\ calls' = [calls EXCEPT ![Workflow!Top.step] = @ + 1]
             /\ UNCHANGED <<dependsOn, goOn, next, executed, aborted, failed, rolledBack, ending>>
    <3> DEFINE n == Len(stack)
               frame == [stack[n] EXCEPT !.attempt = @ + 1]
    <3>1. n \in 1..n /\ n \in Nat /\ stack[n] \in Frame /\ stack[n] = Workflow!Top
      BY <1>1, <1>2, <2>1
    <3>2. frame \in Frame /\ frame.step = stack[n].step /\ frame.dep = stack[n].dep
      <4>1. stack[n].attempt \in 0..MaxAttempts /\ stack[n].attempt < MaxAttempts
        BY <1>9, <3>1, WorkflowBounds DEF Workflow!Attempt, Frame
      <4>2. stack[n].attempt + 1 \in 0..MaxAttempts
        BY <4>1, WorkflowBounds
      <4>3. QED
        BY <3>1, <4>2 DEF Frame
    <3> HIDE DEF frame
    <3>3. stack' = [stack EXCEPT ![n] = frame]
      BY <2>3, <3>1 DEF frame
    <3>4. /\ stack' \in Seq(Frame) /\ Len(stack') = n
          /\ \A i \in 1..n : stack'[i] = IF i = n THEN frame ELSE stack[i]
      BY <1>1, <3>1, <3>2, <3>3
    <3>5. \A i \in 1..n : stack'[i].step = stack[i].step /\ stack'[i].dep = stack[i].dep
      BY <3>2, <3>4
    <3>6. calls' \in [Workflow!Step -> Nat] /\ calls'[stack[n].step] > 0
      BY <1>1, <1>2, <2>1, <2>3, <3>1
    <3>7. WorkflowTypes'
      BY <2>1, <2>3, <3>4, <3>6 DEF WorkflowTypes, Workflow!Step, Frame
    <3>8. StackInv'
      <4>1. \A i \in 1..(n - 1) : i \in 1..n /\ i + 1 \in 1..n /\ stack'[i] = stack[i]
        BY <3>1, <3>4
      <4>2. 1 \in 1..n /\ stack' # <<>>
        BY <3>1, <3>4
      <4> HIDE DEF n
      <4>3. \A i \in 1..n : DoneBefore(stack[i])
        BY DEF StackInv, n
      <4>4. \A i \in 1..n : DoneBefore(stack[i])'
        BY <2>3, <3>5, <4>3 DEF DoneBefore
      <4>5. \A i, j \in 1..n : stack'[i].step = stack'[j].step => i = j
        BY <3>5 DEF StackInv, n
      <4>6. \A i \in 1..n : stack'[i].step \notin executed
        BY <3>5 DEF StackInv, n
      <4>7. \A i \in 1..(n - 1) :
              /\ stack'[i].attempt = 0
              /\ stack'[i].dep \in DOMAIN dependsOn[stack'[i].step]
              /\ dependsOn[stack'[i].step][stack'[i].dep] = stack'[i + 1].step
        BY <3>5, <4>1 DEF StackInv, n
      <4>8. stack'[1].step = next
        BY <2>1, <3>5, <4>2 DEF StackInv
      <4>9. QED
        BY SMTT(30), <2>3, <3>4, <4>4, <4>5, <4>6, <4>7, <4>8 DEF StackInv
    <3>9. ControlInv'
      <4>1. stack' # <<>>
        BY <3>1, <3>4
      <4>2. /\ stack'[Len(stack')].step = Workflow!Top.step
            /\ stack'[Len(stack')].dep = Workflow!Top.dep
        BY <3>1, <3>4, <3>5
      <4> HIDE DEF n
      <4>3. QED
        BY <2>1, <2>3, <3>1, <3>6, <4>1, <4>2
    <3>10. DoneInv'
      <4>1. \A i \in DOMAIN dependsOn[Workflow!Top.step] :
              dependsOn[Workflow!Top.step][i] \in executed
        <5>1. DoneBefore(Workflow!Top)
          BY <3>1 DEF StackInv
        <5>2. \A i \in DOMAIN dependsOn[Workflow!Top.step] : i < Workflow!Top.dep
          BY SMTT(30), <1>1, <1>2, <2>1, GraphOfSteps DEF Frame
        <5>3. QED
          BY <5>1, <5>2 DEF DoneBefore
      <4>2. \A s \in Workflow!Step : s # Workflow!Top.step => calls'[s] = calls[s]
        BY <1>1, <2>3
      <4>3. QED
        BY <2>1, <2>3, <4>1, <4>2 DEF DoneInv, Workflow!Step
    <3>11. QED
      BY <3>7, <3>8, <3>9, <3>10
  <2>4. QED
    BY <1>9, <2>2, <2>3 DEF Workflow!Attempt
<1>10. CASE Workflow!Succeeds
  <2>1. pc = "executing" /\ stack # <<>> /\ calls[Workflow!Top.step] > 0
    BY <1>10 DEF Workflow!Succeeds
  <2>2. calls' \in [Workflow!Step -> Nat] /\ \A s \in Workflow!Step : calls'[s] <= calls[s]
    BY <1>1, <1>2, <1>10, <2>1 DEF Workflow!Succeeds, Workflow!Ends
  <2>3. UNCHANGED <<dependsOn, goOn>>
    BY <1>10 DEF Workflow!Succeeds, Workflow!Returns, Workflow!Errored, Workflow!Throws
  <2>4. QED
    BY <1>10, <2>1, <2>2, <2>3, TopIsDone, ErroredStep DEF Workflow!Succeeds
<1>11. CASE Workflow!Fails
  <2>1. pc = "executing" /\ stack # <<>> /\ calls[Workflow!Top.step] > 0 /\ Workflow!Errored
    BY <1>11 DEF Workflow!Fails
  <2>2. calls' \in [Workflow!Step -> Nat] /\ \A s \in Workflow!Step : calls'[s] <= calls[s]
    BY <1>1, <1>2, <1>11, <2>1 DEF Workflow!Fails, Workflow!Ends
  <2>3. UNCHANGED <<dependsOn, goOn>>
    BY <2>1 DEF Workflow!Errored, Workflow!Throws
  <2>4. QED
    BY <2>1, <2>2, <2>3, ErroredStep
<1>12. CASE Workflow!TimesOut
  <2>1. pc = "executing" /\ Workflow!Errored /\ UNCHANGED calls
    BY <1>12 DEF Workflow!TimesOut
  <2>2. calls' \in [Workflow!Step -> Nat] /\ \A s \in Workflow!Step : calls'[s] <= calls[s]
    BY <1>1, <2>1
  <2>3. UNCHANGED <<dependsOn, goOn>>
    BY <2>1 DEF Workflow!Errored, Workflow!Throws
  <2>4. QED
    BY <2>1, <2>2, <2>3, ErroredStep
<1>13. CASE Workflow!Backoff
  <2>1. stack # <<>> /\ UNCHANGED <<results, calls>>
    BY <1>13 DEF Workflow!Backoff
  <2>2. CASE Workflow!Throws
    <3>1. KeepsDone
      BY <1>3, <2>1, <2>2 DEF Workflow!Throws
    <3>2. QED
      BY <1>2, <2>1, <2>2, <3>1, ThrowsStep
  <2>3. CASE /\ pc = "backoff" /\ pc' = "retry"
             /\ UNCHANGED <<dependsOn, goOn, next, stack, executed, aborted, failed,
                            rolledBack, ending>>
    BY <2>1, <2>3 DEF WorkflowTypes, StackInv, DoneInv, DoneBefore, Workflow!Step, Frame
  <2>4. QED
    BY <1>13, <2>2, <2>3 DEF Workflow!Backoff
<1>14. ASSUME NEW s \in Workflow!Step, Workflow!AbandonedEnds(s) PROVE WorkflowInv'
  <2>1. /\ calls[s] > IF pc = "executing" /\ Workflow!Top.step = s THEN 1 ELSE 0
        /\ calls' = [calls EXCEPT ![s] = @ - 1]
        /\ UNCHANGED <<dependsOn, goOn, pc, next, stack, executed, aborted, failed, results,
                       rolledBack, ending>>
    BY <1>14 DEF Workflow!AbandonedEnds, Workflow!Ends
  <2>2. /\ calls' \in [Workflow!Step -> Nat]
        /\ \A t \in Workflow!Step : calls'[t] > 0 => calls[t] > 0
        /\ pc = "executing" => calls'[Workflow!Top.step] > 0
    <3>1. calls[s] \in Nat
      BY <1>1
    <3>2. calls[s] - 1 \in Nat /\ (pc = "executing" /\ Workflow!Top.step = s => calls[s] - 1 > 0)
      BY <2>1, <3>1
    <3>3. pc = "executing" => Workflow!Top.step \in Workflow!Step
      BY <1>2
    <3>4. QED
      BY <1>1, <2>1, <3>1, <3>2, <3>3
  <2>3. WorkflowTypes'
    BY <2>1, <2>2 DEF WorkflowTypes, Workflow!Step, Frame
  <2>4. StackInv'
    BY <2>1 DEF StackInv, DoneBefore
  <2>5. ControlInv'
    <3>1. UNCHANGED <<dependsOn, pc, next, stack, failed>>
      BY <2>1
    <3>2. pc = "executing" => calls'[stack[Len(stack)].step] > 0
      BY <2>2
    <3>3. QED
      BY <3>1, <3>2 DEF Workflow!Step
  <2>6. DoneInv'
    BY <2>1, <2>2 DEF DoneInv, Workflow!Step
  <2>7. QED
    BY <2>3, <2>4, <2>5, <2>6
<1>15. CASE Workflow!Caught
  <2>1. /\ stack' = <<>> /\ failed /\ failed' /\ pc' \in {"ended", "loop", "finish"}
        /\ next' \in {next, next + 1} /\ rolledBack' \subseteq rolledBack \cup {next}
        /\ next \in Workflow!Step
        /\ UNCHANGED <<dependsOn, goOn, executed, aborted, failed, results, calls>>
        /\ ending' \in {"rejected", ending} /\ pc = "caught"
    BY <1>15 DEF Workflow!Caught, Workflow!Ended
  <2>2. next' \in 1..(Len(dependsOn) + 1)
    BY <1>1, <2>1, GraphOfSteps
  <2>3. WorkflowTypes'
    BY <2>1, <2>2 DEF WorkflowTypes, Workflow!Step, Frame
  <2>4. StackInv'
    BY <2>1 DEF StackInv
  <2>5. ControlInv'
    BY <2>1
  <2>6. DoneInv'
    BY <2>1 DEF DoneInv, Workflow!Step
  <2>7. QED
    BY <2>3, <2>4, <2>5, <2>6
<1>16. CASE Workflow!Finish
  <2>1. /\ stack = <<>> /\ pc' = "ended"
        /\ UNCHANGED <<dependsOn, goOn, next, stack, executed, aborted, failed, results,
                       calls, rolledBack>>
        /\ ending' \in {"success", "failed", "aborted", "rejected"}
        /\ ending' = "success" => ~failed
    BY <1>16 DEF Workflow!Finish, Workflow!Ended
  <2>2. ending' = "success" => executed = Workflow!Step
    <3>1. ending' = "success" => pc = "loop" /\ next \notin Workflow!Step /\ ~failed
      BY <1>16, <2>1 DEF Workflow!Finish
    <3>2. next \notin Workflow!Step => 1..(next - 1) = Workflow!Step
      BY <1>1, GraphOfSteps DEF WorkflowTypes
    <3>3. QED
      BY <3>1, <3>2 DEF DoneInv, WorkflowTypes
  <2>3. WorkflowTypes'
    BY <2>1 DEF WorkflowTypes, Workflow!Step, Frame
  <2>4. StackInv'
    BY <2>1 DEF StackInv
  <2>5. ControlInv'
    BY <2>1
  <2>6. DoneInv'
    BY <2>1, <2>2 DEF DoneInv, Workflow!Step
  <2>7. QED
    BY <2>3, <2>4, <2>5, <2>6
<1>17. CASE Workflow!Abort \/ UNCHANGED workflowVars
  <2>1. /\ UNCHANGED <<dependsOn, goOn, pc, next, stack, executed, failed, results, calls,
                       rolledBack, ending>>
        /\ aborted' \in BOOLEAN
    BY <1>17 DEF Workflow!Abort, workflowVars, WorkflowTypes
  <2>2. WorkflowTypes'
    BY <2>1 DEF WorkflowTypes, Workflow!Step, Frame
  <2>3. StackInv' /\ ControlInv' /\ DoneInv'
    BY <2>1 DEF StackInv, DoneBefore, DoneInv, Workflow!Step
  <2>4. QED
    BY <2>2, <2>3
<1>18. QED
  BY <1>4, <1>5, <1>6, <1>7, <1>8, <1>9, <1>10, <1>11, <1>12, <1>13, <1>14, <1>15, <1>16,
     <1>17 DEF Workflow!Next

\* StepsInOrder: a step executes only when what it depends on is done, what is done has its
\* result and is not in progress again, and success means that every step is done and
\* none rolled back (workflow-advanced.ts:173-205, 258-292, 296-322).
THEOREM StepsRunInOrder == Spec => []StepsInOrder
<1>1. WorkflowInv => StepsInOrder
  BY DEF WorkflowInv, WorkflowTypes, StackInv, DoneInv, StepsInOrder, Workflow!StepsInOrder,
         Workflow!InProgress
<1>2. WorkflowInv /\ [Next]_vars => WorkflowInv'
  BY StepOfEach, WorkflowStep
<1>3. QED
  BY <1>1, <1>2, WorkflowInitially, PTL DEF Spec

-----------------------------------------------------------------------------
(* SubagentSpawner *)

\* What the callers have still to spawn, as one element for each request.
ToSpawn(todo) == {p \in Caller \X Nat : p[2] \in 1..todo[p[1]]}

Todo == [c \in Caller |-> caller[c].todo]

SpawnerTypes ==
  /\ Spawner!TypeOK
  /\ \A c \in Caller : caller[c].width # 0
  /\ IsFiniteSet(ToSpawn(Todo))
  /\ asked + Cardinality(ToSpawn(Todo)) <= planned

\* The requests that have given up their slot, and how many got one so far.
Past == {r \in 1..asked : r \notin running /\ outcome[r] # "none"}

Served == Spawner!Smaller(asked, MaxConcurrency + Cardinality(Past))

\* ServedInOrder, and that no request has an outcome before it gets its slot.
SlotInv ==
  /\ \A r \in Spawner!Request : outcome[r] # "none" => r <= Served
  /\ running = (1..Served) \ Past
  /\ queue = [j \in 1..(asked - Served) |-> Served + j]

\* A request that has no slot yet is in no table.
NotStarted ==
  \A r \in Spawner!Request : r > Served => state[r] = "none" /\ task[r] = "none"

\* Nobody was told anything of a subagent that runs, unless it never got a task.
Awaited ==
  \A r \in running : outcome[r] = "none" \/ (outcome[r] = "rejected" /\ task[r] = "none")

SpawnerInv ==
  /\ SpawnerTypes /\ SlotInv /\ NotStarted /\ Awaited
  /\ Spawner!AgentsAreRunning /\ Spawner!RecordAgrees

LEMMA SpawnerCounts == \A S : Spawner!Cardinality(S) = Cardinality(S)
  BY DEF Spawner!Cardinality, Cardinality

LEMMA ToSpawnChanges ==
  ASSUME NEW todo \in [Caller -> Nat], IsFiniteSet(ToSpawn(todo)), NEW c \in Caller, NEW n \in Nat
  PROVE  /\ IsFiniteSet(ToSpawn([todo EXCEPT ![c] = n]))
         /\ Cardinality(ToSpawn(todo)) \in Nat
         /\ Cardinality(ToSpawn(todo)) >= todo[c]
         /\ Cardinality(ToSpawn([todo EXCEPT ![c] = n])) =
              Cardinality(ToSpawn(todo)) - todo[c] + n
<1> DEFINE rest == {p \in ToSpawn(todo) : p[1] # c}
           Mine(m) == {c} \X (1..m)
<1>1. ASSUME NEW m \in Nat
      PROVE  /\ ToSpawn([todo EXCEPT ![c] = m]) = rest \cup Mine(m)
             /\ rest \cap Mine(m) = {}
  <2>1. ASSUME NEW p \in Caller \X Nat
        PROVE  p \in ToSpawn([todo EXCEPT ![c] = m]) <=> p \in rest \cup Mine(m)
    <3>1. CASE p[1] = c
      <4>1. p = <<c, p[2]>> /\ p[2] \in Nat
        BY <2>1, <3>1
      <4>2. [todo EXCEPT ![c] = m][p[1]] = m
        BY <3>1
      <4>3. p \in Mine(m) <=> p[2] \in 1..m
        BY <4>1
      <4>4. QED
        BY <3>1, <4>2, <4>3 DEF ToSpawn
    <3>2. CASE p[1] # c
      <4>1. [todo EXCEPT ![c] = m][p[1]] = todo[p[1]] /\ p \notin Mine(m)
        BY <3>2
      <4>2. QED
        BY <3>2, <4>1 DEF ToSpawn
    <3>3. QED
      BY <3>1, <3>2
  <2>2. ToSpawn([todo EXCEPT ![c] = m]) \subseteq Caller \X Nat
    BY DEF ToSpawn
  <2>3. rest \cup Mine(m) \subseteq Caller \X Nat
    BY DEF ToSpawn
  <2>4. rest \cap Mine(m) = {}
    OBVIOUS
  <2> HIDE DEF rest, Mine
  <2>5. QED
    BY <2>1, <2>2, <2>3, <2>4
<1>2. ASSUME NEW m \in Nat PROVE IsFiniteSet(Mine(m)) /\ Cardinality(Mine(m)) = m
  <2>1. IsFiniteSet({c}) /\ Cardinality({c}) = 1
    BY FS_Singleton
  <2>2. IsFiniteSet(1..m) /\ Cardinality(1..m) = m
    BY FS_Interval
  <2>3. /\ IsFiniteSet({c} \X (1..m))
        /\ Cardinality({c} \X (1..m)) = Cardinality({c}) * Cardinality(1..m)
    BY <2>1, <2>2, FS_Product
  <2>4. 1 * m = m
    OBVIOUS
  <2>5. QED
    BY <2>1, <2>2, <2>3, <2>4
<1>3. IsFiniteSet(rest) /\ Cardinality(rest) \in Nat
  <2>1. rest \in SUBSET ToSpawn(todo)
    OBVIOUS
  <2>2. QED
    BY <2>1, FS_Subset, FS_CardinalityType
<1> HIDE DEF rest, Mine
<1>4. ASSUME NEW m \in Nat
      PROVE  /\ IsFiniteSet(ToSpawn([todo EXCEPT ![c] = m]))
             /\ Cardinality(ToSpawn([todo EXCEPT ![c] = m])) = Cardinality(rest) + m
  <2>1. IsFiniteSet(Mine(m)) /\ Cardinality(Mine(m)) = m /\ rest \cap Mine(m) = {}
    BY <1>1, <1>2
  <2>2. /\ IsFiniteSet(rest \cup Mine(m))
        /\ Cardinality(rest \cup Mine(m)) =
             Cardinality(rest) + Cardinality(Mine(m)) - Cardinality(rest \cap Mine(m))
    BY <1>3, <2>1, FS_Union
  <2>3. Cardinality(rest \cap Mine(m)) = 0
    BY <2>1, FS_EmptySet
  <2>4. Cardinality(rest \cup Mine(m)) = Cardinality(rest) + m
    BY <1>3, <2>1, <2>2, <2>3
  <2>5. ToSpawn([todo EXCEPT ![c] = m]) = rest \cup Mine(m)
    BY <1>1
  <2>6. QED
    BY <2>2, <2>4, <2>5
<1>5. todo[c] \in Nat /\ [todo EXCEPT ![c] = todo[c]] = todo
  OBVIOUS
<1>6. Cardinality(ToSpawn(todo)) = Cardinality(rest) + todo[c]
  BY <1>4, <1>5
<1>7. Cardinality(ToSpawn([todo EXCEPT ![c] = n])) = Cardinality(rest) + n
  BY <1>4
<1>8. IsFiniteSet(ToSpawn([todo EXCEPT ![c] = n]))
  BY <1>4
<1>9. QED
  BY <1>3, <1>5, <1>6, <1>7, <1>8

\* How many slots are free: none while a request waits.
LEMMA SlotsLeft ==
  ASSUME SpawnerInv
  PROVE  /\ IsFiniteSet(Past) /\ Cardinality(Past) \in Nat
         /\ Past \subseteq 1..Served /\ Served \in 0..asked
         /\ asked \in Nat /\ asked <= MaxRequests
         /\ Cardinality(running) = Served - Cardinality(Past)
         /\ Spawner!Free(running) = MaxConcurrency + Cardinality(Past) - Served
         /\ Len(queue) = asked - Served
         /\ running \subseteq 1..Served
<1> USE SpawnerBounds DEF SpawnerInv
<1>1. asked \in Nat /\ asked <= MaxRequests
  BY DEF SpawnerTypes, Spawner!TypeOK
<1>2. IsFiniteSet(Past) /\ Cardinality(Past) \in Nat
  <2>1. Past \in SUBSET (1..asked) /\ IsFiniteSet(1..asked)
    BY <1>1, FS_Interval DEF Past
  <2>2. QED
    BY <2>1, FS_Subset, FS_CardinalityType
<1>3. Served \in 0..asked /\ Served <= MaxConcurrency + Cardinality(Past)
  BY <1>1, <1>2 DEF Served, Spawner!Smaller
<1>4. Past \subseteq 1..Served
  BY <1>1, <1>3 DEF SlotInv, Past, Spawner!Request
<1>5. Cardinality(running) = Served - Cardinality(Past)
  <2>1. IsFiniteSet(1..Served) /\ Cardinality(1..Served) = Served
    BY <1>3, FS_Interval
  <2>2. (1..Served) \cap Past = Past
    BY <1>4
  <2>3. QED
    BY <2>1, <2>2, FS_Difference, ZenonT(60) DEF SlotInv
<1>6. Spawner!Free(running) = MaxConcurrency + Cardinality(Past) - Served
  BY <1>2, <1>3, <1>5, SpawnerCounts DEF Spawner!Free, Spawner!Beyond
<1>7. Len(queue) = asked - Served
  BY <1>1, <1>3 DEF SlotInv
<1>8. QED
  BY <1>1, <1>2, <1>3, <1>4, <1>5, <1>6, <1>7 DEF SlotInv

LEMMA SpawnerInitially == Init => SpawnerInv
<1> SUFFICES ASSUME Init PROVE SpawnerInv
  OBVIOUS
<1> USE SpawnerBounds
<1>1. Spawner!Init
  BY DEF Init
<1>2. Todo = [c \in Caller |-> 0]
  BY <1>1 DEF Spawner!Init, Todo, Spawner!Idle
<1>3. ToSpawn(Todo) = {}
  BY <1>2 DEF ToSpawn
<1>4. Spawner!TypeOK
  <2>1. Spawner!Idle \in [todo : Nat, width : Nat, batch : Seq(Spawner!Request)]
    BY DEF Spawner!Idle
  <2>2. asked \in 0..MaxRequests /\ planned \in asked..MaxRequests
    BY <1>1 DEF Spawner!Init
  <2>3. QED
    BY <1>1, <2>1, <2>2 DEF Spawner!Init, Spawner!TypeOK
<1>5. SpawnerTypes
  <2>1. Cardinality(ToSpawn(Todo)) = 0 /\ IsFiniteSet(ToSpawn(Todo))
    BY <1>3, FS_EmptySet
  <2>2. asked = 0 /\ planned = 0 /\ \A c \in Caller : caller[c].width = 1
    BY <1>1 DEF Spawner!Init, Spawner!Idle
  <2>3. QED
    BY <1>4, <2>1, <2>2 DEF SpawnerTypes
<1>6. SlotInv
  <2>1. Past = {} /\ Cardinality(Past) = 0
    BY <1>1, FS_EmptySet DEF Past, Spawner!Init
  <2>2. Served = 0
    BY <1>1, <2>1 DEF Served, Spawner!Smaller, Spawner!Init
  <2>3. QED
    BY <1>1, <2>1, <2>2 DEF SlotInv, Spawner!Init
<1>7. NotStarted /\ Awaited /\ Spawner!AgentsAreRunning /\ Spawner!RecordAgrees
  BY <1>1 DEF Spawner!Init, NotStarted, Awaited, Spawner!AgentsAreRunning, Spawner!RecordAgrees
<1>8. QED
  BY <1>5, <1>6, <1>7 DEF SpawnerInv

LEMMA SmallerShifts ==
  ASSUME NEW m \in Int, NEW n \in Int, NEW s \in Int
  PROVE  Spawner!Smaller(m, n) = s + Spawner!Smaller(m - s, n - s)
BY DEF Spawner!Smaller

\* The slots after a step: n requests more, k more of them have a slot, and as many
\* as are in new have given theirs up.
LEMMA SlotsMove ==
  ASSUME SpawnerInv, NEW n \in Nat, NEW k \in Nat, NEW new \in SUBSET running,
         IsFiniteSet(new), asked' = asked + n,
         k = Spawner!Smaller(asked + n - Served,
                             MaxConcurrency + Cardinality(Past) + Cardinality(new) - Served),
         \A r \in Spawner!Request : r > Served + k => outcome'[r] = outcome[r],
         \A r \in new : outcome'[r] # "none",
         \A r \in Past : outcome'[r] = outcome[r],
         running' = (running \ new) \cup ((Served + 1)..(Served + k)),
         queue' = [j \in 1..(asked + n - Served - k) |-> Served + k + j],
         asked + n <= MaxRequests
  PROVE  SlotInv' /\ Past' = Past \cup new /\ Served' = Served + k
<1> USE SpawnerBounds
<1>1. /\ IsFiniteSet(Past) /\ Cardinality(Past) \in Nat
      /\ Past \subseteq 1..Served /\ Served \in 0..asked
      /\ asked \in Nat /\ running \subseteq 1..Served /\ running = (1..Served) \ Past
  BY SlotsLeft DEF SpawnerInv, SlotInv
<1>2. k <= asked + n - Served
  BY <1>1 DEF Spawner!Smaller
<1>3. \A r \in Spawner!Request : r > Served => outcome[r] = "none"
  BY <1>1 DEF SpawnerInv, SlotInv, Spawner!Request
<1> DEFINE p == Cardinality(Past)
           m == Cardinality(new)
<1>12. p \in Nat /\ m \in Nat /\ MaxRequests \in Nat
  BY <1>1, FS_CardinalityType
<1>13. ASSUME NEW r \in Spawner!Request, r > Served + k PROVE outcome'[r] = "none"
  <2>1. r \in Nat /\ Served \in Nat /\ r > Served
    BY <1>1, <1>12, <1>13 DEF Spawner!Request
  <2>2. QED
    BY <1>3, <1>13, <2>1
<1>4. ASSUME NEW r \in Nat PROVE r \in Past' <=> r \in Past \cup new
  <2>1. r \in Past' <=> r \in 1..(asked + n) /\ r \notin running' /\ outcome'[r] # "none"
    BY DEF Past
  <2>2. r \in 1..Served => r \in running \/ r \in Past
    BY <1>1
  <2>3. CASE r \in Past
    <3>1. r \in 1..Served /\ r \notin running /\ outcome[r] # "none" /\ outcome'[r] = outcome[r]
      BY <1>1, <2>3 DEF Past
    <3>2. r \notin (Served + 1)..(Served + k)
      BY <1>1, <3>1
    <3>3. r \in 1..(asked + n)
      BY <1>1, <3>1
    <3>4. QED
      BY <2>1, <2>3, <3>1, <3>2, <3>3
  <2>4. CASE r \in running
    <3>1. r \in 1..Served /\ r \notin Past
      BY <1>1, <2>4
    <3>2. r \notin (Served + 1)..(Served + k) /\ r \in 1..(asked + n)
      BY <1>1, <3>1
    <3>3. QED
      BY <2>1, <2>4, <3>1, <3>2
  <2>5. CASE r \notin 1..Served
    <3>1. r \notin Past /\ r \notin new
      BY <1>1, <2>5
    <3>2. r \in 1..(asked + n) => r \in (Served + 1)..(Served + k) \/ r > Served + k
      BY <1>1, <2>5
    <3>3. r \in 1..(asked + n) /\ r > Served + k => outcome'[r] = "none"
      <4>1. r \in 1..(asked + n) => r \in Spawner!Request
        BY <1>1, <1>12 DEF Spawner!Request
      <4>2. QED
        BY <1>13, <4>1
    <3>4. QED
      BY <2>1, <3>1, <3>2, <3>3
  <2>6. QED
    BY <2>2, <2>3, <2>4, <2>5
<1>5. Past' = Past \cup new
  <2>1. Past' \subseteq Nat
    BY <1>1 DEF Past
  <2>2. Past \cup new \subseteq Nat
    BY <1>1
  <2>3. QED
    BY <1>4, <2>1, <2>2
<1>6. Cardinality(Past') = Cardinality(Past) + Cardinality(new)
  <2>1. Past \cap new = {}
    BY <1>1
  <2>2. QED
    <3>1. Cardinality(Past \cup new) =
            Cardinality(Past) + Cardinality(new) - Cardinality(Past \cap new)
      BY <1>1, FS_Union
    <3>2. Cardinality(Past \cap new) = 0
      BY <2>1, FS_EmptySet
    <3>3. QED
      BY <1>5, <1>12, <3>1, <3>2
<1>7. Served' = Served + k
  <2> DEFINE x == asked + n
             y == MaxConcurrency + (p + m)
  <2>1. x \in Int /\ y \in Int /\ Served \in Int
    BY <1>1, <1>12
  <2>2. Served' = Spawner!Smaller(x, y)
    BY <1>6 DEF Served, Spawner!Smaller
  <2>3. k = Spawner!Smaller(x - Served, y - Served)
    BY <1>1, <1>12 DEF Spawner!Smaller
  <2> HIDE DEF x, y
  <2>4. QED
    BY <2>1, <2>2, <2>3, SmallerShifts
<1>8. running' = (1..Served') \ Past'
  <2>1. ASSUME NEW r \in Nat PROVE r \in running' <=> r \in (1..Served') \ Past'
    <3>1. r \in 1..Served' <=> r \in 1..Served \/ r \in (Served + 1)..(Served + k)
      BY <1>1, <1>7
    <3>2. r \in (Served + 1)..(Served + k) => r \notin 1..Served
      BY <1>1
    <3>3. QED
      BY <1>1, <1>5, <3>1, <3>2
  <2>2. running' \subseteq Nat
    BY <1>1
  <2>3. QED
    BY <1>1, <1>7, <2>1, <2>2, SMTT(30)
<1>9. queue' = [j \in 1..(asked' - Served') |-> Served' + j]
  BY <1>1, <1>7
<1>10. \A r \in Spawner!Request : outcome'[r] # "none" => r <= Served'
  <2>1. ASSUME NEW r \in Spawner!Request, outcome'[r] # "none" PROVE ~ (r > Served + k)
    BY <1>13, <2>1
  <2>2. QED
    BY <1>1, <1>7, <2>1 DEF Spawner!Request
<1>11. QED
  BY <1>5, <1>7, <1>8, <1>9, <1>10 DEF SlotInv, Spawner!Request

\* Requests in a row, the first of them and the rest of them.
LEMMA FirstOfRow ==
  ASSUME NEW a \in Nat, NEW n \in Nat, NEW k \in 0..n
  PROVE  Spawner!First([j \in 1..n |-> a + j], k) = (a + 1)..(a + k)
<1> DEFINE row == [j \in 1..n |-> a + j]
<1>1. ASSUME NEW j \in 1..k PROVE row[j] \in (a + 1)..(a + k)
  OBVIOUS
<1>2. ASSUME NEW r \in (a + 1)..(a + k) PROVE \E j \in 1..k : row[j] = r
  <2>1. r - a \in 1..k /\ r - a \in 1..n /\ a + (r - a) = r
    OBVIOUS
  <2>2. QED
    BY <2>1
<1> HIDE DEF row
<1>3. QED
  BY <1>1, <1>2 DEF Spawner!First, row

LEMMA RestOfRow ==
  ASSUME NEW a \in Nat, NEW n \in Nat, NEW k \in 0..n
  PROVE  SubSeq([j \in 1..n |-> a + j], k + 1, n) = [j \in 1..(n - k) |-> a + k + j]
<1> DEFINE row == [j \in 1..n |-> a + j]
           rest == SubSeq(row, k + 1, n)
<1>1. row \in Seq(Nat) /\ Len(row) = n
  OBVIOUS
<1> HIDE DEF row
<1>2. rest \in Seq(Nat) /\ Len(rest) = n - k
  BY <1>1
<1>3. ASSUME NEW j \in 1..(n - k) PROVE rest[j] = a + k + j
  <2>1. rest[j] = row[k + 1 + j - 1] /\ k + j \in 1..n
    BY <1>1
  <2>2. k + 1 + j - 1 = k + j
    OBVIOUS
  <2>3. row[k + j] = a + (k + j)
    BY <2>1 DEF row
  <2>4. QED
    BY <2>1, <2>2, <2>3
<1>4. rest = [j \in 1..Len(rest) |-> rest[j]]
  BY <1>2
<1> HIDE DEF rest
<1>5. rest = [j \in 1..(n - k) |-> a + k + j]
  BY <1>2, <1>3, <1>4
<1>6. QED
  BY <1>5 DEF rest, row

LEMMA RowsJoin ==
  ASSUME NEW a \in Nat, NEW m \in Nat, NEW n \in Nat
  PROVE  [j \in 1..m |-> a + j] \o [j \in 1..n |-> a + m + j] = [j \in 1..(m + n) |-> a + j]
<1> DEFINE row == [j \in 1..m |-> a + j]
           rest == [j \in 1..n |-> a + m + j]
           all == row \o rest
<1>1. row \in Seq(Nat) /\ Len(row) = m /\ rest \in Seq(Nat) /\ Len(rest) = n
  OBVIOUS
<1> HIDE DEF row, rest
<1>2. all \in Seq(Nat) /\ Len(all) = m + n
  BY <1>1, SMTT(30)
<1> HIDE DEF all
<1>3. ASSUME NEW j \in 1..(m + n) PROVE all[j] = a + j
  <2>1. CASE j <= m
    <3>1. j \in 1..m /\ all[j] = row[j]
      BY <1>1, <2>1 DEF all
    <3>2. QED
      BY <3>1 DEF row
  <2>2. CASE j > m
    <3>1. j - m \in 1..n /\ all[j] = rest[j - m]
      BY <1>1, <2>2 DEF all
    <3>2. rest[j - m] = a + m + (j - m)
      BY <3>1 DEF rest
    <3>3. QED
      BY <3>1, <3>2
  <2>3. QED
    BY <2>1, <2>2
<1>4. all = [j \in 1..Len(all) |-> all[j]]
  BY <1>2
<1>5. all = [j \in 1..(m + n) |-> a + j]
  BY <1>2, <1>3, <1>4
<1>6. QED
  BY <1>5 DEF all, row, rest

\* SlotsMove asks for the outcomes of what does not move; Start changes those of what
\* it starts alone, and Finish that of what it ends as well.
LEMMA BatchStep ==
  ASSUME SpawnerInv, NEW c \in Caller, NEW todo \in Nat, NEW width \in Nat \ {0},
         asked + todo <= MaxRequests, Spawner!SpawnBatch(c, todo, width)
  PROVE  /\ SlotInv' /\ NotStarted' /\ Awaited'
         /\ Spawner!AgentsAreRunning' /\ Spawner!RecordAgrees'
         /\ queue' \in Seq(Spawner!Request) /\ running' \subseteq Spawner!Request
         /\ signalled' \subseteq running' /\ agents' \subseteq Spawner!Request
         /\ state' \in [Spawner!Request -> {"none", "running", "ended"}]
         /\ task' \in [Spawner!Request -> {"none", "running", "completed", "failed"}]
         /\ outcome' \in [Spawner!Request -> {"none", "rejected"} \cup Spawner!Ending]
         /\ \A r \in Spawner!Request : outcome[r] # "none" => task'[r] = task[r]
         /\ \E n \in 0..todo :
              /\ asked' = asked + n
              /\ \E batch \in Seq(Spawner!Request) :
                   caller' = [caller EXCEPT ![c] =
                                [todo |-> todo - n, width |-> width, batch |-> batch]]
<1> USE SpawnerBounds
<1> DEFINE n == Spawner!Smaller(todo, width)
           batch == [j \in 1..n |-> asked + j]
           k == Spawner!Smaller(n, Spawner!Free(running))
           S == Spawner!First(batch, k)
<1>1. /\ IsFiniteSet(Past) /\ Cardinality(Past) \in Nat
      /\ Past \subseteq 1..Served /\ Served \in 0..asked
      /\ asked \in Nat /\ asked <= MaxRequests /\ running \subseteq 1..Served
      /\ Spawner!Free(running) = MaxConcurrency + Cardinality(Past) - Served
      /\ Len(queue) = asked - Served
  BY SlotsLeft
<1>2. n \in 0..todo
  BY DEF Spawner!Smaller
<1>3. Served = Spawner!Smaller(asked, MaxConcurrency + Cardinality(Past))
  BY DEF Served
<1>4. Spawner!Free(running) \in Nat /\ (Served = asked \/ Spawner!Free(running) = 0)
  BY <1>1, <1>3 DEF Spawner!Smaller
<1>5. k \in 0..n /\ (Served = asked \/ k = 0)
  BY <1>2, <1>4 DEF Spawner!Smaller
<1>6. k = Spawner!Smaller(asked + n - Served, MaxConcurrency + Cardinality(Past) + 0 - Served)
  BY <1>1, <1>2, <1>4, SMTT(30) DEF Spawner!Smaller
<1>7. PICK T \in SUBSET S : Spawner!Start(S, T)
  BY DEF Spawner!SpawnBatch, Spawner!Throwing
<1>8. /\ asked' = asked + n
      /\ queue' = queue \o SubSeq(batch, k + 1, n)
      /\ caller' = [caller EXCEPT ![c] = [todo |-> todo - n, width |-> width, batch |-> batch]]
  BY DEF Spawner!SpawnBatch
<1> HIDE DEF n, k
<1>9. S = (Served + 1)..(Served + k)
  <2>1. S = (asked + 1)..(asked + k)
    BY <1>1, <1>2, <1>5, FirstOfRow
  <2> HIDE DEF S
  <2>2. k = 0 => (asked + 1)..(asked + k) = {} /\ (Served + 1)..(Served + k) = {}
    BY <1>1
  <2>3. QED
    BY <1>5, <2>1, <2>2
<1>10. /\ S \subseteq Spawner!Request /\ S \cap running = {} /\ S \cap Past = {}
       /\ \A r \in S : r \in Nat /\ r > Served
  <2> SUFFICES ASSUME NEW r \in (Served + 1)..(Served + k)
               PROVE  /\ r \in Spawner!Request /\ r \notin 1..Served /\ r \in Nat /\ r > Served
    BY <1>1, <1>9
  <2>1. Served + k <= asked + n /\ asked + n <= MaxRequests
    BY <1>1, <1>2, <1>5
  <2>2. QED
    BY <1>1, <1>2, <1>5, <2>1 DEF Spawner!Request
<1> HIDE DEF S
<1>11. batch \in Seq(Spawner!Request) /\ Len(batch) = n
  BY <1>1, <1>2 DEF Spawner!Request
<1>12. queue = [j \in 1..(asked - Served) |-> Served + j] /\ queue \in Seq(Spawner!Request)
  BY DEF SpawnerInv, SlotInv, SpawnerTypes, Spawner!TypeOK
<1>13. queue' = [j \in 1..(asked + n - Served - k) |-> Served + k + j]
  <2>1. SubSeq(batch, k + 1, n) = [j \in 1..(n - k) |-> asked + k + j]
    BY <1>1, <1>2, <1>5, RestOfRow
  <2>2. CASE Served = asked
    <3>1. queue = <<>>
      BY <1>1, <1>12, <2>2
    <3>2. queue' = SubSeq(batch, k + 1, n) /\ asked + n - Served - k = n - k
      BY <1>1, <1>2, <1>5, <1>8, <1>11, <2>2, <3>1
    <3>3. QED
      BY <2>1, <2>2, <3>2
  <2>3. CASE k = 0
    <3> DEFINE m == asked - Served
    <3>1. m \in Nat /\ Served + m = asked /\ n \in Nat
      BY <1>1, <1>2
    <3>2. [j \in 1..m |-> Served + j] \o [j \in 1..n |-> Served + m + j]
            = [j \in 1..(m + n) |-> Served + j]
      BY <1>1, <3>1, RowsJoin
    <3>3. n - k = n /\ asked + k = asked /\ m + n = asked + n - Served - k /\ Served + k = Served
      BY <1>1, <1>2, <2>3
    <3>4. QED
      BY <1>8, <1>12, <2>1, <3>1, <3>2, <3>3
  <2>4. QED
    BY <1>5, <2>2, <2>3
<1>14. /\ running' = running \cup S /\ signalled' = signalled /\ agents' = agents \cup S
       /\ \A r \in Spawner!Request :
            /\ state'[r] = IF r \in S THEN "running" ELSE state[r]
            /\ task'[r] = IF r \in S \ T THEN "running" ELSE task[r]
            /\ outcome'[r] = IF r \in T THEN "rejected" ELSE outcome[r]
  BY <1>7 DEF Spawner!Start
<1>15. SlotInv' /\ Served' = Served + k
  <2>1. \A r \in Past : outcome'[r] = outcome[r]
    BY <1>1, <1>10, <1>14 DEF Spawner!Request
  <2>2. \A r \in Spawner!Request : r > Served + k => outcome'[r] = outcome[r]
    BY <1>1, <1>5, <1>9, <1>14 DEF Spawner!Request
  <2>3. IsFiniteSet({}) /\ Cardinality({}) = 0
    BY FS_EmptySet
  <2>4. running' = (running \ {}) \cup ((Served + 1)..(Served + k))
    BY <1>9, <1>14
  <2>5. n \in Nat /\ k \in Nat /\ asked + n <= MaxRequests
    BY <1>1, <1>2, <1>5
  <2>6. k = Spawner!Smaller(asked + n - Served,
                            MaxConcurrency + Cardinality(Past) + Cardinality({}) - Served)
    BY <1>6, <2>3
  <2>7. asked' = asked + n
    BY <1>8
  <2> HIDE DEF batch
  <2>8. QED
    BY <1>13, <2>1, <2>2, <2>3, <2>4, <2>5, <2>6, <2>7, SlotsMove
<1>16. Spawner!AgentsAreRunning'
  <2>1. agents = running /\ \A r \in running : r \in Spawner!Request /\ state[r] = "running"
    BY DEF SpawnerInv, Spawner!AgentsAreRunning, SpawnerTypes, Spawner!TypeOK
  <2>2. agents' = running' /\ \A r \in running' : state'[r] = "running"
    BY <1>10, <1>14, <2>1
  <2>3. QED
    BY <2>2 DEF Spawner!AgentsAreRunning
<1>17. Spawner!RecordAgrees'
  <2> SUFFICES ASSUME NEW r \in Spawner!Request
               PROVE  /\ outcome'[r] = "completed" => task'[r] = "completed"
                      /\ outcome'[r] = "failed" /\ task'[r] = "completed" =>
                           "onComplete" \in SpawnerMayThrow
    BY DEF Spawner!RecordAgrees, Spawner!Request
  <2>1. r \in S => outcome[r] = "none"
    BY <1>1, <1>10 DEF SpawnerInv, SlotInv, Spawner!Request
  <2>2. QED
    BY <1>14, <2>1 DEF SpawnerInv, Spawner!RecordAgrees
<1>18. /\ queue' \in Seq(Spawner!Request) /\ running' \subseteq Spawner!Request
       /\ signalled' \subseteq running' /\ agents' \subseteq Spawner!Request
  <2>1. /\ running \subseteq Spawner!Request /\ agents \subseteq Spawner!Request
        /\ signalled \subseteq running
    BY DEF SpawnerInv, SpawnerTypes, Spawner!TypeOK
  <2>2. SubSeq(batch, k + 1, n) \in Seq(Spawner!Request)
    BY <1>2, <1>5, <1>11
  <2> HIDE DEF batch
  <2>3. queue' \in Seq(Spawner!Request)
    BY <1>8, <1>12, <2>2
  <2>4. QED
    BY <1>10, <1>14, <2>1, <2>3
<1>19. /\ state' \in [Spawner!Request -> {"none", "running", "ended"}]
       /\ task' \in [Spawner!Request -> {"none", "running", "completed", "failed"}]
       /\ outcome' \in [Spawner!Request -> {"none", "rejected"} \cup Spawner!Ending]
  BY <1>7 DEF Spawner!Start, SpawnerInv, SpawnerTypes, Spawner!TypeOK
<1>20. NotStarted'
  <2>1. ASSUME NEW r \in Spawner!Request, r > Served + k PROVE state'[r] = "none" /\ task'[r] = "none"
    <3>1. r > Served /\ r \notin S
      BY <1>1, <1>5, <1>9, <2>1 DEF Spawner!Request
    <3>2. QED
      BY <1>14, <3>1 DEF SpawnerInv, NotStarted
  <2>2. QED
    BY <1>15, <2>1 DEF NotStarted, Spawner!Request
<1>22. ASSUME NEW r \in S PROVE r \in Spawner!Request /\ outcome[r] = "none" /\ task[r] = "none"
  <2>1. r \in Spawner!Request /\ r \in Nat /\ r > Served /\ Served \in Nat
    BY <1>1, <1>10, <1>22
  <2>2. QED
    BY <2>1 DEF SpawnerInv, SlotInv, NotStarted
<1>23. Awaited'
  <2>1. ASSUME NEW r \in running'
        PROVE  outcome'[r] = "none" \/ (outcome'[r] = "rejected" /\ task'[r] = "none")
    <3>1. r \in S \/ (r \in running /\ r \in Spawner!Request /\ r \notin S)
      BY <1>10, <1>14, <2>1 DEF SpawnerInv, SpawnerTypes, Spawner!TypeOK
    <3>2. QED
      BY <1>14, <1>22, <3>1 DEF SpawnerInv, Awaited
  <2>2. QED
    BY <2>1 DEF Awaited
<1>24. \A r \in Spawner!Request : outcome[r] # "none" => task'[r] = task[r]
  BY <1>14, <1>22
<1>25. QED
  BY <1>2, <1>8, <1>11, <1>20, <1>23, <1>24, <1>15, <1>16, <1>17, <1>18, <1>19

\* A subagent ends: its slot goes to the first in the queue.
LEMMA FinishStep ==
  ASSUME SpawnerInv, NEW r \in running,
         NEW reply \in {"rejected"} \cup Spawner!Ending,
         NEW record \in {"none", "running", "completed", "failed"},
         reply = "completed" => record = "completed",
         reply = "failed" /\ record = "completed" => "onComplete" \in SpawnerMayThrow,
         Spawner!Finish(r, reply, record), UNCHANGED asked
  PROVE  /\ SlotInv' /\ NotStarted' /\ Awaited'
         /\ Spawner!AgentsAreRunning' /\ Spawner!RecordAgrees'
         /\ queue' \in Seq(Spawner!Request) /\ running' \subseteq Spawner!Request
         /\ signalled' \subseteq running' /\ agents' \subseteq Spawner!Request
         /\ state' \in [Spawner!Request -> {"none", "running", "ended"}]
         /\ task' \in [Spawner!Request -> {"none", "running", "completed", "failed"}]
         /\ outcome' \in [Spawner!Request -> {"none", "rejected"} \cup Spawner!Ending]
         /\ \A q \in Spawner!Request :
              outcome[q] # "none" => task'[q] = IF q = r THEN record ELSE task[q]
<1> USE SpawnerBounds
<1> DEFINE k == Spawner!Admitted(running \ {r})
           S == Spawner!First(queue, k)
           gone == Spawner!Dropped(r)
<1>1. /\ IsFiniteSet(Past) /\ Cardinality(Past) \in Nat
      /\ Past \subseteq 1..Served /\ Served \in 0..asked
      /\ asked \in Nat /\ asked <= MaxRequests /\ running \subseteq 1..Served
      /\ Cardinality(running) = Served - Cardinality(Past)
      /\ Len(queue) = asked - Served
  BY SlotsLeft
<1>2. queue = [j \in 1..(asked - Served) |-> Served + j] /\ queue \in Seq(Spawner!Request)
  BY DEF SpawnerInv, SlotInv, SpawnerTypes, Spawner!TypeOK
<1>3. Cardinality(running \ {r}) = Served - Cardinality(Past) - 1
  <2>1. IsFiniteSet(1..Served)
    BY <1>1, FS_Interval
  <2>2. IsFiniteSet(running)
    BY <1>1, <2>1, FS_Subset
  <2>3. QED
    BY <1>1, <2>2, FS_RemoveElement
<1>4. Served <= MaxConcurrency + Cardinality(Past)
  BY <1>1 DEF Served, Spawner!Smaller
<1>5. Spawner!Free(running \ {r}) = MaxConcurrency + Cardinality(Past) + 1 - Served
  BY <1>1, <1>3, <1>4, SpawnerCounts DEF Spawner!Free, Spawner!Beyond
<1>6. k = Spawner!Smaller(asked + 0 - Served, MaxConcurrency + Cardinality(Past) + 1 - Served)
  BY <1>1, <1>5 DEF Spawner!Admitted
<1>7. k \in 0..(asked - Served)
  BY <1>1, <1>4, <1>6 DEF Spawner!Smaller
<1>8. /\ queue' = SubSeq(queue, k + 1, Len(queue))
      /\ running' = (running \ {r}) \cup S
      /\ signalled' = signalled \ {r}
      /\ agents' = (agents \ {r}) \cup S
      /\ state' = [q \in Spawner!Request |->
                     CASE q \in S -> "running"
                       [] q \in gone -> "none"
                       [] q \notin S \cup gone -> IF q = r THEN "ended" ELSE state[q]]
  BY DEF Spawner!Finish
<1>9. PICK T \in SUBSET S :
        /\ task' = [q \in Spawner!Request |-> IF q \in S \ T THEN "running"
                                              ELSE IF q = r THEN record ELSE task[q]]
        /\ outcome' = [q \in Spawner!Request |-> IF q \in T THEN "rejected"
                                                 ELSE IF q = r THEN reply ELSE outcome[q]]
  BY DEF Spawner!Finish, Spawner!Throwing
<1>10. gone \subseteq {q \in Spawner!Tracked : state[q] # "running"} \cup {r}
  BY DEF Spawner!Dropped, Spawner!Oldest
<1> HIDE DEF k, gone
<1>11. S = (Served + 1)..(Served + k)
  BY <1>1, <1>2, <1>7, FirstOfRow
<1>12. queue' = [j \in 1..(asked + 0 - Served - k) |-> Served + k + j]
  <2>1. SubSeq([j \in 1..(asked - Served) |-> Served + j], k + 1, asked - Served)
          = [j \in 1..(asked - Served - k) |-> Served + k + j]
    BY <1>1, <1>7, RestOfRow
  <2>2. asked + 0 - Served - k = asked - Served - k
    BY <1>1, <1>7
  <2>3. QED
    BY <1>1, <1>2, <1>8, <2>1, <2>2
<1> HIDE DEF S
<1>13. /\ S \subseteq Spawner!Request /\ S \cap running = {} /\ S \cap Past = {}
       /\ \A q \in S : q \in Nat /\ q > Served
  <2> SUFFICES ASSUME NEW q \in (Served + 1)..(Served + k)
               PROVE  /\ q \in Spawner!Request /\ q \notin 1..Served /\ q \in Nat /\ q > Served
    BY <1>1, <1>11
  <2>1. Served + k <= asked
    BY <1>1, <1>7
  <2>2. QED
    BY <1>1, <1>7, <2>1 DEF Spawner!Request
<1>14. r \in 1..Served /\ r \in Spawner!Request /\ r \notin S /\ r \notin Past
  <2>1. r \in 1..Served /\ r \notin Past
    BY <1>1 DEF SpawnerInv, SlotInv
  <2>2. QED
    BY <1>1, <1>13, <2>1 DEF Spawner!Request
<1>15. SlotInv' /\ Served' = Served + k
  <2>1. \A q \in Past : outcome'[q] = outcome[q]
    BY <1>1, <1>9, <1>13, <1>14 DEF Spawner!Request
  <2>2. \A q \in Spawner!Request : q > Served + k => outcome'[q] = outcome[q]
    BY <1>1, <1>7, <1>9, <1>11, <1>14 DEF Spawner!Request
  <2>3. IsFiniteSet({r}) /\ Cardinality({r}) = 1
    BY FS_Singleton
  <2>4. running' = (running \ {r}) \cup ((Served + 1)..(Served + k))
    BY <1>8, <1>11
  <2>5. \A q \in {r} : outcome'[q] # "none"
    BY <1>9, <1>13, <1>14 DEF Spawner!Ending
  <2>6. k = Spawner!Smaller(asked + 0 - Served,
                            MaxConcurrency + Cardinality(Past) + Cardinality({r}) - Served)
    BY <1>6, <2>3
  <2>7. asked' = asked + 0 /\ asked + 0 <= MaxRequests /\ k \in Nat /\ 0 \in Nat
        /\ {r} \in SUBSET running
    BY <1>1, <1>7
  <2>8. QED
    BY <1>12, <2>1, <2>2, <2>3, <2>4, <2>5, <2>6, <2>7, SlotsMove
<1>16. Spawner!AgentsAreRunning'
  <2>1. agents = running /\ \A q \in running : q \in Spawner!Request /\ state[q] = "running"
    BY DEF SpawnerInv, Spawner!AgentsAreRunning, SpawnerTypes, Spawner!TypeOK
  <2>2. ASSUME NEW q \in running' PROVE state'[q] = "running"
    <3>1. CASE q \in S
      <4>1. q \in Spawner!Request /\ q # r /\ state[q] = "none"
        BY <1>13, <1>14, <3>1 DEF SpawnerInv, NotStarted
      <4>2. q \notin gone
        BY <1>10, <4>1 DEF Spawner!Tracked
      <4>3. QED
        BY <1>8, <3>1, <4>1, <4>2
    <3>2. CASE q \notin S
      <4>1. q \in running /\ q # r /\ state[q] = "running" /\ q \in Spawner!Request
        BY <1>8, <2>1, <3>2
      <4>2. q \notin gone
        BY <1>10, <4>1
      <4>3. QED
        BY <1>8, <3>2, <4>1, <4>2
    <3>3. QED
      BY <3>1, <3>2
  <2>3. agents' = running'
    BY <1>8, <2>1
  <2>4. QED
    BY <2>2, <2>3 DEF Spawner!AgentsAreRunning
<1>17. Spawner!RecordAgrees'
  <2> SUFFICES ASSUME NEW q \in Spawner!Request
               PROVE  /\ outcome'[q] = "completed" => task'[q] = "completed"
                      /\ outcome'[q] = "failed" /\ task'[q] = "completed" =>
                           "onComplete" \in SpawnerMayThrow
    BY DEF Spawner!RecordAgrees, Spawner!Request
  <2>1. q \in S => outcome[q] = "none"
    BY <1>1, <1>13 DEF SpawnerInv, SlotInv, Spawner!Request
  <2>2. QED
    BY <1>9, <1>14, <2>1 DEF SpawnerInv, Spawner!RecordAgrees
<1>18. /\ queue' \in Seq(Spawner!Request) /\ running' \subseteq Spawner!Request
       /\ signalled' \subseteq running' /\ agents' \subseteq Spawner!Request
  <2>1. /\ running \subseteq Spawner!Request /\ agents \subseteq Spawner!Request
        /\ signalled \subseteq running
    BY DEF SpawnerInv, SpawnerTypes, Spawner!TypeOK
  <2>2. queue' \in Seq(Spawner!Request)
    <3>1. queue \in Seq(Spawner!Request) /\ k \in 0..Len(queue)
      BY <1>1, <1>2, <1>7
    <3>2. SubSeq(queue, k + 1, Len(queue)) \in Seq(Spawner!Request)
      BY <3>1
    <3>3. QED
      BY <1>8, <3>2
  <2>3. QED
    BY <1>8, <1>13, <2>1, <2>2
<1>19. /\ state' \in [Spawner!Request -> {"none", "running", "ended"}]
       /\ task' \in [Spawner!Request -> {"none", "running", "completed", "failed"}]
       /\ outcome' \in [Spawner!Request -> {"none", "rejected"} \cup Spawner!Ending]
  <2>1. /\ state \in [Spawner!Request -> {"none", "running", "ended"}]
        /\ task \in [Spawner!Request -> {"none", "running", "completed", "failed"}]
        /\ outcome \in [Spawner!Request -> {"none", "rejected"} \cup Spawner!Ending]
    BY DEF SpawnerInv, SpawnerTypes, Spawner!TypeOK
  <2>2. state' \in [Spawner!Request -> {"none", "running", "ended"}]
    BY <1>8, <2>1
  <2>3. QED
    BY <1>9, <2>1, <2>2
<1>20. NotStarted'
  <2>1. ASSUME NEW q \in Spawner!Request, q > Served + k PROVE state'[q] = "none" /\ task'[q] = "none"
    <3>1. q > Served /\ q \notin S /\ q # r
      BY <1>1, <1>7, <1>11, <1>14, <2>1 DEF Spawner!Request
    <3>2. state[q] = "none" /\ task[q] = "none"
      BY <3>1 DEF SpawnerInv, NotStarted
    <3>3. q \notin gone
      BY <1>10, <3>1, <3>2 DEF Spawner!Tracked
    <3>4. QED
      BY <1>8, <1>9, <3>1, <3>2, <3>3
  <2>2. QED
    BY <1>15, <2>1 DEF NotStarted, Spawner!Request
<1>21. ASSUME NEW q \in S
       PROVE  q \in Spawner!Request /\ q # r /\ outcome[q] = "none" /\ task[q] = "none"
  <2>1. q \in Spawner!Request /\ q # r /\ q \in Nat /\ q > Served /\ Served \in Nat
    BY <1>1, <1>13, <1>14, <1>21
  <2>2. QED
    BY <2>1 DEF SpawnerInv, SlotInv, NotStarted
<1>22. Awaited'
  <2>1. ASSUME NEW q \in running'
        PROVE  outcome'[q] = "none" \/ (outcome'[q] = "rejected" /\ task'[q] = "none")
    <3>1. q \in S \/ (q \in running /\ q \in Spawner!Request /\ q \notin S /\ q # r)
      BY <1>8, <1>13, <2>1 DEF SpawnerInv, SpawnerTypes, Spawner!TypeOK
    <3>2. QED
      BY <1>9, <1>21, <3>1 DEF SpawnerInv, Awaited
  <2>2. QED
    BY <2>1 DEF Awaited
<1>23. \A q \in Spawner!Request :
         outcome[q] # "none" => task'[q] = IF q = r THEN record ELSE task[q]
  BY <1>9, <1>21
<1>24. QED
  BY <1>20, <1>22, <1>23, <1>15, <1>16, <1>17, <1>18, <1>19

\* What is recorded of a task once its caller was told anything.
LateFails ==
  \A r \in Spawner!Request :
    outcome[r] # "none" => task'[r] = task[r] \/ (task[r] = "running" /\ task'[r] = "failed")

LEMMA SpawnerStep == SpawnerInv /\ [Spawner!Next]_spawnerVars => SpawnerInv' /\ LateFails
<1> SUFFICES ASSUME SpawnerInv, [Spawner!Next]_spawnerVars PROVE SpawnerInv' /\ LateFails
  OBVIOUS
<1> USE SpawnerBounds
<1>1. /\ Spawner!TypeOK /\ Todo \in [Caller -> Nat] /\ IsFiniteSet(ToSpawn(Todo))
      /\ asked + Cardinality(ToSpawn(Todo)) <= planned
      /\ asked \in Nat /\ planned \in Nat /\ planned <= MaxRequests
  BY DEF SpawnerInv, SpawnerTypes, Spawner!TypeOK, Todo
<1>2. ASSUME NEW c \in Caller, NEW todo \in Nat, NEW width \in Nat \ {0},
             Spawner!SpawnBatch(c, todo, width), planned' \in Nat, planned' <= MaxRequests,
             asked + (Cardinality(ToSpawn(Todo)) - Todo[c]) + todo <= planned'
      PROVE  SpawnerInv' /\ LateFails
  <2>1. Cardinality(ToSpawn(Todo)) \in Nat /\ Cardinality(ToSpawn(Todo)) >= Todo[c]
    BY <1>1, ToSpawnChanges
  <2>2. asked + todo <= MaxRequests
    BY <1>1, <1>2, <2>1
  <2>3. PICK n \in 0..todo :
          /\ asked' = asked + n
          /\ \E batch \in Seq(Spawner!Request) :
               caller' = [caller EXCEPT ![c] =
                            [todo |-> todo - n, width |-> width, batch |-> batch]]
    BY <1>2, <2>2, BatchStep
  <2>4. PICK batch \in Seq(Spawner!Request) :
          caller' = [caller EXCEPT ![c] = [todo |-> todo - n, width |-> width, batch |-> batch]]
    BY <2>3
  <2>5. caller \in [Caller -> [todo : Nat, width : Nat, batch : Seq(Spawner!Request)]]
    BY <1>1 DEF Spawner!TypeOK
  <2>6. Todo' = [Todo EXCEPT ![c] = todo - n] /\ todo - n \in Nat
    <3>1. todo - n \in Nat
      BY <2>3
    <3>2. \A b \in Caller : caller'[b].todo = IF b = c THEN todo - n ELSE caller[b].todo
      BY <2>4, <2>5
    <3>3. QED
      BY <3>1, <3>2 DEF Todo
  <2>7. /\ IsFiniteSet(ToSpawn(Todo')) /\ Todo[c] \in Nat
        /\ Cardinality(ToSpawn(Todo')) = Cardinality(ToSpawn(Todo)) - Todo[c] + (todo - n)
    BY <1>1, <2>6, ToSpawnChanges
  <2>8. asked' + Cardinality(ToSpawn(Todo')) <= planned'
    BY <1>1, <1>2, <2>1, <2>3, <2>7
  <2>9. Cardinality(ToSpawn(Todo')) \in Nat
    BY <2>7, FS_CardinalityType
  <2>10. /\ caller' \in [Caller -> [todo : Nat, width : Nat, batch : Seq(Spawner!Request)]]
         /\ \A b \in Caller : caller'[b].width # 0
    <3>1. [todo |-> todo - n, width |-> width, batch |-> batch]
            \in [todo : Nat, width : Nat, batch : Seq(Spawner!Request)]
      BY <2>6
    <3>2. QED
      BY <2>4, <2>5, <3>1 DEF SpawnerInv, SpawnerTypes
  <2>11. asked' \in 0..MaxRequests /\ planned' \in asked'..MaxRequests
    BY <1>1, <1>2, <2>3, <2>8, <2>9
  <2>12. Spawner!TypeOK'
    BY <1>2, <2>2, <2>10, <2>11, BatchStep DEF Spawner!TypeOK, Spawner!Request, Spawner!Ending
  <2>13. SpawnerTypes'
    BY <2>7, <2>8, <2>10, <2>12 DEF SpawnerTypes, ToSpawn
  <2>14. LateFails
    BY <1>2, <2>2, BatchStep DEF LateFails
  <2>15. QED
    BY <1>2, <2>2, <2>13, <2>14, BatchStep DEF SpawnerInv
<1>3. ASSUME NEW c \in Caller, caller' = [caller EXCEPT ![c] = Spawner!Idle],
             UNCHANGED <<asked, queue, running, signalled, agents, state, task, outcome, planned>>
      PROVE  SpawnerInv' /\ LateFails
  <2>1. caller \in [Caller -> [todo : Nat, width : Nat, batch : Seq(Spawner!Request)]]
    BY <1>1 DEF Spawner!TypeOK
  <2>2. Spawner!Idle \in [todo : Nat, width : Nat, batch : Seq(Spawner!Request)]
        /\ Spawner!Idle.todo = 0 /\ Spawner!Idle.width = 1
    BY DEF Spawner!Idle
  <2>3. Todo' = [Todo EXCEPT ![c] = 0]
    BY <1>3, <2>1, <2>2 DEF Todo
  <2>4. /\ IsFiniteSet(ToSpawn(Todo')) /\ Todo[c] \in Nat
        /\ Cardinality(ToSpawn(Todo)) \in Nat
        /\ Cardinality(ToSpawn(Todo')) = Cardinality(ToSpawn(Todo)) - Todo[c] + 0
    BY <1>1, <2>3, ToSpawnChanges
  <2>5. asked' + Cardinality(ToSpawn(Todo')) <= planned'
    BY <1>1, <1>3, <2>4
  <2>6. SpawnerTypes'
    BY <1>1, <1>3, <2>1, <2>2, <2>4, <2>5
       DEF SpawnerTypes, SpawnerInv, Spawner!TypeOK, ToSpawn
  <2>7. /\ SlotInv' /\ NotStarted' /\ Awaited'
        /\ Spawner!AgentsAreRunning' /\ Spawner!RecordAgrees'
    BY <1>3 DEF SpawnerInv, SlotInv, NotStarted, Awaited, Past, Served, Spawner!AgentsAreRunning,
                Spawner!RecordAgrees
  <2>8. QED
    BY <1>3, <2>6, <2>7 DEF SpawnerInv, LateFails
<1>4. ASSUME NEW c \in Caller, NEW n \in Spawner!Request, NEW width \in Nat \ {0},
             caller[c] = Spawner!Idle, planned + n <= MaxRequests, planned' = planned + n,
             Spawner!SpawnBatch(c, n, width)
      PROVE  SpawnerInv' /\ LateFails
  <2>1. Todo[c] = 0 /\ n \in Nat
    BY <1>4 DEF Todo, Spawner!Idle, Spawner!Request
  <2>2. Cardinality(ToSpawn(Todo)) \in Nat
    BY <1>1, FS_CardinalityType
  <2>3. asked + (Cardinality(ToSpawn(Todo)) - Todo[c]) + n <= planned'
    BY <1>1, <1>4, <2>1, <2>2
  <2>4. planned' \in Nat /\ planned' <= MaxRequests
    BY <1>1, <1>4, <2>1
  <2>5. QED
    BY <1>2, <1>4, <2>1, <2>3, <2>4
<1>5. ASSUME NEW c \in Caller, NEW n \in Spawner!Request,
             Spawner!SpawnSequence(c, n) \/ Spawner!SpawnParallel(c, n)
      PROVE  SpawnerInv' /\ LateFails
  <2>1. 1 \in Nat \ {0} /\ MaxConcurrency \in Nat \ {0}
    OBVIOUS
  <2>2. QED
    BY <1>4, <1>5, <2>1 DEF Spawner!SpawnSequence, Spawner!SpawnParallel
<1>6. ASSUME NEW c \in Caller, Spawner!BatchRejected(c) PROVE SpawnerInv' /\ LateFails
  BY <1>3, <1>6 DEF Spawner!BatchRejected, Spawner!subagents
<1>7. ASSUME NEW c \in Caller, Spawner!BatchResolved(c) PROVE SpawnerInv' /\ LateFails
  <2>1. CASE caller[c].todo > 0
    <3>1. caller[c].todo \in Nat /\ caller[c].width \in Nat \ {0} /\ Todo[c] = caller[c].todo
      BY DEF SpawnerInv, SpawnerTypes, Spawner!TypeOK, Todo
    <3>2. Spawner!SpawnBatch(c, caller[c].todo, caller[c].width) /\ planned' = planned
      BY <1>7, <2>1 DEF Spawner!BatchResolved
    <3>3. Cardinality(ToSpawn(Todo)) \in Nat
      BY <1>1, FS_CardinalityType
    <3>4. asked + (Cardinality(ToSpawn(Todo)) - Todo[c]) + caller[c].todo <= planned'
      BY <1>1, <3>1, <3>2, <3>3
    <3>5. QED
      BY <1>1, <1>2, <3>1, <3>2, <3>4
  <2>2. CASE ~ (caller[c].todo > 0)
    BY <1>3, <1>7, <2>2 DEF Spawner!BatchResolved, Spawner!subagents
  <2>3. QED
    BY <2>1, <2>2
<1>8. ASSUME NEW r \in running, NEW reply \in {"rejected"} \cup Spawner!Ending,
             NEW record \in {"none", "running", "completed", "failed"},
             reply = "completed" => record = "completed",
             reply = "failed" /\ record = "completed" => "onComplete" \in SpawnerMayThrow,
             outcome[r] = "none" \/ record = task[r],
             Spawner!Finish(r, reply, record), UNCHANGED <<asked, caller, planned>>
      PROVE  SpawnerInv' /\ LateFails
  <2>1. Spawner!TypeOK'
    BY <1>1, <1>8, FinishStep DEF Spawner!TypeOK, Spawner!Request, Spawner!Ending
  <2>2. Todo' = Todo /\ \A c \in Caller : caller'[c].width # 0
    BY <1>8 DEF Todo, SpawnerInv, SpawnerTypes
  <2>3. SpawnerTypes'
    BY <1>1, <1>8, <2>1, <2>2 DEF SpawnerTypes, ToSpawn
  <2>4. /\ SlotInv' /\ NotStarted' /\ Awaited'
        /\ Spawner!AgentsAreRunning' /\ Spawner!RecordAgrees'
    BY <1>8, FinishStep
  <2>5. LateFails
    BY <1>8, FinishStep DEF LateFails
  <2>6. QED
    BY <2>3, <2>4, <2>5 DEF SpawnerInv
<1>9. ASSUME NEW r \in Spawner!Request, NEW how \in {"completed", "failed"},
             Spawner!Answers(r, how)
      PROVE  SpawnerInv' /\ LateFails
  <2>1. r \in running /\ outcome[r] = "none"
    BY <1>9 DEF Spawner!Answers, SpawnerInv, Awaited
  <2>2. QED
    BY <1>8, <1>9, <2>1 DEF Spawner!Answers, Spawner!Caught, Spawner!Throwing, Spawner!Ending
<1>10. ASSUME NEW r \in Spawner!Request, Spawner!GivesUp(r) PROVE SpawnerInv' /\ LateFails
  <2>1. r \in running /\ task[r] \in {"none", "running", "completed", "failed"}
    BY <1>1, <1>10 DEF Spawner!GivesUp, Spawner!TypeOK
  <2>2. /\ UNCHANGED <<asked, caller, planned>>
        /\ \E reply \in {"rejected", "timeout"} : Spawner!Finish(r, reply, task[r])
    BY <1>10 DEF Spawner!GivesUp, Spawner!Caught, Spawner!Throwing
  <2>3. QED
    BY <1>8, <2>1, <2>2 DEF Spawner!Ending
<1>11. ASSUME UNCHANGED <<asked, queue, running, agents, outcome, caller, planned>>,
              signalled' \subseteq running,
              state' \in [Spawner!Request -> {"none", "running", "ended"}],
              task' \in [Spawner!Request -> {"none", "running", "completed", "failed"}],
              \A q \in running : state'[q] = "running", Spawner!RecordAgrees',
              \A q \in Spawner!Request : state[q] = "none" => state'[q] = "none",
              \A q \in Spawner!Request : task[q] = "none" => task'[q] = "none",
              LateFails
       PROVE  SpawnerInv' /\ LateFails
  <2>1. SpawnerTypes'
    BY <1>11 DEF SpawnerInv, SpawnerTypes, Spawner!TypeOK, ToSpawn, Todo
  <2>2. SlotInv'
    BY <1>11 DEF SpawnerInv, SlotInv, Past, Served
  <2>3. NotStarted' /\ Awaited'
    BY <1>11 DEF SpawnerInv, SpawnerTypes, Spawner!TypeOK, NotStarted, Awaited, Past, Served
  <2>4. QED
    BY <1>11, <2>1, <2>2, <2>3 DEF SpawnerInv, Spawner!AgentsAreRunning
<1>12. ASSUME NEW r \in Spawner!Request, Spawner!AnswersLate(r) PROVE SpawnerInv' /\ LateFails
  <2>1. /\ task[r] = "running" /\ task' = [task EXCEPT ![r] = "failed"]
        /\ UNCHANGED <<asked, queue, running, signalled, agents, state, outcome, caller, planned>>
    BY <1>12 DEF Spawner!AnswersLate
  <2>2. Spawner!RecordAgrees'
    BY <1>1, <2>1 DEF SpawnerInv, Spawner!RecordAgrees, Spawner!TypeOK
  <2>3. LateFails
    BY <1>1, <2>1 DEF LateFails, Spawner!TypeOK
  <2>4. QED
    BY <1>1, <1>11, <2>1, <2>2, <2>3 DEF SpawnerInv, Spawner!AgentsAreRunning, Spawner!TypeOK
<1>13. CASE Spawner!ClearFinished
  <2>1. /\ state' = [r \in Spawner!Request |-> IF state[r] = "running" THEN "running" ELSE "none"]
        /\ UNCHANGED <<asked, queue, running, signalled, agents, task, outcome, caller, planned>>
    BY <1>13 DEF Spawner!ClearFinished
  <2>2. Spawner!RecordAgrees'
    BY <2>1 DEF SpawnerInv, Spawner!RecordAgrees
  <2>3. LateFails
    BY <2>1 DEF LateFails
  <2>4. QED
    BY <1>1, <1>11, <2>1, <2>2, <2>3 DEF SpawnerInv, Spawner!AgentsAreRunning, Spawner!TypeOK
<1>14. CASE UNCHANGED spawnerVars
  <2>1. Spawner!RecordAgrees'
    BY <1>14 DEF spawnerVars, SpawnerInv, Spawner!RecordAgrees
  <2>2. LateFails
    BY <1>14 DEF spawnerVars, LateFails
  <2>3. QED
    BY <1>1, <1>11, <1>14, <2>1, <2>2
       DEF spawnerVars, SpawnerInv, Spawner!AgentsAreRunning, Spawner!TypeOK
<1>15. ASSUME NEW r \in Spawner!Request, Spawner!TimesOut(r) PROVE SpawnerInv' /\ LateFails
  <2>1. /\ r \in running /\ signalled' = signalled \cup {r}
        /\ UNCHANGED <<asked, queue, running, agents, state, task, outcome, caller, planned>>
    BY <1>15 DEF Spawner!TimesOut
  <2>2. Spawner!RecordAgrees'
    BY <2>1 DEF SpawnerInv, Spawner!RecordAgrees
  <2>3. LateFails
    BY <2>1 DEF LateFails
  <2>4. QED
    BY <1>1, <1>11, <2>1, <2>2, <2>3 DEF SpawnerInv, Spawner!AgentsAreRunning, Spawner!TypeOK
<1>16. ASSUME NEW r \in Spawner!Request, NEW how \in {"completed", "failed"},
              Spawner!AnswersSignal(r, how)
       PROVE  SpawnerInv' /\ LateFails
  <2>1. /\ r \in running /\ task[r] = "running" /\ task' = [task EXCEPT ![r] = how]
        /\ UNCHANGED <<asked, queue, running, signalled, agents, state, outcome, caller, planned>>
    BY <1>1, <1>16 DEF Spawner!AnswersSignal, Spawner!TypeOK
  <2>2. Spawner!RecordAgrees'
    <3>1. outcome[r] \notin {"completed", "failed"}
      BY <2>1 DEF SpawnerInv, Awaited
    <3>2. QED
      BY <1>1, <2>1, <3>1 DEF SpawnerInv, Spawner!RecordAgrees, Spawner!TypeOK
  <2>3. LateFails
    BY <1>1, <2>1 DEF SpawnerInv, Awaited, LateFails
  <2>4. QED
    BY <1>1, <1>11, <2>1, <2>2, <2>3 DEF SpawnerInv, Spawner!AgentsAreRunning, Spawner!TypeOK
<1>17. QED
  BY <1>5, <1>6, <1>7, <1>9, <1>10, <1>12, <1>13, <1>14, <1>15, <1>16 DEF Spawner!Next

LEMMA SpawnerInvariance == Spec => []SpawnerInv
<1>1. SpawnerInv /\ [Next]_vars => SpawnerInv'
  BY StepOfEach, SpawnerStep
<1>2. QED
  BY <1>1, SpawnerInitially, PTL DEF Spec

\* ServedInOrder: however requests come and end, they get their slots in the order of the
\* calls, no more than maxConcurrency at a time, and none waits while a slot is free
\* (spawner.ts:62-74, 164-191).
THEOREM SlotsAreServedInOrder == Spec => []ServedInOrder
<1>1. SpawnerInv => ServedInOrder
  BY SpawnerCounts
     DEF SpawnerInv, SlotInv, Past, Served, ServedInOrder, Spawner!ServedInOrder
<1>2. QED
  BY <1>1, SpawnerInvariance, PTL

\* RecordsAgree: the manager knows exactly what runs, the history keeps it, a success is
\* recorded as one, and a task that is recorded as completed is reported as failed only
\* where onComplete throws; a timeout agrees with any record.  Once its caller was told
\* anything, the record of a task can change in one way only, from running to failed
\* (spawner.ts:85, 126-166, 303-315; index.ts:296-302, 349-381).
THEOREM RecordsAlwaysAgree == Spec => RecordsAgree
<1>1. SpawnerInv => Spawner!AgentsAreRunning /\ Spawner!RecordAgrees
  BY DEF SpawnerInv
<1>2. SpawnerInv /\ [Next]_vars => [LateFails]_(Spawner!vars)
  BY StepOfEach, SpawnerStep
<1>3. QED
  BY <1>1, <1>2, SpawnerInvariance, PTL
     DEF Spec, RecordsAgree, LateFails, Spawner!LateAnswersFail

-----------------------------------------------------------------------------
(* AgentChannel *)

Replies(m) == {i \in 1..Len(sent) : sent[i].topic = m}

Elements(s) == {s[i] : i \in 1..Len(s)}

\* Direct messages go to agents, requests to public topics and replies to requests; a
\* request reaches others than its sender, so that they are the ones who reply; and the
\* dead letters of a topic were sent to it.
AddressInv ==
  /\ \A m \in Channel!Message : sending[m] # 0 => m <= Len(sent) /\ sent[m].topic \in Agent
  /\ \A m \in Channel!Message : request[m] # "none" =>
       m <= Len(sent) /\ sent[m].topic \in PublicTopic
  /\ \A a \in Agent, m \in Channel!Message : <<a, m>> \in delivered =>
       m <= Len(sent) /\ (request[m] # "none" => a # sent[m].from)
  /\ \A m \in Channel!Message : \A i \in Replies(m) :
       request[m] # "none" /\ sent[i].from # sent[m].from
  /\ \A t \in Channel!Topic : \A m \in Elements(dead[t]) : m <= Len(sent) /\ sent[m].topic = t

\* The numbers of the subscriptions: each is of one topic, and known to its agent only.
NumberInv ==
  /\ \A t \in Channel!Topic : Len(subsByTopic[t]) <= made
  /\ \A t \in Channel!Topic : \A sub \in Elements(subsByTopic[t]) :
       /\ sub.number <= made
       /\ \A u \in Channel!Topic : \A other \in Elements(subsByTopic[u]) :
            sub.number = other.number => t = u
       /\ \A a \in Agent : sub.number \in Elements(subsByAgent[a]) => sub.agent = a
  /\ \A a \in Agent : \A n \in Elements(subsByAgent[a]) : n <= made

\* What may be subscribed to the reply to m, and what has come.
ReplyFits(m) ==
  /\ request[m] # "waiting" => subsByTopic[m] = <<>>
  /\ request[m] = "publishing" /\ Replies(m) # {} => dead[m] # <<>>
  /\ Len(subsByTopic[m]) <= 1
  /\ \A sub \in Elements(subsByTopic[m]) : sub.agent = sent[m].from /\ sub.once
  /\ request[m] = "waiting" /\ sent[m].from \notin removed =>
       subsByTopic[m] # <<>> /\ Replies(m) = {}

ChannelInv ==
  Channel!TypeOK /\ AddressInv /\ NumberInv /\ \A m \in Channel!Message : ReplyFits(m)

LEMMA ElementsOf ==
  ASSUME NEW S, NEW s \in Seq(S)
  PROVE  /\ Elements(s) \subseteq S
         /\ s = <<>> <=> Elements(s) = {}
         /\ \A i \in 1..Len(s) : s[i] \in Elements(s)
<1>1. \A i \in 1..Len(s) : s[i] \in S
  OBVIOUS
<1>2. s # <<>> => 1 \in 1..Len(s)
  OBVIOUS
<1>3. QED
  BY <1>1, <1>2 DEF Elements

LEMMA ElementsOfAppend ==
  ASSUME NEW S, NEW s \in Seq(S), NEW x \in S
  PROVE  Elements(Append(s, x)) = Elements(s) \cup {x} /\ Append(s, x) # <<>>
<1>1. /\ Append(s, x) \in Seq(S) /\ Len(Append(s, x)) = Len(s) + 1 /\ Len(s) \in Nat
      /\ Append(s, x)[Len(s) + 1] = x /\ \A i \in 1..Len(s) : Append(s, x)[i] = s[i]
  OBVIOUS
<1>2. \A i \in 1..(Len(s) + 1) : i \in 1..Len(s) \/ i = Len(s) + 1
  BY <1>1
<1>3. Len(s) + 1 \in 1..(Len(s) + 1) /\ \A i \in 1..Len(s) : i \in 1..(Len(s) + 1)
  BY <1>1
<1>4. ASSUME NEW y \in Elements(Append(s, x)) PROVE y \in Elements(s) \cup {x}
  BY <1>1, <1>2 DEF Elements
<1>5. ASSUME NEW y \in Elements(s) \cup {x} PROVE y \in Elements(Append(s, x))
  <2>1. CASE y = x
    BY <1>1, <1>3, <2>1 DEF Elements
  <2>2. CASE y \in Elements(s)
    BY <1>1, <1>3, <2>2 DEF Elements
  <2>3. QED
    BY <2>1, <2>2
<1>6. Append(s, x) # <<>>
  BY <1>1
<1>7. QED
  BY <1>4, <1>5, <1>6

(* The operators of the instance are those of the modules it extends.     *)
LEMMA ChannelSublists ==
  /\ \A s : \A I : Channel!Sublist(s, I) = Sublist(s, I)
  /\ \A s : \A S : Channel!Without(s, S) = Without(s, S)
  BY DEF Channel!Without, Channel!Sublist, Without, Sublist, Channel!Cardinality, Cardinality

LEMMA UnnumberedProperties ==
  ASSUME NEW S, NEW subs \in Seq(S), NEW T
  PROVE  /\ Channel!Unnumbered(subs, T) \in Seq(S)
         /\ Len(Channel!Unnumbered(subs, T)) <= Len(subs)
         /\ Elements(Channel!Unnumbered(subs, T)) = {sub \in Elements(subs) : sub.number \notin T}
<1> DEFINE I == {i \in DOMAIN subs : subs[i].number \notin T}
<1>1. I \in SUBSET (1..Len(subs)) /\ \A i \in 1..Len(subs) : i \in I <=> subs[i].number \notin T
  OBVIOUS
<1>2. Channel!Unnumbered(subs, T) = Sublist(subs, I)
  BY ChannelSublists DEF Channel!Unnumbered
<1> HIDE DEF I
<1>3. /\ Sublist(subs, I) \in Seq(S) /\ Len(Sublist(subs, I)) <= Len(subs)
      /\ \A j \in 1..Len(Sublist(subs, I)) : \E i \in I : Sublist(subs, I)[j] = subs[i]
      /\ \A i \in I : \E j \in 1..Len(Sublist(subs, I)) : Sublist(subs, I)[j] = subs[i]
  BY <1>1, SublistProperties
<1>4. ASSUME NEW sub \in Elements(Sublist(subs, I))
      PROVE  sub \in Elements(subs) /\ sub.number \notin T
  <2>1. PICK j \in 1..Len(Sublist(subs, I)) : sub = Sublist(subs, I)[j]
    BY DEF Elements
  <2>2. PICK i \in I : sub = subs[i]
    BY <1>3, <2>1
  <2>3. QED
    BY <1>1, <2>2 DEF Elements
<1>5. ASSUME NEW sub \in Elements(subs), sub.number \notin T
      PROVE  sub \in Elements(Sublist(subs, I))
  <2>1. PICK i \in 1..Len(subs) : sub = subs[i]
    BY DEF Elements
  <2>2. i \in I
    BY <1>1, <1>5, <2>1
  <2>3. PICK j \in 1..Len(Sublist(subs, I)) : sub = Sublist(subs, I)[j]
    BY <1>3, <2>1, <2>2
  <2>4. QED
    BY <2>3 DEF Elements
<1>6. QED
  BY <1>2, <1>3, <1>4, <1>5

LEMMA WithoutIsPart ==
  ASSUME NEW S, NEW s \in Seq(S), NEW T
  PROVE  Without(s, T) \in Seq(S) /\ Elements(Without(s, T)) \subseteq Elements(s)
<1>1. /\ Without(s, T) \in Seq(S)
      /\ \A j \in 1..Len(Without(s, T)) : \E i \in 1..Len(s) : Without(s, T)[j] = s[i]
  BY WithoutProperties
<1>2. QED
  BY <1>1 DEF Elements

\* The loop of publish calls no handler of the sender, and the only one there is.
LEMMA MetProperties ==
  ASSUME NEW S, NEW subs \in Seq(S), NEW a
  PROVE  /\ \A p \in Channel!Met(subs, a) : p \in 1..Len(subs) /\ subs[p].agent # a
         /\ Len(subs) = 1 /\ subs[1].agent # a => Channel!Met(subs, a) = {1}
<1>1. \A p \in Channel!Met(subs, a) : p \in 1..Len(subs) /\ subs[p].agent # a
  BY DEF Channel!Met
<1>2. ASSUME Len(subs) = 1, subs[1].agent # a PROVE Channel!Met(subs, a) = {1}
  <2> DEFINE Body(met) == [p \in 1..Len(subs) |->
                 p = 1 \/ ~ (met[p - 1] /\ subs[p - 1].once /\ subs[p - 1].agent # a)]
             chosen == CHOOSE met : met = Body(met)
  <2>1. \A p \in 1..Len(subs) : p = 1
    BY <1>2
  <2>2. \A met : Body(met) = [p \in 1..Len(subs) |-> TRUE]
    BY <2>1
  <2>3. chosen = Body(chosen)
    <3>1. \E met : met = Body(met)
      BY <2>2
    <3> HIDE DEF Body
    <3>2. QED
      BY <3>1
  <2> HIDE DEF chosen
  <2>4. chosen = [p \in 1..Len(subs) |-> TRUE]
    BY <2>2, <2>3
  <2>5. Channel!Met(subs, a) = {p \in 1..Len(subs) : chosen[p] /\ subs[p].agent # a}
    BY DEF Channel!Met, chosen
  <2>6. QED
    BY <1>2, <2>1, <2>4, <2>5
<1>3. QED
  BY <1>1, <1>2

SubTypes ==
  /\ subsByTopic \in [Channel!Topic -> Seq(Channel!Sub)]
  /\ subsByAgent \in [Agent -> Seq(1..MaxSubscriptions)]
  /\ made \in 0..MaxSubscriptions

LEMMA SubsTyped ==
  ASSUME ChannelInv
  PROVE  /\ SubTypes
         /\ \A t \in Channel!Topic : subsByTopic[t] \in Seq(Channel!Sub)
         /\ \A t \in Channel!Topic : Len(subsByTopic[t]) \in Nat
         /\ \A t \in Channel!Topic : Elements(subsByTopic[t]) \subseteq Channel!Sub
         /\ \A a \in Agent : subsByAgent[a] \in Seq(1..MaxSubscriptions)
         /\ \A a \in Agent : Elements(subsByAgent[a]) \subseteq 1..MaxSubscriptions
<1>1. SubTypes
  BY DEF ChannelInv, Channel!TypeOK, SubTypes
<1>2. /\ \A t \in Channel!Topic : subsByTopic[t] \in Seq(Channel!Sub)
      /\ \A a \in Agent : subsByAgent[a] \in Seq(1..MaxSubscriptions)
  BY <1>1 DEF SubTypes
<1>3. \A t \in Channel!Topic : Elements(subsByTopic[t]) \subseteq Channel!Sub
  BY <1>2, ElementsOf
<1>4. \A a \in Agent : Elements(subsByAgent[a]) \subseteq 1..MaxSubscriptions
  BY <1>2, ElementsOf
<1>5. \A t \in Channel!Topic : Len(subsByTopic[t]) \in Nat
  BY <1>2
<1>6. QED
  BY <1>1, <1>2, <1>3, <1>4, <1>5

LEMMA FewerSubs ==
  ASSUME ChannelInv, SubTypes', UNCHANGED made,
         \A t \in Channel!Topic : /\ Elements(subsByTopic'[t]) \subseteq Elements(subsByTopic[t])
                                  /\ Len(subsByTopic'[t]) <= Len(subsByTopic[t]),
         \A a \in Agent : Elements(subsByAgent'[a]) \subseteq Elements(subsByAgent[a])
  PROVE  NumberInv'
<1>1. NumberInv
  BY DEF ChannelInv
<1>2. \A t \in Channel!Topic : Len(subsByTopic'[t]) <= made
  <2> SUFFICES ASSUME NEW t \in Channel!Topic PROVE Len(subsByTopic'[t]) <= made
    OBVIOUS
  <2>1. /\ Len(subsByTopic[t]) \in Nat /\ Len(subsByTopic'[t]) \in Nat /\ made \in Nat
        /\ Len(subsByTopic[t]) <= made /\ Len(subsByTopic'[t]) <= Len(subsByTopic[t])
    BY <1>1, SubsTyped, ChannelBounds DEF SubTypes, NumberInv
  <2>2. QED
    BY <2>1
<1>3. QED
  BY <1>1, <1>2 DEF NumberInv, Channel!Topic, Channel!Message

\* A subscription of a to t, which gets the next number.
LEMMA OneMoreSub ==
  ASSUME ChannelInv, NEW a \in Agent, NEW t \in Channel!Topic, NEW sub \in Channel!Sub,
         sub.number = made + 1, sub.agent = a, made < MaxSubscriptions, made' = made + 1,
         subsByTopic' = [subsByTopic EXCEPT ![t] = Append(@, sub)],
         subsByAgent' = [subsByAgent EXCEPT ![a] = Append(@, made + 1)]
  PROVE  /\ SubTypes' /\ NumberInv'
         /\ Elements(subsByTopic'[t]) = Elements(subsByTopic[t]) \cup {sub}
         /\ subsByTopic'[t] # <<>> /\ Len(subsByTopic'[t]) = Len(subsByTopic[t]) + 1
         /\ \A u \in Channel!Topic : u # t => subsByTopic'[u] = subsByTopic[u]
<1> USE ChannelBounds
<1>1. /\ SubTypes /\ NumberInv /\ made + 1 \in 1..MaxSubscriptions /\ made \in Nat
      /\ \A u \in Channel!Topic : subsByTopic[u] \in Seq(Channel!Sub)
      /\ \A b \in Agent : subsByAgent[b] \in Seq(1..MaxSubscriptions)
      /\ \A u \in Channel!Topic : Elements(subsByTopic[u]) \subseteq Channel!Sub
      /\ \A u \in Channel!Topic : Len(subsByTopic[u]) \in Nat
      /\ \A b \in Agent : Elements(subsByAgent[b]) \subseteq 1..MaxSubscriptions
  BY SubsTyped DEF ChannelInv, SubTypes
<1>2. /\ subsByTopic'[t] = Append(subsByTopic[t], sub)
      /\ \A u \in Channel!Topic : u # t => subsByTopic'[u] = subsByTopic[u]
      /\ subsByAgent'[a] = Append(subsByAgent[a], made + 1)
      /\ \A b \in Agent : b # a => subsByAgent'[b] = subsByAgent[b]
  BY <1>1 DEF SubTypes
<1>3. /\ Elements(subsByTopic'[t]) = Elements(subsByTopic[t]) \cup {sub}
      /\ subsByTopic'[t] # <<>>
      /\ Elements(subsByAgent'[a]) = Elements(subsByAgent[a]) \cup {made + 1}
  <2>1. /\ Elements(Append(subsByTopic[t], sub)) = Elements(subsByTopic[t]) \cup {sub}
        /\ Append(subsByTopic[t], sub) # <<>>
    BY <1>1, ElementsOfAppend
  <2>2. Elements(Append(subsByAgent[a], made + 1)) = Elements(subsByAgent[a]) \cup {made + 1}
    BY <1>1, ElementsOfAppend
  <2>3. QED
    BY <1>2, <2>1, <2>2
<1>4. Len(subsByTopic'[t]) = Len(subsByTopic[t]) + 1
  BY <1>1, <1>2
<1>5. SubTypes'
  <2>1. Append(subsByTopic[t], sub) \in Seq(Channel!Sub)
        /\ Append(subsByAgent[a], made + 1) \in Seq(1..MaxSubscriptions)
    BY <1>1
  <2>2. subsByTopic' \in [Channel!Topic -> Seq(Channel!Sub)]
    BY <1>1, <2>1 DEF SubTypes
  <2>3. subsByAgent' \in [Agent -> Seq(1..MaxSubscriptions)]
    BY <1>1, <2>1 DEF SubTypes
  <2>4. made' \in 0..MaxSubscriptions
    BY <1>1
  <2>5. QED
    BY <2>2, <2>3, <2>4 DEF SubTypes, Channel!Topic, Channel!Message, Channel!Sub
<1>6. NumberInv'
  <2>1. \A u \in Channel!Topic : Len(subsByTopic'[u]) <= made'
    <3> SUFFICES ASSUME NEW u \in Channel!Topic PROVE Len(subsByTopic'[u]) <= made + 1
      OBVIOUS
    <3>1. Len(subsByTopic[u]) \in Nat /\ Len(subsByTopic[u]) <= made
      BY <1>1 DEF NumberInv
    <3>2. Len(subsByTopic'[u]) \in {Len(subsByTopic[u]), Len(subsByTopic[u]) + 1}
      BY <1>2, <1>4
    <3>3. QED
      BY <1>1, <3>1, <3>2
  <2>2. \A u \in Channel!Topic : \A x \in Elements(subsByTopic'[u]) :
          (x \in Elements(subsByTopic[u]) /\ x.number <= made) \/ (u = t /\ x = sub)
    BY <1>1, <1>2, <1>3 DEF NumberInv
  <2>3. \A b \in Agent : \A n \in Elements(subsByAgent'[b]) :
          (n \in Elements(subsByAgent[b]) /\ n <= made) \/ (b = a /\ n = made + 1)
    BY <1>1, <1>2, <1>3 DEF NumberInv
  <2>4. ASSUME NEW u \in Channel!Topic, NEW x \in Elements(subsByTopic'[u])
        PROVE  x.number <= made'
    <3>1. CASE x = sub
      BY <1>1, <3>1
    <3>2. CASE x \in Elements(subsByTopic[u]) /\ x.number <= made
      <4>1. x.number \in Nat
        BY <1>1, <3>2 DEF Channel!Sub
      <4>2. QED
        BY <1>1, <3>2, <4>1
    <3>3. QED
      BY <2>2, <3>1, <3>2
  <2>5. ASSUME NEW u \in Channel!Topic, NEW x \in Elements(subsByTopic'[u]),
               NEW v \in Channel!Topic, NEW y \in Elements(subsByTopic'[v]),
               x.number = y.number
        PROVE  u = v
    <3>1. ~ (made + 1 <= made)
      BY <1>1
    <3>2. QED
      BY <1>1, <2>2, <2>5, <3>1 DEF NumberInv
  <2>6. ASSUME NEW u \in Channel!Topic, NEW x \in Elements(subsByTopic'[u]),
               NEW b \in Agent, x.number \in Elements(subsByAgent'[b])
        PROVE  x.agent = b
    <3>1. ~ (made + 1 <= made)
      BY <1>1
    <3>2. QED
      BY <1>1, <2>2, <2>3, <2>6, <3>1, SMTT(30) DEF NumberInv
  <2>7. ASSUME NEW b \in Agent, NEW n \in Elements(subsByAgent'[b]) PROVE n <= made'
    <3>1. CASE n \in Elements(subsByAgent[b]) /\ n <= made
      <4>1. n \in 1..MaxSubscriptions
        BY <1>1, <3>1
      <4>2. QED
        BY <1>1, <3>1, <4>1
    <3>2. CASE n = made + 1
      BY <1>1, <3>2
    <3>3. QED
      BY <2>3, <3>1, <3>2
  <2>8. QED
    BY <2>1, <2>4, <2>5, <2>6, <2>7 DEF NumberInv, Channel!Topic, Channel!Message
<1>7. QED
  BY <1>2, <1>3, <1>4, <1>5, <1>6

\* Subscriptions are taken back.
LEMMA UnsubscribedStep ==
  ASSUME ChannelInv, NEW S, Channel!Unsubscribed(S)
  PROVE  /\ SubTypes' /\ NumberInv'
         /\ \A t \in Channel!Topic :
              /\ Elements(subsByTopic'[t]) = {sub \in Elements(subsByTopic[t]) : sub.number \notin S}
              /\ Len(subsByTopic'[t]) <= Len(subsByTopic[t])
<1>1. /\ SubTypes
      /\ \A t \in Channel!Topic : subsByTopic[t] \in Seq(Channel!Sub)
      /\ \A a \in Agent : subsByAgent[a] \in Seq(1..MaxSubscriptions)
  BY SubsTyped
<1>2. /\ subsByTopic' = [t \in Channel!Topic |-> Channel!Unnumbered(subsByTopic[t], S)]
      /\ subsByAgent' = [a \in Agent |-> Without(subsByAgent[a], S)]
      /\ made' = made
  BY ChannelSublists DEF Channel!Unsubscribed
<1>3. ASSUME NEW t \in Channel!Topic
      PROVE  /\ subsByTopic'[t] \in Seq(Channel!Sub)
             /\ Elements(subsByTopic'[t]) = {sub \in Elements(subsByTopic[t]) : sub.number \notin S}
             /\ Len(subsByTopic'[t]) <= Len(subsByTopic[t])
  BY <1>1, <1>2, UnnumberedProperties
<1>4. ASSUME NEW a \in Agent
      PROVE  /\ subsByAgent'[a] \in Seq(1..MaxSubscriptions)
             /\ Elements(subsByAgent'[a]) \subseteq Elements(subsByAgent[a])
  BY <1>1, <1>2, WithoutIsPart
<1>5. SubTypes'
  <2>1. subsByTopic' \in [Channel!Topic -> Seq(Channel!Sub)]
    BY <1>2, <1>3
  <2>2. subsByAgent' \in [Agent -> Seq(1..MaxSubscriptions)]
    BY <1>2, <1>4
  <2>3. QED
    BY <1>1, <1>2, <2>1, <2>2 DEF SubTypes, Channel!Topic, Channel!Message, Channel!Sub
<1>6. NumberInv'
  BY <1>2, <1>3, <1>4, <1>5, FewerSubs
<1>7. QED
  BY <1>3, <1>5, <1>6

OtherTypes ==
  /\ sent \in Seq([from : Agent, topic : Channel!Topic])
  /\ dead \in [Channel!Topic -> Seq(Channel!Message)]
  /\ \A t \in Channel!Topic : Len(dead[t]) <= MaxDeadLetters
  /\ sending \in [Channel!Message -> 0..(MaxSubscriptions + 1)]
  /\ request \in [Channel!Message -> {"none", "publishing", "waiting", "replied", "timeout"}]
  /\ delivered \subseteq Agent \X Channel!Message
  /\ removed \subseteq Agent

LEMMA ChannelTypes == Channel!TypeOK <=> SubTypes /\ OtherTypes
  BY DEF Channel!TypeOK, SubTypes, OtherTypes

LEMMA ChannelTypesNext == Channel!TypeOK' <=> SubTypes' /\ OtherTypes'
  BY DEF Channel!TypeOK, SubTypes, OtherTypes, Channel!Topic, Channel!Message, Channel!Sub

LEMMA KindsOfTopics ==
  /\ \A t \in PublicTopic : t \in Channel!Topic /\ t \notin Agent /\ t \notin Channel!Message
  /\ \A t \in Agent : t \in Channel!Topic /\ t \notin Channel!Message
  /\ \A m \in Channel!Message : m \in Channel!Topic /\ m \in Nat /\ m >= 1 /\ m <= MaxMessages
  BY ChannelBounds DEF Channel!Topic, Channel!Message

LEMMA ChannelFacts ==
  ASSUME ChannelInv
  PROVE  /\ SubTypes /\ OtherTypes /\ AddressInv /\ NumberInv
         /\ \A m \in Channel!Message : ReplyFits(m)
         /\ Len(sent) \in Nat
         /\ \A i \in 1..Len(sent) : sent[i].from \in Agent /\ sent[i].topic \in Channel!Topic
         /\ \A t \in Channel!Topic :
              dead[t] \in Seq(Channel!Message) /\ Elements(dead[t]) \subseteq Channel!Message
         /\ made \in Nat
<1>1. SubTypes /\ OtherTypes /\ AddressInv /\ NumberInv
  BY ChannelTypes DEF ChannelInv
<1>2. \A m \in Channel!Message : ReplyFits(m)
  BY DEF ChannelInv
<1>3. Len(sent) \in Nat
  BY <1>1 DEF OtherTypes
<1>4. ASSUME NEW i \in 1..Len(sent) PROVE sent[i].from \in Agent /\ sent[i].topic \in Channel!Topic
  <2> DEFINE R == [from : Agent, topic : Channel!Topic]
  <2>1. sent \in Seq(R)
    BY <1>1 DEF OtherTypes
  <2> HIDE DEF R
  <2>2. sent[i] \in R
    BY <2>1
  <2>3. QED
    BY <2>2 DEF R
<1>5. \A t \in Channel!Topic : dead[t] \in Seq(Channel!Message)
  BY <1>1 DEF OtherTypes
<1>6. \A t \in Channel!Topic : Elements(dead[t]) \subseteq Channel!Message
  BY <1>5, ElementsOf
<1>7. made \in Nat
  BY <1>1, ChannelBounds DEF SubTypes
<1>8. QED
  BY <1>1, <1>2, <1>3, <1>4, <1>5, <1>6, <1>7

\* What is subscribed to the reply to m, and what has come, stays; or the subscription
\* is that of an agent that is removed.
LEMMA ReplyKept ==
  ASSUME ChannelInv, SubTypes', NEW m \in Channel!Message,
         Elements(subsByTopic'[m]) \subseteq Elements(subsByTopic[m]),
         Len(subsByTopic'[m]) <= Len(subsByTopic[m]),
         Elements(subsByTopic'[m]) = Elements(subsByTopic[m]) \/ sent[m].from \in removed',
         request'[m] = request[m], request[m] # "none" => sent'[m] = sent[m],
         Replies(m)' = Replies(m), dead'[m] = dead[m], removed \subseteq removed'
  PROVE  ReplyFits(m)'
<1>1. ReplyFits(m) /\ m \in Channel!Topic
  BY ChannelFacts, KindsOfTopics
<1>2. subsByTopic[m] \in Seq(Channel!Sub) /\ Len(subsByTopic[m]) \in Nat
  BY <1>1, SubsTyped
<1>3. subsByTopic'[m] \in Seq(Channel!Sub)
  BY <1>1 DEF SubTypes, Channel!Topic, Channel!Message, Channel!Sub
<1>4. Len(subsByTopic'[m]) \in Nat
  BY <1>3
<1>5. /\ subsByTopic[m] = <<>> <=> Elements(subsByTopic[m]) = {}
      /\ subsByTopic'[m] = <<>> <=> Elements(subsByTopic'[m]) = {}
  BY <1>2, <1>3, ElementsOf
<1>6. request[m] # "waiting" => subsByTopic'[m] = <<>>
  BY <1>1, <1>5 DEF ReplyFits
<1>7. Len(subsByTopic'[m]) <= 1
  BY <1>1, <1>2, <1>4 DEF ReplyFits
<1>8. \A sub \in Elements(subsByTopic'[m]) : sub.agent = sent'[m].from /\ sub.once
  BY <1>1, <1>5, <1>6 DEF ReplyFits
<1>9. request[m] = "waiting" /\ sent'[m].from \notin removed' =>
        subsByTopic'[m] # <<>> /\ Replies(m) = {}
  BY <1>1, <1>5 DEF ReplyFits
<1>10. request[m] = "publishing" /\ Replies(m)' # {} => dead'[m] # <<>>
  BY <1>1 DEF ReplyFits
<1>11. QED
  BY <1>6, <1>7, <1>8, <1>9, <1>10 DEF ReplyFits

\* A step that sends nothing.
LEMMA QuietStep ==
  ASSUME ChannelInv, sent' = sent,
         \A m \in Channel!Message : sending'[m] # 0 => sending[m] # 0,
         \A m \in Channel!Message : request'[m] = "none" <=> request[m] = "none",
         \A a \in Agent, m \in Channel!Message : <<a, m>> \in delivered' =>
           \/ <<a, m>> \in delivered
           \/ m <= Len(sent) /\ (request[m] # "none" => a # sent[m].from),
         \A t \in Channel!Topic : Elements(dead'[t]) \subseteq Elements(dead[t])
  PROVE  AddressInv' /\ \A m : Replies(m)' = Replies(m)
<1>1. AddressInv
  BY DEF ChannelInv
<1>2. \A m : Replies(m)' = Replies(m)
  BY DEF Replies
<1>3. \A m \in Channel!Message : sending'[m] # 0 => m <= Len(sent') /\ sent'[m].topic \in Agent
  BY <1>1 DEF AddressInv
<1>4. \A m \in Channel!Message : request'[m] # "none" =>
        m <= Len(sent') /\ sent'[m].topic \in PublicTopic
  BY <1>1 DEF AddressInv
<1>5. \A a \in Agent, m \in Channel!Message : <<a, m>> \in delivered' =>
        m <= Len(sent') /\ (request'[m] # "none" => a # sent'[m].from)
  BY <1>1 DEF AddressInv
<1>6. \A m \in Channel!Message : \A i \in Replies(m)' :
        request'[m] # "none" /\ sent'[i].from # sent'[m].from
  BY <1>1, <1>2 DEF AddressInv
<1>7. \A t \in Channel!Topic : \A m \in Elements(dead'[t]) : m <= Len(sent') /\ sent'[m].topic = t
  BY <1>1 DEF AddressInv
<1>8. QED
  BY <1>2, <1>3, <1>4, <1>5, <1>6, <1>7 DEF AddressInv, Channel!Topic, Channel!Message

\* A step that sends a message of a to t.
LEMMA SentStep ==
  ASSUME ChannelInv, NEW a \in Agent, NEW t \in Channel!Topic, Len(sent) + 1 <= MaxMessages,
         sent' = Append(sent, [from |-> a, topic |-> t]),
         \A m \in Channel!Message : sending'[m] # 0 =>
           sending[m] # 0 \/ (m = Len(sent) + 1 /\ t \in Agent),
         \A m \in Channel!Message : request'[m] # "none" =>
           request[m] # "none" \/ (m = Len(sent) + 1 /\ t \in PublicTopic),
         \A m \in Channel!Message : request[m] # "none" => request'[m] # "none",
         \A b \in Agent, m \in Channel!Message : <<b, m>> \in delivered' =>
           <<b, m>> \in delivered \/ (m = Len(sent) + 1 /\ b # a),
         t \in Channel!Message => request[t] # "none" /\ a # sent[t].from,
         \A u \in Channel!Topic : \A m \in Elements(dead'[u]) :
           m \in Elements(dead[u]) \/ (m = Len(sent) + 1 /\ u = t)
  PROVE  /\ AddressInv' /\ sent' \in Seq([from : Agent, topic : Channel!Topic])
         /\ \A m \in Channel!Message : m # t => Replies(m)' = Replies(m)
         /\ \A m \in Channel!Message : request[m] # "none" => sent'[m] = sent[m]
<1> DEFINE new == Len(sent) + 1
<1>1. /\ AddressInv /\ OtherTypes /\ Len(sent) \in Nat
      /\ \A u \in Channel!Topic : Elements(dead[u]) \subseteq Channel!Message
  BY ChannelFacts
<1>2. /\ sent' \in Seq([from : Agent, topic : Channel!Topic])
      /\ Len(sent') = new /\ sent'[new] = [from |-> a, topic |-> t]
      /\ \A i \in 1..Len(sent) : sent'[i] = sent[i]
  <2> DEFINE R == [from : Agent, topic : Channel!Topic]
             r == [from |-> a, topic |-> t]
  <2>1. sent \in Seq(R) /\ r \in R
    BY <1>1 DEF OtherTypes
  <2> HIDE DEF R, r
  <2>2. Append(sent, r) \in Seq(R) /\ Len(Append(sent, r)) = Len(sent) + 1
        /\ Append(sent, r)[Len(sent) + 1] = r
        /\ \A i \in 1..Len(sent) : Append(sent, r)[i] = sent[i]
    BY <2>1
  <2>3. QED
    BY <2>2 DEF R, r
<1>3. \A m \in Channel!Message : m \in Nat /\ m >= 1
  BY KindsOfTopics
<1>4. new \in Nat /\ ~ (new <= Len(sent)) /\ 1..new = 1..Len(sent) \cup {new}
      /\ \A m \in Channel!Message : m <= Len(sent) => m \in 1..Len(sent) /\ m <= new /\ m # new
  BY <1>1, <1>3
<1> HIDE DEF new
<1>5. \A m \in Channel!Message : request[m] # "none" => m <= Len(sent)
  BY <1>1 DEF AddressInv
<1>6. \A m \in Channel!Message : request[m] # "none" => sent'[m] = sent[m]
  BY <1>2, <1>4, <1>5
<1>7. new <= new /\ \A m \in Channel!Message : m = new => m <= new
  BY <1>4
<1>8. \A m \in Channel!Message : sending'[m] # 0 => m <= new /\ sent'[m].topic \in Agent
  BY <1>1, <1>2, <1>4, <1>7 DEF AddressInv, new
<1>9. \A m \in Channel!Message : request'[m] # "none" => m <= new /\ sent'[m].topic \in PublicTopic
  BY <1>1, <1>2, <1>4, <1>7 DEF AddressInv, new
<1>10. ASSUME NEW b \in Agent, NEW m \in Channel!Message, <<b, m>> \in delivered'
       PROVE  m <= new /\ (request'[m] # "none" => b # sent'[m].from)
  <2>1. CASE <<b, m>> \in delivered
    <3>1. m <= Len(sent) /\ (request[m] # "none" => b # sent[m].from)
      BY <1>1, <2>1 DEF AddressInv
    <3>2. m # new /\ m <= new /\ sent'[m] = sent[m]
      BY <1>2, <1>4, <3>1
    <3>3. request'[m] # "none" => request[m] # "none"
      BY <3>2 DEF new
    <3>4. QED
      BY <3>1, <3>2, <3>3
  <2>2. CASE m = new /\ b # a
    BY <1>2, <1>7, <2>2
  <2>3. QED
    BY <1>10, <2>1, <2>2 DEF new
<1>11. \A m : Replies(m)' = {i \in 1..Len(sent) : sent[i].topic = m} \cup {i \in {new} : t = m}
  BY <1>2, <1>4 DEF Replies
<1>12. ASSUME NEW m \in Channel!Message, NEW i \in Replies(m)'
       PROVE  request'[m] # "none" /\ sent'[i].from # sent'[m].from
  <2>1. CASE i \in Replies(m)
    <3>1. request[m] # "none" /\ sent[i].from # sent[m].from /\ i \in 1..Len(sent)
      BY <1>1, <2>1 DEF AddressInv, Replies
    <3>2. QED
      BY <1>2, <1>6, <3>1
  <2>2. CASE i = new /\ m = t
    <3>1. request[m] # "none" /\ a # sent[m].from
      BY <2>2
    <3>2. request'[m] # "none"
      BY <3>1
    <3>3. sent'[m] = sent[m]
      BY <1>6, <3>1
    <3>4. sent'[i].from = a
      BY <1>2, <2>2
    <3>5. QED
      BY <3>1, <3>2, <3>3, <3>4
  <2>3. QED
    BY <1>11, <1>12, <2>1, <2>2 DEF Replies
<1>13. ASSUME NEW u \in Channel!Topic, NEW m \in Elements(dead'[u])
       PROVE  m <= new /\ sent'[m].topic = u
  <2>1. CASE m \in Elements(dead[u])
    <3>1. m \in Channel!Message /\ m <= Len(sent) /\ sent[m].topic = u
      BY <1>1, <2>1 DEF AddressInv
    <3>2. QED
      BY <1>2, <1>4, <3>1
  <2>2. CASE m = new /\ u = t
    BY <1>2, <1>7, <2>2
  <2>3. QED
    BY <1>13, <2>1, <2>2 DEF new
<1>14. AddressInv'
  BY <1>2, <1>8, <1>9, <1>10, <1>12, <1>13 DEF AddressInv, Channel!Topic, Channel!Message
<1>15. \A m \in Channel!Message : m # t => Replies(m)' = Replies(m)
  <2> SUFFICES ASSUME NEW m \in Channel!Message, m # t PROVE Replies(m)' = Replies(m)
    OBVIOUS
  <2>1. {i \in {new} : t = m} = {}
    OBVIOUS
  <2>2. QED
    BY <1>11, <2>1 DEF Replies
<1>16. QED
  BY <1>2, <1>6, <1>14, <1>15

\* The subscriptions of other topics have other numbers.
LEMMA OthersKeep ==
  ASSUME ChannelInv, NEW t \in Channel!Topic, NEW S,
         \A n \in S : \E sub \in Elements(subsByTopic[t]) : sub.number = n,
         \A u \in Channel!Topic :
           Elements(subsByTopic'[u]) = {sub \in Elements(subsByTopic[u]) : sub.number \notin S}
  PROVE  \A u \in Channel!Topic : u # t => Elements(subsByTopic'[u]) = Elements(subsByTopic[u])
<1>1. NumberInv
  BY ChannelFacts
<1> SUFFICES ASSUME NEW u \in Channel!Topic, u # t,
                    NEW sub \in Elements(subsByTopic[u])
             PROVE  sub.number \notin S
  OBVIOUS
<1>2. QED
  BY <1>1 DEF NumberInv

LEMMA SendsFewer ==
  ASSUME ChannelInv, NEW subs
  PROVE  /\ Channel!SendsGoOn(subs) \in [Channel!Message -> 0..(MaxSubscriptions + 1)]
         /\ \A m \in Channel!Message : Channel!SendsGoOn(subs)[m] # 0 => sending[m] # 0
<1>1. sending \in [Channel!Message -> 0..(MaxSubscriptions + 1)]
  BY ChannelFacts DEF OtherTypes
<1>2. 0 \in 0..(MaxSubscriptions + 1)
  BY ChannelBounds
<1>3. QED
  BY <1>1, <1>2 DEF Channel!SendsGoOn

\* The last dead letter of a topic stays.
LEMMA DeadGrows ==
  ASSUME ChannelInv, NEW t \in Channel!Topic, NEW m \in Channel!Message,
         dead' = Channel!DeadWith(t, m)
  PROVE  /\ dead' \in [Channel!Topic -> Seq(Channel!Message)]
         /\ \A u \in Channel!Topic : Len(dead'[u]) <= MaxDeadLetters
         /\ \A u \in Channel!Topic : u # t => dead'[u] = dead[u]
         /\ Elements(dead'[t]) \subseteq Elements(dead[t]) \cup {m} /\ dead'[t] # <<>>
<1> DEFINE row == Append(dead[t], m)
<1>1. OtherTypes /\ dead[t] \in Seq(Channel!Message) /\ Len(dead[t]) <= MaxDeadLetters
  BY ChannelFacts DEF OtherTypes
<1>2. /\ row \in Seq(Channel!Message) /\ Len(row) = Len(dead[t]) + 1 /\ Len(dead[t]) \in Nat
      /\ row # <<>> /\ Elements(row) = Elements(dead[t]) \cup {m}
  BY <1>1, ElementsOfAppend
<1>3. dead' = [dead EXCEPT ![t] = IF Len(row) > MaxDeadLetters THEN Tail(row) ELSE row]
  BY DEF Channel!DeadWith
<1> HIDE DEF row
<1>4. /\ Tail(row) \in Seq(Channel!Message) /\ Len(Tail(row)) = Len(row) - 1
      /\ \A i \in 1..Len(Tail(row)) : Tail(row)[i] = row[i + 1] /\ i + 1 \in 1..Len(row)
  BY <1>2
<1>5. Elements(Tail(row)) \subseteq Elements(row)
  BY <1>4 DEF Elements
<1>6. Len(row) > MaxDeadLetters => Tail(row) # <<>> /\ Len(Tail(row)) <= MaxDeadLetters
  <2>1. Len(row) > MaxDeadLetters => Len(Tail(row)) >= 1 /\ Len(Tail(row)) <= MaxDeadLetters
    BY <1>1, <1>2, <1>4, ChannelBounds
  <2>2. QED
    BY <2>1
<1>7. ~ (Len(row) > MaxDeadLetters) => Len(row) <= MaxDeadLetters
  BY <1>2, ChannelBounds
<1>8. dead'[t] = (IF Len(row) > MaxDeadLetters THEN Tail(row) ELSE row)
      /\ \A u \in Channel!Topic : u # t => dead'[u] = dead[u]
  BY <1>1, <1>3 DEF OtherTypes
<1>9. dead' \in [Channel!Topic -> Seq(Channel!Message)]
  BY <1>1, <1>2, <1>3, <1>4 DEF OtherTypes
<1>10. \A u \in Channel!Topic : Len(dead'[u]) <= MaxDeadLetters
  BY <1>1, <1>6, <1>7, <1>8 DEF OtherTypes
<1>11. QED
  BY <1>2, <1>5, <1>6, <1>8, <1>9, <1>10

\* What publish() changes.
LEMMA PublishStep ==
  ASSUME ChannelInv, NEW a \in Agent, NEW t \in Channel!Topic, Channel!Publish(a, t)
  PROVE  /\ Len(sent) + 1 \in Channel!Message /\ Len(sent) + 1 <= MaxMessages
         /\ sent' = Append(sent, [from |-> a, topic |-> t])
         /\ SubTypes' /\ NumberInv'
         /\ \A u \in Channel!Topic :
              /\ Elements(subsByTopic'[u]) \subseteq Elements(subsByTopic[u])
              /\ Len(subsByTopic'[u]) <= Len(subsByTopic[u])
              /\ u # t => Elements(subsByTopic'[u]) = Elements(subsByTopic[u])
              /\ u # t => dead'[u] = dead[u]
              /\ Len(dead'[u]) <= MaxDeadLetters
              /\ \A m \in Elements(dead'[u]) :
                   m \in Elements(dead[u]) \/ (m = Len(sent) + 1 /\ u = t)
         /\ \A sub \in Elements(subsByTopic'[t]) :
              \A p \in Channel!Met(subsByTopic[t], a) :
                subsByTopic[t][p].once => sub.number # subsByTopic[t][p].number
         /\ subsByTopic'[t] = <<>> => dead'[t] # <<>>
         /\ dead' \in [Channel!Topic -> Seq(Channel!Message)]
         /\ delivered' \subseteq Agent \X Channel!Message
         /\ \A b \in Agent, m \in Channel!Message : <<b, m>> \in delivered' =>
              <<b, m>> \in delivered \/ (m = Len(sent) + 1 /\ b # a)
         /\ sending' \in [Channel!Message -> 0..(MaxSubscriptions + 1)]
         /\ \A m \in Channel!Message : sending'[m] # 0 => sending[m] # 0
         /\ removed' = removed
<1> DEFINE new == Len(sent) + 1
           subs == subsByTopic[t]
           called == Channel!Met(subs, a)
           over == {subs[p].number : p \in {q \in called : subs[q].once}}
<1>1. /\ new <= MaxMessages
      /\ sent' = Append(sent, [from |-> a, topic |-> t])
      /\ Channel!Unsubscribed(over)
      /\ delivered' = delivered \cup ({subs[p].agent : p \in called} \X {new})
      /\ dead' = IF subsByTopic'[t] = <<>> THEN Channel!DeadWith(t, new) ELSE dead
      /\ sending' = Channel!SendsGoOn(subsByTopic')
      /\ removed' = removed
  BY DEF Channel!Publish
<1>2. subs \in Seq(Channel!Sub)
  BY SubsTyped
<1>3. \A p \in called : p \in 1..Len(subs) /\ subs[p].agent # a
  BY <1>2, MetProperties
<1>4. new \in Channel!Message
  BY <1>1, ChannelFacts DEF Channel!Message
<1> HIDE DEF new, called
<1>5. \A p \in called : subs[p] \in Elements(subs)
  BY <1>3 DEF Elements
<1>6. \A n \in over : \E sub \in Elements(subs) : sub.number = n
  BY <1>5
<1>7. \A p \in called : subs[p].once => subs[p].number \in over
  OBVIOUS
<1> HIDE DEF over
<1>8. /\ SubTypes' /\ NumberInv'
      /\ \A u \in Channel!Topic :
           /\ Elements(subsByTopic'[u]) = {sub \in Elements(subsByTopic[u]) : sub.number \notin over}
           /\ Len(subsByTopic'[u]) <= Len(subsByTopic[u])
  BY <1>1, UnsubscribedStep
<1>9. \A u \in Channel!Topic : u # t => Elements(subsByTopic'[u]) = Elements(subsByTopic[u])
  BY <1>6, <1>8, OthersKeep
<1>10. \A u \in Channel!Topic : Elements(subsByTopic'[u]) \subseteq Elements(subsByTopic[u])
  BY <1>8
<1>11. \A sub \in Elements(subsByTopic'[t]) : \A p \in called :
         subs[p].once => sub.number # subs[p].number
  BY <1>7, <1>8
<1>12. /\ \A u \in Channel!Topic : u # t => dead'[u] = dead[u]
       /\ \A u \in Channel!Topic : Len(dead'[u]) <= MaxDeadLetters
       /\ \A u \in Channel!Topic : \A m \in Elements(dead'[u]) :
            m \in Elements(dead[u]) \/ (m = new /\ u = t)
       /\ subsByTopic'[t] = <<>> => dead'[t] # <<>>
       /\ dead' \in [Channel!Topic -> Seq(Channel!Message)]
  <2>1. CASE subsByTopic'[t] = <<>>
    <3>1. dead' = Channel!DeadWith(t, new)
      BY <1>1, <2>1
    <3>2. /\ dead' \in [Channel!Topic -> Seq(Channel!Message)]
          /\ \A u \in Channel!Topic : Len(dead'[u]) <= MaxDeadLetters
          /\ \A u \in Channel!Topic : u # t => dead'[u] = dead[u]
          /\ Elements(dead'[t]) \subseteq Elements(dead[t]) \cup {new} /\ dead'[t] # <<>>
      BY <1>4, <3>1, DeadGrows
    <3>3. QED
      BY <3>2
  <2>2. CASE subsByTopic'[t] # <<>>
    <3>1. dead' = dead
      BY <1>1, <2>2
    <3>2. QED
      BY <2>2, <3>1, ChannelFacts DEF OtherTypes
  <2>3. QED
    BY <2>1, <2>2
<1>13. /\ delivered' \subseteq Agent \X Channel!Message
       /\ \A b \in Agent, m \in Channel!Message : <<b, m>> \in delivered' =>
            <<b, m>> \in delivered \/ (m = new /\ b # a)
  <2>1. \A p \in called : subs[p].agent \in Agent
    <3>1. Elements(subs) \subseteq Channel!Sub
      BY SubsTyped
    <3>2. QED
      BY <1>5, <3>1 DEF Channel!Sub
  <2>2. delivered \subseteq Agent \X Channel!Message
    BY ChannelFacts DEF OtherTypes
  <2>3. QED
    BY <1>1, <1>3, <1>4, <2>1, <2>2
<1>14. /\ sending' \in [Channel!Message -> 0..(MaxSubscriptions + 1)]
       /\ \A m \in Channel!Message : sending'[m] # 0 => sending[m] # 0
  BY <1>1, SendsFewer
<1>15. QED
  BY <1>1, <1>4, <1>8, <1>9, <1>10, <1>11, <1>12, <1>13, <1>14 DEF new, called

\* A message that is not a reply: the replies are as they were.
LEMMA PublishMessageStep ==
  ASSUME ChannelInv, NEW a \in Agent, NEW t \in PublicTopic, Channel!PublishMessage(a, t)
  PROVE  ChannelInv'
<1>1. t \in Channel!Topic /\ t \notin Channel!Message
  BY KindsOfTopics
<1>2. Channel!Publish(a, t) /\ request' = request
  BY DEF Channel!PublishMessage
<1>3. OtherTypes
  BY ChannelFacts
<1> HIDE DEF Channel!Publish
<1>4. SubTypes' /\ NumberInv'
  BY <1>1, <1>2, PublishStep
<1>5. /\ AddressInv' /\ sent' \in Seq([from : Agent, topic : Channel!Topic])
      /\ \A m \in Channel!Message : Replies(m)' = Replies(m)
      /\ \A m \in Channel!Message : request[m] # "none" => sent'[m] = sent[m]
  <2>1. /\ Len(sent) + 1 <= MaxMessages
        /\ sent' = Append(sent, [from |-> a, topic |-> t])
        /\ \A m \in Channel!Message : sending'[m] # 0 => sending[m] # 0
        /\ \A b \in Agent, m \in Channel!Message : <<b, m>> \in delivered' =>
             <<b, m>> \in delivered \/ (m = Len(sent) + 1 /\ b # a)
        /\ \A u \in Channel!Topic : \A m \in Elements(dead'[u]) :
             m \in Elements(dead[u]) \/ (m = Len(sent) + 1 /\ u = t)
    BY <1>1, <1>2, PublishStep
  <2>2. /\ \A m \in Channel!Message : request'[m] # "none" => request[m] # "none"
        /\ \A m \in Channel!Message : request[m] # "none" => request'[m] # "none"
    BY <1>2
  <2>3. QED
    BY <1>1, <2>1, <2>2, SentStep
<1>6. OtherTypes'
  <2>1. /\ dead' \in [Channel!Topic -> Seq(Channel!Message)]
        /\ \A u \in Channel!Topic : Len(dead'[u]) <= MaxDeadLetters
        /\ sending' \in [Channel!Message -> 0..(MaxSubscriptions + 1)]
        /\ delivered' \subseteq Agent \X Channel!Message /\ removed' = removed
    BY <1>1, <1>2, PublishStep
  <2>2. QED
    BY <1>2, <1>3, <1>5, <2>1 DEF OtherTypes, Channel!Topic, Channel!Message
<1>7. ASSUME NEW m \in Channel!Message PROVE ReplyFits(m)'
  <2>1. m \in Channel!Topic /\ m # t
    BY <1>1, KindsOfTopics
  <2>2. /\ Elements(subsByTopic'[m]) = Elements(subsByTopic[m])
        /\ Len(subsByTopic'[m]) <= Len(subsByTopic[m])
        /\ dead'[m] = dead[m] /\ removed' = removed
    BY <1>1, <1>2, <2>1, PublishStep
  <2>3. QED
    BY <1>2, <1>4, <1>5, <2>2, ReplyKept
<1>8. QED
  BY <1>4, <1>5, <1>6, <1>7, ChannelTypesNext DEF ChannelInv, Channel!Message

\* A request is published; the subscription to its reply is yet to come.
LEMMA RequestStep ==
  ASSUME ChannelInv, NEW a \in Agent, NEW t \in PublicTopic, Channel!Request(a, t)
  PROVE  ChannelInv'
<1> DEFINE new == Len(sent) + 1
<1>1. t \in Channel!Topic /\ t \notin Channel!Message
  BY KindsOfTopics
<1>2. Channel!Publish(a, t) /\ request' = [request EXCEPT ![new] = "publishing"]
  BY DEF Channel!Request
<1>3. OtherTypes /\ AddressInv /\ Len(sent) \in Nat
  BY ChannelFacts
<1>4. SubTypes' /\ NumberInv' /\ new \in Channel!Message
  BY <1>1, <1>2, PublishStep
<1>5. /\ request'[new] = "publishing"
      /\ \A m \in Channel!Message : m # new => request'[m] = request[m]
      /\ request' \in [Channel!Message -> {"none", "publishing", "waiting", "replied", "timeout"}]
  BY <1>2, <1>3, <1>4 DEF OtherTypes
<1>6. request[new] = "none"
  <2>1. ~ (new <= Len(sent))
    BY <1>3
  <2>2. QED
    BY <1>3, <1>4, <2>1 DEF AddressInv
<1>7. /\ AddressInv' /\ sent' \in Seq([from : Agent, topic : Channel!Topic])
      /\ \A m \in Channel!Message : Replies(m)' = Replies(m)
      /\ \A m \in Channel!Message : request[m] # "none" => sent'[m] = sent[m]
  <2>1. \A m \in Channel!Message : request'[m] # "none" =>
          request[m] # "none" \/ (m = new /\ t \in PublicTopic)
    BY <1>5
  <2>2. \A m \in Channel!Message : request[m] # "none" => request'[m] # "none"
    BY <1>5, <1>6
  <2>3. QED
    BY <1>1, <1>2, <2>1, <2>2, PublishStep, SentStep, ZenonT(60)
<1>8. OtherTypes'
  <2>1. /\ dead' \in [Channel!Topic -> Seq(Channel!Message)]
        /\ \A u \in Channel!Topic : Len(dead'[u]) <= MaxDeadLetters
        /\ sending' \in [Channel!Message -> 0..(MaxSubscriptions + 1)]
        /\ delivered' \subseteq Agent \X Channel!Message /\ removed' = removed
    BY <1>1, <1>2, PublishStep
  <2>2. QED
    BY <1>3, <1>5, <1>7, <2>1 DEF OtherTypes, Channel!Topic, Channel!Message
<1>9. ASSUME NEW m \in Channel!Message PROVE ReplyFits(m)'
  <2>1. m \in Channel!Topic /\ m # t
    BY <1>1, KindsOfTopics
  <2>2. /\ Elements(subsByTopic'[m]) = Elements(subsByTopic[m])
        /\ Len(subsByTopic'[m]) <= Len(subsByTopic[m])
        /\ dead'[m] = dead[m] /\ removed' = removed
    BY <1>1, <1>2, <2>1, PublishStep
  <2>3. CASE m # new
    BY <1>4, <1>5, <1>7, <2>2, <2>3, ReplyKept
  <2>4. CASE m = new
    <3>1. ReplyFits(m) /\ subsByTopic[m] \in Seq(Channel!Sub)
      BY <2>1, ChannelFacts, SubsTyped
    <3>2. subsByTopic[m] = <<>>
      BY <1>6, <2>4, <3>1 DEF ReplyFits
    <3>3. Elements(subsByTopic'[m]) = {}
      BY <2>2, <3>1, <3>2, ElementsOf
    <3>4. subsByTopic'[m] \in Seq(Channel!Sub)
      BY <1>4, <2>1 DEF SubTypes, Channel!Topic, Channel!Message, Channel!Sub
    <3>5. subsByTopic'[m] = <<>>
      BY <3>3, <3>4, ElementsOf
    <3>6. Replies(m)' = {}
      BY <1>3, <1>6, <1>7, <2>4 DEF AddressInv
    <3>7. request'[m] = "publishing"
      BY <1>5, <2>4
    <3>8. QED
      BY <3>3, <3>5, <3>6, <3>7 DEF ReplyFits
  <2>5. QED
    BY <2>3, <2>4
<1>10. QED
  BY <1>4, <1>7, <1>8, <1>9, ChannelTypesNext DEF ChannelInv, Channel!Message

\* A reply meets the subscription, which goes with it, or is a dead letter until the
\* request subscribes.
LEMMA ReplyStep ==
  ASSUME ChannelInv, NEW a \in Agent, NEW m \in Channel!Message, Channel!Reply(a, m)
  PROVE  ChannelInv'
<1> DEFINE subs == subsByTopic[m]
<1>1. m \in Channel!Topic /\ m \notin Agent
  BY KindsOfTopics, ChannelBounds DEF Channel!Message
<1>2. /\ request[m] # "none" /\ <<a, m>> \in delivered /\ Channel!Publish(a, m)
      /\ request' = IF Channel!Met(subs, a) # {} THEN [request EXCEPT ![m] = "replied"]
                                                 ELSE request
  BY DEF Channel!Reply
<1>3. OtherTypes /\ AddressInv /\ ReplyFits(m)
  BY ChannelFacts
<1>4. SubTypes' /\ NumberInv'
  BY <1>1, <1>2, PublishStep
<1>5. a # sent[m].from
  BY <1>2, <1>3 DEF AddressInv
<1>6. /\ Channel!Met(subs, a) # {} => request'[m] = "replied"
      /\ Channel!Met(subs, a) = {} => request' = request
      /\ \A k \in Channel!Message : k # m => request'[k] = request[k]
      /\ request' \in [Channel!Message -> {"none", "publishing", "waiting", "replied", "timeout"}]
  BY <1>2, <1>3 DEF OtherTypes
<1>7. \A k \in Channel!Message : request'[k] # "none" <=> request[k] # "none"
  BY <1>2, <1>6
<1>8. /\ AddressInv' /\ sent' \in Seq([from : Agent, topic : Channel!Topic])
      /\ \A k \in Channel!Message : k # m => Replies(k)' = Replies(k)
      /\ \A k \in Channel!Message : request[k] # "none" => sent'[k] = sent[k]
  <2>1. /\ Len(sent) + 1 <= MaxMessages
        /\ sent' = Append(sent, [from |-> a, topic |-> m])
        /\ \A k \in Channel!Message : sending'[k] # 0 => sending[k] # 0
        /\ \A b \in Agent, k \in Channel!Message : <<b, k>> \in delivered' =>
             <<b, k>> \in delivered \/ (k = Len(sent) + 1 /\ b # a)
        /\ \A u \in Channel!Topic : \A k \in Elements(dead'[u]) :
             k \in Elements(dead[u]) \/ (k = Len(sent) + 1 /\ u = m)
    BY <1>1, <1>2, PublishStep
  <2>2. /\ \A k \in Channel!Message : request'[k] # "none" => request[k] # "none"
        /\ \A k \in Channel!Message : request[k] # "none" => request'[k] # "none"
    BY <1>7
  <2>3. m \in Channel!Message => request[m] # "none" /\ a # sent[m].from
    BY <1>2, <1>5
  <2>4. QED
    BY <1>1, <2>1, <2>2, <2>3, SentStep
<1>9. OtherTypes'
  <2>1. /\ dead' \in [Channel!Topic -> Seq(Channel!Message)]
        /\ \A u \in Channel!Topic : Len(dead'[u]) <= MaxDeadLetters
        /\ sending' \in [Channel!Message -> 0..(MaxSubscriptions + 1)]
        /\ delivered' \subseteq Agent \X Channel!Message /\ removed' = removed
    BY <1>1, <1>2, PublishStep
  <2>2. QED
    BY <1>3, <1>6, <1>8, <2>1 DEF OtherTypes, Channel!Topic, Channel!Message
<1>10. ASSUME NEW k \in Channel!Message, k # m PROVE ReplyFits(k)'
  <2>1. k \in Channel!Topic
    BY KindsOfTopics
  <2>2. /\ Elements(subsByTopic'[k]) = Elements(subsByTopic[k])
        /\ Len(subsByTopic'[k]) <= Len(subsByTopic[k])
        /\ dead'[k] = dead[k] /\ removed' = removed
    BY <1>1, <1>2, <1>10, <2>1, PublishStep
  <2>3. QED
    BY <1>4, <1>6, <1>8, <1>10, <2>2, ReplyKept
<1>11. ReplyFits(m)'
  <2>1. subs \in Seq(Channel!Sub) /\ subsByTopic'[m] \in Seq(Channel!Sub)
    BY <1>1, <1>4, SubsTyped DEF SubTypes, Channel!Topic, Channel!Message, Channel!Sub
  <2>2. /\ Elements(subsByTopic'[m]) \subseteq Elements(subs)
        /\ \A sub \in Elements(subsByTopic'[m]) : \A p \in Channel!Met(subs, a) :
             subs[p].once => sub.number # subs[p].number
        /\ subsByTopic'[m] = <<>> => dead'[m] # <<>>
        /\ removed' = removed
    BY <1>1, <1>2, PublishStep
  <2>3. CASE subs = <<>>
    <3>1. \A p \in Channel!Met(subs, a) : p \in 1..Len(subs)
      BY <2>1, MetProperties
    <3>2. Channel!Met(subs, a) = {}
      BY <2>3, <3>1
    <3>3. request' = request
      BY <1>6, <3>2
    <3>4. Elements(subs) = {}
      BY <2>1, <2>3, ElementsOf
    <3>5. Elements(subsByTopic'[m]) = {}
      BY <2>2, <3>4
    <3>6. subsByTopic'[m] = <<>>
      BY <2>1, <3>5, ElementsOf
    <3>7. request[m] = "waiting" => sent[m].from \in removed
      BY <1>3, <2>3 DEF ReplyFits
    <3>8. sent'[m] = sent[m]
      BY <1>2, <1>8
    <3>9. Len(subsByTopic'[m]) <= 1
      BY <3>6
    <3>10. QED
      BY <2>2, <3>3, <3>5, <3>6, <3>7, <3>8, <3>9 DEF ReplyFits
  <2>4. CASE subs # <<>>
    <3>1. Len(subs) = 1
      <4>1. Len(subs) <= 1
        BY <1>3 DEF ReplyFits
      <4>2. Len(subs) \in Nat /\ Len(subs) # 0
        BY <2>1, <2>4
      <4>3. \A n \in Nat : n <= 1 /\ n # 0 => n = 1
        OBVIOUS
      <4>4. QED
        BY <4>1, <4>2, <4>3
    <3>2. Elements(subs) = {subs[1]}
      BY <3>1 DEF Elements
    <3>3. subs[1].agent # a /\ subs[1].once
      BY <1>3, <1>5, <3>2 DEF ReplyFits
    <3>4. Channel!Met(subs, a) = {1}
      BY <2>1, <3>1, <3>3, MetProperties
    <3>5. \A sub \in Elements(subsByTopic'[m]) : sub.number # subs[1].number
      BY <2>2, <3>3, <3>4
    <3>6. Elements(subsByTopic'[m]) = {}
      BY <2>2, <3>2, <3>5
    <3>7. subsByTopic'[m] = <<>>
      BY <2>1, <3>6, ElementsOf
    <3>8. request'[m] = "replied"
      BY <1>6, <3>4
    <3>9. Len(subsByTopic'[m]) <= 1
      BY <3>7
    <3>10. QED
      BY <3>6, <3>7, <3>8, <3>9 DEF ReplyFits
  <2>5. QED
    BY <2>3, <2>4
<1>12. \A k \in Channel!Message : ReplyFits(k)'
  BY <1>10, <1>11
<1>13. QED
  BY <1>4, <1>8, <1>9, <1>12, ChannelTypesNext DEF ChannelInv, Channel!Message

\* A direct message, which is neither a request nor a reply.
LEMMA SendStepIsKept ==
  ASSUME ChannelInv, NEW a \in Agent, NEW to \in Agent, Channel!Send(a, to)
  PROVE  ChannelInv'
<1> DEFINE new == Len(sent) + 1
<1>1. to \in Channel!Topic /\ to \notin Channel!Message /\ to \in Agent
  BY KindsOfTopics
<1>2. /\ new <= MaxMessages /\ sent' = Append(sent, [from |-> a, topic |-> to])
      /\ subsByTopic' = subsByTopic /\ subsByAgent' = subsByAgent /\ made' = made
      /\ request' = request /\ delivered' = delivered /\ removed' = removed
      /\ \/ dead' = Channel!DeadWith(to, new) /\ sending' = sending
         \/ sending' = [sending EXCEPT ![new] = 1] /\ dead' = dead
  BY DEF Channel!Send, Channel!index
<1>3. OtherTypes /\ SubTypes /\ NumberInv /\ Len(sent) \in Nat
  BY ChannelFacts
<1>4. new \in Channel!Message
  BY <1>2, <1>3 DEF Channel!Message
<1>5. SubTypes' /\ NumberInv'
  BY <1>2, <1>3 DEF SubTypes, NumberInv, Channel!Topic, Channel!Message, Channel!Sub
<1> HIDE DEF new
<1>6. /\ dead' \in [Channel!Topic -> Seq(Channel!Message)]
      /\ \A u \in Channel!Topic : Len(dead'[u]) <= MaxDeadLetters
      /\ \A u \in Channel!Topic : u # to => dead'[u] = dead[u]
      /\ \A u \in Channel!Topic : \A m \in Elements(dead'[u]) :
           m \in Elements(dead[u]) \/ (m = new /\ u = to)
  <2>1. CASE dead' = Channel!DeadWith(to, new)
    <3>1. /\ dead' \in [Channel!Topic -> Seq(Channel!Message)]
          /\ \A u \in Channel!Topic : Len(dead'[u]) <= MaxDeadLetters
          /\ \A u \in Channel!Topic : u # to => dead'[u] = dead[u]
          /\ Elements(dead'[to]) \subseteq Elements(dead[to]) \cup {new}
      BY <1>1, <1>4, <2>1, DeadGrows
    <3>2. QED
      BY <3>1
  <2>2. CASE dead' = dead
    BY <1>3, <2>2 DEF OtherTypes
  <2>3. QED
    BY <1>2, <2>1, <2>2
<1>7. /\ sending' \in [Channel!Message -> 0..(MaxSubscriptions + 1)]
      /\ \A m \in Channel!Message : sending'[m] # 0 => sending[m] # 0 \/ (m = new /\ to \in Agent)
  <2>1. 1 \in 0..(MaxSubscriptions + 1)
    BY ChannelBounds
  <2>2. QED
    BY <1>2, <1>3, <1>4, <2>1 DEF OtherTypes
<1>8. /\ AddressInv' /\ sent' \in Seq([from : Agent, topic : Channel!Topic])
      /\ \A m \in Channel!Message : Replies(m)' = Replies(m)
      /\ \A m \in Channel!Message : request[m] # "none" => sent'[m] = sent[m]
  BY <1>1, <1>2, <1>6, <1>7, SentStep DEF new
<1>9. OtherTypes'
  BY <1>2, <1>3, <1>6, <1>7, <1>8 DEF OtherTypes, Channel!Topic, Channel!Message
<1>10. ASSUME NEW m \in Channel!Message PROVE ReplyFits(m)'
  <2>1. m \in Channel!Topic /\ m # to
    BY <1>1, KindsOfTopics
  <2>2. dead'[m] = dead[m] /\ Len(subsByTopic[m]) \in Nat
    BY <1>6, <2>1, SubsTyped
  <2>3. Len(subsByTopic'[m]) <= Len(subsByTopic[m])
    BY <1>2, <2>2
  <2>4. QED
    BY <1>2, <1>5, <1>8, <2>2, <2>3, ReplyKept
<1>11. QED
  BY <1>5, <1>8, <1>9, <1>10, ChannelTypesNext DEF ChannelInv, Channel!Message

\* The dead letters that a new subscription of a to t is called with.
LEMMA FlushedProperties ==
  ASSUME ChannelInv, NEW a, NEW t \in Channel!Topic
  PROVE  /\ Channel!Flushed(a, t) = {m \in Elements(dead[t]) : sent[m].from # a}
         /\ \A m \in Channel!Flushed(a, t) : m \in Channel!Message /\ m <= Len(sent)
         /\ Channel!DeadAfterFlush(t) \in [Channel!Topic -> Seq(Channel!Message)]
         /\ \A u \in Channel!Topic : Len(Channel!DeadAfterFlush(t)[u]) <= MaxDeadLetters
         /\ \A u \in Channel!Topic :
              Elements(Channel!DeadAfterFlush(t)[u]) \subseteq Elements(dead[u])
         /\ \A u \in Channel!Topic : u # t => Channel!DeadAfterFlush(t)[u] = dead[u]
<1>1. OtherTypes /\ AddressInv /\ dead[t] \in Seq(Channel!Message)
      /\ Elements(dead[t]) \subseteq Channel!Message
  BY ChannelFacts
<1>2. Channel!Flushed(a, t) = {m \in Elements(dead[t]) : sent[m].from # a}
  BY <1>1 DEF Channel!Flushed, Elements
<1>3. \A m \in Channel!Flushed(a, t) : m \in Channel!Message /\ m <= Len(sent)
  BY <1>1, <1>2 DEF AddressInv
<1>4. <<>> \in Seq(Channel!Message) /\ Len(<<>>) <= MaxDeadLetters /\ Elements(<<>>) = {}
  BY ChannelBounds DEF Elements
<1>5. /\ Channel!DeadAfterFlush(t)[t] = <<>>
      /\ \A u \in Channel!Topic : u # t => Channel!DeadAfterFlush(t)[u] = dead[u]
  BY <1>1 DEF Channel!DeadAfterFlush, OtherTypes
<1>6. Channel!DeadAfterFlush(t) \in [Channel!Topic -> Seq(Channel!Message)]
  BY <1>1, <1>4 DEF Channel!DeadAfterFlush, OtherTypes
<1>7. ASSUME NEW u \in Channel!Topic
      PROVE  /\ Len(Channel!DeadAfterFlush(t)[u]) <= MaxDeadLetters
             /\ Elements(Channel!DeadAfterFlush(t)[u]) \subseteq Elements(dead[u])
  <2>1. CASE u = t
    BY <1>4, <1>5, <2>1
  <2>2. CASE u # t
    BY <1>1, <1>5, <2>2 DEF OtherTypes
  <2>3. QED
    BY <2>1, <2>2
<1>8. QED
  BY <1>2, <1>3, <1>5, <1>6, <1>7

LEMMA SubscribeStep ==
  ASSUME ChannelInv, NEW a \in Agent, NEW t \in PublicTopic \cup {a}, NEW once \in BOOLEAN,
         Channel!Subscribe(a, t, once)
  PROVE  ChannelInv'
<1> DEFINE sub == [number |-> made + 1, agent |-> a, once |-> once]
<1>1. t \in Channel!Topic /\ t \notin Channel!Message
  BY KindsOfTopics
<1>2. /\ made < MaxSubscriptions /\ made' = made + 1
      /\ subsByTopic' = [subsByTopic EXCEPT ![t] = Append(@, sub)]
      /\ subsByAgent' = [subsByAgent EXCEPT ![a] = Append(@, made + 1)]
      /\ delivered' = delivered \cup ({a} \X Channel!Flushed(a, t))
      /\ dead' = Channel!DeadAfterFlush(t)
      /\ sent' = sent /\ sending' = sending /\ request' = request /\ removed' = removed
  BY DEF Channel!Subscribe
<1>3. OtherTypes /\ AddressInv /\ made \in Nat
  BY ChannelFacts
<1>4. sub \in Channel!Sub /\ sub.number = made + 1 /\ sub.agent = a
  BY <1>2, <1>3, ChannelBounds DEF Channel!Sub
<1> HIDE DEF sub
<1>5. /\ SubTypes' /\ NumberInv'
      /\ \A u \in Channel!Topic : u # t => subsByTopic'[u] = subsByTopic[u]
  BY <1>1, <1>2, <1>4, OneMoreSub
<1>6. /\ \A m \in Channel!Flushed(a, t) :
           m \in Channel!Message /\ m <= Len(sent) /\ sent[m].from # a
      /\ dead' \in [Channel!Topic -> Seq(Channel!Message)]
      /\ \A u \in Channel!Topic : Len(dead'[u]) <= MaxDeadLetters
      /\ \A u \in Channel!Topic : Elements(dead'[u]) \subseteq Elements(dead[u])
      /\ \A u \in Channel!Topic : u # t => dead'[u] = dead[u]
  <2>1. /\ Channel!Flushed(a, t) = {m \in Elements(dead[t]) : sent[m].from # a}
        /\ \A m \in Channel!Flushed(a, t) : m \in Channel!Message /\ m <= Len(sent)
    BY <1>1, FlushedProperties
  <2>2. /\ Channel!DeadAfterFlush(t) \in [Channel!Topic -> Seq(Channel!Message)]
        /\ \A u \in Channel!Topic : Len(Channel!DeadAfterFlush(t)[u]) <= MaxDeadLetters
        /\ \A u \in Channel!Topic :
             Elements(Channel!DeadAfterFlush(t)[u]) \subseteq Elements(dead[u])
        /\ \A u \in Channel!Topic : u # t => Channel!DeadAfterFlush(t)[u] = dead[u]
    BY <1>1, FlushedProperties
  <2>3. \A m \in Channel!Flushed(a, t) : sent[m].from # a
    BY <2>1
  <2>4. QED
    BY <1>2, <2>1, <2>2, <2>3
<1>7. AddressInv' /\ \A m : Replies(m)' = Replies(m)
  <2>1. \A b \in Agent, m \in Channel!Message : <<b, m>> \in delivered' =>
          \/ <<b, m>> \in delivered
          \/ m <= Len(sent) /\ (request[m] # "none" => b # sent[m].from)
    BY <1>2, <1>6
  <2>2. /\ \A m \in Channel!Message : sending'[m] # 0 => sending[m] # 0
        /\ \A m \in Channel!Message : request'[m] = "none" <=> request[m] = "none"
    BY <1>2
  <2>3. QED
    BY <1>2, <1>6, <2>1, <2>2, QuietStep
<1>8. OtherTypes'
  <2>1. delivered' \subseteq Agent \X Channel!Message
    BY <1>2, <1>3, <1>6 DEF OtherTypes
  <2>2. QED
    BY <1>2, <1>3, <1>6, <2>1 DEF OtherTypes, Channel!Topic, Channel!Message
<1>9. ASSUME NEW m \in Channel!Message PROVE ReplyFits(m)'
  <2>1. m \in Channel!Topic /\ m # t
    BY <1>1, KindsOfTopics
  <2>2. Len(subsByTopic[m]) \in Nat /\ subsByTopic'[m] = subsByTopic[m] /\ dead'[m] = dead[m]
    BY <1>5, <1>6, <2>1, SubsTyped
  <2>3. Len(subsByTopic'[m]) <= Len(subsByTopic[m])
    BY <2>2
  <2>4. QED
    BY <1>2, <1>5, <1>7, <2>2, <2>3, ReplyKept
<1>10. QED
  BY <1>5, <1>7, <1>8, <1>9, ChannelTypesNext DEF ChannelInv, Channel!Message

\* A step that takes subscriptions back and sends nothing, and leaves the replies alone
\* or is that of the agent whose replies they are.
LEMMA TakenBackStep ==
  ASSUME ChannelInv, SubTypes', NumberInv',
         \A t \in Channel!Topic : /\ Elements(subsByTopic'[t]) \subseteq Elements(subsByTopic[t])
                                  /\ Len(subsByTopic'[t]) <= Len(subsByTopic[t]),
         \A m \in Channel!Message :
           Elements(subsByTopic'[m]) = Elements(subsByTopic[m]) \/ sent[m].from \in removed',
         UNCHANGED <<sent, dead, request>>,
         sending' \in [Channel!Message -> 0..(MaxSubscriptions + 1)],
         \A m \in Channel!Message : sending'[m] # 0 => sending[m] # 0,
         delivered' \subseteq Agent \X Channel!Message,
         \A a \in Agent, m \in Channel!Message : <<a, m>> \in delivered' =>
           \/ <<a, m>> \in delivered
           \/ m <= Len(sent) /\ (request[m] # "none" => a # sent[m].from),
         removed \subseteq removed', removed' \subseteq Agent
  PROVE  ChannelInv'
<1>1. OtherTypes
  BY ChannelFacts
<1>2. AddressInv' /\ \A m : Replies(m)' = Replies(m)
  BY QuietStep
<1>3. OtherTypes'
  BY <1>1 DEF OtherTypes, Channel!Topic, Channel!Message
<1>4. ASSUME NEW m \in Channel!Message PROVE ReplyFits(m)'
  <2>1. m \in Channel!Topic
    BY KindsOfTopics
  <2>2. QED
    BY <1>2, <2>1, ReplyKept
<1>5. QED
  BY <1>2, <1>3, <1>4, ChannelTypesNext DEF ChannelInv, Channel!Message

LEMMA UnsubscribeStep ==
  ASSUME ChannelInv, NEW n, Channel!Unsubscribe(n)
  PROVE  ChannelInv'
<1>1. /\ n \in Channel!Subscribed /\ Channel!Unsubscribed({n})
      /\ sending' = Channel!SendsGoOn(subsByTopic')
      /\ UNCHANGED <<sent, dead, request, delivered, removed>>
  BY DEF Channel!Unsubscribe
<1>2. OtherTypes
  BY ChannelFacts
<1>3. PICK t \in PublicTopic \cup Agent : n \in Channel!Numbers(subsByTopic[t])
  BY <1>1 DEF Channel!Subscribed
<1>4. t \in Channel!Topic /\ t \notin Channel!Message
  BY KindsOfTopics
<1>5. \A k \in {n} : \E sub \in Elements(subsByTopic[t]) : sub.number = k
  BY <1>3 DEF Channel!Numbers, Elements
<1>6. /\ SubTypes' /\ NumberInv'
      /\ \A u \in Channel!Topic :
           /\ Elements(subsByTopic'[u]) = {sub \in Elements(subsByTopic[u]) : sub.number \notin {n}}
           /\ Len(subsByTopic'[u]) <= Len(subsByTopic[u])
  BY <1>1, UnsubscribedStep
<1>7. \A u \in Channel!Topic : u # t => Elements(subsByTopic'[u]) = Elements(subsByTopic[u])
  BY <1>4, <1>5, <1>6, OthersKeep
<1>8. \A m \in Channel!Message : Elements(subsByTopic'[m]) = Elements(subsByTopic[m])
  BY <1>4, <1>7, KindsOfTopics
<1>9. /\ sending' \in [Channel!Message -> 0..(MaxSubscriptions + 1)]
      /\ \A m \in Channel!Message : sending'[m] # 0 => sending[m] # 0
  BY <1>1, SendsFewer
<1>10. \A u \in Channel!Topic : /\ Elements(subsByTopic'[u]) \subseteq Elements(subsByTopic[u])
                               /\ Len(subsByTopic'[u]) <= Len(subsByTopic[u])
  BY <1>6
<1>11. delivered' \subseteq Agent \X Channel!Message /\ removed' \subseteq Agent
  BY <1>1, <1>2 DEF OtherTypes
<1>12. QED
  BY <1>1, <1>6, <1>8, <1>9, <1>10, <1>11, TakenBackStep

LEMMA RemoveAgentStep ==
  ASSUME ChannelInv, NEW a \in Agent, Channel!RemoveAgent(a)
  PROVE  ChannelInv'
<1> DEFINE mine == subsByAgent[a]
           met == {mine[i] : i \in {j \in 1..Len(mine) : j % 2 = 1}}
<1>1. /\ subsByTopic' = [t \in Channel!Topic |-> Channel!Unnumbered(subsByTopic[t], met)]
      /\ subsByAgent' = [subsByAgent EXCEPT ![a] = <<>>]
      /\ sending' = Channel!SendsGoOn(subsByTopic')
      /\ removed' = removed \cup {a} /\ made' = made
      /\ UNCHANGED <<sent, dead, request, delivered>>
  BY DEF Channel!RemoveAgent
<1>2. met \subseteq Elements(mine)
  BY DEF Elements
<1> HIDE DEF met
<1>3. /\ SubTypes /\ OtherTypes /\ NumberInv
      /\ \A t \in Channel!Topic : subsByTopic[t] \in Seq(Channel!Sub)
      /\ \A m \in Channel!Message : ReplyFits(m)
  BY ChannelFacts, SubsTyped
<1>4. ASSUME NEW t \in Channel!Topic
      PROVE  /\ subsByTopic'[t] \in Seq(Channel!Sub)
             /\ Elements(subsByTopic'[t]) = {sub \in Elements(subsByTopic[t]) : sub.number \notin met}
             /\ Elements(subsByTopic'[t]) \subseteq Elements(subsByTopic[t])
             /\ Len(subsByTopic'[t]) <= Len(subsByTopic[t])
  BY <1>1, <1>3, UnnumberedProperties
<1>5. Elements(<<>>) = {}
  BY DEF Elements
<1>6. \A b \in Agent : Elements(subsByAgent'[b]) \subseteq Elements(subsByAgent[b])
  BY <1>1, <1>3, <1>5 DEF SubTypes
<1>7. SubTypes'
  <2>1. subsByTopic' \in [Channel!Topic -> Seq(Channel!Sub)]
    BY <1>1, <1>4
  <2>2. subsByAgent' \in [Agent -> Seq(1..MaxSubscriptions)]
    BY <1>1, <1>3 DEF SubTypes
  <2>3. QED
    BY <1>1, <1>3, <2>1, <2>2 DEF SubTypes, Channel!Topic, Channel!Message, Channel!Sub
<1>8. NumberInv'
  BY <1>1, <1>4, <1>6, <1>7, FewerSubs
<1>9. ASSUME NEW m \in Channel!Message
      PROVE  Elements(subsByTopic'[m]) = Elements(subsByTopic[m]) \/ sent[m].from \in removed'
  <2>1. m \in Channel!Topic /\ ReplyFits(m)
    BY <1>3, KindsOfTopics
  <2>2. ASSUME NEW sub \in Elements(subsByTopic[m]), sub.number \in met
        PROVE  sent[m].from = a
    <3>1. sub.agent = a
      BY <1>2, <1>3, <2>1, <2>2 DEF NumberInv
    <3>2. sub.agent = sent[m].from
      BY <2>1 DEF ReplyFits
    <3>3. QED
      BY <3>1, <3>2
  <2>3. QED
    BY <1>1, <1>4, <2>1, <2>2
<1>10. /\ sending' \in [Channel!Message -> 0..(MaxSubscriptions + 1)]
       /\ \A m \in Channel!Message : sending'[m] # 0 => sending[m] # 0
  BY <1>1, SendsFewer
<1>11. delivered' \subseteq Agent \X Channel!Message /\ removed' \subseteq Agent
       /\ removed \subseteq removed'
  BY <1>1, <1>3 DEF OtherTypes
<1>12. QED
  BY <1>1, <1>4, <1>7, <1>8, <1>9, <1>10, <1>11, TakenBackStep

\* The next handler of a direct message is called.
LEMMA NextHandlerStep ==
  ASSUME ChannelInv, NEW m \in Channel!Message, Channel!SendStep(m)
  PROVE  ChannelInv'
<1> DEFINE t == sent[m].topic
           subs == subsByTopic[t]
           sub == subs[sending[m]]
           taken == IF sub.once THEN {sub.number} ELSE {}
<1>1. sending[m] # 0 /\ UNCHANGED <<sent, dead, request, removed>>
  BY DEF Channel!SendStep
<1>2. OtherTypes /\ SubTypes /\ AddressInv /\ NumberInv
  BY ChannelFacts
<1>3. m <= Len(sent) /\ t \in Agent
  BY <1>1, <1>2 DEF AddressInv
<1>4. t \in Channel!Topic /\ t \notin Channel!Message /\ t \notin PublicTopic
  BY <1>3, KindsOfTopics
<1>5. request[m] = "none"
  BY <1>2, <1>4 DEF AddressInv
<1>6. sending[m] \in 0..(MaxSubscriptions + 1)
  BY <1>2 DEF OtherTypes
<1>7. subs \in Seq(Channel!Sub) /\ Len(subs) \in Nat /\ Elements(subs) \subseteq Channel!Sub
      /\ Len(subs) <= made
  BY <1>2, <1>4, SubsTyped DEF NumberInv
<1>8. removed' \subseteq Agent /\ removed \subseteq removed'
  BY <1>1, <1>2 DEF OtherTypes
<1>9. CASE sending[m] > Len(subs)
  <2>1. /\ sending' = [sending EXCEPT ![m] = 0] /\ delivered' = delivered
        /\ subsByTopic' = subsByTopic /\ subsByAgent' = subsByAgent /\ made' = made
    BY <1>9 DEF Channel!SendStep, Channel!index
  <2>2. SubTypes' /\ NumberInv'
    BY <1>2, <2>1 DEF SubTypes, NumberInv, Channel!Topic, Channel!Message, Channel!Sub
  <2>3. /\ sending' \in [Channel!Message -> 0..(MaxSubscriptions + 1)]
        /\ \A k \in Channel!Message : sending'[k] # 0 => sending[k] # 0
    <3>1. 0 \in 0..(MaxSubscriptions + 1)
      BY ChannelBounds
    <3>2. QED
      BY <1>2, <2>1, <3>1 DEF OtherTypes
  <2>4. \A u \in Channel!Topic : Len(subsByTopic'[u]) <= Len(subsByTopic[u])
    <3>1. \A u \in Channel!Topic : Len(subsByTopic[u]) \in Nat
      BY SubsTyped
    <3>2. QED
      BY <2>1, <3>1
  <2>5. delivered' \subseteq Agent \X Channel!Message
    BY <1>2, <2>1 DEF OtherTypes
  <2>6. QED
    BY <1>1, <1>8, <2>1, <2>2, <2>3, <2>4, <2>5, TakenBackStep
<1>10. CASE ~ (sending[m] > Len(subs))
  <2>1. /\ Channel!Unsubscribed(taken)
        /\ sending' = [Channel!SendsGoOn(subsByTopic') EXCEPT
                         ![m] = IF subsByTopic'[t] = <<>> THEN 0 ELSE sending[m] + 1]
        /\ delivered' = delivered \cup {<<sub.agent, m>>}
    BY <1>10 DEF Channel!SendStep
  <2>2. sending[m] \in 1..Len(subs) /\ sending[m] + 1 \in 0..(MaxSubscriptions + 1)
    <3>1. made \in 0..MaxSubscriptions
      BY <1>2 DEF SubTypes
    <3> HIDE DEF subs
    <3>2. QED
      BY <1>1, <1>6, <1>7, <1>10, <3>1, ChannelBounds
  <2>3. sub \in Elements(subs)
    BY <2>2 DEF Elements
  <2>4. sub.agent \in Agent
    BY <1>7, <2>3 DEF Channel!Sub
  <2>5. \A n \in taken : \E x \in Elements(subs) : x.number = n
    BY <2>3
  <2> HIDE DEF taken, sub, t
  <2>6. /\ SubTypes' /\ NumberInv'
        /\ \A u \in Channel!Topic :
             /\ Elements(subsByTopic'[u]) = {x \in Elements(subsByTopic[u]) : x.number \notin taken}
             /\ Len(subsByTopic'[u]) <= Len(subsByTopic[u])
    BY <2>1, UnsubscribedStep
  <2>7. \A u \in Channel!Topic : u # t => Elements(subsByTopic'[u]) = Elements(subsByTopic[u])
    BY <1>4, <2>5, <2>6, OthersKeep
  <2>8. \A k \in Channel!Message : Elements(subsByTopic'[k]) = Elements(subsByTopic[k])
    BY <1>4, <2>7, KindsOfTopics
  <2>9. /\ sending' \in [Channel!Message -> 0..(MaxSubscriptions + 1)]
        /\ \A k \in Channel!Message : sending'[k] # 0 => sending[k] # 0
    <3> DEFINE on == Channel!SendsGoOn(subsByTopic')
    <3>1. /\ on \in [Channel!Message -> 0..(MaxSubscriptions + 1)]
          /\ \A k \in Channel!Message : on[k] # 0 => sending[k] # 0
      BY SendsFewer
    <3>2. 0 \in 0..(MaxSubscriptions + 1)
      BY ChannelBounds
    <3> HIDE DEF on
    <3>3. sending' = [on EXCEPT ![m] = IF subsByTopic'[t] = <<>> THEN 0 ELSE sending[m] + 1]
      BY <2>1 DEF on
    <3>4. QED
      BY <1>1, <2>2, <3>1, <3>2, <3>3
  <2>10. \A u \in Channel!Topic : /\ Elements(subsByTopic'[u]) \subseteq Elements(subsByTopic[u])
                                  /\ Len(subsByTopic'[u]) <= Len(subsByTopic[u])
    BY <2>6
  <2>11. /\ delivered' \subseteq Agent \X Channel!Message
         /\ \A b \in Agent, k \in Channel!Message : <<b, k>> \in delivered' =>
              \/ <<b, k>> \in delivered
              \/ k <= Len(sent) /\ (request[k] # "none" => b # sent[k].from)
    BY <1>2, <1>3, <1>5, <2>1, <2>4 DEF OtherTypes
  <2>12. QED
    BY <1>1, <1>8, <2>6, <2>8, <2>9, <2>10, <2>11, TakenBackStep
<1>11. QED
  BY <1>9, <1>10

\* The request subscribes to its reply, and takes the subscription back when the reply
\* has been there before.
LEMMA AwaitReplyStep ==
  ASSUME ChannelInv, NEW m \in Channel!Message, Channel!AwaitReply(m)
  PROVE  ChannelInv'
<1> DEFINE a == sent[m].from
           early == Channel!Flushed(a, m)
           sub == [number |-> made + 1, agent |-> a, once |-> TRUE]
<1>1. /\ request[m] = "publishing" /\ made < MaxSubscriptions /\ made' = made + 1
      /\ delivered' = delivered \cup ({a} \X early) /\ dead' = Channel!DeadAfterFlush(m)
      /\ sent' = sent /\ sending' = sending /\ removed' = removed
  BY DEF Channel!AwaitReply
<1>2. /\ early # {} => /\ request' = [request EXCEPT ![m] = "replied"]
                       /\ subsByTopic' = subsByTopic /\ subsByAgent' = subsByAgent
      /\ early = {} => /\ request' = [request EXCEPT ![m] = "waiting"]
                       /\ subsByTopic' = [subsByTopic EXCEPT ![m] = Append(@, sub)]
                       /\ subsByAgent' = [subsByAgent EXCEPT ![a] = Append(@, made + 1)]
  BY DEF Channel!AwaitReply
<1>3. OtherTypes /\ SubTypes /\ AddressInv /\ NumberInv /\ made \in Nat /\ ReplyFits(m)
      /\ Len(sent) \in Nat /\ m \in Channel!Topic /\ m \in Nat /\ m >= 1
  BY ChannelFacts, KindsOfTopics
<1>4. m <= Len(sent) /\ subsByTopic[m] = <<>>
  BY <1>1, <1>3 DEF AddressInv, ReplyFits
<1>5. a \in Agent
  BY <1>3, <1>4, ChannelFacts
<1>6. sub \in Channel!Sub /\ sub.number = made + 1 /\ sub.agent = a /\ sub.once
  BY <1>1, <1>3, <1>5, ChannelBounds DEF Channel!Sub
<1>7. early = {k \in Elements(dead[m]) : sent[k].from # a}
      /\ \A k \in early : k \in Channel!Message /\ k <= Len(sent)
  BY <1>3, FlushedProperties
<1>8. \A k \in early : k \in Channel!Message /\ k <= Len(sent) /\ sent[k].from # a
  BY <1>7
<1>9. /\ dead' \in [Channel!Topic -> Seq(Channel!Message)]
      /\ \A u \in Channel!Topic : Len(dead'[u]) <= MaxDeadLetters
      /\ \A u \in Channel!Topic : Elements(dead'[u]) \subseteq Elements(dead[u])
      /\ \A u \in Channel!Topic : u # m => dead'[u] = dead[u]
  <2>1. /\ Channel!DeadAfterFlush(m) \in [Channel!Topic -> Seq(Channel!Message)]
        /\ \A u \in Channel!Topic : Len(Channel!DeadAfterFlush(m)[u]) <= MaxDeadLetters
        /\ \A u \in Channel!Topic :
             Elements(Channel!DeadAfterFlush(m)[u]) \subseteq Elements(dead[u])
        /\ \A u \in Channel!Topic : u # m => Channel!DeadAfterFlush(m)[u] = dead[u]
    BY <1>3, FlushedProperties
  <2>2. QED
    BY <1>1, <2>1
<1> HIDE DEF a, early, sub
<1>10. /\ request'[m] = IF early # {} THEN "replied" ELSE "waiting"
       /\ \A k \in Channel!Message : k # m => request'[k] = request[k]
       /\ request' \in [Channel!Message -> {"none", "publishing", "waiting", "replied", "timeout"}]
  BY <1>2, <1>3 DEF OtherTypes
<1>11. AddressInv' /\ \A k : Replies(k)' = Replies(k)
  <2>1. \A b \in Agent, k \in Channel!Message : <<b, k>> \in delivered' =>
          \/ <<b, k>> \in delivered
          \/ k <= Len(sent) /\ (request[k] # "none" => b # sent[k].from)
    BY <1>1, <1>8
  <2>2. /\ \A k \in Channel!Message : sending'[k] # 0 => sending[k] # 0
        /\ \A k \in Channel!Message : request'[k] = "none" <=> request[k] = "none"
    BY <1>1, <1>10
  <2>3. QED
    BY <1>1, <1>9, <2>1, <2>2, QuietStep
<1>12. OtherTypes'
  <2>1. delivered' \subseteq Agent \X Channel!Message
    BY <1>1, <1>3, <1>5, <1>8 DEF OtherTypes
  <2>2. QED
    BY <1>1, <1>3, <1>9, <1>10, <2>1 DEF OtherTypes, Channel!Topic, Channel!Message
<1>13. SubTypes' /\ NumberInv' /\ \A u \in Channel!Topic : u # m => subsByTopic'[u] = subsByTopic[u]
  <2>1. CASE early = {}
    BY <1>1, <1>2, <1>3, <1>5, <1>6, <2>1, OneMoreSub
  <2>2. CASE early # {}
    <3>1. subsByTopic' = subsByTopic /\ subsByAgent' = subsByAgent
      BY <1>2, <2>2
    <3>2. made' \in 0..MaxSubscriptions
      BY <1>1, <1>3, ChannelBounds
    <3>3. SubTypes'
      BY <1>3, <3>1, <3>2 DEF SubTypes, Channel!Topic, Channel!Message, Channel!Sub
    <3>4. \A n \in Nat : n <= made => n <= made'
      BY <1>1, <1>3
    <3>5. /\ \A u \in Channel!Topic : Len(subsByTopic[u]) \in Nat
          /\ \A u \in Channel!Topic : \A x \in Elements(subsByTopic[u]) : x.number \in Nat
          /\ \A b \in Agent : \A n \in Elements(subsByAgent[b]) : n \in Nat
      <4>1. \A x \in Channel!Sub : x.number \in Nat
        BY ChannelBounds DEF Channel!Sub
      <4>2. \A n \in 1..MaxSubscriptions : n \in Nat
        BY ChannelBounds
      <4>3. /\ \A u \in Channel!Topic : Len(subsByTopic[u]) \in Nat
            /\ \A u \in Channel!Topic : Elements(subsByTopic[u]) \subseteq Channel!Sub
            /\ \A b \in Agent : Elements(subsByAgent[b]) \subseteq 1..MaxSubscriptions
        BY SubsTyped
      <4>4. QED
        BY <4>1, <4>2, <4>3
    <3>6. NumberInv'
      BY <1>3, <3>1, <3>4, <3>5 DEF NumberInv, Channel!Topic, Channel!Message
    <3>7. QED
      BY <3>1, <3>3, <3>6
  <2>3. QED
    BY <2>1, <2>2
<1>14. ASSUME NEW k \in Channel!Message, k # m PROVE ReplyFits(k)'
  <2>1. k \in Channel!Topic
    BY KindsOfTopics
  <2>2. Len(subsByTopic[k]) \in Nat /\ subsByTopic'[k] = subsByTopic[k] /\ dead'[k] = dead[k]
    BY <1>9, <1>13, <1>14, <2>1, SubsTyped
  <2>3. Len(subsByTopic'[k]) <= Len(subsByTopic[k])
    BY <2>2
  <2>4. QED
    BY <1>1, <1>10, <1>11, <1>13, <1>14, <2>2, <2>3, ReplyKept
<1>15. ReplyFits(m)'
  <2>1. Elements(<<>>) = {} /\ Len(<<>>) <= 1
    BY DEF Elements
  <2>2. CASE early # {}
    <3>1. request'[m] = "replied" /\ subsByTopic'[m] = <<>>
      BY <1>2, <1>4, <1>10, <2>2
    <3>2. QED
      BY <2>1, <3>1 DEF ReplyFits
  <2>3. CASE early = {}
    <3>1. request'[m] = "waiting"
      BY <1>10, <2>3
    <3>2. /\ Elements(subsByTopic'[m]) = Elements(subsByTopic[m]) \cup {sub}
          /\ subsByTopic'[m] # <<>> /\ Len(subsByTopic'[m]) = Len(subsByTopic[m]) + 1
      BY <1>1, <1>2, <1>3, <1>5, <1>6, <2>3, OneMoreSub
    <3>3. Elements(subsByTopic'[m]) = {sub} /\ Len(subsByTopic'[m]) <= 1
      <4>1. Len(<<>>) = 0 /\ 0 + 1 <= 1
        OBVIOUS
      <4>2. QED
        BY <1>4, <2>1, <3>2, <4>1
    <3>4. Replies(m) = {}
      <4>1. SUFFICES ASSUME Replies(m) # {} PROVE FALSE
        OBVIOUS
      <4>2. dead[m] # <<>> /\ dead[m] \in Seq(Channel!Message)
        BY <1>1, <1>3, <4>1, ChannelFacts DEF ReplyFits
      <4>3. PICK k \in Elements(dead[m]) : TRUE
        BY <4>2, ElementsOf
      <4>4. k \in Channel!Message /\ k <= Len(sent) /\ sent[k].topic = m
        BY <1>3, ChannelFacts DEF AddressInv
      <4>5. k \in Nat /\ k >= 1
        BY <4>4, KindsOfTopics
      <4>6. k \in Replies(m)
        BY <1>3, <4>4, <4>5 DEF Replies
      <4>7. sent[k].from # a
        BY <1>3, <4>6 DEF AddressInv, a
      <4>8. QED
        BY <1>7, <2>3, <4>7
    <3>5. sent'[m].from = a
      BY <1>1 DEF a
    <3>6. Replies(m)' = {}
      BY <1>11, <3>4
    <3>7. QED
      BY <1>6, <3>1, <3>2, <3>3, <3>5, <3>6 DEF ReplyFits
  <2>4. QED
    BY <2>2, <2>3
<1>16. \A k \in Channel!Message : ReplyFits(k)'
  BY <1>14, <1>15
<1>17. QED
  BY <1>11, <1>12, <1>13, <1>16, ChannelTypesNext DEF ChannelInv, Channel!Message

LEMMA TimesOutStep ==
  ASSUME ChannelInv, NEW m \in Channel!Message, Channel!TimesOut(m)
  PROVE  ChannelInv'
<1> DEFINE S == Channel!Numbers(subsByTopic[m])
<1>1. /\ request[m] = "waiting" /\ request' = [request EXCEPT ![m] = "timeout"]
      /\ Channel!Unsubscribed(S)
      /\ UNCHANGED <<sent, dead, sending, delivered, removed>>
  BY DEF Channel!TimesOut
<1>2. OtherTypes /\ AddressInv /\ m \in Channel!Topic
  BY ChannelFacts, KindsOfTopics
<1>3. S = {sub.number : sub \in Elements(subsByTopic[m])}
  BY DEF Channel!Numbers, Elements
<1> HIDE DEF S
<1>4. /\ SubTypes' /\ NumberInv'
      /\ \A u \in Channel!Topic :
           /\ Elements(subsByTopic'[u]) = {sub \in Elements(subsByTopic[u]) : sub.number \notin S}
           /\ Len(subsByTopic'[u]) <= Len(subsByTopic[u])
  BY <1>1, UnsubscribedStep
<1>5. \A u \in Channel!Topic : u # m => Elements(subsByTopic'[u]) = Elements(subsByTopic[u])
  <2>1. \A n \in S : \E sub \in Elements(subsByTopic[m]) : sub.number = n
    BY <1>3
  <2>2. QED
    BY <1>2, <1>4, <2>1, OthersKeep
<1>6. /\ request'[m] = "timeout"
      /\ \A k \in Channel!Message : k # m => request'[k] = request[k]
      /\ request' \in [Channel!Message -> {"none", "publishing", "waiting", "replied", "timeout"}]
  BY <1>1, <1>2 DEF OtherTypes
<1>7. AddressInv' /\ \A k : Replies(k)' = Replies(k)
  <2>1. \A k \in Channel!Message : request'[k] = "none" <=> request[k] = "none"
    BY <1>1, <1>6
  <2>2. QED
    BY <1>1, <2>1, QuietStep
<1>8. OtherTypes'
  BY <1>1, <1>2, <1>6 DEF OtherTypes, Channel!Topic, Channel!Message
<1>9. ASSUME NEW k \in Channel!Message, k # m PROVE ReplyFits(k)'
  <2>1. k \in Channel!Topic
    BY KindsOfTopics
  <2>2. /\ Elements(subsByTopic'[k]) = Elements(subsByTopic[k])
        /\ Len(subsByTopic'[k]) <= Len(subsByTopic[k])
    BY <1>4, <1>5, <1>9, <2>1
  <2>3. QED
    BY <1>1, <1>4, <1>6, <1>7, <1>9, <2>2, ReplyKept
<1>10. ReplyFits(m)'
  <2>1. Elements(subsByTopic'[m]) = {}
    BY <1>2, <1>3, <1>4
  <2>2. subsByTopic'[m] \in Seq(Channel!Sub)
    BY <1>2, <1>4 DEF SubTypes, Channel!Topic, Channel!Message, Channel!Sub
  <2>3. subsByTopic'[m] = <<>>
    BY <2>1, <2>2, ElementsOf
  <2>4. Len(subsByTopic'[m]) <= 1
    BY <2>3
  <2>5. QED
    BY <1>6, <2>1, <2>3, <2>4 DEF ReplyFits
<1>11. \A k \in Channel!Message : ReplyFits(k)'
  BY <1>9, <1>10
<1>12. QED
  BY <1>4, <1>7, <1>8, <1>11, ChannelTypesNext DEF ChannelInv, Channel!Message

LEMMA ChannelInitially == Init => ChannelInv
<1> SUFFICES ASSUME Init PROVE ChannelInv
  OBVIOUS
<1>1. /\ subsByTopic = [t \in Channel!Topic |-> <<>>] /\ subsByAgent = [a \in Agent |-> <<>>]
      /\ made = 0 /\ sent = <<>> /\ dead = [t \in Channel!Topic |-> <<>>]
      /\ sending = [m \in Channel!Message |-> 0]
      /\ request = [m \in Channel!Message |-> "none"] /\ delivered = {} /\ removed = {}
  BY DEF Init, Channel!Init
<1>2. Elements(<<>>) = {} /\ Len(<<>>) = 0 /\ \A m : Replies(m) = {}
  BY <1>1 DEF Elements, Replies
<1>3. \A S : <<>> \in Seq(S)
  OBVIOUS
<1>4. 0 <= MaxDeadLetters /\ 0 \in 0..MaxSubscriptions /\ 0 \in 0..(MaxSubscriptions + 1)
      /\ 0 <= 0 /\ 0 <= 1
  BY ChannelBounds
<1>5. SubTypes
  BY <1>1, <1>3, <1>4 DEF SubTypes
<1>6. OtherTypes
  <2>1. sent \in Seq([from : Agent, topic : Channel!Topic])
    BY <1>1, <1>3
  <2>2. QED
    BY <1>1, <1>2, <1>3, <1>4, <2>1 DEF OtherTypes
<1>7. \A t \in Channel!Topic : subsByTopic[t] = <<>> /\ dead[t] = <<>>
  BY <1>1
<1>8. \A a \in Agent : subsByAgent[a] = <<>>
  BY <1>1
<1>9. \A m \in Channel!Message : sending[m] = 0 /\ request[m] = "none" /\ subsByTopic[m] = <<>>
  BY <1>1, <1>7, KindsOfTopics
<1>10. AddressInv
  BY <1>1, <1>2, <1>7, <1>9 DEF AddressInv
<1>11. NumberInv
  BY <1>1, <1>2, <1>4, <1>7, <1>8 DEF NumberInv
<1>12. \A m \in Channel!Message : ReplyFits(m)
  BY <1>2, <1>4, <1>9 DEF ReplyFits
<1>13. QED
  BY <1>5, <1>6, <1>10, <1>11, <1>12, ChannelTypes DEF ChannelInv

LEMMA ChannelStep == ChannelInv /\ [Channel!Next]_channelVars => ChannelInv'
<1> SUFFICES ASSUME ChannelInv, [Channel!Next]_channelVars PROVE ChannelInv'
  OBVIOUS
<1>1. ASSUME NEW a \in Agent, NEW t \in PublicTopic \cup {a}, NEW once \in BOOLEAN,
             Channel!Subscribe(a, t, once)
      PROVE  ChannelInv'
  BY <1>1, SubscribeStep
<1>2. ASSUME NEW a \in Agent, Channel!RemoveAgent(a) PROVE ChannelInv'
  BY <1>2, RemoveAgentStep
<1>3. ASSUME NEW a \in Agent, NEW t \in PublicTopic, Channel!PublishMessage(a, t)
      PROVE  ChannelInv'
  BY <1>3, PublishMessageStep
<1>4. ASSUME NEW a \in Agent, NEW t \in PublicTopic, Channel!Request(a, t) PROVE ChannelInv'
  BY <1>4, RequestStep
<1>5. ASSUME NEW a \in Agent, NEW to \in Agent, Channel!Send(a, to) PROVE ChannelInv'
  BY <1>5, SendStepIsKept
<1>6. ASSUME NEW a \in Agent, NEW m \in Channel!Message, Channel!Reply(a, m) PROVE ChannelInv'
  BY <1>6, ReplyStep
<1>7. ASSUME NEW n \in 1..MaxSubscriptions, Channel!Unsubscribe(n) PROVE ChannelInv'
  BY <1>7, UnsubscribeStep
<1>8. ASSUME NEW m \in Channel!Message, Channel!SendStep(m) PROVE ChannelInv'
  BY <1>8, NextHandlerStep
<1>9. ASSUME NEW m \in Channel!Message, Channel!AwaitReply(m) PROVE ChannelInv'
  BY <1>9, AwaitReplyStep
<1>10. ASSUME NEW m \in Channel!Message, Channel!TimesOut(m) PROVE ChannelInv'
  BY <1>10, TimesOutStep
<1>11. CASE UNCHANGED channelVars
  <2>1. /\ UNCHANGED <<subsByTopic, subsByAgent, made>>
        /\ UNCHANGED <<sent, dead, sending, request, delivered, removed>>
    BY <1>11 DEF channelVars
  <2>2. SubTypes' /\ NumberInv'
    BY <2>1, ChannelFacts
       DEF SubTypes, NumberInv, Channel!Topic, Channel!Message, Channel!Sub
  <2>3. OtherTypes' /\ AddressInv'
    BY <2>1, ChannelFacts DEF OtherTypes, AddressInv, Replies, Channel!Topic, Channel!Message
  <2>4. \A m \in Channel!Message : ReplyFits(m)'
    BY <2>1, ChannelFacts DEF ReplyFits, Replies
  <2>5. QED
    BY <2>2, <2>3, <2>4, ChannelTypesNext DEF ChannelInv, Channel!Message
<1>12. CASE Channel!Next
  BY <1>1, <1>2, <1>3, <1>4, <1>5, <1>6, <1>7, <1>8, <1>9, <1>10, <1>12 DEF Channel!Next
<1>13. QED
  BY <1>11, <1>12

LEMMA ChannelInvariance == Spec => []ChannelInv
<1>1. ChannelInv /\ [Next]_vars => ChannelInv'
  BY StepOfEach, ChannelStep
<1>2. QED
  BY <1>1, ChannelInitially, PTL DEF Spec

\* AgentChannel: no reply is missed, whether it comes before or after the request
\* subscribes to it, and a request that is settled leaves no subscription behind.
THEOREM RepliesAlwaysReachRequests == Spec => []RepliesReachRequests
<1>1. ChannelInv => RepliesReachRequests
  <2> SUFFICES ASSUME ChannelInv PROVE RepliesReachRequests
    OBVIOUS
  <2>1. \A m \in Channel!Message : ReplyFits(m)
    BY DEF ChannelInv
  <2>2. Channel!NoReplyMissed
    BY <2>1 DEF Channel!NoReplyMissed, ReplyFits, Replies
  <2>3. Channel!SettledLeavesNothing
    BY <2>1 DEF Channel!SettledLeavesNothing, ReplyFits
  <2>4. QED
    BY <2>2, <2>3 DEF RepliesReachRequests
<1>2. QED
  BY <1>1, ChannelInvariance, PTL

-----------------------------------------------------------------------------
(* All of them *)

LEMMA WorkflowCounts == \A S : Workflow!Cardinality(S) = Cardinality(S)
  BY DEF Workflow!Cardinality, Cardinality

\* The stack has a frame for each step that is in progress.
LEMMA WorkflowIsTyped == WorkflowInv => Workflow!TypeOK
<1> SUFFICES ASSUME WorkflowInv PROVE Workflow!TypeOK
  OBVIOUS
<1> DEFINE stepOf(i) == stack[i].step
           steps == [i \in 1..Len(stack) |-> stepOf(i)]
<1>1. stack \in Seq(Frame) /\ Len(stack) \in Nat /\ DOMAIN stack = 1..Len(stack)
  <2>1. stack \in Seq(Frame)
    BY DEF WorkflowInv, WorkflowTypes
  <2>2. QED
    BY <2>1
<1>2. Workflow!InProgress = {stepOf(i) : i \in 1..Len(stack)}
  BY <1>1 DEF Workflow!InProgress
<1>3. \A i, j \in 1..Len(stack) : stepOf(i) = stepOf(j) => i = j
  BY DEF WorkflowInv, StackInv
<1> HIDE DEF stepOf
<1>4. steps \in Bijection(1..Len(stack), Workflow!InProgress)
  BY <1>2, <1>3 DEF Bijection, Injection, IsInjective, Surjection
<1>5. ExistsBijection(1..Len(stack), Workflow!InProgress)
  BY <1>4 DEF ExistsBijection
<1>6. Len(stack) = Workflow!Cardinality(Workflow!InProgress)
  BY <1>1, <1>5, FS_CountingElements, WorkflowCounts
<1>7. QED
  BY <1>1, <1>6 DEF WorkflowInv, WorkflowTypes, Workflow!TypeOK, Frame

\* TypeOK: whatever the callers do, every part keeps its state in its types.
THEOREM AllAreTyped == Spec => []TypeOK
<1> DEFINE Inv == /\ SpawnerInv /\ ChannelInv /\ ReviewInv /\ DirectoryInv /\ FallbackInv
                  /\ ServerInv /\ WorkflowInv /\ CronInv /\ DecisionInv
<1>1. Inv => TypeOK
  BY WorkflowIsTyped, ServerHolds
     DEF SpawnerInv, SpawnerTypes, ChannelInv, ReviewInv, DirectoryInv, FallbackInv, CronInv,
         DecisionInv, TypeOK
<1>2. Init => Inv
  BY SpawnerInitially, ChannelInitially, ReviewInitially, DirectoryInitially,
     FallbackInitially, ServerInitially, WorkflowInitially, CronInitially, DecisionsInitially
<1>3. Inv /\ [Next]_vars => Inv'
  BY StepOfEach, SpawnerStep, ChannelStep, ReviewStep, DirectoryStep, FallbackStep,
     ServerStep, WorkflowStep, CronStep, DecisionStep
<1>4. QED
  BY <1>1, <1>2, <1>3, PTL DEF Spec
=============================================================================
