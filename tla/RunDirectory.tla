---------------------------- MODULE RunDirectory ----------------------------
(***************************************************************************)
(* The directory of the agent run journal (apps/desktop/src-tauri/sidecar/ *)
(* run-journal.mjs, save and prune): one file for each run, of which a     *)
(* save removes the oldest.  Several saves are under way when a run that   *)
(* timed out still saves what it does, its handler marks its status, and   *)
(* the next run has begun.                                                 *)
(*                                                                         *)
(* A file is its time.  Every call of the file system is a step: a save    *)
(* writes a temporary file, which gives it its time and which no prune     *)
(* lists, and renames it, so that a file may be older when it appears than *)
(* those that were renamed before it.  ReActAgent has the contents of one  *)
(* file.                                                                   *)
(***************************************************************************)
EXTENDS Naturals, FiniteSets

CONSTANTS
  Saver,     \* saves under way at the same time
  Run,
  MaxRuns,   \* maxRuns
  MaxSaves   \* bound: saves in a behaviour

VARIABLES
  file,     \* mtime of the file of each run, Missing if there is none
  saves,    \* saves so far
  own,      \* the run that each save is of
  stamp,    \* mtime of the temporary file that each save has written
  step,     \* "idle", "written", "renamed" or "pruning"
  names,    \* what readdir has returned and is still to be looked at
  times,    \* the files whose time is known, as pairs with that time
  old,      \* those that are to be removed
  last,     \* history: the youngest time that the file of each run has had
  overtaken \* history: runs whose last rename brought an older time than that, or
            \* came while a prune knew an older one

pruning == <<names, times, old>>
vars == <<file, saves, own, stamp, step, pruning, last, overtaken>>

Missing == 0
Time == 1..MaxSaves

Move(s, where) == step' = [step EXCEPT ![s] = where]

-----------------------------------------------------------------------------
\* writeFile: the temporary file has its time.
Write(s, r) ==
  /\ step[s] = "idle"
  /\ saves < MaxSaves
  /\ saves' = saves + 1
  /\ own' = [own EXCEPT ![s] = r]
  /\ stamp' = [stamp EXCEPT ![s] = saves + 1]
  /\ Move(s, "written")
  /\ UNCHANGED <<file, pruning, last, overtaken>>

\* writeFile or rename throws: the temporary file is removed, and nothing is pruned.
SaveFails(s) ==
  /\ step[s] = "written"
  /\ Move(s, "idle")
  /\ UNCHANGED <<file, saves, own, stamp, pruning, last, overtaken>>

Known(r) == \E other \in Saver, t \in Time : <<r, t>> \in times[other]

\* rename: the file takes the place of the one before, with the time it was written at.
Rename(s) ==
  LET r == own[s] IN
  /\ step[s] = "written"
  /\ file' = [file EXCEPT ![r] = stamp[s]]
  /\ last' = [last EXCEPT ![r] = IF @ < stamp[s] THEN stamp[s] ELSE @]
  /\ overtaken' = IF stamp[s] < last[r] \/ Known(r) THEN overtaken \cup {r}
                  ELSE overtaken \ {r}
  /\ Move(s, "renamed")
  /\ UNCHANGED <<saves, own, stamp, pruning>>

\* The entries of the directory, without the run that is preserved.
ReadDirectory(s) ==
  /\ step[s] = "renamed"
  /\ names' = [names EXCEPT ![s] = {r \in Run : file[r] # Missing} \ {own[s]}]
  /\ Move(s, IF names'[s] = {} THEN "idle" ELSE "pruning")
  /\ UNCHANGED <<file, saves, own, stamp, times, old, last, overtaken>>

\* Mutant of BeyondLimit: sorted the other way round.
BeyondLimitOfNewest(known) ==
  {r \in Run : \E t \in Time :
     <<r, t>> \in known /\ Cardinality({k \in known : k[2] < t}) >= MaxRuns - 1}

\* Of the files, the most recent first, those after the first keepOtherRuns.
BeyondLimit(known) ==
  {r \in Run : \E t \in Time :
     <<r, t>> \in known /\ Cardinality({k \in known : k[2] > t}) >= MaxRuns - 1}

\* stat() of one of them; the last one tells which are to be removed.
Stat(s, r) ==
  /\ r \in names[s]
  /\ file[r] # Missing
  /\ names' = [names EXCEPT ![s] = @ \ {r}]
  /\ LET known == times[s] \cup {<<r, file[r]>>}
         beyond == IF names'[s] = {} THEN BeyondLimit(known) ELSE {}
         over == names'[s] = {} /\ beyond = {}
     IN /\ times' = [times EXCEPT ![s] = IF over THEN {} ELSE known]
        /\ old' = [old EXCEPT ![s] = beyond]
        /\ Move(s, IF over THEN "idle" ELSE "pruning")
  /\ UNCHANGED <<file, saves, own, stamp, last, overtaken>>

\* Another prune has removed the file: save() rejects, and nothing is pruned.
StatThrows(s, r) ==
  /\ r \in names[s]
  /\ file[r] = Missing
  /\ names' = [names EXCEPT ![s] = {}]
  /\ times' = [times EXCEPT ![s] = {}]
  /\ Move(s, "idle")
  /\ UNCHANGED <<file, saves, own, stamp, old, last, overtaken>>

\* One of the removals of Promise.all; with force it does not mind what is gone.
Remove(s, r) ==
  /\ r \in old[s]
  /\ file' = [file EXCEPT ![r] = Missing]
  /\ old' = [old EXCEPT ![s] = @ \ {r}]
  /\ times' = [times EXCEPT ![s] = IF old'[s] = {} THEN {} ELSE @]
  /\ Move(s, IF old'[s] = {} THEN "idle" ELSE "pruning")
  /\ UNCHANGED <<saves, own, stamp, names, last, overtaken>>

-----------------------------------------------------------------------------
Init ==
  /\ file = [r \in Run |-> Missing]
  /\ saves = 0
  /\ own = [s \in Saver |-> CHOOSE r \in Run : TRUE]
  /\ stamp = [s \in Saver |-> Missing]
  /\ step = [s \in Saver |-> "idle"]
  /\ names = [s \in Saver |-> {}]
  /\ times = [s \in Saver |-> {}]
  /\ old = [s \in Saver |-> {}]
  /\ last = [r \in Run |-> Missing]
  /\ overtaken = {}

Next ==
  \E s \in Saver :
    \/ \E r \in Run : Write(s, r) \/ Stat(s, r) \/ StatThrows(s, r) \/ Remove(s, r)
    \/ Rename(s) \/ SaveFails(s) \/ ReadDirectory(s)

Spec == Init /\ [][Next]_vars

-----------------------------------------------------------------------------
TypeOK ==
  /\ file \in [Run -> Time \cup {Missing}]
  /\ saves \in 0..MaxSaves
  /\ own \in [Saver -> Run]
  /\ stamp \in [Saver -> 0..saves]
  /\ step \in [Saver -> {"idle", "written", "renamed", "pruning"}]
  /\ names \in [Saver -> SUBSET Run]
  /\ times \in [Saver -> SUBSET (Run \X Time)]
  /\ old \in [Saver -> SUBSET Run]
  /\ last \in [Run -> 0..saves]
  /\ overtaken \subseteq Run

\* However several saves and prunes overlap, a run is there while fewer than
\* maxRuns - 1 others were written after it (run-journal.mjs:92-93, 161-179).  What
\* counts is the writing of the temporary file: a run whose rename comes late can be
\* removed at once.  No claim is made of a run that was renamed while a prune knew
\* an older time of it, or whose file an older save has replaced, until its next save.
RecentKept ==
  \A r \in Run \ overtaken :
    /\ last[r] # Missing
    /\ Cardinality({other \in Run : last[other] > last[r]}) < MaxRuns - 1
    => file[r] = last[r]
=============================================================================
