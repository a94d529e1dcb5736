----------------------------- MODULE EditReview -----------------------------
(***************************************************************************)
(* The edit-review gate of the sidecar (apps/desktop/src-tauri/sidecar/    *)
(* server.mjs): an agent that edits a file proposes a diff, waits for the  *)
(* user, saves the original and only then writes.  A run ends while its    *)
(* tool may still be on its way (the timeout of agent_run only asks it to  *)
(* stop), and others write the same files.                                 *)
(*                                                                         *)
(* The content of a file is the number of the write that made it, 0 for a  *)
(* file that is not there and 1 for what was there from the start.  All    *)
(* steps between two awaits are one step.                                  *)
(***************************************************************************)
EXTENDS Naturals, Sequences, FiniteSetsExt, Sublists

CONSTANTS
  Run,        \* runs that may be started, each with one edit tool at a time
  NoRun,
  File,
  MaxWrites,  \* bound: writes to the files in a behaviour
  KeepRuns    \* CHECKPOINT_KEEP_RUNS

VARIABLES
  active,     \* activeAgentRun
  run,        \* "new", "running", "over"
  mode,       \* permissionMode of each run
  globalMode, \* globalThis.agentPermissionMode
  previous,   \* previousPermissionMode of each handler
  tool,       \* where the edit tool of each run is
  edit,       \* what it has read: the file, and its content then
  pending,    \* runs whose proposal is in pendingEditProposals
  agreed,     \* history: runs whose open edit the user has accepted
  disk,       \* the content of each file
  writes,     \* writes so far
  copy,       \* the checkpoint of a file in the directory of a run
  marker,     \* the files of which that directory says that they were not there
  order,      \* those directories, the most recent first
  wrote       \* history: the writes of each run

runVars == <<active, run, mode, globalMode, previous>>
checkpoints == <<copy, marker, order>>
vars == <<active, run, mode, globalMode, previous, tool, edit, pending, agreed,
          disk, writes, copy, marker, order, wrote>>

Absent == 0
Content == 0..MaxWrites
NoCopy == MaxWrites + 1

Saved(r) == \E i \in 1..Len(order) : order[i] = r
Move(r, where) == tool' = [tool EXCEPT ![r] = where]

-----------------------------------------------------------------------------
(* agent_run, as far as it concerns the edits *)

StartRun(r, m) ==
  /\ active = NoRun
  /\ run[r] = "new"
  /\ active' = r
  /\ run' = [run EXCEPT ![r] = "running"]
  /\ mode' = [mode EXCEPT ![r] = m]
  /\ previous' = [previous EXCEPT ![r] = globalMode]
  /\ globalMode' = m
  /\ UNCHANGED <<tool, edit, pending, agreed, disk, writes, checkpoints, wrote>>

\* drainPendingEditProposals(): its proposals are rejected.
Drained(r) ==
  /\ pending' = pending \ {r}
  /\ tool' = IF r \in pending THEN [tool EXCEPT ![r] = "idle"] ELSE tool

\* pruneEditCheckpoints().
Pruned ==
  /\ order' = [i \in 1..Min({Len(order), KeepRuns}) |-> order[i]]
  /\ copy' = [r \in Run |-> IF \E i \in 1..Len(order') : order'[i] = r
                            THEN copy[r] ELSE [f \in File |-> NoCopy]]
  /\ marker' = [r \in Run |-> IF \E i \in 1..Len(order') : order'[i] = r THEN marker[r] ELSE {}]

\* The finally block: the agent is over, or the timeout has won.
EndRun(r) ==
  /\ active = r
  /\ run' = [run EXCEPT ![r] = "over"]
  /\ globalMode' = previous[r]
  /\ active' = NoRun
  /\ Drained(r)
  /\ Pruned
  /\ UNCHANGED <<mode, previous, edit, agreed, disk, writes, wrote>>

-----------------------------------------------------------------------------
(* The edit tool of a run *)

\* The loop has found the run not aborted and goes on to call the tool; policy,
\* hooks and middleware are awaited before it does.
CallTool(r) ==
  /\ run[r] = "running"
  /\ tool[r] = "idle"
  /\ Move(r, "called")
  /\ UNCHANGED <<runVars, edit, pending, agreed, disk, writes, checkpoints, wrote>>

Write(r, f) ==
  /\ writes < MaxWrites
  /\ writes' = writes + 1
  /\ disk' = [disk EXCEPT ![f] = writes + 1]
  /\ wrote' = [wrote EXCEPT ![r] = @ \cup {writes + 1}]

\* permissionMode is "auto": no review, and the tool itself asks nobody ...
EditUnreviewed(r, f) ==
  /\ tool[r] = "called"
  /\ mode[r] = "auto"
  /\ globalMode = "auto"
  /\ Write(r, f)
  /\ Move(r, "idle")
  /\ UNCHANGED <<runVars, edit, pending, agreed, checkpoints>>

\* ... unless the mode has been restored meanwhile: approveFileWriteHandler().
AskApproval(r, f) ==
  /\ tool[r] = "called"
  /\ mode[r] = "auto"
  /\ globalMode = "custom"
  /\ edit' = [edit EXCEPT ![r] = [file |-> f, original |-> disk[f]]]
  /\ Move(r, "asked")
  /\ UNCHANGED <<runVars, pending, agreed, disk, writes, checkpoints, wrote>>

Approval(r) ==
  /\ tool[r] = "asked"
  /\ \/ Write(r, edit[r].file)
     \/ UNCHANGED <<disk, writes, wrote>>
  /\ Move(r, "idle")
  /\ UNCHANGED <<runVars, edit, pending, agreed, checkpoints>>

\* proposeEditToClient() reads the file ...
ReadOriginal(r, f) ==
  /\ tool[r] = "called"
  /\ mode[r] # "auto"
  /\ edit' = [edit EXCEPT ![r] = [file |-> f, original |-> disk[f]]]
  /\ agreed' = agreed \ {r}
  /\ Move(r, "read")
  /\ UNCHANGED <<runVars, pending, disk, writes, checkpoints, wrote>>

\* ... and throws when the edit does not fit it ...
ProposeThrows(r) ==
  /\ tool[r] = "read"
  /\ Move(r, "idle")
  /\ UNCHANGED <<runVars, edit, pending, agreed, disk, writes, checkpoints, wrote>>

\* ... or broadcasts the proposal and sets its timer.
Propose(r) ==
  /\ tool[r] = "read"
  /\ pending' = pending \cup {r}
  /\ Move(r, "review")
  /\ UNCHANGED <<runVars, edit, agreed, disk, writes, checkpoints, wrote>>

\* edit_proposal_response, acknowledged with ok.
Answer(r, accepted) ==
  /\ r \in pending
  /\ pending' = pending \ {r}
  /\ agreed' = IF accepted THEN agreed \cup {r} ELSE agreed
  /\ Move(r, IF accepted THEN "accepted" ELSE "idle")
  /\ UNCHANGED <<runVars, edit, disk, writes, checkpoints, wrote>>

\* Mutant of ProposalTimesOut: no answer is taken for a yes.
TimesOutAccepted(r) ==
  /\ r \in pending
  /\ pending' = pending \ {r}
  /\ Move(r, "accepted")
  /\ UNCHANGED <<runVars, edit, agreed, disk, writes, checkpoints, wrote>>

\* EDIT_PROPOSAL_TIMEOUT_MS.
ProposalTimesOut(r) ==
  /\ r \in pending
  /\ pending' = pending \ {r}
  /\ Move(r, "idle")
  /\ UNCHANGED <<runVars, edit, agreed, disk, writes, checkpoints, wrote>>

\* createEditCheckpoint(): the content, or a marker beside it for a file that was
\* not there.  A new entry at the top of its directory makes the directory of the run
\* the most recent one, a file further down does not.  When it fails, the edit goes
\* on without.
Checkpoint(r) ==
  /\ tool[r] = "accepted"
  /\ \/ /\ IF edit[r].original = Absent
           THEN marker' = [marker EXCEPT ![r] = @ \cup {edit[r].file}] /\ UNCHANGED copy
           ELSE copy' = [copy EXCEPT ![r][edit[r].file] = edit[r].original] /\ UNCHANGED marker
        /\ \/ order' = <<r>> \o Without(order, {r})
           \/ Saved(r) /\ UNCHANGED order
     \/ UNCHANGED checkpoints
  /\ Move(r, "saved")
  /\ UNCHANGED <<runVars, edit, pending, agreed, disk, writes, wrote>>

\* Mutant of Apply: the mode to go back to is the one the run has set.
ApplyRestoring(r) ==
  /\ tool[r] = "saved"
  /\ \/ Write(r, edit[r].file)
     \/ UNCHANGED <<disk, writes, wrote>>
  /\ globalMode' = mode[r]
  /\ Move(r, "idle")
  /\ UNCHANGED <<active, run, mode, previous, edit, pending, agreed, checkpoints>>

\* The tool itself runs, in mode "auto" and without an await before its write;
\* the mode that was there before is put back.  replace_file_content reads the
\* file again, and throws when what it replaces is no longer there.
Apply(r) ==
  /\ tool[r] = "saved"
  /\ \/ Write(r, edit[r].file)
     \/ UNCHANGED <<disk, writes, wrote>>
  /\ Move(r, "idle")
  /\ UNCHANGED <<runVars, edit, pending, agreed, checkpoints>>

\* The user, or a command, writes or removes a file.
WriteElsewhere(f) ==
  /\ writes < MaxWrites
  /\ writes' = writes + 1
  /\ \E c \in {Absent, writes + 1} : disk' = [disk EXCEPT ![f] = c]
  /\ UNCHANGED <<runVars, tool, edit, pending, agreed, checkpoints, wrote>>

-----------------------------------------------------------------------------
Init ==
  /\ active = NoRun
  /\ run = [r \in Run |-> "new"]
  /\ mode = [r \in Run |-> "custom"]
  /\ globalMode = "custom"
  /\ previous = [r \in Run |-> "custom"]
  /\ tool = [r \in Run |-> "idle"]
  /\ edit = [r \in Run |-> [file |-> CHOOSE f \in File : TRUE, original |-> Absent]]
  /\ pending = {}
  /\ agreed = {}
  /\ disk \in [File -> {Absent, 1}]
  /\ writes = 1
  /\ copy = [r \in Run |-> [f \in File |-> NoCopy]]
  /\ marker = [r \in Run |-> {}]
  /\ order = <<>>
  /\ wrote = [r \in Run |-> {}]

Next ==
  \/ \E r \in Run :
       \/ \E m \in {"custom", "auto"} : StartRun(r, m)
       \/ EndRun(r)
       \/ CallTool(r)
       \/ \E f \in File : EditUnreviewed(r, f) \/ AskApproval(r, f) \/ ReadOriginal(r, f)
       \/ Approval(r)
       \/ ProposeThrows(r) \/ Propose(r)
       \/ \E accepted \in BOOLEAN : Answer(r, accepted)
       \/ ProposalTimesOut(r)
       \/ Checkpoint(r) \/ Apply(r)
  \/ \E f \in File : WriteElsewhere(f)

Spec == Init /\ [][Next]_vars

-----------------------------------------------------------------------------
TypeOK ==
  /\ active \in Run \cup {NoRun}
  /\ run \in [Run -> {"new", "running", "over"}]
  /\ mode \in [Run -> {"custom", "auto"}]
  /\ globalMode \in {"custom", "auto"}
  /\ previous \in [Run -> {"custom", "auto"}]
  /\ tool \in [Run -> {"idle", "called", "asked", "read", "review", "accepted", "saved"}]
  /\ edit \in [Run -> [file : File, original : Content]]
  /\ pending \subseteq Run
  /\ agreed \subseteq Run
  /\ disk \in [File -> Content]
  /\ writes \in 0..MaxWrites
  /\ copy \in [Run -> [File -> Content \cup {NoCopy}]]
  /\ marker \in [Run -> SUBSET File]
  /\ order \in Seq(Run)
  /\ wrote \in [Run -> SUBSET Content]

\* A run that is not in mode "auto" writes a file only when the user has accepted
\* this very edit: the timer, the end of the run and the next run all say no
\* (server.mjs:424-431, 471-479, 2079-2082).
EditsAreAccepted ==
  \A r \in Run : mode[r] # "auto" /\ tool[r] \in {"accepted", "saved"} => r \in agreed

\* The global permission mode is that of the run which is active, and the
\* user's own when none is, although the tool of a run that timed out switches
\* it after the next run has begun (server.mjs:2024-2025, 2086-2100, 2562).
ModeOfActiveRun ==
  globalMode = IF active = NoRun THEN "custom" ELSE mode[active]

-----------------------------------------------------------------------------
(* What comments say and the code does not do *)

\* "Store a pre-edit snapshot so a rejected/undone run can restore files"
\* (server.mjs:451): the copy of a file is not what the run itself has written.
CopyPredatesRun == \A r \in Run, f \in File : copy[r][f] \notin wrote[r]

\* "reject any edit proposal still awaiting review so stale proposals can never be
\* answered after the run ended" (server.mjs:2566-2567): the tool of a run that
\* timed out may propose after that.
StaleUnanswerable == \A r \in pending : run[r] # "over"
=============================================================================
