-------------------------------- MODULE Coding --------------------------------
(***************************************************************************)
(* A coding execution (coding_lifecycle.py over coding_workflow.py): build,*)
(* check, repair within a budget, review, seal, and hand off.              *)
(*                                                                         *)
(* A task of the controller walks through the workflow.  It has agents     *)
(* work in the worktree through runs of the engine, which go on when the   *)
(* task times out, is cancelled or dies with its process, and which the    *)
(* engine takes up again when it is started.  The row of the execution,    *)
(* the manifest and the runs survive; the task and its token do not.       *)
(***************************************************************************)
EXTENDS Workspaces

CONSTANTS
    MaxRepairs,     \* max_repairs of the execution
    MaxRuns,        \* bound: agent runs ever submitted
    MaxEdits,       \* bound: edits ever made
    MaxFaults       \* bound: crashes, failed calls and expiries, together

ASSUME CodingAssumption ==
    MaxRepairs \in Nat /\ MaxRuns \in Nat /\ MaxEdits \in Nat /\ MaxFaults \in Nat

VARIABLES
    tip,            \* content of the branch the worktree is made of, Gone without it
    status,         \* of the execution, "none" before it is accepted
    active,         \* active_run_id, 0 if empty
    run,            \* the agent runs, in order of submission
    pc,             \* where the controller's task is
    phase,          \* the callback it is in
    turn,           \* the run whose end it awaits
    before,         \* fingerprint taken before the review
    repairs,        \* repair_attempts
    outcome,        \* what the task will write down
    cancelled,      \* the task's token is cancelled
    sealing,        \* the thread that finalizes for the artifact callback
    caller,         \* a call of cancel
    up, faults,
    checked,        \* history: the content the checks last passed on
    approved,       \* history: the content the reviewer approved
    stray,          \* history: a run nobody awaits has edited
    neglected       \* history: what a failure kept the task from writing down

execution == <<status, active>>
task == <<pc, phase, turn, before, repairs, outcome, cancelled>>
history == <<checked, approved, stray, neglected>>
process == <<up, faults>>
codingVars == <<workspace, tip, execution, run, task, sealing, caller, process, history>>

Recoverable == {"queued", "running"}
Terminal == {"ready", "failed", "cancelled"}
ExecutionStatus == {"none", "awaiting_handoff"} \cup Recoverable \cup Terminal
Runs == 1 .. MaxRuns
Gone == -1
Nothing == [bot |-> "none", state |-> "none"]
BotOf(callback) == IF callback = "review" THEN "reviewer" ELSE "builder"
Ended == {"complete", "failed", "cancelled"}
RunState == {"none", "queued", "active", "lost"} \cup Ended
IdleCaller == [at |-> "idle", run |-> 0]

CodingInit ==
    /\ WorkspaceInit /\ tip = Gone
    /\ status = "none" /\ active = 0
    /\ run = [r \in Runs |-> Nothing]
    /\ pc = "none" /\ phase = "build" /\ turn = 0 /\ before = 0 /\ repairs = 0
    /\ outcome = "none" /\ cancelled = FALSE
    /\ sealing = "no" /\ caller = IdleCaller
    /\ up = TRUE /\ faults = 0
    /\ checked = Unlisted /\ approved = Unlisted /\ stray = FALSE /\ neglected = {}

Fault == faults < MaxFaults /\ faults' = faults + 1 /\ UNCHANGED up
NoFault == UNCHANGED process

-----------------------------------------------------------------------------
(* The controller's task, from its launch to the workflow.                  *)

(* _launch: one task at a time, and it begins anew; _done forgets it.       *)
Anew(at) ==
    /\ pc' = at /\ phase' = "build" /\ turn' = 0 /\ before' = 0 /\ repairs' = 0
    /\ outcome' = "none" /\ cancelled' = FALSE

Launch == Anew("start")
_done(from) == pc = from /\ Anew("none")

(* submit: accepted once per key; submitting again revives a lost task.     *)
submit ==
    /\ up
    /\ status \in {"none"} \cup Recoverable
    /\ status' = IF status = "none" THEN "queued" ELSE status
    /\ IF pc = "none"
       THEN Launch /\ neglected' = neglected \ {"row"}
       ELSE UNCHANGED <<task, neglected>>
    /\ UNCHANGED <<workspace, tip, active, run, sealing, caller, process, checked, approved, stray>>

Step(from, to) ==
    pc = from /\ pc' = to /\ UNCHANGED <<phase, turn, before, repairs, outcome, cancelled>>

(* set_running comes before the try: if it is rejected, or raises, the task *)
(* is over and nothing is written down.                                     *)
set_running ==
    /\ IF status \in Recoverable
       THEN Step("start", "open") /\ status' = "running" /\ UNCHANGED neglected
       ELSE _done("start") /\ UNCHANGED status /\ neglected' = neglected \cup {"workspace"}
    /\ NoFault
    /\ UNCHANGED <<workspace, tip, active, run, sealing, caller, checked, approved, stray>>

SetRunningFails ==
    /\ _done("start")
    /\ Fault
    /\ neglected' = neglected \cup {"row", "workspace"}
    /\ UNCHANGED <<workspace, tip, execution, run, sealing, caller, checked, approved, stray>>

(* resume_execution, or else prepare_execution: what it can neither resume  *)
(* nor create is an error.                                                  *)
OpenWorkspace ==
    /\ \/ resume_execution /\ Step("open", "submit") /\ UNCHANGED workspace
       \/ tip # Gone /\ Reserve /\ Step("open", "create")
       \/ manifest = "none" /\ tip = Gone /\ Step("open", "salvage") /\ UNCHANGED workspace
       \/ manifest # "none" /\ ~resume_execution /\ Step("open", "salvage") /\ UNCHANGED workspace
    /\ NoFault
    /\ UNCHANGED <<tip, execution, run, sealing, caller, history>>

CreateWorkspace ==
    /\ \/ Created /\ Step("create", "submit") /\ NoFault
       \/ CreateFails /\ Step("create", "salvage") /\ Fault
    /\ UNCHANGED <<tip, execution, run, sealing, caller, history>>

-----------------------------------------------------------------------------
(* CodingWorkflow.run.                                                      *)

Ends(result) ==
    /\ pc' = "seal" /\ outcome' = result
    /\ phase' = "build" /\ turn' = 0 /\ before' = 0 /\ repairs' = 0 /\ UNCHANGED cancelled

Callback == {"submit", "attach", "await", "list", "check", "look", "verdict", "artifact"}

TimesOutChecking ==
    /\ pc \in Callback \ {"await"}
    /\ Ends("failed")
    /\ NoFault
    /\ UNCHANGED <<workspace, tip, execution, run, sealing, caller, history>>

(* The deadline passes, or a callback raises.  What it had started goes on. *)
TimesOut ==
    /\ pc \in Callback
    /\ Ends("failed")
    /\ NoFault
    /\ UNCHANGED <<workspace, tip, execution, run, sealing, caller, history>>

(* The token interrupts whatever callback is under way.                     *)
Interrupted ==
    /\ pc \in Callback /\ cancelled
    /\ Ends("cancelled")
    /\ NoFault
    /\ UNCHANGED <<workspace, tip, execution, run, sealing, caller, history>>

(* _agent_turn: engine.submit, which validates the lease; set_active_run,   *)
(* which fails when the execution is no longer running; and the wait.       *)
Fresh == CHOOSE r \in Runs : run[r] = Nothing /\ \A q \in 1 .. r - 1 : run[q] # Nothing

SubmitTurn ==
    /\ pc = "submit" /\ ~cancelled
    /\ \E r \in Runs : run[r] = Nothing
    /\ IF Leased
       THEN /\ run' = [run EXCEPT ![Fresh] = [bot |-> BotOf(phase), state |-> "queued"]]
            /\ turn' = Fresh /\ pc' = "attach"
            /\ UNCHANGED <<phase, before, repairs, outcome, cancelled>>
       ELSE Ends("failed") /\ UNCHANGED run
    /\ NoFault
    /\ UNCHANGED <<workspace, tip, execution, sealing, caller, history>>

set_active_run ==
    /\ pc = "attach" /\ ~cancelled
    /\ IF status = "running"
       THEN Step("attach", "await") /\ active' = turn
       ELSE Ends("failed") /\ UNCHANGED active
    /\ NoFault
    /\ UNCHANGED <<workspace, tip, status, run, sealing, caller, history>>

TurnOver ==
    /\ pc = "await" /\ ~cancelled
    /\ run[turn].state \in Ended
    /\ IF run[turn].state = "complete"
       THEN /\ pc' = (IF phase = "review" THEN "verdict" ELSE "list") /\ turn' = 0
            /\ UNCHANGED <<phase, before, repairs, outcome, cancelled>>
       ELSE Ends("failed")
    /\ NoFault
    /\ UNCHANGED <<workspace, tip, execution, run, sealing, caller, history>>

(* After a builder's turn its changes are listed.                           *)
ListChanges ==
    /\ ~cancelled
    /\ IF Leased
       THEN Step("list", "check") /\ enumerate_artifacts
       ELSE pc = "list" /\ Ends("failed") /\ UNCHANGED workspace
    /\ NoFault
    /\ UNCHANGED <<tip, execution, run, sealing, caller, history>>

RepairAlways ==
    /\ repairs' = repairs + 1 /\ phase' = "repair" /\ pc' = "submit" /\ before' = 0
    /\ UNCHANGED <<turn, outcome, cancelled>>

(* What failed is repaired, as long as the budget lasts.                    *)
RepairOrFail ==
    IF repairs < MaxRepairs
    THEN /\ repairs' = repairs + 1 /\ phase' = "repair" /\ pc' = "submit" /\ before' = 0
         /\ UNCHANGED <<turn, outcome, cancelled>>
    ELSE Ends("failed")

(* _execute_batch and _gate: every command of the plan, again from the      *)
(* first.                                                                   *)
Check ==
    /\ pc = "check" /\ ~cancelled /\ ~removed
    /\ \/ Step("check", "look") /\ checked' = tree
       \/ RepairOrFail /\ UNCHANGED checked
    /\ NoFault
    /\ UNCHANGED <<workspace, tip, execution, run, sealing, caller, approved, stray, neglected>>

(* review: a fingerprint of the worktree, the reviewer's turn, and another. *)
Look ==
    /\ pc = "look" /\ ~cancelled /\ ~removed
    /\ pc' = "submit" /\ phase' = "review" /\ before' = tree
    /\ UNCHANGED <<turn, repairs, outcome, cancelled>>
    /\ NoFault
    /\ UNCHANGED <<workspace, tip, execution, run, sealing, caller, history>>

UntouchedUnread == TRUE

(* A review during which the worktree changed does not count.               *)
Untouched == before = tree

Verdict ==
    /\ pc = "verdict" /\ ~cancelled /\ ~removed
    /\ \/ /\ Untouched /\ sealing \notin {"list", "seal"}
          /\ Step("verdict", "artifact") /\ sealing' = "list" /\ approved' = tree
       \/ RepairOrFail /\ UNCHANGED <<sealing, approved>>
       \/ Untouched /\ Ends("failed") /\ UNCHANGED <<sealing, approved>>    \* and nothing blocking
    /\ NoFault
    /\ UNCHANGED <<workspace, tip, execution, run, caller, checked, stray, neglected>>

(* artifact: finalize runs in a thread, which nothing interrupts.           *)
SealingThread ==
    /\ \/ sealing = "list" /\ enumerate_artifacts /\ sealing' = "seal"
       \/ sealing = "seal" /\ Seal("completed") /\ sealing' = "done"
       \/ sealing \in {"list", "seal"} /\ ~Leased /\ sealing' = "failed" /\ UNCHANGED workspace
    /\ NoFault
    /\ UNCHANGED <<tip, execution, run, task, caller, history>>

(* More artifacts, or larger ones, than the limits allow.                   *)
SealingRefused ==
    /\ sealing = "list" /\ sealing' = "failed"
    /\ NoFault
    /\ UNCHANGED <<workspace, tip, execution, run, task, caller, history>>

Sealed ==
    /\ pc = "artifact" /\ ~cancelled
    /\ sealing \in {"done", "failed"} /\ sealing' = "no"
    /\ IF sealing = "done"
       THEN Ends("awaiting_handoff")
       ELSE Ends("failed")
    /\ NoFault
    /\ UNCHANGED <<workspace, tip, execution, run, caller, history>>

-----------------------------------------------------------------------------
(* The end of the task.                                                     *)

(* _finalize_if_active: what finalize refuses is swallowed, and leaves the  *)
(* workspace open.                                                          *)
_finalize_if_active(final) ==
    IF Leased
    THEN \/ finalize(final) /\ UNCHANGED neglected
         \/ neglected' = neglected \cup {"workspace"} /\ UNCHANGED workspace
    ELSE UNCHANGED <<workspace, neglected>>

SealAsEnded ==
    /\ Step("seal", "finish")
    /\ IF outcome = "awaiting_handoff"
       THEN UNCHANGED <<workspace, neglected>>     \* it is sealed
       ELSE _finalize_if_active(outcome)
    /\ NoFault
    /\ UNCHANGED <<tip, execution, run, sealing, caller, checked, approved, stray>>

(* get_manifest raises.                                                     *)
SealRaises ==
    /\ pc = "seal" /\ outcome # "awaiting_handoff"
    /\ Step("seal", "salvage")
    /\ Fault
    /\ UNCHANGED <<workspace, tip, execution, run, sealing, caller, history>>

finishAnyway(final) ==
    status' = final /\ active' = 0

(* finish writes on an open execution only: after a cancel it is a no-op.   *)
finish(final) ==
    IF status \in Recoverable THEN status' = final /\ active' = 0 ELSE UNCHANGED execution

(* If the outcome cannot be written down, "failed" is tried instead.        *)
Finishes ==
    /\ \/ _done("finish") /\ finish(outcome) /\ NoFault
       \/ Step("finish", "salvage") /\ Fault /\ UNCHANGED execution
    /\ UNCHANGED <<workspace, tip, run, sealing, caller, history>>

Salvage ==
    /\ Step("salvage", "fail")
    /\ _finalize_if_active("failed")
    /\ NoFault
    /\ UNCHANGED <<tip, execution, run, sealing, caller, checked, approved, stray>>

(* If that fails too, the exception is only observed.                       *)
Fails ==
    /\ _done("fail")
    /\ \/ finish("failed") /\ NoFault /\ UNCHANGED neglected
       \/ Fault /\ neglected' = neglected \cup {"row"} /\ UNCHANGED execution
    /\ UNCHANGED <<workspace, tip, run, sealing, caller, checked, approved, stray>>

-----------------------------------------------------------------------------
(* The operator.                                                            *)

approve ==
    /\ up /\ status = "awaiting_handoff"
    /\ status' = "ready"
    /\ UNCHANGED <<workspace, tip, active, run, task, sealing, caller, process, history>>

(* cancel reads the row, cancels the token, which a task that was only just *)
(* created may not have yet, then the run it has read, then the row.        *)
CancelRead ==
    /\ up /\ caller = IdleCaller
    /\ status \in Recoverable \cup {"awaiting_handoff"}
    /\ IF status \in Recoverable
       THEN /\ cancelled' \in (IF pc = "start" THEN BOOLEAN ELSE {pc # "none"})
            /\ caller' = [at |-> IF active = 0 THEN "store" ELSE "engine", run |-> active]
       ELSE UNCHANGED cancelled /\ caller' = [at |-> "store", run |-> 0]
    /\ UNCHANGED <<workspace, tip, execution, run, pc, phase, turn, before, repairs, outcome,
                   sealing, process, history>>

CancelRun ==
    /\ caller.at = "engine"
    /\ caller' = [caller EXCEPT !.at = "store"]
    /\ run' = [run EXCEPT ![caller.run].state = IF @ \in Ended THEN @ ELSE "cancelled"]
    /\ UNCHANGED <<workspace, tip, execution, task, sealing, process, history>>

CancelStore ==
    /\ caller.at = "store" /\ caller' = IdleCaller
    /\ IF status \in Recoverable \cup {"awaiting_handoff"}
       THEN status' = "cancelled" /\ active' = 0
       ELSE UNCHANGED execution
    /\ UNCHANGED <<workspace, tip, run, task, sealing, process, history>>

-----------------------------------------------------------------------------
(* The engine.  Runs of a bot start in the order of their submission, and   *)
(* one at a time works in the workspace.                                    *)
_workspace_guard_free == \A q \in Runs : run[q].state # "active"
_prepare_execution == Leased

RunStarts(r) ==
    /\ up /\ run[r].state = "queued"
    /\ \A q \in Runs : run[q].bot = run[r].bot /\ q < r => run[q].state \in Ended \cup {"lost"}
    /\ _workspace_guard_free
    /\ run' = [run EXCEPT ![r].state = IF _prepare_execution THEN "active" ELSE "failed"]
    /\ UNCHANGED <<workspace, tip, execution, task, sealing, caller, process, history>>

Awaited(r) == r = turn /\ pc \in {"attach", "await"}

(* An agent edits the worktree; a reviewer should not, and may.             *)
AgentEdits(r) ==
    /\ up /\ run[r].state = "active" /\ ~removed
    /\ tree < MaxEdits /\ tree' = tree + 1
    /\ stray' = (stray \/ ~Awaited(r))
    /\ UNCHANGED <<manifest, expired, artifacts, removed, tip, execution, run, task, sealing, caller,
                   process, checked, approved, neglected>>

RunEnds(r) ==
    /\ up /\ run[r].state = "active"
    /\ \/ run' = [run EXCEPT ![r].state = "complete"] /\ NoFault
       \/ run' = [run EXCEPT ![r].state = "failed"] /\ Fault
    /\ UNCHANGED <<workspace, tip, execution, task, sealing, caller, history>>

(* The heartbeat of a run finds that the lease is not its own any more.     *)
HeartbeatFails(r) ==
    /\ up /\ run[r].state = "active" /\ (manifest # "active" \/ expired)
    /\ run' = [run EXCEPT ![r].state = "cancelled"]
    /\ UNCHANGED <<workspace, tip, execution, task, sealing, caller, process, history>>

(* Only the heartbeat of a run renews the lease, to an hour from then: it   *)
(* runs out while checks take longer than that, or while nothing is up.     *)
LeaseExpires ==
    /\ Expires
    /\ IF up THEN Fault /\ \A r \in Runs : run[r].state # "active" ELSE NoFault
    /\ UNCHANGED <<tip, execution, run, task, sealing, caller, history>>

(* The process ends.  A run that was under way is queued again; what the    *)
(* task of a settled execution had yet to seal stays open.                  *)
Crash ==
    /\ up /\ up' = FALSE
    /\ faults < MaxFaults /\ faults' = faults + 1
    /\ Anew("none") /\ sealing' = "no" /\ caller' = IdleCaller
    /\ run' = [r \in Runs |-> IF run[r].state = "active" THEN [run[r] EXCEPT !.state = "queued"] ELSE run[r]]
    /\ neglected' = IF status \notin Recoverable THEN neglected \cup {"workspace"} ELSE neglected
    /\ UNCHANGED <<workspace, tip, execution, checked, approved, stray>>

(* _restore: a run follows the sealed workspace it is bound to, and stays   *)
(* behind when the workspace cannot be resumed.                             *)
Restored(r) ==
    IF run[r].state \notin {"queued", "lost"} THEN run[r].state
    ELSE IF ~removed /\ manifest' \in FINAL_STATES THEN IF manifest' = "completed" THEN "complete" ELSE manifest'
    ELSE IF ~removed /\ manifest' = "active" THEN "queued"
    ELSE "lost"

(* Engine.start, then CodingLifecycleController.start.                      *)
start ==
    /\ ~up /\ up' = TRUE
    /\ recover_stale_leases
    /\ run' = [r \in Runs |-> [run[r] EXCEPT !.state = Restored(r)]]
    /\ IF status \in Recoverable THEN Launch ELSE UNCHANGED task
    /\ neglected' = neglected \ {"row"}
    /\ UNCHANGED <<expired, artifacts, tree, removed, tip, execution, sealing, caller, faults,
                   checked, approved, stray>>

-----------------------------------------------------------------------------
Workflow ==
    \/ TimesOut \/ Interrupted \/ SubmitTurn \/ set_active_run \/ TurnOver
    \/ ListChanges \/ Check \/ Look \/ Verdict \/ Sealed

ControllerTask ==
    \/ set_running \/ SetRunningFails \/ OpenWorkspace \/ CreateWorkspace
    \/ Workflow
    \/ SealAsEnded \/ SealRaises \/ Finishes \/ Salvage \/ Fails

EngineRun(r) == RunStarts(r) \/ AgentEdits(r) \/ RunEnds(r) \/ HeartbeatFails(r)

CodingNext ==
    \/ ControllerTask \/ SealingThread \/ SealingRefused
    \/ approve \/ CancelRun \/ CancelStore
    \/ \E r \in Runs : EngineRun(r)
    \/ LeaseExpires

-----------------------------------------------------------------------------
(* Properties.                                                              *)

CodingTypeOK ==
    /\ WorkspaceTypeOK
    /\ tip \in Int /\ status \in ExecutionStatus /\ active \in 0 .. MaxRuns
    /\ run \in [Runs -> [bot : {"none", "builder", "reviewer"}, state : RunState]]
    /\ pc \in Callback \cup {"none", "start", "open", "create", "seal", "finish", "salvage", "fail"}
    /\ phase \in {"build", "repair", "review"} /\ turn \in 0 .. MaxRuns /\ before \in Nat
    /\ repairs \in 0 .. MaxRepairs
    /\ outcome \in {"none", "awaiting_handoff", "failed", "cancelled"} /\ cancelled \in BOOLEAN
    /\ sealing \in {"no", "list", "seal", "done", "failed"}
    /\ caller \in [at : {"idle", "engine", "store"}, run : 0 .. MaxRuns]
    /\ up \in BOOLEAN /\ faults \in 0 .. MaxFaults
    /\ checked \in Int /\ approved \in Int /\ stray \in BOOLEAN
    /\ neglected \subseteq {"row", "workspace"}

(* What is handed off, and what is merged of it later, is what the manifest *)
(* lists, what the reviewer approved, and what the checks passed on, unless *)
(* a run that a restart brought back has edited in between.                 *)
ReviewedIsSealed ==
    status \in {"awaiting_handoff", "ready"} =>
        /\ manifest = "completed"
        /\ artifacts = approved
        /\ approved = checked \/ stray

(* When an execution is settled and its task is gone, no run can work in    *)
(* the workspace any more, unless a failure kept the task from sealing it.  *)
SettledIsSealed ==
    (status \in Terminal \cup {"awaiting_handoff"} /\ pc = "none")
        => (~Leased \/ "workspace" \in neglected)

(* Neither a handoff nor any other end leaves the workspace open to work.   *)
HandoffIsSealed == ReviewedIsSealed /\ SettledIsSealed

(* An execution settles as long as the process runs, whatever its agents    *)
(* do, unless a failure kept the task from writing that down.               *)
ExecutionSettles ==
    (status \in Recoverable /\ up) ~> (status \notin Recoverable \/ ~up \/ "row" \in neglected)

(* The execution offers one patch, which stays what it was (Handoff).       *)
HandoffPhase ==
    CASE status \in {"none"} \cup Recoverable -> "pending"
      [] status = "awaiting_handoff" -> "offered"
      [] status = "ready" -> "taken"
      [] status \in {"failed", "cancelled"} -> "dropped"

Patch == IF status \in {"awaiting_handoff", "ready"} THEN artifacts ELSE Unlisted

H == INSTANCE Handoff WITH
        Patches <- 0 .. MaxEdits, NoPatch <- Unlisted, phase <- HandoffPhase, patch <- Patch

ImplementsHandoff == H!Spec
=============================================================================
