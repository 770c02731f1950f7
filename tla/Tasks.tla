-------------------------------- MODULE Tasks ---------------------------------
(***************************************************************************)
(* Reviewable tasks (tasks.py and the task routes of server.py): a branch, *)
(* a coding execution in a worktree at its tip, and a merge or an          *)
(* abandonment, composed with Coding.                                      *)
(*                                                                         *)
(* Every route is a sequence of git commands and database calls, each in a *)
(* thread, that other calls, the controller and the engine go between.     *)
(* Whether a task is open, merged or abandoned is derived from git.        *)
(***************************************************************************)
EXTENDS Coding

VARIABLES
    creating,       \* where the call of create_task is
    row,            \* the execution has a row in coding_tasks
    head,           \* content of the worktree's last commit
    merged,         \* content merged into the base, Gone before
    merging,        \* where a call of merge_task is
    abandoning      \* where a call of abandon_task is

calls == <<creating, merging, abandoning>>
taskVars == <<calls, row, head, merged>>
vars == <<codingVars, taskVars>>

Init ==
    /\ CodingInit
    /\ creating = "no" /\ row = FALSE
    /\ head = 0 /\ merged = Gone
    /\ merging = "idle" /\ abandoning = "idle"

-----------------------------------------------------------------------------
(* create_task: the branch, then the execution and its row.                 *)
create_task_branch ==
    /\ up /\ creating = "no" /\ creating' = "branch"
    /\ tip' = 0
    /\ UNCHANGED <<workspace, execution, run, task, sealing, caller, process, history,
                   row, head, merged, merging, abandoning>>

CreateSubmits ==
    /\ creating = "branch" /\ creating' = "done"
    /\ submit
    /\ row' = TRUE
    /\ UNCHANGED <<head, merged, merging, abandoning>>

(* The controller turns the execution down, and the branch is deleted.      *)
CreateRefused ==
    /\ creating = "branch" /\ creating' = "done"
    /\ Fault
    /\ tip' = Gone
    /\ UNCHANGED <<workspace, execution, run, task, sealing, caller, history,
                   row, head, merged, merging, abandoning>>

(* add_task follows submit at once; the process ends in between, and leaves *)
(* an execution that is nobody's task.                                      *)
CreateLost ==
    /\ creating = "branch" /\ creating' = "done"
    /\ status' = "queued"
    /\ up' = FALSE /\ faults < MaxFaults /\ faults' = faults + 1
    /\ UNCHANGED <<workspace, tip, active, run, task, sealing, caller, history,
                   row, head, merged, merging, abandoning>>

(* A client repeats the submission under its key.                           *)
Resubmit == status # "none" /\ submit /\ UNCHANGED taskVars

-----------------------------------------------------------------------------
(* merge_task: reviewed work only; commit, push, merge, delete the branch.  *)
Running == status \in {"running", "awaiting_handoff", "ready"}

Reviewed == status \in {"awaiting_handoff", "ready"}

MergeCalled ==
    /\ up /\ row /\ merging = "idle"
    /\ Reviewed
    /\ merging' = "commit"
    /\ UNCHANGED <<codingVars, creating, abandoning, row, head, merged>>

(* A worktree that equals its last commit has "no changes to merge".        *)
commit_worktree ==
    /\ merging = "commit"
    /\ IF ~removed /\ tree # head
       THEN head' = tree /\ merging' = "push"
       ELSE merging' = "idle" /\ UNCHANGED head
    /\ UNCHANGED <<codingVars, creating, abandoning, row, merged>>

(* HEAD is detached, so that git only pushes to a branch that is there.     *)
push_to_branch ==
    /\ merging = "push"
    /\ IF ~removed /\ tip # Gone
       THEN tip' = head /\ merging' = "merge"
       ELSE merging' = "idle" /\ UNCHANGED tip
    /\ UNCHANGED <<workspace, execution, run, task, sealing, caller, process, history,
                   creating, abandoning, row, head, merged>>

MergeCommit ==
    /\ merging = "merge" /\ merging' = "idle"
    /\ merged' = head /\ tip' = Gone
    /\ UNCHANGED <<workspace, execution, run, task, sealing, caller, process, history,
                   creating, abandoning, row, head>>

merge_task_branch ==
    /\ merging = "merge" /\ merging' = "idle"
    /\ IF tip # Gone
       THEN merged' = tip /\ tip' = Gone
       ELSE UNCHANGED <<merged, tip>>
    /\ UNCHANGED <<workspace, execution, run, task, sealing, caller, process, history,
                   creating, abandoning, row, head>>

(* The base is not checked out, is not clean, or conflicts.                 *)
MergeRefused ==
    /\ merging = "merge" /\ merging' = "idle"
    /\ Fault
    /\ UNCHANGED <<workspace, tip, execution, run, task, sealing, caller, history,
                   creating, abandoning, row, head, merged>>

-----------------------------------------------------------------------------
(* abandon_task: cancel, remove the worktree, delete the branch.            *)
Cancel == CancelRead /\ UNCHANGED taskVars

AbandonCancels ==
    /\ up /\ row /\ abandoning = "idle" /\ caller = IdleCaller
    /\ abandoning' = "remove"
    /\ IF status \in Terminal THEN UNCHANGED codingVars ELSE CancelRead
    /\ UNCHANGED <<creating, merging, row, head, merged>>

(* Nothing is on the disk yet while git is still at work on the worktree.   *)
AbandonRemoves ==
    /\ abandoning = "remove" /\ caller = IdleCaller
    /\ abandoning' = "delete"
    /\ removed' = (removed \/ manifest \notin {"none", "creating"})
    /\ UNCHANGED <<manifest, expired, artifacts, tree, tip, execution, run, task, sealing, caller,
                   process, history, creating, merging, row, head, merged>>

AbandonDeletes ==
    /\ abandoning = "delete" /\ abandoning' = "idle"
    /\ tip' = Gone
    /\ UNCHANGED <<workspace, execution, run, task, sealing, caller, process, history,
                   creating, merging, row, head, merged>>

-----------------------------------------------------------------------------
CrashTasks ==
    /\ Crash
    /\ creating' = IF creating = "no" THEN "no" ELSE "done"
    /\ merging' = "idle" /\ abandoning' = "idle"
    /\ UNCHANGED <<row, head, merged>>

Next ==
    \/ CodingNext /\ UNCHANGED taskVars
    \/ start /\ UNCHANGED taskVars
    \/ create_task_branch \/ CreateSubmits \/ CreateRefused \/ CreateLost \/ Resubmit
    \/ MergeCalled \/ commit_worktree \/ push_to_branch \/ merge_task_branch \/ MergeRefused
    \/ Cancel \/ AbandonCancels \/ AbandonRemoves \/ AbandonDeletes
    \/ CrashTasks

Spec == Init /\ [][Next]_vars

(* The controller's task goes on, by the deadline if by nothing else, and   *)
(* the process is started again.                                            *)
Fairness ==
    /\ WF_vars(ControllerTask /\ UNCHANGED taskVars)
    /\ WF_vars(start /\ UNCHANGED taskVars)

LiveSpec == Spec /\ Fairness

-----------------------------------------------------------------------------
(* derive_task_state.                                                       *)
TaskState == IF tip # Gone THEN "open" ELSE IF merged # Gone THEN "merged" ELSE "abandoned"

TypeOK ==
    /\ CodingTypeOK
    /\ creating \in {"no", "branch", "done"} /\ row \in BOOLEAN
    /\ head \in Nat /\ merged \in Int
    /\ merging \in {"idle", "commit", "push", "merge"}
    /\ abandoning \in {"idle", "remove", "delete"}

(* What reaches the base is what the reviewer approved, whatever runs, is   *)
(* cancelled, abandoned or restarted between the steps of the merge.        *)
MergedIsReviewed == merged # Gone => merged = approved /\ manifest = "completed"

(* A task that was merged or abandoned stays that, whichever steps of a     *)
(* merge and an abandonment go between each other.                          *)
ClosedTaskStaysClosed == [][row /\ TaskState # "open" => TaskState' = TaskState]_vars

(* server.py:1983 asks "is there anything to merge?" before it answers that *)
(* there is not: then the base has the work, or there never was any.        *)
NothingToMergeMeansMerged ==
    [][merging = "commit" /\ merging' = "idle" /\ up' /\ ~removed => (merged = tree \/ tree = 0)]_vars
=============================================================================
