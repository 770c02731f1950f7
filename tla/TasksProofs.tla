----------------------------- MODULE TasksProofs ------------------------------
(* Proofs about Tasks, and of the coding execution it composes, for any     *)
(* repair budget and any number of runs, edits and failures.                *)
EXTENDS Tasks, TLAPS

Quiet(r) == run[r].state \in Ended \cup {"none", "lost"}
Working(r) == run[r].state = "active"

(* Nothing has happened to an execution before it is accepted, a row in     *)
(* coding_tasks belongs to one that was, and nobody acts while the process  *)
(* is down.                                                                 *)
Unaccepted ==
    status = "none" =>
      /\ manifest = "none" /\ pc = "none" /\ sealing = "no" /\ active = 0 /\ caller = IdleCaller
      /\ run = [r \in Runs |-> Nothing]

RowsAreAccepted ==
    /\ creating \in {"no", "branch"} => status = "none"
    /\ row => creating = "done"
    /\ merging # "idle" \/ abandoning # "idle" \/ merged # Gone => row

DownIsIdle ==
    ~up => /\ pc = "none" /\ sealing = "no" /\ caller = IdleCaller
           /\ merging = "idle" /\ abandoning = "idle" /\ creating # "branch"
           /\ \A r \in Runs : ~Working(r)

(* Runs are submitted one after the other into a workspace that is there,   *)
(* and those of a bot end in that order; a run is only lost with the        *)
(* workspace.                                                               *)
RunsInOrder ==
    /\ \E n \in 0 .. MaxRuns : \A r \in Runs : run[r] = Nothing <=> r > n
    /\ \A r \in Runs : run[r] # Nothing => manifest \notin {"none", "creating"}
    /\ \A r \in Runs : run[r].state = "none" <=> run[r] = Nothing
    /\ \A r \in Runs : run[r].bot = "none" => run[r] = Nothing
    /\ \A r \in Runs : run[r].state = "lost" => removed \/ manifest # "active"
    /\ caller.at = "engine" => caller.run \in Runs /\ run[caller.run] # Nothing
    /\ active # 0 => run[active] # Nothing

OneAtATime ==
    \A r, q \in Runs :
       r < q /\ run[r].bot = run[q].bot /\ run[q].state \in {"active", "complete"} => Quiet(r)

(* The run a turn waits for is the last one, and the bot the phase asks for.*)
TurnIsLast ==
    pc \in {"attach", "await"} =>
        /\ turn \in Runs /\ run[turn].bot = BotOf(phase)
        /\ \A r \in Runs : r > turn => run[r] = Nothing

(* No builder works once the builder's turn is over, nobody once the        *)
(* reviewer's is: what a restart brought back has ended before.             *)
Rests(bot) == \A r \in Runs : run[r].bot = bot => Quiet(r)
Reviewing == phase = "review" /\ pc \in {"submit", "attach", "await", "verdict"}

AgentsRest ==
    /\ pc \in {"list", "check", "look", "verdict", "artifact"} \/ Reviewing => Rests("builder")
    /\ pc \in {"verdict", "artifact"} => Rests("reviewer")
    /\ pc = "verdict" => phase = "review"
    /\ pc \in {"start", "open", "create"} => phase = "build"

(* What is reviewed is what the checks passed on.                           *)
ReviewsChecked ==
    /\ pc = "look" => checked = tree \/ stray
    /\ Reviewing => before = checked \/ stray

(* What is sealed is what was approved.                                     *)
SealsApproved ==
    pc = "artifact" =>
      /\ approved = tree /\ (approved = checked \/ stray)
      /\ sealing \in {"seal", "done"} => artifacts = approved
      /\ sealing = "done" => manifest = "completed"

HandedOff ==
    /\ manifest = "completed" /\ artifacts = approved /\ tree = approved
    /\ approved = checked \/ stray
    /\ \A r \in Runs : ~Working(r)

OutcomeIsTrue ==
    /\ pc \in {"seal", "finish"} => outcome # "none"
    /\ outcome # "none" => pc \in {"seal", "finish", "salvage", "fail"}
    /\ outcome = "awaiting_handoff" => HandedOff

DeliveredIsReviewed ==
    status \in {"awaiting_handoff", "ready"} \/ merging # "idle" \/ merged # Gone =>
       pc = "none" /\ status \in {"awaiting_handoff", "ready", "cancelled"} /\ HandedOff

MergesReviewed ==
    /\ merging \in {"push", "merge"} => head = approved
    /\ merging = "merge" => tip \in {approved, Gone}
    /\ merged # Gone => merged = approved

(* A task that is about to be over, or is, has sealed the workspace, or was *)
(* kept from it; an execution whose task the process took with it has not,  *)
(* and is taken up again.                                                   *)
EndsSealed ==
    pc \in {"none", "finish", "fail"} /\ status # "none" /\ (up \/ status \notin Recoverable)
        => ~Leased \/ "workspace" \in neglected

Strengthening ==
    /\ Unaccepted /\ RowsAreAccepted /\ DownIsIdle
    /\ RunsInOrder /\ OneAtATime /\ TurnIsLast
    /\ AgentsRest /\ ReviewsChecked /\ SealsApproved
    /\ OutcomeIsTrue /\ DeliveredIsReviewed /\ MergesReviewed
    /\ EndsSealed /\ tree <= MaxEdits

IInv == TypeOK /\ Strengthening

-----------------------------------------------------------------------------
(* How an action moves the runs.                                            *)
RunRow == [bot : {"none", "builder", "reviewer"}, state : RunState]

(* The runs that were submitted have the states f, and no other is.         *)
Moved(f) ==
    /\ run' \in [Runs -> RunRow]
    /\ \A q \in Runs : /\ run'[q].bot = run[q].bot /\ run'[q].state = f[q]
                       /\ run'[q] = Nothing <=> run[q] = Nothing
                       /\ run'[q] = Nothing <=> run'[q].state = "none"

LEMMA RunsMove ==
    ASSUME TypeOK, RunsInOrder, NEW f \in [Runs -> RunState],
           \A q \in Runs : f[q] = "none" <=> run[q].state = "none",
           run' = [q \in Runs |-> [run[q] EXCEPT !.state = f[q]]]
    PROVE  Moved(f)
<1>1. \A q \in Runs : run[q] \in RunRow
  BY DEF TypeOK, CodingTypeOK, RunRow
<1>2. \A q \in Runs : run'[q] \in RunRow /\ run'[q].bot = run[q].bot /\ run'[q].state = f[q]
  BY <1>1 DEF RunRow
<1>3. ASSUME NEW q \in Runs
      PROVE  /\ run'[q] = Nothing <=> run[q] = Nothing
             /\ run'[q] = Nothing <=> run'[q].state = "none"
  <2>1. run[q] = Nothing <=> run[q].state = "none"
    BY DEF RunsInOrder
  <2>2. CASE run[q].state = "none"
    <3>1. f[q] = "none" /\ run[q] = Nothing
      BY <2>1, <2>2
    <3> QED  BY <1>2, <3>1 DEF Nothing
  <2>3. CASE run[q].state # "none"
    <3>1. run'[q].state # "none"
      BY <1>2, <2>3
    <3> QED  BY <2>1, <2>3, <3>1 DEF Nothing
  <2> QED  BY <2>2, <2>3
<1>4. run' \in [Runs -> RunRow]
  BY <1>1 DEF RunRow
<1> QED  BY <1>2, <1>3, <1>4 DEF Moved

LEMMA OneMoves ==
    ASSUME TypeOK, RunsInOrder, NEW r \in Runs, NEW s \in RunState \ {"none"},
           run[r].state # "none",
           run' = [run EXCEPT ![r].state = s]
    PROVE  Moved([q \in Runs |-> IF q = r THEN s ELSE run[q].state])
<1> DEFINE f == [q \in Runs |-> IF q = r THEN s ELSE run[q].state]
<1>1. \A q \in Runs : run[q] \in RunRow
  BY DEF TypeOK, CodingTypeOK, RunRow
<1>2. f \in [Runs -> RunState] /\ \A q \in Runs : f[q] = "none" <=> run[q].state = "none"
  BY <1>1 DEF RunRow
<1>3. \A q \in Runs : [run[q] EXCEPT !.state = f[q]] = IF q = r THEN [run[q] EXCEPT !.state = s] ELSE run[q]
  BY <1>1 DEF RunRow
<1>4. run' = [q \in Runs |-> [run[q] EXCEPT !.state = f[q]]]
  BY <1>3 DEF TypeOK, CodingTypeOK
<1> QED  BY <1>2, <1>4, RunsMove

LEMMA CancelMoves ==
    ASSUME TypeOK, RunsInOrder, CancelRun
    PROVE  /\ caller.run \in Runs /\ run[caller.run] # Nothing
           /\ Moved([q \in Runs |-> IF q = caller.run /\ run[q].state \notin Ended
                                    THEN "cancelled" ELSE run[q].state])
<1> DEFINE c == caller.run
           s == IF run[c].state \in Ended THEN run[c].state ELSE "cancelled"
<1>1. c \in Runs /\ run[c] # Nothing /\ run[c].state # "none" /\ run[c] \in RunRow
  BY DEF CancelRun, RunsInOrder, TypeOK, CodingTypeOK, RunRow
<1>2. run' = [run EXCEPT ![c].state = s]
  BY DEF CancelRun
<1>3. s \in RunState \ {"none"}
  BY <1>1 DEF RunRow, RunState, Ended
<1>4. Moved([q \in Runs |-> IF q = c THEN s ELSE run[q].state])
  BY <1>1, <1>2, <1>3, OneMoves
<1>5. [q \in Runs |-> IF q = c THEN s ELSE run[q].state]
        = [q \in Runs |-> IF q = c /\ run[q].state \notin Ended THEN "cancelled" ELSE run[q].state]
  OBVIOUS
<1> QED  BY <1>1, <1>4, <1>5

LEMMA StartMoves ==
    ASSUME TypeOK, RunsInOrder, NEW r \in Runs, RunStarts(r)
    PROVE  Moved([q \in Runs |-> IF q = r THEN IF Leased THEN "active" ELSE "failed" ELSE run[q].state])
  BY OneMoves DEF RunStarts, _prepare_execution, RunState, Ended

LEMMA EndMoves ==
    ASSUME TypeOK, RunsInOrder, NEW r \in Runs, RunEnds(r) \/ HeartbeatFails(r)
    PROVE  \E s \in Ended : Moved([q \in Runs |-> IF q = r THEN s ELSE run[q].state])
  BY OneMoves DEF RunEnds, HeartbeatFails, RunState, Ended

LEMMA CrashMoves ==
    ASSUME TypeOK, RunsInOrder, Crash
    PROVE  Moved([q \in Runs |-> IF Working(q) THEN "queued" ELSE run[q].state])
<1> DEFINE f == [q \in Runs |-> IF Working(q) THEN "queued" ELSE run[q].state]
<1>1. \A q \in Runs : run[q] \in RunRow
  BY DEF TypeOK, CodingTypeOK, RunRow
<1>2. f \in [Runs -> RunState] /\ \A q \in Runs : f[q] = "none" <=> run[q].state = "none"
  BY <1>1 DEF RunRow, RunState, Working
<1>3. \A q \in Runs : [run[q] EXCEPT !.state = f[q]]
                        = IF run[q].state = "active" THEN [run[q] EXCEPT !.state = "queued"] ELSE run[q]
  BY <1>1 DEF RunRow, Working
<1>4. run' = [q \in Runs |-> [run[q] EXCEPT !.state = f[q]]]
  BY <1>3 DEF Crash
<1> QED  BY <1>2, <1>4, RunsMove

LEMMA RestoreMoves ==
    ASSUME TypeOK, RunsInOrder, start
    PROVE  Moved([q \in Runs |-> Restored(q)])
<1> DEFINE f == [q \in Runs |-> Restored(q)]
<1>1. \A q \in Runs : run[q] \in RunRow
  BY DEF TypeOK, CodingTypeOK, RunRow
<1>2. f \in [Runs -> RunState] /\ \A q \in Runs : f[q] = "none" <=> run[q].state = "none"
  BY <1>1 DEF RunRow, RunState, Restored, FINAL_STATES, Ended
<1>3. run' = [q \in Runs |-> [run[q] EXCEPT !.state = f[q]]]
  BY DEF start
<1> QED  BY <1>2, <1>3, RunsMove

(* The next run is the first that was never submitted.                      *)
LEMMA NextRun ==
    ASSUME TypeOK, RunsInOrder, \E r \in Runs : run[r] = Nothing
    PROVE  Fresh \in Runs /\ \A r \in Runs : run[r] = Nothing <=> r >= Fresh
<1>1. PICK n \in 0 .. MaxRuns : \A r \in Runs : run[r] = Nothing <=> r > n
  BY DEF RunsInOrder
<1>2. n + 1 \in Runs /\ run[n + 1] = Nothing /\ \A q \in 1 .. n : run[q] # Nothing
  BY <1>1, CodingAssumption DEF Runs
<1>3. Fresh \in Runs /\ run[Fresh] = Nothing /\ \A q \in 1 .. Fresh - 1 : run[q] # Nothing
  BY <1>2 DEF Fresh
<1>4. Fresh = n + 1
  BY <1>1, <1>2, <1>3 DEF Runs
<1> QED  BY <1>1, <1>3, <1>4, CodingAssumption DEF Runs

(* SubmitTurn, when the lease is held and when it is not.                   *)
LEMMA SubmitMoves ==
    ASSUME TypeOK, RunsInOrder, SubmitTurn
    PROVE  \/ Ends("failed") /\ UNCHANGED run
           \/ /\ Leased /\ turn' \in Runs /\ pc' = "attach" /\ UNCHANGED phase
              /\ \A r \in Runs : run[r] = Nothing <=> r >= turn'
              /\ run' \in [Runs -> RunRow]
              /\ run'[turn'] = [bot |-> BotOf(phase), state |-> "queued"]
              /\ \A q \in Runs : q # turn' => run'[q] = run[q]
<1>1. CASE ~Leased
  BY <1>1 DEF SubmitTurn
<1>2. CASE Leased
  <2>1. Fresh \in Runs /\ \A r \in Runs : run[r] = Nothing <=> r >= Fresh
    BY NextRun DEF SubmitTurn
  <2>2. /\ turn' = Fresh /\ pc' = "attach" /\ UNCHANGED phase
        /\ run' = [run EXCEPT ![Fresh] = [bot |-> BotOf(phase), state |-> "queued"]]
    BY <1>2 DEF SubmitTurn
  <2>3. [bot |-> BotOf(phase), state |-> "queued"] \in RunRow /\ run \in [Runs -> RunRow]
    BY DEF RunRow, BotOf, RunState, TypeOK, CodingTypeOK
  <2>4. run' \in [Runs -> RunRow]
    BY <2>2, <2>3
  <2>5. /\ run'[turn'] = [bot |-> BotOf(phase), state |-> "queued"]
        /\ \A q \in Runs : q # turn' => run'[q] = run[q]
    BY <2>1, <2>2, <2>3
  <2> QED  BY <1>2, <2>1, <2>2, <2>4, <2>5
<1> QED  BY <1>1, <1>2

-----------------------------------------------------------------------------
(* The type invariant in two parts: the provers take Boolean variables and  *)
(* the others one at a time.                                                *)
Flags ==
    /\ cancelled \in BOOLEAN /\ up \in BOOLEAN /\ stray \in BOOLEAN
    /\ expired \in BOOLEAN /\ removed \in BOOLEAN /\ row \in BOOLEAN

Values ==
    /\ manifest \in WorkspaceState /\ artifacts \in Int /\ tree \in Nat
    /\ tip \in Int /\ status \in ExecutionStatus /\ active \in 0 .. MaxRuns
    /\ run \in [Runs -> RunRow]
    /\ pc \in Callback \cup {"none", "start", "open", "create", "seal", "finish", "salvage", "fail"}
    /\ phase \in {"build", "repair", "review"} /\ turn \in 0 .. MaxRuns /\ before \in Nat
    /\ repairs \in 0 .. MaxRepairs
    /\ outcome \in {"none", "awaiting_handoff", "failed", "cancelled"}
    /\ sealing \in {"no", "list", "seal", "done", "failed"}
    /\ caller \in [at : {"idle", "engine", "store"}, run : 0 .. MaxRuns]
    /\ faults \in 0 .. MaxFaults
    /\ checked \in Int /\ approved \in Int
    /\ neglected \subseteq {"row", "workspace"}
    /\ creating \in {"no", "branch", "done"}
    /\ head \in Nat /\ merged \in Int
    /\ merging \in {"idle", "commit", "push", "merge"}
    /\ abandoning \in {"idle", "remove", "delete"}

LEMMA Typed == TypeOK <=> Flags /\ Values
<1> QED  BY DEF TypeOK, CodingTypeOK, WorkspaceTypeOK, RunRow, Flags, Values

LEMMA TypedNext == ASSUME Flags', Values' PROVE TypeOK'
<1> QED  BY DEF TypeOK, CodingTypeOK, WorkspaceTypeOK, RunRow, Flags, Values

LEMMA FlagsStep ==
    ASSUME Flags, Next
    PROVE  Flags'
<1>1. CASE (set_running \/ SetRunningFails \/ OpenWorkspace \/ CreateWorkspace) /\ UNCHANGED taskVars
  BY <1>1, CodingAssumption DEF set_running, SetRunningFails, OpenWorkspace, CreateWorkspace,
       Step, _done, NoFault, workspace, Fault, Reserve, history, Created, CreateFails, Anew,
       process, Flags, taskVars
<1>2. CASE (TimesOut \/ Interrupted \/ SubmitTurn \/ set_active_run \/ TurnOver
            \/ ListChanges \/ Check \/ Look \/ Verdict \/ Sealed) /\ UNCHANGED taskVars
  BY <1>2, CodingAssumption DEF TimesOut, Interrupted, SubmitTurn, set_active_run, TurnOver,
       ListChanges, Check, Look, Verdict, Sealed, Ends, NoFault, workspace, history, Step,
       enumerate_artifacts, RepairOrFail, process, Flags, taskVars
<1>3. CASE (SealAsEnded \/ SealRaises \/ Finishes \/ Salvage \/ Fails) /\ UNCHANGED taskVars
  BY <1>3, CodingAssumption DEF SealAsEnded, SealRaises, Finishes, Salvage, Fails, Step,
       workspace, _finalize_if_active, NoFault, Fault, history, _done, finalize, process,
       Anew, Flags, taskVars
<1>4. CASE (SealingThread \/ SealingRefused \/ approve \/ CancelRun \/ CancelStore
            \/ LeaseExpires) /\ UNCHANGED taskVars
  BY <1>4, CodingAssumption DEF SealingThread, SealingRefused, approve, CancelRun,
       CancelStore, LeaseExpires, enumerate_artifacts, Seal, workspace, NoFault, task,
       history, process, Expires, Fault, Flags, taskVars
<1>5. ASSUME NEW r \in Runs, RunStarts(r) \/ AgentEdits(r) \/ RunEnds(r) \/ HeartbeatFails(r),
             UNCHANGED taskVars
      PROVE  Flags'
  BY <1>5, CodingAssumption DEF RunStarts, AgentEdits, RunEnds, HeartbeatFails, workspace,
       task, process, history, NoFault, Fault, Flags, taskVars
<1>6. CASE start /\ UNCHANGED taskVars
  BY <1>6, CodingAssumption DEF start, Launch, task, Anew, Flags, taskVars
<1>7. CASE create_task_branch \/ CreateSubmits \/ CreateRefused \/ CreateLost \/ Resubmit
  BY <1>7, CodingAssumption DEF create_task_branch, CreateSubmits, CreateRefused, CreateLost,
       Resubmit, workspace, task, process, history, submit, Fault, taskVars, Launch, Anew,
       Flags
<1>8. CASE MergeCalled \/ commit_worktree \/ push_to_branch \/ merge_task_branch
           \/ MergeRefused
  BY <1>8, CodingAssumption DEF MergeCalled, commit_worktree, push_to_branch,
       merge_task_branch, MergeRefused, codingVars, workspace, task, process, history, Fault,
       Flags
<1>9. CASE Cancel \/ AbandonCancels \/ AbandonRemoves \/ AbandonDeletes
  BY <1>9, CodingAssumption DEF Cancel, AbandonCancels, AbandonRemoves, AbandonDeletes,
       CancelRead, taskVars, codingVars, task, process, history, workspace, Flags
<1>10. CASE CrashTasks
  BY <1>10, CodingAssumption DEF CrashTasks, Crash, Anew, workspace, Flags
<1> QED  BY <1>1, <1>2, <1>3, <1>4, <1>5, <1>6, <1>7, <1>8, <1>9, <1>10 DEF Next, CodingNext,
            ControllerTask, Workflow, EngineRun

LEMMA Values_set_running == ASSUME TypeOK, set_running, UNCHANGED taskVars PROVE Values'
  BY Typed, CodingAssumption DEF set_running, Step, _done, Anew, NoFault, workspace, process,
       taskVars, calls, Values, ExecutionStatus, Recoverable

LEMMA Values_Finishes == ASSUME TypeOK, OutcomeIsTrue, Finishes, UNCHANGED taskVars PROVE Values'
  BY Typed, CodingAssumption DEF Finishes, finish, Step, _done, Anew, Fault, NoFault, process,
       workspace, execution, history, taskVars, calls, Values, ExecutionStatus, Recoverable,
       Terminal, OutcomeIsTrue

LEMMA Values_Salvage == ASSUME TypeOK, Salvage, UNCHANGED taskVars PROVE Values'
  BY Typed, CodingAssumption DEF Salvage, _finalize_if_active, finalize, Step, NoFault,
       process, workspace, execution, taskVars, calls, Values, WorkspaceState, FINAL_STATES

LEMMA Values_SealAsEnded == ASSUME TypeOK, OutcomeIsTrue, SealAsEnded, UNCHANGED taskVars
                            PROVE  Values'
  BY Typed, CodingAssumption DEF SealAsEnded, _finalize_if_active, finalize, Step, NoFault,
       process, workspace, execution, taskVars, calls, Values, WorkspaceState, FINAL_STATES,
       OutcomeIsTrue

LEMMA Values_Fails == ASSUME TypeOK, Fails, UNCHANGED taskVars PROVE Values'
  BY Typed, CodingAssumption DEF Fails, finish, _done, Anew, Fault, NoFault, process,
       workspace, execution, taskVars, calls, Values, ExecutionStatus, Recoverable, Terminal

LEMMA Values_CancelRead ==
    ASSUME TypeOK, CancelRead, UNCHANGED <<creating, head, merged, merging>>,
           abandoning' \in {"idle", "remove", "delete"}
    PROVE  Values'
  BY Typed, CodingAssumption DEF CancelRead, workspace, execution, process, history, Values,
       IdleCaller

LEMMA Values_AbandonCancels == ASSUME TypeOK, AbandonCancels PROVE Values'
<1>1. CASE UNCHANGED codingVars
  BY <1>1, Typed DEF AbandonCancels, codingVars, workspace, execution, task, process, history,
       Values
<1>2. CASE CancelRead
  BY <1>2, Values_CancelRead DEF AbandonCancels
<1> QED  BY <1>1, <1>2 DEF AbandonCancels

LEMMA Values_submit ==
    ASSUME TypeOK, submit, UNCHANGED <<head, merged, merging, abandoning>>,
           creating' \in {"no", "branch", "done"}
    PROVE  Values'
  BY Typed, CodingAssumption DEF submit, Launch, Anew, workspace, process, task, Values,
       ExecutionStatus, Recoverable

LEMMA Values_CrashTasks == ASSUME TypeOK, RunsInOrder, CrashTasks PROVE Values'
<1>1. run' \in [Runs -> RunRow]
  BY CrashMoves DEF CrashTasks, Moved
<1> QED  BY <1>1, Typed, CodingAssumption DEF CrashTasks, Crash, Anew, workspace, execution,
            Values, IdleCaller

LEMMA Values_start == ASSUME TypeOK, RunsInOrder, start, UNCHANGED taskVars PROVE Values'
<1>1. run' \in [Runs -> RunRow]
  BY RestoreMoves DEF Moved
<1>2. manifest' \in WorkspaceState /\ neglected' \subseteq {"row", "workspace"}
  BY Typed DEF start, recover_stale_leases, WorkspaceState, Values
<1>3. task' = task \/ Anew("start")
  BY DEF start, Launch
<1>4. UNCHANGED <<artifacts, tree, tip, execution, sealing, caller, faults, checked, approved>>
  BY DEF start
<1> QED  BY <1>1, <1>2, <1>3, <1>4, Typed, CodingAssumption DEF Values, Anew, execution, task,
            taskVars, calls

LEMMA Values_SubmitTurn == ASSUME TypeOK, RunsInOrder, SubmitTurn, UNCHANGED taskVars
                           PROVE  Values'
<1>1. turn' \in 0 .. MaxRuns /\ run' \in [Runs -> RunRow]
  BY SubmitMoves, Typed, CodingAssumption DEF Runs, Ends, Values
<1>2. UNCHANGED <<workspace, tip, execution, sealing, caller, process, history>>
  BY DEF SubmitTurn, NoFault
<1>3. \/ UNCHANGED <<phase, before, repairs, outcome, cancelled>> /\ pc' = "attach"
      \/ Ends("failed")
  BY DEF SubmitTurn
<1> QED  BY <1>1, <1>2, <1>3, Typed, CodingAssumption DEF Ends, process, workspace, execution,
            history, taskVars, calls, Values, Callback

LEMMA Values_RunStarts ==
    ASSUME TypeOK, RunsInOrder, NEW r \in Runs, RunStarts(r), UNCHANGED taskVars
    PROVE  Values'
<1>1. run' \in [Runs -> RunRow]
  BY StartMoves DEF Moved
<1> QED  BY <1>1, Typed DEF RunStarts, workspace, execution, task, process, history, taskVars,
            calls, Values

LEMMA Values_RunEnds ==
    ASSUME TypeOK, RunsInOrder, NEW r \in Runs, RunEnds(r) \/ HeartbeatFails(r),
           UNCHANGED taskVars
    PROVE  Values'
<1>1. run' \in [Runs -> RunRow]
  BY EndMoves DEF Moved
<1>2. /\ UNCHANGED <<workspace, tip, execution, task, sealing, caller, history>>
      /\ faults' \in 0 .. MaxFaults
  BY Typed, CodingAssumption DEF RunEnds, HeartbeatFails, Fault, NoFault, process, Values
<1> QED  BY <1>1, <1>2, Typed DEF workspace, execution, task, history, taskVars, calls, Values

LEMMA Values_CancelRun == ASSUME TypeOK, RunsInOrder, CancelRun, UNCHANGED taskVars PROVE Values'
<1>1. run' \in [Runs -> RunRow]
  BY CancelMoves DEF Moved
<1>2. /\ UNCHANGED <<workspace, tip, execution, task, sealing, process, history>>
      /\ caller' \in [at : {"idle", "engine", "store"}, run : 0 .. MaxRuns]
  BY Typed, CodingAssumption DEF CancelRun, Values
<1> QED  BY <1>1, <1>2, Typed DEF workspace, execution, task, process, history, taskVars,
            calls, Values

LEMMA ValuesStep ==
    ASSUME TypeOK, Values, RunsInOrder, OutcomeIsTrue, Next
    PROVE  Values'
<1>1. CASE set_running /\ UNCHANGED taskVars
  BY <1>1, Values_set_running
<1>2. CASE SetRunningFails /\ UNCHANGED taskVars
  BY <1>2, CodingAssumption DEF SetRunningFails, _done, Fault, workspace, execution, Anew,
       Values, taskVars, calls
<1>3. CASE OpenWorkspace /\ UNCHANGED taskVars
  BY <1>3, CodingAssumption DEF OpenWorkspace, Step, workspace, Reserve, NoFault, execution,
       history, process, Values, WorkspaceState, Callback, taskVars, calls
<1>4. CASE CreateWorkspace /\ UNCHANGED taskVars
  BY <1>4, CodingAssumption DEF CreateWorkspace, Created, Step, NoFault, CreateFails, Fault,
       execution, history, process, Values, WorkspaceState, Callback, FINAL_STATES, taskVars,
       calls
<1>5. CASE TimesOut /\ UNCHANGED taskVars
  BY <1>5, CodingAssumption DEF TimesOut, Ends, NoFault, workspace, execution, history,
       process, Values, taskVars, calls
<1>6. CASE Interrupted /\ UNCHANGED taskVars
  BY <1>6, CodingAssumption DEF Interrupted, Ends, NoFault, workspace, execution, history,
       process, Values, taskVars, calls
<1>7. CASE SubmitTurn /\ UNCHANGED taskVars
  BY <1>7, Values_SubmitTurn
<1>8. CASE set_active_run /\ UNCHANGED taskVars
  BY <1>8, CodingAssumption DEF set_active_run, Step, Ends, NoFault, workspace, history,
       process, Values, Callback, taskVars, calls
<1>9. CASE TurnOver /\ UNCHANGED taskVars
  BY <1>9, CodingAssumption DEF TurnOver, Ends, NoFault, workspace, execution, history,
       process, Values, Callback, taskVars, calls
<1>10. CASE ListChanges /\ UNCHANGED taskVars
  BY <1>10, CodingAssumption DEF ListChanges, Step, enumerate_artifacts, Ends, workspace,
       NoFault, execution, history, process, Values, Callback, taskVars, calls
<1>11. CASE Check /\ UNCHANGED taskVars
  BY <1>11, CodingAssumption DEF Check, Step, RepairOrFail, NoFault, workspace, execution,
       Ends, process, Values, Callback, taskVars, calls
<1>12. CASE Look /\ UNCHANGED taskVars
  BY <1>12, CodingAssumption DEF Look, NoFault, workspace, execution, history, process,
       Values, Callback, taskVars, calls
<1>13. CASE Verdict /\ UNCHANGED taskVars
  BY <1>13, CodingAssumption DEF Verdict, Step, RepairOrFail, Ends, NoFault, workspace,
       execution, process, Values, Callback, taskVars, calls
<1>14. CASE Sealed /\ UNCHANGED taskVars
  BY <1>14, CodingAssumption DEF Sealed, Ends, NoFault, workspace, execution, history,
       process, Values, taskVars, calls
<1>15. CASE SealAsEnded /\ UNCHANGED taskVars
  BY <1>15, Values_SealAsEnded
<1>16. CASE SealRaises /\ UNCHANGED taskVars
  BY <1>16, CodingAssumption DEF SealRaises, Step, Fault, workspace, execution, history,
       Values, taskVars, calls
<1>17. CASE Finishes /\ UNCHANGED taskVars
  BY <1>17, Values_Finishes
<1>18. CASE Salvage /\ UNCHANGED taskVars
  BY <1>18, Values_Salvage
<1>19. CASE Fails /\ UNCHANGED taskVars
  BY <1>19, Values_Fails
<1>20. CASE SealingThread /\ UNCHANGED taskVars
  BY <1>20, CodingAssumption DEF SealingThread, enumerate_artifacts, Seal, workspace, NoFault,
       execution, task, history, process, Values, WorkspaceState, FINAL_STATES, taskVars,
       calls
<1>21. CASE SealingRefused /\ UNCHANGED taskVars
  BY <1>21, CodingAssumption DEF SealingRefused, NoFault, workspace, execution, task, history,
       process, Values, taskVars, calls
<1>22. CASE approve /\ UNCHANGED taskVars
  BY <1>22, CodingAssumption DEF approve, workspace, task, process, history, Values,
       ExecutionStatus, Terminal, taskVars, calls
<1>23. CASE CancelRun /\ UNCHANGED taskVars
  BY <1>23, Values_CancelRun
<1>24. CASE CancelStore /\ UNCHANGED taskVars
  BY <1>24, CodingAssumption DEF CancelStore, IdleCaller, execution, workspace, task, process,
       history, Values, ExecutionStatus, Terminal, taskVars, calls
<1>25. CASE LeaseExpires /\ UNCHANGED taskVars
  BY <1>25, CodingAssumption DEF LeaseExpires, Expires, Fault, NoFault, execution, task,
       history, process, Values, taskVars, calls
<1>26. ASSUME NEW r \in Runs, RunStarts(r), UNCHANGED taskVars PROVE Values'
  BY <1>26, Values_RunStarts
<1>27. ASSUME NEW r \in Runs, AgentEdits(r), UNCHANGED taskVars PROVE Values'
  BY <1>27, CodingAssumption DEF AgentEdits, execution, task, process, Values, taskVars, calls
<1>28. ASSUME NEW r \in Runs, RunEnds(r) \/ HeartbeatFails(r), UNCHANGED taskVars PROVE Values'
  BY <1>28, Values_RunEnds
<1>29. CASE start /\ UNCHANGED taskVars
  BY <1>29, Values_start
<1>30. CASE create_task_branch
  BY <1>30, CodingAssumption DEF create_task_branch, workspace, execution, task, process,
       history, Values
<1>31. CASE CreateSubmits
  BY <1>31, Values_submit DEF CreateSubmits
<1>32. CASE CreateRefused
  BY <1>32, CodingAssumption DEF CreateRefused, Fault, Gone, workspace, execution, task,
       history, Values
<1>33. CASE CreateLost
  BY <1>33, CodingAssumption DEF CreateLost, workspace, task, history, Values,
       ExecutionStatus, Recoverable
<1>34. CASE Resubmit
  BY <1>34, Values_submit, Typed DEF Resubmit, Values, taskVars, calls
<1>35. CASE MergeCalled
  BY <1>35, CodingAssumption DEF MergeCalled, codingVars, workspace, execution, task, process,
       history, Values
<1>36. CASE commit_worktree
  BY <1>36, CodingAssumption DEF commit_worktree, codingVars, workspace, execution, task,
       process, history, Values
<1>37. CASE push_to_branch
  BY <1>37, CodingAssumption DEF push_to_branch, workspace, execution, task, process, history,
       Values
<1>38. CASE merge_task_branch
  BY <1>38, CodingAssumption DEF merge_task_branch, Gone, workspace, execution, task, process,
       history, Values
<1>39. CASE MergeRefused
  BY <1>39, CodingAssumption DEF MergeRefused, Fault, workspace, execution, task, history, Values
<1>40. CASE Cancel
  BY <1>40, CodingAssumption DEF Cancel, CancelRead, taskVars, workspace, execution, process,
       history, calls, Values
<1>41. CASE AbandonCancels
  BY <1>41, Values_AbandonCancels
<1>42. CASE AbandonRemoves
  BY <1>42, CodingAssumption DEF AbandonRemoves, execution, task, process, history, Values
<1>43. CASE AbandonDeletes
  BY <1>43, CodingAssumption DEF AbandonDeletes, Gone, workspace, execution, task, process,
       history, Values
<1>44. CASE CrashTasks
  BY <1>44, Values_CrashTasks
<1> QED  BY <1>1, <1>2, <1>3, <1>4, <1>5, <1>6, <1>7, <1>8, <1>9, <1>10, <1>11, <1>12, <1>13,
            <1>14, <1>15, <1>16, <1>17, <1>18, <1>19, <1>20, <1>21, <1>22, <1>23, <1>24,
            <1>25, <1>26, <1>27, <1>28, <1>29, <1>30, <1>31, <1>32, <1>33, <1>34, <1>35,
            <1>36, <1>37, <1>38, <1>39, <1>40, <1>41, <1>42, <1>43, <1>44 DEF Next,
            CodingNext, ControllerTask, Workflow, EngineRun

LEMMA TypeOKStep == ASSUME TypeOK, RunsInOrder, OutcomeIsTrue, Next PROVE TypeOK'
<1>1. Flags /\ Values
  BY Typed
<1> QED  BY <1>1, FlagsStep, ValuesStep, TypedNext

-----------------------------------------------------------------------------
(* The parts of the invariant, one by one.                                  *)
LEMMA UnacceptedStep ==
    ASSUME TypeOK, Unaccepted, RowsAreAccepted, OutcomeIsTrue, Next
    PROVE  Unaccepted'
<1>1. CASE set_running \/ SetRunningFails \/ OpenWorkspace \/ CreateWorkspace
  BY <1>1, CodingAssumption DEF set_running, SetRunningFails, OpenWorkspace, CreateWorkspace,
       Step, _done, execution, Unaccepted
<1>2. CASE TimesOut \/ Interrupted \/ SubmitTurn \/ set_active_run \/ TurnOver
           \/ ListChanges \/ Check \/ Look \/ Verdict \/ Sealed
  BY <1>2, CodingAssumption DEF TimesOut, Interrupted, SubmitTurn, set_active_run, TurnOver,
       ListChanges, Check, Look, Verdict, Sealed, Callback, execution, Step, Unaccepted
<1>3. CASE SealAsEnded \/ SealRaises \/ Finishes \/ Salvage \/ Fails
  BY <1>3, CodingAssumption DEF SealAsEnded, SealRaises, Finishes, Salvage, Fails, Step,
       execution, _done, finish, Unaccepted, OutcomeIsTrue
<1>4. CASE SealingThread \/ SealingRefused \/ approve
  BY <1>4, CodingAssumption DEF SealingThread, SealingRefused, approve, execution, Unaccepted
<1>5. CASE CancelRun \/ CancelStore \/ LeaseExpires
  BY <1>5, CodingAssumption DEF CancelRun, CancelStore, LeaseExpires, execution, IdleCaller,
       Expires, Unaccepted
<1>6. ASSUME NEW r \in Runs, RunStarts(r) \/ AgentEdits(r) PROVE Unaccepted'
  BY <1>6, CodingAssumption DEF RunStarts, AgentEdits, Runs, Ended, _workspace_guard_free,
       _prepare_execution, workspace, execution, task, process, history, Awaited, Leased,
       Unaccepted, TypeOK, RowsAreAccepted, OutcomeIsTrue, IdleCaller, Nothing, CodingTypeOK,
       Gone, HandedOff, WorkspaceTypeOK, ExecutionStatus, RunState, Callback, Working,
       WorkspaceState, Recoverable, Terminal, FINAL_STATES
<1>7. ASSUME NEW r \in Runs, RunEnds(r) \/ HeartbeatFails(r) PROVE Unaccepted'
  BY <1>7, CodingAssumption DEF RunEnds, HeartbeatFails, execution, Unaccepted, Nothing
<1>8. CASE start
  BY <1>8, CodingAssumption DEF start, recover_stale_leases, Restored, Recoverable, task,
       execution, Unaccepted, Nothing
<1>9. CASE create_task_branch \/ CreateSubmits \/ CreateRefused \/ CreateLost \/ Resubmit
  BY <1>9, CodingAssumption DEF create_task_branch, CreateSubmits, CreateRefused, CreateLost,
       Resubmit, workspace, execution, task, submit, Unaccepted
<1>10. CASE MergeCalled \/ commit_worktree \/ push_to_branch \/ merge_task_branch
           \/ MergeRefused
  BY <1>10, CodingAssumption DEF MergeCalled, commit_worktree, push_to_branch,
       merge_task_branch, MergeRefused, codingVars, workspace, execution, task, Unaccepted
<1>11. CASE Cancel \/ AbandonCancels \/ AbandonRemoves \/ AbandonDeletes
  BY <1>11, CodingAssumption DEF Cancel, AbandonCancels, AbandonRemoves, AbandonDeletes,
       CancelRead, codingVars, execution, task, workspace, Recoverable, Unaccepted
<1>12. CASE CrashTasks
  BY <1>12, CodingAssumption DEF CrashTasks, Crash, Anew, IdleCaller, Runs, Recoverable,
       workspace, execution, Unaccepted, TypeOK, RowsAreAccepted, OutcomeIsTrue, Nothing,
       CodingTypeOK, Gone, HandedOff, WorkspaceTypeOK, ExecutionStatus, RunState, Callback,
       Working, WorkspaceState, Terminal, Ended, FINAL_STATES
<1> QED  BY <1>1, <1>2, <1>3, <1>4, <1>5, <1>6, <1>7, <1>8, <1>9, <1>10, <1>11, <1>12 DEF
            Next, CodingNext, ControllerTask, Workflow, EngineRun

LEMMA RowsAreAcceptedStep ==
    ASSUME TypeOK, Unaccepted, RowsAreAccepted, OutcomeIsTrue, DeliveredIsReviewed, Next
    PROVE  RowsAreAccepted'
<1>1. CASE (set_running \/ SetRunningFails \/ OpenWorkspace \/ CreateWorkspace) /\ UNCHANGED taskVars
  BY <1>1, CodingAssumption DEF set_running, SetRunningFails, OpenWorkspace, CreateWorkspace,
       Step, execution, RowsAreAccepted, Unaccepted, taskVars, calls
<1>2. CASE (TimesOut \/ Interrupted \/ SubmitTurn \/ set_active_run \/ TurnOver
            \/ ListChanges \/ Check \/ Look \/ Verdict \/ Sealed) /\ UNCHANGED taskVars
  BY <1>2, CodingAssumption DEF TimesOut, Interrupted, SubmitTurn, set_active_run, TurnOver,
       ListChanges, Check, Look, Verdict, Sealed, execution, RowsAreAccepted, taskVars, calls
<1>3. CASE (SealAsEnded \/ SealRaises \/ Finishes \/ Salvage \/ Fails) /\ UNCHANGED taskVars
  BY <1>3, CodingAssumption DEF SealAsEnded, SealRaises, Finishes, Salvage, Fails, Step,
       _done, RowsAreAccepted, Unaccepted, taskVars, calls
<1>4. CASE (SealingThread \/ SealingRefused \/ approve \/ CancelRun \/ CancelStore
            \/ LeaseExpires) /\ UNCHANGED taskVars
  BY <1>4, CodingAssumption DEF SealingThread, SealingRefused, approve, CancelRun,
       CancelStore, LeaseExpires, execution, Recoverable, RowsAreAccepted, taskVars, calls
<1>5. ASSUME NEW r \in Runs, RunStarts(r) \/ AgentEdits(r) \/ RunEnds(r) \/ HeartbeatFails(r),
             UNCHANGED taskVars
      PROVE  RowsAreAccepted'
  BY <1>5, CodingAssumption DEF RunStarts, AgentEdits, RunEnds, HeartbeatFails, execution,
       RowsAreAccepted, taskVars, calls
<1>6. CASE start /\ UNCHANGED taskVars
  BY <1>6, CodingAssumption DEF start, execution, RowsAreAccepted, taskVars, calls
<1>7. CASE create_task_branch \/ CreateSubmits \/ CreateRefused \/ CreateLost \/ Resubmit
  BY <1>7, CodingAssumption DEF create_task_branch, CreateSubmits, CreateRefused, CreateLost,
       Resubmit, execution, taskVars, calls, RowsAreAccepted
<1>8. CASE MergeCalled \/ commit_worktree \/ push_to_branch \/ merge_task_branch
           \/ MergeRefused
  BY <1>8, CodingAssumption DEF MergeCalled, commit_worktree, push_to_branch,
       merge_task_branch, MergeRefused, RowsAreAccepted
<1>9. CASE Cancel \/ AbandonCancels \/ AbandonRemoves \/ AbandonDeletes
  BY <1>9, CodingAssumption DEF Cancel, AbandonCancels, AbandonRemoves, AbandonDeletes,
       CancelRead, taskVars, Recoverable, calls, RowsAreAccepted, TypeOK
<1>10. CASE CrashTasks
  BY <1>10, CodingAssumption DEF CrashTasks, Crash, execution, RowsAreAccepted
<1> QED  BY <1>1, <1>2, <1>3, <1>4, <1>5, <1>6, <1>7, <1>8, <1>9, <1>10 DEF Next, CodingNext,
            ControllerTask, Workflow, EngineRun

LEMMA DownIsIdleStep ==
    ASSUME TypeOK, Unaccepted, RowsAreAccepted, DownIsIdle, Next
    PROVE  DownIsIdle'
<1>1. CASE (set_running \/ SetRunningFails \/ OpenWorkspace \/ CreateWorkspace) /\ UNCHANGED taskVars
  BY <1>1, CodingAssumption DEF set_running, SetRunningFails, OpenWorkspace, CreateWorkspace,
       Step, _done, NoFault, Fault, process, DownIsIdle
<1>2. CASE (TimesOut \/ Interrupted \/ SubmitTurn \/ set_active_run \/ TurnOver
            \/ ListChanges \/ Check \/ Look \/ Verdict \/ Sealed) /\ UNCHANGED taskVars
  BY <1>2, CodingAssumption DEF TimesOut, Interrupted, SubmitTurn, set_active_run, TurnOver,
       ListChanges, Check, Look, Verdict, Sealed, Callback, NoFault, Step, process, DownIsIdle
<1>3. CASE (SealAsEnded \/ SealRaises \/ Finishes \/ Salvage \/ Fails) /\ UNCHANGED taskVars
  BY <1>3, CodingAssumption DEF SealAsEnded, SealRaises, Finishes, Salvage, Fails, Step,
       NoFault, Fault, _done, process, DownIsIdle
<1>4. CASE (SealingThread \/ SealingRefused \/ approve \/ CancelRun \/ CancelStore
            \/ LeaseExpires) /\ UNCHANGED taskVars
  BY <1>4, CodingAssumption DEF SealingThread, SealingRefused, approve, CancelRun,
       CancelStore, LeaseExpires, enumerate_artifacts, Seal, Leased, workspace, NoFault,
       execution, task, history, process, Ended, IdleCaller, Recoverable, Expires, Fault,
       Runs, DownIsIdle, TypeOK, Unaccepted, RowsAreAccepted, Working, CodingTypeOK, Nothing,
       Gone, WorkspaceTypeOK, ExecutionStatus, RunState, Callback, WorkspaceState, Terminal,
       FINAL_STATES, taskVars, calls
<1>5. ASSUME NEW r \in Runs, RunStarts(r) \/ AgentEdits(r) \/ RunEnds(r) \/ HeartbeatFails(r),
             UNCHANGED taskVars
      PROVE  DownIsIdle'
  BY <1>5, CodingAssumption DEF RunStarts, AgentEdits, RunEnds, HeartbeatFails, process,
       NoFault, Fault, DownIsIdle, TypeOK
<1>6. CASE start /\ UNCHANGED taskVars
  BY <1>6, CodingAssumption DEF start, DownIsIdle
<1>7. CASE create_task_branch \/ CreateSubmits \/ CreateRefused \/ CreateLost \/ Resubmit
  BY <1>7, CodingAssumption DEF create_task_branch, CreateSubmits, CreateRefused, CreateLost,
       Resubmit, task, process, submit, DownIsIdle, Unaccepted, RowsAreAccepted, Working,
       Nothing
<1>8. CASE MergeCalled \/ commit_worktree \/ push_to_branch \/ merge_task_branch
           \/ MergeRefused
  BY <1>8, CodingAssumption DEF MergeCalled, commit_worktree, push_to_branch,
       merge_task_branch, MergeRefused, codingVars, process, Fault, DownIsIdle
<1>9. CASE Cancel \/ AbandonCancels \/ AbandonRemoves \/ AbandonDeletes
  BY <1>9, CodingAssumption DEF Cancel, AbandonCancels, AbandonRemoves, AbandonDeletes,
       CancelRead, codingVars, process, DownIsIdle
<1>10. CASE CrashTasks
  BY <1>10, CodingAssumption DEF CrashTasks, Crash, Anew, DownIsIdle, Working
<1> QED  BY <1>1, <1>2, <1>3, <1>4, <1>5, <1>6, <1>7, <1>8, <1>9, <1>10 DEF Next, CodingNext,
            ControllerTask, Workflow, EngineRun

LEMMA OrderKept ==
    ASSUME TypeOK, RunsInOrder, NEW f, Moved(f),
           manifest' \in {"none", "creating"} => manifest \in {"none", "creating"},
           \A q \in Runs : f[q] = "lost" => removed' \/ manifest' # "active",
           caller'.at = "engine" => caller' = caller, active' = active
    PROVE  RunsInOrder'
<1>1. active \in {0} \cup Runs
  BY CodingAssumption DEF TypeOK, CodingTypeOK, Runs
<1> QED  BY <1>1 DEF RunsInOrder, Moved

LEMMA Order_RunStarts ==
    ASSUME TypeOK, RunsInOrder, NEW r \in Runs, RunStarts(r)
    PROVE  RunsInOrder'
<1>1. Moved([q \in Runs |-> IF q = r THEN IF Leased THEN "active" ELSE "failed" ELSE run[q].state])
  BY StartMoves
<1> QED  BY <1>1, OrderKept DEF RunStarts, RunsInOrder, workspace, execution

LEMMA Order_CancelRun == ASSUME TypeOK, RunsInOrder, CancelRun PROVE RunsInOrder'
<1>1. Moved([q \in Runs |-> IF q = caller.run /\ run[q].state \notin Ended
                                    THEN "cancelled" ELSE run[q].state])
  BY CancelMoves
<1>2. caller'.at = "store"
  BY DEF CancelRun, TypeOK, CodingTypeOK
<1> QED  BY <1>1, <1>2, OrderKept DEF CancelRun, RunsInOrder, workspace, execution

LEMMA Order_RunEnds ==
    ASSUME TypeOK, RunsInOrder, NEW r \in Runs, RunEnds(r) \/ HeartbeatFails(r)
    PROVE  RunsInOrder'
<1>1. PICK s \in Ended : Moved([q \in Runs |-> IF q = r THEN s ELSE run[q].state])
  BY EndMoves
<1> QED  BY <1>1, OrderKept DEF RunEnds, HeartbeatFails, RunsInOrder, Ended, workspace, execution

LEMMA Order_Crash == ASSUME TypeOK, RunsInOrder, Crash PROVE RunsInOrder'
<1>1. Moved([q \in Runs |-> IF Working(q) THEN "queued" ELSE run[q].state])
  BY CrashMoves
<1> QED  BY <1>1, OrderKept DEF Crash, RunsInOrder, IdleCaller, workspace, execution

LEMMA Order_start == ASSUME TypeOK, RunsInOrder, start PROVE RunsInOrder'
<1>1. Moved([q \in Runs |-> Restored(q)])
  BY RestoreMoves
<1>2. ASSUME NEW q \in Runs, Restored(q) = "lost" PROVE removed' \/ manifest' # "active"
  BY <1>2 DEF Restored, start
<1> QED  BY <1>1, <1>2, OrderKept DEF start, recover_stale_leases, RunsInOrder, execution

LEMMA Order_SubmitTurn == ASSUME TypeOK, RunsInOrder, SubmitTurn PROVE RunsInOrder'
<1>0. UNCHANGED <<manifest, removed, caller, active>>
  BY DEF SubmitTurn, workspace, execution
<1>1. CASE UNCHANGED run
  BY <1>0, <1>1 DEF RunsInOrder
<1>2. CASE /\ Leased /\ turn' \in Runs
           /\ \A r \in Runs : run[r] = Nothing <=> r >= turn'
           /\ run'[turn'] = [bot |-> BotOf(phase), state |-> "queued"]
           /\ \A q \in Runs : q # turn' => run'[q] = run[q]
  <2>1. run'[turn'] # Nothing /\ run'[turn'].state = "queued"
    BY <1>2 DEF Nothing
  <2>2. turn' \in 0 .. MaxRuns /\ \A r \in Runs : run'[r] = Nothing <=> r > turn'
    BY <1>2, <2>1, CodingAssumption DEF Runs
  <2>3. \A r \in Runs : run[r] # Nothing => run'[r] # Nothing
    BY <1>2, <2>1
  <2>4. active \in {0} \cup Runs
    BY CodingAssumption DEF TypeOK, CodingTypeOK, Runs
  <2>5. \A r \in Runs : run'[r].state = "none" <=> run'[r] = Nothing
    BY <1>2, <2>1 DEF RunsInOrder
  <2>8. \A r \in Runs : run'[r].bot = "none" => run'[r] = Nothing
    BY <1>2, <2>1 DEF RunsInOrder, BotOf
  <2>6. \A r \in Runs : run'[r].state = "lost" => removed' \/ manifest' # "active"
    BY <1>0, <1>2, <2>1 DEF RunsInOrder
  <2>7. manifest' \notin {"none", "creating"}
    BY <1>0, <1>2 DEF Leased
  <2> QED BY <1>0, <2>2, <2>3, <2>4, <2>5, <2>6, <2>7, <2>8 DEF RunsInOrder
<1> QED BY <1>1, <1>2, SubmitMoves

LEMMA Order_CancelRead == ASSUME TypeOK, RunsInOrder, CancelRead PROVE RunsInOrder'
<1>1. UNCHANGED <<run, manifest, removed, active>>
  BY DEF CancelRead, workspace, execution
<1>2. caller'.at = "engine" => caller'.run \in Runs /\ run[caller'.run] # Nothing
  BY CodingAssumption DEF CancelRead, RunsInOrder, TypeOK, CodingTypeOK, Runs
<1> QED  BY <1>1, <1>2 DEF RunsInOrder

LEMMA Order_SealAsEnded ==
    ASSUME TypeOK, RunsInOrder, OutcomeIsTrue, SealAsEnded
    PROVE  RunsInOrder'
<1>1. UNCHANGED <<run, removed, active, caller>>
  BY DEF SealAsEnded, _finalize_if_active, finalize, workspace, execution
<1>2. outcome \in {"failed", "cancelled", "awaiting_handoff"}
  BY DEF OutcomeIsTrue, SealAsEnded, Step, TypeOK, CodingTypeOK
<1>3. manifest' = manifest \/ manifest' \in {"failed", "cancelled"}
  BY <1>2 DEF SealAsEnded, _finalize_if_active, finalize, workspace, execution
<1> QED  BY <1>1, <1>3 DEF RunsInOrder

LEMMA Order_set_active_run ==
    ASSUME TypeOK, RunsInOrder, TurnIsLast, set_active_run
    PROVE  RunsInOrder'
<1>1. UNCHANGED <<run, manifest, removed, caller>>
  BY DEF set_active_run, workspace
<1>2. active' = active \/ (active' = turn /\ run[turn] # Nothing)
  BY DEF set_active_run, Step, TurnIsLast, BotOf, Nothing
<1> QED  BY <1>1, <1>2 DEF RunsInOrder

LEMMA RunsInOrderStep ==
    ASSUME TypeOK, RunsInOrder, TurnIsLast, OutcomeIsTrue, Next
    PROVE  RunsInOrder'
<1>1. CASE (set_running \/ SetRunningFails \/ OpenWorkspace \/ CreateWorkspace) /\ UNCHANGED taskVars
  BY <1>1, CodingAssumption DEF set_running, SetRunningFails, OpenWorkspace, CreateWorkspace,
       workspace, execution, Reserve, Created, CreateFails, RunsInOrder
<1>2. CASE TimesOut /\ UNCHANGED taskVars
  BY <1>2, CodingAssumption DEF TimesOut, Ends, NoFault, workspace, execution, RunsInOrder
<1>3. CASE Interrupted /\ UNCHANGED taskVars
  BY <1>3, CodingAssumption DEF Interrupted, workspace, execution, RunsInOrder
<1>4. CASE SubmitTurn
  BY <1>4, Order_SubmitTurn
<1>5. CASE set_active_run
  BY <1>5, Order_set_active_run
<1>6. CASE (TurnOver \/ ListChanges) /\ UNCHANGED taskVars
  BY <1>6, CodingAssumption DEF TurnOver, ListChanges, NoFault, workspace, execution, history,
       Leased, enumerate_artifacts, RunsInOrder
<1>7. CASE (Check \/ Look) /\ UNCHANGED taskVars
  BY <1>7, CodingAssumption DEF Check, Look, workspace, execution, RunsInOrder
<1>8. CASE Verdict /\ UNCHANGED taskVars
  BY <1>8, CodingAssumption DEF Verdict, workspace, execution, RunsInOrder
<1>9. CASE Sealed /\ UNCHANGED taskVars
  BY <1>9, CodingAssumption DEF Sealed, workspace, execution, RunsInOrder
<1>10. CASE SealAsEnded
  BY <1>10, Order_SealAsEnded
<1>11. CASE SealRaises /\ UNCHANGED taskVars
  BY <1>11, CodingAssumption DEF SealRaises, workspace, execution, RunsInOrder
<1>12. CASE Finishes /\ UNCHANGED taskVars
  BY <1>12, CodingAssumption DEF Finishes, _done, finish, NoFault, Step, Fault, execution,
       workspace, history, Anew, Recoverable, process, RunsInOrder
<1>13. CASE Salvage /\ UNCHANGED taskVars
  BY <1>13, CodingAssumption DEF Salvage, _finalize_if_active, execution, finalize, workspace,
       RunsInOrder
<1>14. CASE Fails /\ UNCHANGED taskVars
  BY <1>14, CodingAssumption DEF Fails, finish, execution, workspace, RunsInOrder
<1>15. CASE (SealingThread \/ SealingRefused) /\ UNCHANGED taskVars
  BY <1>15, CodingAssumption DEF SealingThread, SealingRefused, enumerate_artifacts, Seal,
       workspace, execution, RunsInOrder
<1>16. CASE approve /\ UNCHANGED taskVars
  BY <1>16, CodingAssumption DEF approve, workspace, RunsInOrder
<1>17. CASE CancelRun
  BY <1>17, Order_CancelRun
<1>18. CASE CancelStore /\ UNCHANGED taskVars
  BY <1>18, CodingAssumption DEF CancelStore, IdleCaller, execution, workspace, RunsInOrder
<1>19. CASE LeaseExpires /\ UNCHANGED taskVars
  BY <1>19, CodingAssumption DEF LeaseExpires, Expires, execution, RunsInOrder
<1>20. ASSUME NEW r \in Runs, RunStarts(r) PROVE RunsInOrder'
  BY <1>20, Order_RunStarts
<1>21. ASSUME NEW r \in Runs, AgentEdits(r), UNCHANGED taskVars PROVE RunsInOrder'
  BY <1>21, CodingAssumption DEF AgentEdits, execution, RunsInOrder
<1>22. ASSUME NEW r \in Runs, RunEnds(r) \/ HeartbeatFails(r) PROVE RunsInOrder'
  BY <1>22, Order_RunEnds
<1>23. CASE start
  BY <1>23, Order_start
<1>24. CASE create_task_branch \/ CreateSubmits
  BY <1>24, CodingAssumption DEF create_task_branch, CreateSubmits, workspace, execution,
       submit, RunsInOrder
<1>25. CASE CreateRefused
  BY <1>25, CodingAssumption DEF CreateRefused, workspace, execution, task, history, RunsInOrder
<1>26. CASE CreateLost
  BY <1>26, CodingAssumption DEF CreateLost, workspace, RunsInOrder
<1>27. CASE Resubmit
  BY <1>27, CodingAssumption DEF Resubmit, submit, taskVars, workspace, process, RunsInOrder
<1>28. CASE MergeCalled \/ commit_worktree
  BY <1>28, CodingAssumption DEF MergeCalled, commit_worktree, codingVars, workspace,
       execution, RunsInOrder
<1>29. CASE push_to_branch
  BY <1>29, CodingAssumption DEF push_to_branch, workspace, execution, RunsInOrder
<1>30. CASE merge_task_branch \/ MergeRefused
  BY <1>30, CodingAssumption DEF merge_task_branch, MergeRefused, workspace, execution,
       RunsInOrder
<1>31. CASE Cancel
  BY <1>31, Order_CancelRead DEF Cancel
<1>32. CASE AbandonCancels
  BY <1>32, Order_CancelRead DEF AbandonCancels, codingVars, workspace, execution, RunsInOrder
<1>33. CASE AbandonRemoves
  BY <1>33, CodingAssumption DEF AbandonRemoves, execution, RunsInOrder
<1>34. CASE AbandonDeletes
  BY <1>34, CodingAssumption DEF AbandonDeletes, workspace, execution, task, process, history,
       RunsInOrder
<1>35. CASE CrashTasks
  BY <1>35, Order_Crash DEF CrashTasks
<1> QED  BY <1>1, <1>2, <1>3, <1>4, <1>5, <1>6, <1>7, <1>8, <1>9, <1>10, <1>11, <1>12, <1>13,
            <1>14, <1>15, <1>16, <1>17, <1>18, <1>19, <1>20, <1>21, <1>22, <1>23, <1>24,
            <1>25, <1>26, <1>27, <1>28, <1>29, <1>30, <1>31, <1>32, <1>33, <1>34, <1>35 DEF
            Next, CodingNext, ControllerTask, Workflow, EngineRun

LEMMA OneAtATime_RunStarts ==
    ASSUME TypeOK, RunsInOrder, OneAtATime, NEW r \in Runs, RunStarts(r)
    PROVE  OneAtATime'
<1>1. Moved([q \in Runs |-> IF q = r THEN IF Leased THEN "active" ELSE "failed" ELSE run[q].state])
  BY StartMoves
<1> QED  BY <1>1, CodingAssumption DEF Moved, RunStarts, OneAtATime, Quiet, Ended, Runs

LEMMA OneAtATime_CancelRun == ASSUME TypeOK, RunsInOrder, OneAtATime, CancelRun PROVE OneAtATime'
<1>1. Moved([q \in Runs |-> IF q = caller.run /\ run[q].state \notin Ended
                                    THEN "cancelled" ELSE run[q].state])
  BY CancelMoves
<1> QED  BY <1>1 DEF Moved, OneAtATime, Quiet, Ended

LEMMA OneAtATime_RunEnds ==
    ASSUME TypeOK, RunsInOrder, OneAtATime, NEW r \in Runs, RunEnds(r) \/ HeartbeatFails(r)
    PROVE  OneAtATime'
<1>1. PICK s \in Ended : Moved([q \in Runs |-> IF q = r THEN s ELSE run[q].state])
  BY EndMoves
<1>2. Working(r)
  BY DEF RunEnds, HeartbeatFails, Working
<1> QED  BY <1>1, <1>2 DEF Moved, OneAtATime, Quiet, Ended, Working

LEMMA OneAtATime_Crash == ASSUME TypeOK, RunsInOrder, OneAtATime, Crash PROVE OneAtATime'
<1>1. Moved([q \in Runs |-> IF Working(q) THEN "queued" ELSE run[q].state])
  BY CrashMoves
<1> QED  BY <1>1 DEF Moved, OneAtATime, Quiet, Ended, Working

LEMMA OneAtATime_start ==
    ASSUME TypeOK, RunsInOrder, OneAtATime, DownIsIdle, start
    PROVE  OneAtATime'
<1>1. Moved([q \in Runs |-> Restored(q)])
  BY RestoreMoves
<1>2. \A q \in Runs : run[q].state # "active"
  BY DEF start, DownIsIdle, Working
<1>3. ASSUME NEW q \in Runs, run[q].state = "lost" PROVE Restored(q) \in Ended \cup {"lost"}
  BY <1>3 DEF Restored, RunsInOrder, start, recover_stale_leases, FINAL_STATES, Ended
<1>4. ASSUME NEW q \in Runs, Quiet(q) PROVE Quiet(q)'
  BY <1>1, <1>3, <1>4 DEF Moved, Quiet, Restored, Ended
<1>5. ASSUME NEW q \in Runs, NEW p \in Runs, run[q].state # "complete", run'[q].state \in {"active", "complete"}
      PROVE  Quiet(p)'
  <2>1. ~removed /\ manifest' = "completed"
    BY <1>1, <1>2, <1>5 DEF Moved, Restored, FINAL_STATES
  <2> QED BY <1>1, <1>2, <2>1 DEF Moved, Quiet, Restored, Ended, FINAL_STATES, TypeOK,
             CodingTypeOK, RunState
<1> QED  BY <1>1, <1>4, <1>5 DEF Moved, OneAtATime

LEMMA OneAtATime_SubmitTurn ==
    ASSUME TypeOK, RunsInOrder, OneAtATime, SubmitTurn
    PROVE  OneAtATime'
<1>1. CASE UNCHANGED run
  BY <1>1 DEF OneAtATime, Quiet
<1>2. CASE /\ turn' \in Runs
           /\ \A r \in Runs : run[r] = Nothing <=> r >= turn'
           /\ run'[turn'] = [bot |-> BotOf(phase), state |-> "queued"]
           /\ \A q \in Runs : q # turn' => run'[q] = run[q]
  <2>1. \A q \in Runs : q > turn' => run'[q] = Nothing
    <3>1. SUFFICES ASSUME NEW q \in Runs, q > turn' PROVE run'[q] = Nothing
      OBVIOUS
    <3>2. q >= turn' /\ q # turn'
      BY <1>2, <3>1, CodingAssumption DEF Runs
    <3> QED BY <1>2, <3>2, <3>1
  <2> SUFFICES ASSUME NEW r \in Runs, NEW q \in Runs, r < q, run'[r].bot = run'[q].bot,
                      run'[q].state \in {"active", "complete"}
       PROVE Quiet(r)'
       BY DEF OneAtATime
  <2>2. q # turn' /\ run'[q] = run[q] /\ run[q] # Nothing
     BY <1>2 DEF Nothing
  <2>3. r # turn' /\ run'[r] = run[r]
     BY <1>2, <2>2, CodingAssumption DEF Runs
  <2> QED BY <2>2, <2>3 DEF OneAtATime, Quiet
<1> QED BY <1>1, <1>2, SubmitMoves

LEMMA OneAtATimeStep ==
    ASSUME TypeOK, RunsInOrder, DownIsIdle, OneAtATime, Next
    PROVE  OneAtATime'
<1>1. CASE set_running \/ SetRunningFails \/ OpenWorkspace \/ CreateWorkspace
  BY <1>1, CodingAssumption DEF set_running, SetRunningFails, OpenWorkspace, CreateWorkspace,
       OneAtATime, Quiet
<1>2. CASE TimesOut \/ Interrupted \/ set_active_run \/ TurnOver \/ ListChanges \/ Check
           \/ Look \/ Verdict \/ Sealed
  BY <1>2, CodingAssumption DEF TimesOut, Interrupted, set_active_run, TurnOver, ListChanges,
       Check, Look, Verdict, Sealed, OneAtATime, Quiet
<1>3. CASE SubmitTurn
  BY <1>3, OneAtATime_SubmitTurn
<1>4. CASE SealAsEnded \/ SealRaises \/ Finishes \/ Salvage \/ Fails
  BY <1>4, CodingAssumption DEF SealAsEnded, SealRaises, Finishes, Salvage, Fails, OneAtATime,
       Quiet
<1>5. CASE SealingThread \/ SealingRefused \/ approve \/ CancelStore \/ LeaseExpires
  BY <1>5, CodingAssumption DEF SealingThread, SealingRefused, approve, CancelStore,
       LeaseExpires, OneAtATime, Quiet
<1>6. CASE CancelRun
  BY <1>6, OneAtATime_CancelRun
<1>7. ASSUME NEW r \in Runs, RunStarts(r) PROVE OneAtATime'
  BY <1>7, OneAtATime_RunStarts
<1>8. ASSUME NEW r \in Runs, AgentEdits(r) PROVE OneAtATime'
  BY <1>8, CodingAssumption DEF AgentEdits, OneAtATime, Quiet
<1>9. ASSUME NEW r \in Runs, RunEnds(r) \/ HeartbeatFails(r) PROVE OneAtATime'
  BY <1>9, OneAtATime_RunEnds
<1>10. CASE start
  BY <1>10, OneAtATime_start
<1>11. CASE create_task_branch \/ CreateSubmits \/ CreateRefused \/ CreateLost \/ Resubmit
  BY <1>11, CodingAssumption DEF create_task_branch, CreateSubmits, CreateRefused, CreateLost,
       Resubmit, submit, OneAtATime, Quiet
<1>12. CASE MergeCalled \/ commit_worktree \/ push_to_branch \/ merge_task_branch
           \/ MergeRefused
  BY <1>12, CodingAssumption DEF MergeCalled, commit_worktree, push_to_branch,
       merge_task_branch, MergeRefused, codingVars, OneAtATime, Quiet
<1>13. CASE Cancel \/ AbandonCancels \/ AbandonRemoves \/ AbandonDeletes
  BY <1>13, CodingAssumption DEF Cancel, AbandonCancels, AbandonRemoves, AbandonDeletes,
       CancelRead, codingVars, OneAtATime, Quiet
<1>14. CASE CrashTasks
  BY <1>14, OneAtATime_Crash DEF CrashTasks
<1> QED  BY <1>1, <1>2, <1>3, <1>4, <1>5, <1>6, <1>7, <1>8, <1>9, <1>10, <1>11, <1>12, <1>13,
    <1>14
      DEF Next, CodingNext, ControllerTask, Workflow, EngineRun

LEMMA TurnStays ==
    ASSUME TurnIsLast, NEW f, Moved(f), UNCHANGED <<pc, turn, phase>>
    PROVE  TurnIsLast'
  BY DEF TurnIsLast, Moved

LEMMA Turn_RunStarts ==
    ASSUME TypeOK, RunsInOrder, TurnIsLast, NEW r \in Runs, RunStarts(r)
    PROVE  TurnIsLast'
  BY StartMoves, TurnStays DEF RunStarts, task

LEMMA Turn_RunEnds ==
    ASSUME TypeOK, RunsInOrder, TurnIsLast, NEW r \in Runs, RunEnds(r) \/ HeartbeatFails(r)
    PROVE  TurnIsLast'
  BY EndMoves, TurnStays DEF RunEnds, HeartbeatFails, task

LEMMA Turn_CancelRun == ASSUME TypeOK, RunsInOrder, TurnIsLast, CancelRun PROVE TurnIsLast'
  BY CancelMoves, TurnStays DEF CancelRun, task

LEMMA Turn_SubmitTurn == ASSUME TypeOK, RunsInOrder, TurnIsLast, SubmitTurn PROVE TurnIsLast'
<1>1. CASE Ends("failed")
  BY <1>1 DEF Ends, TurnIsLast
<1>2. CASE /\ turn' \in Runs /\ pc' = "attach" /\ UNCHANGED phase
           /\ \A r \in Runs : run[r] = Nothing <=> r >= turn'
           /\ run'[turn'] = [bot |-> BotOf(phase), state |-> "queued"]
           /\ \A q \in Runs : q # turn' => run'[q] = run[q]
  <2>1. \A r \in Runs : r > turn' => r >= turn' /\ r # turn'
    BY <1>2, CodingAssumption DEF Runs
  <2>2. \A r \in Runs : r > turn' => run'[r] = Nothing
    BY <1>2, <2>1
  <2>3. BotOf(phase)' = BotOf(phase)
    BY <1>2 DEF BotOf
  <2> QED  BY <1>2, <2>2, <2>3 DEF TurnIsLast
<1> QED  BY <1>1, <1>2, SubmitMoves

LEMMA TurnIsLastStep ==
    ASSUME TypeOK, RunsInOrder, DownIsIdle, TurnIsLast, Next
    PROVE  TurnIsLast'
<1>1. CASE set_running \/ SetRunningFails \/ OpenWorkspace \/ CreateWorkspace
  BY <1>1, CodingAssumption DEF set_running, SetRunningFails, OpenWorkspace, CreateWorkspace,
       Step, _done, Anew, TurnIsLast
<1>2. CASE TimesOut \/ Interrupted \/ set_active_run \/ TurnOver \/ ListChanges \/ Check
           \/ Look \/ Verdict \/ Sealed
  BY <1>2, CodingAssumption DEF TimesOut, Interrupted, set_active_run, TurnOver, ListChanges,
       Check, Look, Verdict, Sealed, Ends, Step, RepairOrFail, TurnIsLast
<1>3. CASE SubmitTurn
  BY <1>3, Turn_SubmitTurn
<1>4. CASE SealAsEnded \/ SealRaises \/ Finishes \/ Salvage \/ Fails
  BY <1>4, CodingAssumption DEF SealAsEnded, SealRaises, Finishes, Salvage, Fails, Step,
       _done, Anew, TurnIsLast
<1>5. CASE SealingThread \/ SealingRefused \/ approve \/ CancelStore \/ LeaseExpires
  BY <1>5, CodingAssumption DEF SealingThread, SealingRefused, approve, CancelStore,
       LeaseExpires, task, TurnIsLast
<1>6. CASE CancelRun
  BY <1>6, Turn_CancelRun
<1>7. ASSUME NEW r \in Runs, RunStarts(r) PROVE TurnIsLast'
  BY <1>7, Turn_RunStarts
<1>8. ASSUME NEW r \in Runs, AgentEdits(r) PROVE TurnIsLast'
  BY <1>8, CodingAssumption DEF AgentEdits, task, TurnIsLast
<1>9. ASSUME NEW r \in Runs, RunEnds(r) \/ HeartbeatFails(r) PROVE TurnIsLast'
  BY <1>9, Turn_RunEnds
<1>10. CASE start
  BY <1>10, CodingAssumption DEF start, Launch, task, Anew, TurnIsLast, DownIsIdle
<1>11. CASE create_task_branch \/ CreateSubmits \/ CreateRefused \/ CreateLost \/ Resubmit
  BY <1>11, CodingAssumption DEF create_task_branch, CreateSubmits, CreateRefused, CreateLost,
       Resubmit, task, submit, Launch, Anew, TurnIsLast
<1>12. CASE MergeCalled \/ commit_worktree \/ push_to_branch \/ merge_task_branch
           \/ MergeRefused
  BY <1>12, CodingAssumption DEF MergeCalled, commit_worktree, push_to_branch,
       merge_task_branch, MergeRefused, codingVars, task, TurnIsLast
<1>13. CASE Cancel \/ AbandonCancels \/ AbandonRemoves \/ AbandonDeletes
  BY <1>13, CodingAssumption DEF Cancel, AbandonCancels, AbandonRemoves, AbandonDeletes,
       CancelRead, codingVars, task, TurnIsLast
<1>14. CASE CrashTasks
  BY <1>14, CodingAssumption DEF CrashTasks, Crash, Anew, TurnIsLast
<1> QED  BY <1>1, <1>2, <1>3, <1>4, <1>5, <1>6, <1>7, <1>8, <1>9, <1>10, <1>11, <1>12, <1>13,
    <1>14
      DEF Next, CodingNext, ControllerTask, Workflow, EngineRun

LEMMA Rest_RunStarts ==
    ASSUME TypeOK, RunsInOrder, AgentsRest, OneAtATime, NEW r \in Runs, RunStarts(r)
    PROVE  AgentsRest'
<1>1. Moved([q \in Runs |-> IF q = r THEN IF Leased THEN "active" ELSE "failed" ELSE run[q].state])
  BY StartMoves
<1>2. ~Quiet(r) /\ UNCHANGED <<pc, phase>>
  BY DEF RunStarts, Quiet, Ended, task
<1> QED BY <1>1, <1>2 DEF AgentsRest, Rests, Reviewing, Moved, Quiet

LEMMA Rest_RunEnds ==
    ASSUME TypeOK, RunsInOrder, AgentsRest, NEW r \in Runs, RunEnds(r) \/ HeartbeatFails(r)
    PROVE  AgentsRest'
<1>1. PICK s \in Ended : Moved([q \in Runs |-> IF q = r THEN s ELSE run[q].state])
  BY EndMoves
<1>2. UNCHANGED <<pc, phase>>
  BY DEF RunEnds, HeartbeatFails, task
<1> QED BY <1>1, <1>2 DEF AgentsRest, Rests, Reviewing, Moved, Quiet

LEMMA Rest_CancelRun == ASSUME TypeOK, RunsInOrder, AgentsRest, CancelRun PROVE AgentsRest'
<1>1. Moved([q \in Runs |-> IF q = caller.run /\ run[q].state \notin Ended
                                    THEN "cancelled" ELSE run[q].state])
  BY CancelMoves
<1>2. UNCHANGED <<pc, phase>>
  BY DEF CancelRun, task
<1> QED BY <1>1, <1>2 DEF AgentsRest, Rests, Reviewing, Moved, Quiet, Ended

LEMMA Rest_SubmitTurn == ASSUME TypeOK, RunsInOrder, AgentsRest, SubmitTurn PROVE AgentsRest'
<1>1. CASE Ends("failed")
  BY <1>1 DEF Ends, AgentsRest, Reviewing
<1>2. CASE /\ turn' \in Runs /\ pc' = "attach" /\ UNCHANGED phase
           /\ run'[turn'] = [bot |-> BotOf(phase), state |-> "queued"]
           /\ \A q \in Runs : q # turn' => run'[q] = run[q]
  <2>1. ASSUME Reviewing' PROVE Rests("builder")'
    <3>1. Rests("builder") /\ run'[turn'].bot = "reviewer"
      BY <1>2, <2>1 DEF AgentsRest, Reviewing, SubmitTurn, BotOf
    <3> QED  BY <1>2, <3>1 DEF Rests, Quiet
  <2> QED  BY <1>2, <2>1 DEF AgentsRest
<1> QED  BY <1>1, <1>2, SubmitMoves

LEMMA Rest_TurnOver ==
    ASSUME TypeOK, RunsInOrder, OneAtATime, TurnIsLast, AgentsRest, TurnOver
    PROVE  AgentsRest'
<1>1. UNCHANGED run
  BY DEF TurnOver
<1>2. CASE Ends("failed")
  BY <1>2 DEF Ends, AgentsRest, Reviewing
<1>3. CASE run[turn].state = "complete" /\ pc' = (IF phase = "review" THEN "verdict" ELSE "list") /\ UNCHANGED phase
  <2>1. /\ turn \in Runs /\ run[turn].bot = BotOf(phase)
        /\ \A r \in Runs : r > turn => run[r] = Nothing
    BY DEF TurnOver, TurnIsLast
  <2>2. ASSUME NEW r \in Runs, run[r].bot = BotOf(phase) PROVE Quiet(r)
    <3>1. CASE r < turn
      BY <1>3, <2>1, <2>2, <3>1 DEF OneAtATime
    <3>2. CASE r = turn
      BY <1>3, <3>2 DEF Quiet, Ended
    <3>3. CASE r > turn
      BY <2>1, <3>3 DEF Quiet, Nothing
    <3> QED  BY <2>1, <3>1, <3>2, <3>3, CodingAssumption DEF Runs
  <2>3. Rests(BotOf(phase))'
    BY <1>1, <1>3, <2>2 DEF Rests, Quiet, BotOf
  <2>4. CASE phase = "review"
    <3>1. Rests("builder")
      BY <2>4 DEF AgentsRest, Reviewing, TurnOver
    <3> QED  BY <1>1, <1>3, <2>3, <2>4, <3>1 DEF AgentsRest, Rests, Quiet, BotOf
  <2>5. CASE phase # "review"
    BY <1>3, <2>3, <2>5 DEF AgentsRest, Reviewing, BotOf
  <2> QED  BY <2>4, <2>5
<1> QED  BY <1>2, <1>3 DEF TurnOver

LEMMA AgentsRestStep ==
    ASSUME TypeOK, RunsInOrder, DownIsIdle, OneAtATime, TurnIsLast, AgentsRest, Next
    PROVE  AgentsRest'
<1>1. CASE set_running \/ SetRunningFails \/ OpenWorkspace \/ CreateWorkspace
  BY <1>1, CodingAssumption DEF set_running, SetRunningFails, OpenWorkspace, CreateWorkspace,
       Step, _done, Anew, AgentsRest, Reviewing
<1>2. CASE TimesOut \/ Interrupted \/ set_active_run \/ ListChanges \/ Check \/ Look
           \/ Verdict \/ Sealed
  BY <1>2, CodingAssumption DEF TimesOut, Interrupted, set_active_run, ListChanges, Check,
       Look, Verdict, Sealed, Ends, Step, RepairOrFail, AgentsRest, Reviewing, Rests, Quiet
<1>3. CASE SubmitTurn
  BY <1>3, Rest_SubmitTurn
<1>4. CASE TurnOver
  BY <1>4, Rest_TurnOver
<1>5. CASE SealAsEnded \/ SealRaises \/ Finishes \/ Salvage \/ Fails
  BY <1>5, CodingAssumption DEF SealAsEnded, SealRaises, Finishes, Salvage, Fails, Step,
       _done, Anew, AgentsRest, Reviewing
<1>6. CASE SealingThread \/ SealingRefused \/ approve \/ CancelStore \/ LeaseExpires
  BY <1>6, CodingAssumption DEF SealingThread, SealingRefused, approve, CancelStore,
       LeaseExpires, task, AgentsRest, Reviewing, Rests, Quiet
<1>7. CASE CancelRun
  BY <1>7, Rest_CancelRun
<1>8. ASSUME NEW r \in Runs, RunStarts(r) PROVE AgentsRest'
  BY <1>8, Rest_RunStarts
<1>9. ASSUME NEW r \in Runs, AgentEdits(r) PROVE AgentsRest'
  BY <1>9, CodingAssumption DEF AgentEdits, task, AgentsRest, Reviewing, Rests, Quiet
<1>10. ASSUME NEW r \in Runs, RunEnds(r) \/ HeartbeatFails(r) PROVE AgentsRest'
  BY <1>10, Rest_RunEnds
<1>11. CASE start
  BY <1>11, CodingAssumption DEF start, Launch, task, Anew, AgentsRest, DownIsIdle, Reviewing
<1>12. CASE create_task_branch \/ CreateSubmits \/ CreateRefused \/ CreateLost \/ Resubmit
  BY <1>12, CodingAssumption DEF create_task_branch, CreateSubmits, CreateRefused, CreateLost,
       Resubmit, task, submit, Launch, Anew, AgentsRest, Reviewing, Rests, Quiet
<1>13. CASE MergeCalled \/ commit_worktree \/ push_to_branch \/ merge_task_branch
           \/ MergeRefused
  BY <1>13, CodingAssumption DEF MergeCalled, commit_worktree, push_to_branch,
       merge_task_branch, MergeRefused, codingVars, task, AgentsRest, Reviewing, Rests, Quiet
<1>14. CASE Cancel \/ AbandonCancels \/ AbandonRemoves \/ AbandonDeletes
  BY <1>14, CodingAssumption DEF Cancel, AbandonCancels, AbandonRemoves, AbandonDeletes,
       CancelRead, codingVars, task, AgentsRest, Reviewing, Rests, Quiet
<1>15. CASE CrashTasks
  BY <1>15, CodingAssumption DEF CrashTasks, Crash, Anew, AgentsRest, Reviewing
<1> QED  BY <1>1, <1>2, <1>3, <1>4, <1>5, <1>6, <1>7, <1>8, <1>9, <1>10, <1>11, <1>12, <1>13,
            <1>14,
         <1>15
      DEF Next, CodingNext, ControllerTask, Workflow, EngineRun

LEMMA ReviewsCheckedStep ==
    ASSUME AgentsRest, ReviewsChecked, Next
    PROVE  ReviewsChecked'
<1>1. CASE set_running \/ SetRunningFails \/ OpenWorkspace \/ CreateWorkspace
  BY <1>1, CodingAssumption DEF set_running, SetRunningFails, OpenWorkspace, CreateWorkspace,
       Step, _done, Anew, ReviewsChecked, AgentsRest, Reviewing
<1>2. CASE TimesOut \/ Interrupted \/ SubmitTurn \/ set_active_run \/ TurnOver
           \/ ListChanges \/ Check \/ Look \/ Verdict \/ Sealed
  BY <1>2, CodingAssumption DEF TimesOut, Interrupted, SubmitTurn, set_active_run, TurnOver,
       ListChanges, Check, Look, Verdict, Sealed, Ends, workspace, history, Step,
       RepairOrFail, ReviewsChecked, Reviewing
<1>3. CASE SealAsEnded \/ SealRaises \/ Finishes \/ Salvage \/ Fails
  BY <1>3, CodingAssumption DEF SealAsEnded, SealRaises, Finishes, Salvage, Fails, Step,
       _done, Anew, ReviewsChecked, Reviewing
<1>4. CASE SealingThread \/ SealingRefused \/ approve \/ CancelRun \/ CancelStore
           \/ LeaseExpires
  BY <1>4, CodingAssumption DEF SealingThread, SealingRefused, approve, CancelRun,
       CancelStore, LeaseExpires, enumerate_artifacts, Seal, workspace, task, history,
       Expires, ReviewsChecked, Reviewing
<1>5. ASSUME NEW r \in Runs, RunStarts(r) \/ AgentEdits(r) \/ RunEnds(r) \/ HeartbeatFails(r)
      PROVE  ReviewsChecked'
  BY <1>5, CodingAssumption DEF RunStarts, AgentEdits, RunEnds, HeartbeatFails, workspace,
       task, history, Awaited, ReviewsChecked, Reviewing
<1>6. CASE start
  BY <1>6, CodingAssumption DEF start, Launch, task, Anew, ReviewsChecked, Reviewing
<1>7. CASE create_task_branch \/ CreateSubmits \/ CreateRefused \/ CreateLost \/ Resubmit
  BY <1>7, CodingAssumption DEF create_task_branch, CreateSubmits, CreateRefused, CreateLost,
       Resubmit, workspace, task, history, submit, Launch, Anew, ReviewsChecked, Reviewing
<1>8. CASE MergeCalled \/ commit_worktree \/ push_to_branch \/ merge_task_branch
           \/ MergeRefused
  BY <1>8, CodingAssumption DEF MergeCalled, commit_worktree, push_to_branch,
       merge_task_branch, MergeRefused, codingVars, workspace, task, history, ReviewsChecked,
       Reviewing
<1>9. CASE Cancel \/ AbandonCancels \/ AbandonRemoves \/ AbandonDeletes
  BY <1>9, CodingAssumption DEF Cancel, AbandonCancels, AbandonRemoves, AbandonDeletes,
       CancelRead, codingVars, task, history, workspace, ReviewsChecked, Reviewing
<1>10. CASE CrashTasks
  BY <1>10, CodingAssumption DEF CrashTasks, Crash, Anew, ReviewsChecked, Reviewing
<1> QED  BY <1>1, <1>2, <1>3, <1>4, <1>5, <1>6, <1>7, <1>8, <1>9, <1>10 DEF Next, CodingNext,
            ControllerTask, Workflow, EngineRun

LEMMA BotsRest ==
    ASSUME TypeOK, RunsInOrder, Rests("builder"), Rests("reviewer")
    PROVE  \A r \in Runs : ~Working(r)
<1> SUFFICES ASSUME NEW r \in Runs, Working(r) PROVE FALSE
  OBVIOUS
<1>1. run[r].bot \in {"none", "builder", "reviewer"} /\ run[r] # Nothing
  BY Typed DEF Values, RunRow, RunsInOrder, Working
<1> QED BY <1>1 DEF Rests, Quiet, Working, Ended, RunsInOrder

LEMMA Seals_AgentEdits ==
    ASSUME TypeOK, RunsInOrder, AgentsRest, SealsApproved, NEW r \in Runs, AgentEdits(r)
    PROVE  SealsApproved'
<1>2. pc # "artifact"
  BY BotsRest DEF AgentEdits, AgentsRest, Working
<1> QED BY <1>2 DEF SealsApproved, AgentEdits, task

LEMMA Seals_Verdict ==
    ASSUME AgentsRest, ReviewsChecked, SealsApproved, Verdict
    PROVE  SealsApproved'
<1>1. CASE pc' # "artifact"
  BY <1>1 DEF SealsApproved
<1>2. CASE pc' = "artifact"
  <2>1. pc = "verdict" /\ Untouched /\ sealing' = "list" /\ approved' = tree
        /\ UNCHANGED <<checked, stray, tree>>
    BY <1>2 DEF Verdict, RepairOrFail, Ends, workspace
  <2>2. before = checked \/ stray
    BY <2>1 DEF AgentsRest, ReviewsChecked, Reviewing
  <2> QED  BY <2>1, <2>2 DEF Untouched, SealsApproved
<1> QED  BY <1>1, <1>2

LEMMA SealsApprovedStep ==
    ASSUME TypeOK, RunsInOrder, AgentsRest, ReviewsChecked, DownIsIdle, SealsApproved, Next
    PROVE  SealsApproved'
<1>1. CASE set_running \/ SetRunningFails \/ OpenWorkspace \/ CreateWorkspace
  BY <1>1, CodingAssumption DEF set_running, SetRunningFails, OpenWorkspace, CreateWorkspace,
       Step, _done, Anew, SealsApproved
<1>2. CASE TimesOut \/ Interrupted \/ SubmitTurn \/ set_active_run \/ TurnOver
  BY <1>2, CodingAssumption DEF TimesOut, Interrupted, SubmitTurn, set_active_run, TurnOver,
       Ends, Step, SealsApproved
<1>3. CASE ListChanges \/ Check
  BY <1>3, CodingAssumption DEF ListChanges, Check, Step, Ends, RepairOrFail, SealsApproved
<1>4. CASE Look
  BY <1>4, CodingAssumption DEF Look, SealsApproved
<1>5. CASE Verdict
  BY <1>5, Seals_Verdict
<1>6. CASE Sealed
  BY <1>6, CodingAssumption DEF Sealed, Ends, SealsApproved
<1>7. CASE SealAsEnded \/ SealRaises \/ Finishes \/ Salvage \/ Fails
  BY <1>7, CodingAssumption DEF SealAsEnded, SealRaises, Finishes, Salvage, Fails, Step,
       _done, Anew, SealsApproved
<1>8. CASE SealingThread \/ SealingRefused \/ approve \/ CancelRun \/ CancelStore
           \/ LeaseExpires
  BY <1>8, CodingAssumption DEF SealingThread, SealingRefused, approve, CancelRun,
       CancelStore, LeaseExpires, enumerate_artifacts, Seal, workspace, task, history,
       Expires, SealsApproved
<1>9. ASSUME NEW r \in Runs, RunStarts(r) \/ RunEnds(r) \/ HeartbeatFails(r) PROVE SealsApproved'
  BY <1>9, CodingAssumption DEF RunStarts, RunEnds, HeartbeatFails, workspace, task, history,
       SealsApproved
<1>10. ASSUME NEW r \in Runs, AgentEdits(r) PROVE SealsApproved'
  BY <1>10, Seals_AgentEdits
<1>11. CASE start
  BY <1>11, CodingAssumption DEF start, recover_stale_leases, Launch, task, Anew, SealsApproved
<1>12. CASE create_task_branch \/ CreateSubmits \/ CreateRefused \/ CreateLost \/ Resubmit
  BY <1>12, CodingAssumption DEF create_task_branch, CreateSubmits, CreateRefused, CreateLost,
       Resubmit, workspace, task, history, submit, Launch, Anew, SealsApproved
<1>13. CASE MergeCalled \/ commit_worktree \/ push_to_branch \/ merge_task_branch
           \/ MergeRefused
  BY <1>13, CodingAssumption DEF MergeCalled, commit_worktree, push_to_branch,
       merge_task_branch, MergeRefused, codingVars, workspace, task, history, SealsApproved
<1>14. CASE Cancel \/ AbandonCancels \/ AbandonRemoves \/ AbandonDeletes
  BY <1>14, CodingAssumption DEF Cancel, AbandonCancels, AbandonRemoves, AbandonDeletes,
       CancelRead, codingVars, task, history, workspace, SealsApproved
<1>15. CASE CrashTasks
  BY <1>15, CodingAssumption DEF CrashTasks, Crash, Anew, SealsApproved
<1> QED  BY <1>1, <1>2, <1>3, <1>4, <1>5, <1>6, <1>7, <1>8, <1>9, <1>10, <1>11, <1>12, <1>13,
            <1>14,
         <1>15
      DEF Next, CodingNext, ControllerTask, Workflow, EngineRun

LEMMA Outcome_Sealed ==
    ASSUME TypeOK, RunsInOrder, AgentsRest, OutcomeIsTrue, SealsApproved, Sealed
    PROVE  OutcomeIsTrue'
<1>1. \A r \in Runs : ~Working(r)
  BY BotsRest DEF Sealed, AgentsRest
<1>2. UNCHANGED <<workspace, run, approved, checked, stray>>
  BY DEF Sealed, history
<1>3. CASE sealing = "done"
  BY <1>1, <1>2, <1>3 DEF Sealed, OutcomeIsTrue, SealsApproved, HandedOff, Working, Ends,
       workspace
<1>4. CASE sealing # "done"
  BY <1>4 DEF Sealed, OutcomeIsTrue, Ends
<1> QED BY <1>3, <1>4

LEMMA OutcomeIsTrueStep ==
    ASSUME TypeOK, RunsInOrder, AgentsRest, SealsApproved, DownIsIdle, OutcomeIsTrue, Next
    PROVE  OutcomeIsTrue'
<1>1. CASE set_running \/ SetRunningFails \/ OpenWorkspace \/ CreateWorkspace
  BY <1>1, CodingAssumption DEF set_running, SetRunningFails, OpenWorkspace, CreateWorkspace,
       Step, _done, Anew, OutcomeIsTrue
<1>2. CASE TimesOut \/ Interrupted \/ SubmitTurn \/ set_active_run \/ TurnOver
           \/ ListChanges \/ Check \/ Look \/ Verdict
  BY <1>2, CodingAssumption DEF TimesOut, Interrupted, SubmitTurn, set_active_run, TurnOver,
       ListChanges, Check, Look, Verdict, Ends, Step, RepairOrFail, OutcomeIsTrue
<1>3. CASE Sealed
  BY <1>3, Outcome_Sealed
<1>4. CASE SealAsEnded \/ SealRaises \/ Finishes \/ Salvage \/ Fails
  BY <1>4, CodingAssumption DEF SealAsEnded, SealRaises, Finishes, Salvage, Fails, Step,
       workspace, _finalize_if_active, history, _done, Leased, Anew, OutcomeIsTrue, HandedOff,
       Working
<1>5. CASE SealingThread \/ SealingRefused \/ approve
  BY <1>5, CodingAssumption DEF SealingThread, SealingRefused, approve, enumerate_artifacts,
       Seal, workspace, task, history, OutcomeIsTrue, HandedOff, Working
<1>6. CASE CancelRun
  BY <1>6, CodingAssumption DEF CancelRun, workspace, task, history, OutcomeIsTrue, HandedOff,
       Working
<1>7. CASE CancelStore \/ LeaseExpires
  BY <1>7, CodingAssumption DEF CancelStore, LeaseExpires, workspace, task, history, Expires,
       OutcomeIsTrue, HandedOff, Working
<1>8. ASSUME NEW r \in Runs, RunStarts(r) PROVE OutcomeIsTrue'
  BY <1>8, CodingAssumption DEF RunStarts, _prepare_execution, workspace, task, history,
       Leased, OutcomeIsTrue, HandedOff, Working
<1>9. ASSUME NEW r \in Runs, AgentEdits(r) PROVE OutcomeIsTrue'
  BY <1>9, CodingAssumption DEF AgentEdits, task, OutcomeIsTrue, HandedOff, Working
<1>10. ASSUME NEW r \in Runs, RunEnds(r) \/ HeartbeatFails(r) PROVE OutcomeIsTrue'
  BY <1>10, CodingAssumption DEF RunEnds, HeartbeatFails, task, OutcomeIsTrue, HandedOff, Working
<1>11. CASE start
  BY <1>11, CodingAssumption DEF start, Launch, task, Anew, OutcomeIsTrue, DownIsIdle
<1>12. CASE create_task_branch \/ CreateSubmits \/ CreateRefused \/ CreateLost \/ Resubmit
  BY <1>12, CodingAssumption DEF create_task_branch, CreateSubmits, CreateRefused, CreateLost,
       Resubmit, workspace, task, history, submit, Launch, Anew, OutcomeIsTrue, HandedOff,
       Working
<1>13. CASE MergeCalled \/ commit_worktree \/ push_to_branch \/ merge_task_branch
           \/ MergeRefused
  BY <1>13, CodingAssumption DEF MergeCalled, commit_worktree, push_to_branch,
       merge_task_branch, MergeRefused, codingVars, workspace, task, history, OutcomeIsTrue,
       HandedOff, Working
<1>14. CASE Cancel \/ AbandonCancels \/ AbandonRemoves \/ AbandonDeletes
  BY <1>14, CodingAssumption DEF Cancel, AbandonCancels, AbandonRemoves, AbandonDeletes,
       CancelRead, codingVars, task, history, workspace, OutcomeIsTrue, HandedOff, Working
<1>15. CASE CrashTasks
  BY <1>15, CodingAssumption DEF CrashTasks, Crash, Anew, OutcomeIsTrue
<1> QED  BY <1>1, <1>2, <1>3, <1>4, <1>5, <1>6, <1>7, <1>8, <1>9, <1>10, <1>11, <1>12, <1>13,
            <1>14,
         <1>15
      DEF Next, CodingNext, ControllerTask, Workflow, EngineRun

LEMMA DeliveredIsReviewedStep ==
    ASSUME TypeOK, RowsAreAccepted, DownIsIdle, OutcomeIsTrue, DeliveredIsReviewed, Next
    PROVE  DeliveredIsReviewed'
<1>1. CASE (set_running \/ SetRunningFails \/ OpenWorkspace \/ CreateWorkspace) /\ UNCHANGED taskVars
  BY <1>1, CodingAssumption DEF set_running, SetRunningFails, OpenWorkspace, CreateWorkspace,
       Step, _done, execution, DeliveredIsReviewed, taskVars, calls
<1>2. CASE (TimesOut \/ Interrupted \/ SubmitTurn \/ set_active_run \/ TurnOver
            \/ ListChanges \/ Check \/ Look \/ Verdict \/ Sealed) /\ UNCHANGED taskVars
  BY <1>2, CodingAssumption DEF TimesOut, Interrupted, SubmitTurn, set_active_run, TurnOver,
       ListChanges, Check, Look, Verdict, Sealed, Callback, execution, Step,
       DeliveredIsReviewed, taskVars, calls
<1>3. CASE (SealAsEnded \/ SealRaises \/ Finishes \/ Salvage \/ Fails) /\ UNCHANGED taskVars
  BY <1>3, CodingAssumption DEF SealAsEnded, SealRaises, Finishes, Salvage, Fails, Step,
       workspace, execution, history, _done, finish, Anew, DeliveredIsReviewed, TypeOK,
       OutcomeIsTrue, HandedOff, CodingTypeOK, Working, taskVars, calls
<1>4. CASE (SealingThread \/ SealingRefused \/ approve) /\ UNCHANGED taskVars
  BY <1>4, CodingAssumption DEF SealingThread, SealingRefused, approve, enumerate_artifacts,
       Seal, workspace, execution, task, history, DeliveredIsReviewed, HandedOff, Working,
       taskVars, calls
<1>5. CASE CancelRun /\ UNCHANGED taskVars
  BY <1>5, CodingAssumption DEF CancelRun, workspace, execution, task, history,
       DeliveredIsReviewed, HandedOff, Working, taskVars, calls
<1>6. CASE (CancelStore \/ LeaseExpires) /\ UNCHANGED taskVars
  BY <1>6, CodingAssumption DEF CancelStore, LeaseExpires, execution, workspace, task,
       history, Expires, DeliveredIsReviewed, HandedOff, Working, taskVars, calls
<1>7. ASSUME NEW r \in Runs, RunStarts(r), UNCHANGED taskVars PROVE DeliveredIsReviewed'
  BY <1>7, CodingAssumption DEF RunStarts, _prepare_execution, workspace, execution, task,
       history, Leased, DeliveredIsReviewed, HandedOff, Working, taskVars, calls
<1>8. ASSUME NEW r \in Runs, AgentEdits(r), UNCHANGED taskVars PROVE DeliveredIsReviewed'
  BY <1>8, CodingAssumption DEF AgentEdits, execution, DeliveredIsReviewed, HandedOff,
       Working, taskVars, calls
<1>9. ASSUME NEW r \in Runs, RunEnds(r) \/ HeartbeatFails(r), UNCHANGED taskVars
      PROVE  DeliveredIsReviewed'
  BY <1>9, CodingAssumption DEF RunEnds, HeartbeatFails, execution, DeliveredIsReviewed,
       HandedOff, Working, taskVars, calls
<1>10. CASE start /\ UNCHANGED taskVars
  BY <1>10, CodingAssumption DEF start, recover_stale_leases, Restored, Recoverable, task,
       execution, DeliveredIsReviewed, TypeOK, HandedOff, CodingTypeOK, Working, taskVars,
       calls
<1>11. CASE create_task_branch \/ CreateSubmits \/ CreateRefused \/ CreateLost \/ Resubmit
  BY <1>11, CodingAssumption DEF create_task_branch, CreateSubmits, CreateRefused, CreateLost,
       Resubmit, execution, submit, taskVars, Recoverable, calls, DeliveredIsReviewed,
       RowsAreAccepted
<1>12. CASE MergeCalled \/ commit_worktree \/ push_to_branch \/ merge_task_branch
           \/ MergeRefused
  BY <1>12, CodingAssumption DEF MergeCalled, commit_worktree, push_to_branch,
       merge_task_branch, MergeRefused, Reviewed, codingVars, workspace, execution, task,
       history, DeliveredIsReviewed, HandedOff, Working
<1>13. CASE Cancel \/ AbandonCancels \/ AbandonRemoves \/ AbandonDeletes
  BY <1>13, CodingAssumption DEF Cancel, AbandonCancels, AbandonRemoves, AbandonDeletes,
       CancelRead, taskVars, codingVars, execution, task, history, workspace, calls,
       DeliveredIsReviewed, HandedOff, Working
<1>14. CASE CrashTasks
  BY <1>14, CodingAssumption DEF CrashTasks, Crash, Anew, workspace, execution,
       DeliveredIsReviewed, HandedOff, Working
<1> QED  BY <1>1, <1>2, <1>3, <1>4, <1>5, <1>6, <1>7, <1>8, <1>9, <1>10, <1>11, <1>12, <1>13,
    <1>14
      DEF Next, CodingNext, ControllerTask, Workflow, EngineRun

LEMMA MergesReviewedStep ==
    ASSUME RowsAreAccepted, DeliveredIsReviewed, MergesReviewed, Next
    PROVE  MergesReviewed'
<1>1. CASE (set_running \/ SetRunningFails \/ OpenWorkspace \/ CreateWorkspace) /\ UNCHANGED taskVars
  BY <1>1, CodingAssumption DEF set_running, SetRunningFails, OpenWorkspace, CreateWorkspace,
       Step, MergesReviewed, DeliveredIsReviewed, taskVars, calls
<1>2. CASE (TimesOut \/ Interrupted \/ SubmitTurn \/ set_active_run \/ TurnOver
            \/ ListChanges \/ Check \/ Look \/ Verdict \/ Sealed) /\ UNCHANGED taskVars
  BY <1>2, CodingAssumption DEF TimesOut, Interrupted, SubmitTurn, set_active_run, TurnOver,
       ListChanges, Check, Look, Verdict, Sealed, history, MergesReviewed,
       DeliveredIsReviewed, taskVars, calls
<1>3. CASE (SealAsEnded \/ SealRaises \/ Finishes \/ Salvage \/ Fails) /\ UNCHANGED taskVars
  BY <1>3, CodingAssumption DEF SealAsEnded, SealRaises, Finishes, Salvage, Fails, Step,
       _done, MergesReviewed, DeliveredIsReviewed, taskVars, calls
<1>4. CASE (SealingThread \/ SealingRefused \/ approve \/ CancelRun \/ CancelStore
            \/ LeaseExpires) /\ UNCHANGED taskVars
  BY <1>4, CodingAssumption DEF SealingThread, SealingRefused, approve, CancelRun,
       CancelStore, LeaseExpires, history, MergesReviewed, taskVars, calls
<1>5. ASSUME NEW r \in Runs, RunStarts(r) \/ AgentEdits(r) \/ RunEnds(r) \/ HeartbeatFails(r),
             UNCHANGED taskVars
      PROVE  MergesReviewed'
  BY <1>5, CodingAssumption DEF RunStarts, AgentEdits, RunEnds, HeartbeatFails, history,
       MergesReviewed, taskVars, calls
<1>6. CASE start /\ UNCHANGED taskVars
  BY <1>6, CodingAssumption DEF start, MergesReviewed, taskVars, calls
<1>7. CASE create_task_branch \/ CreateSubmits \/ CreateRefused \/ CreateLost \/ Resubmit
  BY <1>7, CodingAssumption DEF create_task_branch, CreateSubmits, CreateRefused, CreateLost,
       Resubmit, submit, taskVars, calls, MergesReviewed, RowsAreAccepted
<1>8. CASE MergeCalled \/ commit_worktree \/ push_to_branch \/ merge_task_branch
           \/ MergeRefused
  BY <1>8, CodingAssumption DEF MergeCalled, commit_worktree, push_to_branch,
       merge_task_branch, MergeRefused, codingVars, history, MergesReviewed,
       DeliveredIsReviewed, HandedOff
<1>9. CASE Cancel \/ AbandonCancels \/ AbandonRemoves \/ AbandonDeletes
  BY <1>9, CodingAssumption DEF Cancel, AbandonCancels, AbandonRemoves, AbandonDeletes,
       CancelRead, taskVars, codingVars, history, calls, MergesReviewed
<1>10. CASE CrashTasks
  BY <1>10, CodingAssumption DEF CrashTasks, Crash, MergesReviewed
<1> QED  BY <1>1, <1>2, <1>3, <1>4, <1>5, <1>6, <1>7, <1>8, <1>9, <1>10 DEF Next, CodingNext,
            ControllerTask, Workflow, EngineRun

LEMMA EndsSealedStep ==
    ASSUME TypeOK, Unaccepted, RowsAreAccepted, DownIsIdle, OutcomeIsTrue, EndsSealed, Next
    PROVE  EndsSealed'
<1>1. CASE set_running \/ SetRunningFails \/ OpenWorkspace \/ CreateWorkspace
  BY <1>1, CodingAssumption DEF set_running, SetRunningFails, OpenWorkspace, CreateWorkspace,
       Step, EndsSealed
<1>2. CASE TimesOut \/ Interrupted \/ SubmitTurn \/ set_active_run \/ TurnOver
           \/ ListChanges \/ Check \/ Look \/ Verdict \/ Sealed
  BY <1>2, CodingAssumption DEF TimesOut, Interrupted, SubmitTurn, set_active_run, TurnOver,
       ListChanges, Check, Look, Verdict, Sealed, Ends, Step, RepairOrFail, EndsSealed
<1>3. CASE SealAsEnded \/ SealRaises \/ Finishes \/ Salvage \/ Fails
  BY <1>3, CodingAssumption DEF SealAsEnded, SealRaises, Finishes, Salvage, Fails, Step,
       workspace, _finalize_if_active, history, _done, Leased, finalize, EndsSealed, TypeOK,
       Unaccepted, DownIsIdle, OutcomeIsTrue, CodingTypeOK, HandedOff
<1>4. CASE SealingThread \/ SealingRefused \/ approve \/ CancelRun \/ CancelStore
           \/ LeaseExpires
  BY <1>4, CodingAssumption DEF SealingThread, SealingRefused, approve, CancelRun,
       CancelStore, LeaseExpires, enumerate_artifacts, Seal, Leased, workspace, NoFault,
       execution, task, history, process, Ended, IdleCaller, Recoverable, Expires, Fault,
       Runs, EndsSealed, TypeOK, Unaccepted, RowsAreAccepted, DownIsIdle, OutcomeIsTrue,
       CodingTypeOK, Nothing, Gone, Working, HandedOff, WorkspaceTypeOK, ExecutionStatus,
       RunState, Callback, WorkspaceState, Terminal, FINAL_STATES
<1>5. ASSUME NEW r \in Runs, RunStarts(r) \/ AgentEdits(r) \/ RunEnds(r) \/ HeartbeatFails(r)
      PROVE  EndsSealed'
  BY <1>5, CodingAssumption DEF RunStarts, AgentEdits, RunEnds, HeartbeatFails, workspace,
       execution, task, history, Leased, EndsSealed
<1>6. CASE start
  BY <1>6, CodingAssumption DEF start, recover_stale_leases, Launch, Anew, EndsSealed,
       Unaccepted, DownIsIdle, Leased
<1>7. CASE create_task_branch \/ CreateSubmits \/ CreateRefused \/ CreateLost \/ Resubmit
  BY <1>7, CodingAssumption DEF create_task_branch, CreateSubmits, CreateRefused, CreateLost,
       Resubmit, workspace, task, submit, EndsSealed, Unaccepted, RowsAreAccepted, Leased
<1>8. CASE MergeCalled \/ commit_worktree \/ push_to_branch \/ merge_task_branch
           \/ MergeRefused
  BY <1>8, CodingAssumption DEF MergeCalled, commit_worktree, push_to_branch,
       merge_task_branch, MergeRefused, codingVars, workspace, execution, task, process,
       history, Fault, EndsSealed, Leased
<1>9. CASE Cancel \/ AbandonCancels \/ AbandonRemoves \/ AbandonDeletes
  BY <1>9, CodingAssumption DEF Cancel, AbandonCancels, AbandonRemoves, AbandonDeletes,
       CancelRead, codingVars, task, history, workspace, EndsSealed, TypeOK, Unaccepted,
       RowsAreAccepted, DownIsIdle, Leased
<1>10. CASE CrashTasks
  BY <1>10, CodingAssumption DEF CrashTasks, Crash, execution, EndsSealed
<1> QED  BY <1>1, <1>2, <1>3, <1>4, <1>5, <1>6, <1>7, <1>8, <1>9, <1>10 DEF Next, CodingNext,
            ControllerTask, Workflow, EngineRun

-----------------------------------------------------------------------------
(* The invariant.                                                           *)
LEMMA Initially == Init => IInv
<1> SUFFICES ASSUME Init PROVE IInv
  OBVIOUS
<1> USE CodingAssumption DEF Init, CodingInit, WorkspaceInit
<1>1. run = [r \in Runs |-> Nothing] /\ \A r \in Runs : run[r] = Nothing
  OBVIOUS
<1>2. Flags
  BY DEF Flags
<1>3. Values
  <2>1. run \in [Runs -> RunRow]
    BY DEF Nothing, RunRow, RunState
  <2> QED  BY <2>1 DEF Values, WorkspaceState, ExecutionStatus, IdleCaller, Unlisted, Gone
<1>4. TypeOK
  BY <1>2, <1>3, Typed
<1>5. Unaccepted /\ RowsAreAccepted /\ DownIsIdle
  BY DEF Unaccepted, RowsAreAccepted, DownIsIdle
<1>6. RunsInOrder
  BY <1>1 DEF RunsInOrder, IdleCaller, Nothing, Runs
<1>7. OneAtATime /\ TurnIsLast /\ AgentsRest
  BY <1>1 DEF OneAtATime, TurnIsLast, AgentsRest, Reviewing, Quiet, Nothing
<1>8. ReviewsChecked /\ SealsApproved /\ OutcomeIsTrue /\ MergesReviewed /\ EndsSealed
  BY DEF ReviewsChecked, Reviewing, SealsApproved, OutcomeIsTrue, MergesReviewed, EndsSealed
<1>9. DeliveredIsReviewed /\ tree <= MaxEdits
  BY DEF DeliveredIsReviewed
<1> QED  BY <1>4, <1>5, <1>6, <1>7, <1>8, <1>9 DEF IInv, Strengthening

LEMMA EditsBounded == ASSUME tree <= MaxEdits, tree \in Nat, Next PROVE tree' <= MaxEdits
<1>1. tree' = tree \/ (tree < MaxEdits /\ tree' = tree + 1)
  <2>1. ASSUME NEW r \in Runs, EngineRun(r)
        PROVE  tree' = tree \/ (tree < MaxEdits /\ tree' = tree + 1)
    BY <2>1 DEF EngineRun, RunStarts, AgentEdits, RunEnds, HeartbeatFails, workspace
  <2>2. CASE CancelRun \/ CancelStore \/ approve \/ SealingThread \/ SealingRefused \/ LeaseExpires
    BY <2>2 DEF CancelRun, CancelStore, approve, SealingThread, SealingRefused, LeaseExpires,
         enumerate_artifacts, Seal, Expires, workspace
  <2>3. CASE set_running \/ SetRunningFails \/ OpenWorkspace \/ CreateWorkspace
    BY <2>3 DEF set_running, SetRunningFails, OpenWorkspace, CreateWorkspace, Reserve,
         Created, CreateFails, workspace
  <2>4. CASE Workflow
    BY <2>4 DEF Workflow, TimesOut, Interrupted, SubmitTurn, set_active_run, TurnOver,
         ListChanges, Check, Look, Verdict, Sealed, enumerate_artifacts, workspace
  <2>5. CASE SealAsEnded \/ SealRaises \/ Finishes \/ Salvage \/ Fails
    BY <2>5 DEF SealAsEnded, SealRaises, Finishes, Salvage, Fails, _finalize_if_active,
         finalize, workspace
  <2>6. CASE start \/ create_task_branch \/ CreateSubmits \/ CreateRefused \/ CreateLost \/ Resubmit
    BY <2>6 DEF start, create_task_branch, CreateSubmits, CreateRefused, CreateLost, Resubmit,
         submit, workspace
  <2>7. CASE MergeCalled \/ commit_worktree \/ push_to_branch \/ merge_task_branch \/ MergeRefused
    BY <2>7 DEF MergeCalled, commit_worktree, push_to_branch, merge_task_branch, MergeRefused,
         codingVars, workspace
  <2>8. CASE Cancel \/ AbandonCancels \/ AbandonRemoves \/ AbandonDeletes \/ CrashTasks
    BY <2>8 DEF Cancel, AbandonCancels, AbandonRemoves, AbandonDeletes, CancelRead,
         CrashTasks, Crash, codingVars, workspace
  <2> QED  BY <2>1, <2>2, <2>3, <2>4, <2>5, <2>6, <2>7, <2>8 DEF Next, CodingNext, ControllerTask
<1> QED  BY <1>1, CodingAssumption

LEMMA Stutters == ASSUME IInv, UNCHANGED vars PROVE IInv'
<1> USE DEF vars, codingVars, taskVars, workspace, execution, task, process, history, calls
<1>1. Flags /\ Values
  BY Typed DEF IInv
<1>2. Flags' /\ Values'
  BY <1>1 DEF Flags, Values
<1>3. TypeOK'
  BY <1>2, TypedNext
<1>4. (Unaccepted /\ RowsAreAccepted /\ DownIsIdle)'
  BY DEF IInv, Strengthening, Unaccepted, RowsAreAccepted, DownIsIdle, Working
<1>5. (RunsInOrder /\ OneAtATime /\ TurnIsLast)'
  BY DEF IInv, Strengthening, RunsInOrder, OneAtATime, TurnIsLast, Quiet, BotOf
<1>6. (AgentsRest /\ ReviewsChecked /\ SealsApproved)'
  BY DEF IInv, Strengthening, AgentsRest, Rests, Reviewing, Quiet, ReviewsChecked, SealsApproved
<1>7. (OutcomeIsTrue /\ DeliveredIsReviewed /\ MergesReviewed)'
  BY DEF IInv, Strengthening, OutcomeIsTrue, DeliveredIsReviewed, HandedOff, Working,
       MergesReviewed
<1>8. (EndsSealed /\ tree <= MaxEdits)'
  BY DEF IInv, Strengthening, EndsSealed, Leased
<1> QED  BY <1>3, <1>4, <1>5, <1>6, <1>7, <1>8 DEF IInv, Strengthening

LEMMA InvariantStep == IInv /\ [Next]_vars => IInv'
<1> SUFFICES ASSUME IInv, [Next]_vars PROVE IInv'
  OBVIOUS
<1> USE DEF IInv, Strengthening
<1>1. CASE Next
  <2>1. TypeOK'
    BY <1>1, TypeOKStep
  <2>2. Unaccepted' /\ RowsAreAccepted' /\ DownIsIdle'
    BY <1>1, UnacceptedStep, RowsAreAcceptedStep, DownIsIdleStep
  <2>3. RunsInOrder' /\ OneAtATime' /\ TurnIsLast'
    BY <1>1, RunsInOrderStep, OneAtATimeStep, TurnIsLastStep
  <2>4. AgentsRest' /\ ReviewsChecked' /\ SealsApproved'
    BY <1>1, AgentsRestStep, ReviewsCheckedStep, SealsApprovedStep
  <2>5. OutcomeIsTrue' /\ DeliveredIsReviewed' /\ MergesReviewed' /\ EndsSealed'
    BY <1>1, OutcomeIsTrueStep, DeliveredIsReviewedStep, MergesReviewedStep, EndsSealedStep
  <2>6. tree \in Nat
    BY Typed DEF Values
  <2>7. (tree <= MaxEdits)'
    BY <1>1, <2>6, EditsBounded
  <2> QED  BY <2>1, <2>2, <2>3, <2>4, <2>5, <2>7
<1>2. CASE UNCHANGED vars
  BY <1>2, Stutters
<1> QED  BY <1>1, <1>2

(* Every reachable state of the tasks and their executions satisfies the    *)
(* strengthened invariant, for any repair budget and any number of runs,    *)
(* edits and failures.                                                      *)
THEOREM Invariance == Spec => []IInv
<1> QED  BY Initially, InvariantStep, PTL DEF Spec

-----------------------------------------------------------------------------
(* The properties.                                                          *)

(* The variables keep their types.                                          *)
THEOREM TypeCorrect == Spec => []TypeOK
<1>1. IInv => TypeOK
  BY DEF IInv
<1> QED  BY <1>1, Invariance, PTL

(* _finalize_if_active and the artifact callback: what an execution hands   *)
(* off is sealed, is what the reviewer approved and the checks passed on,   *)
(* and no settled execution leaves its workspace open to work.              *)
THEOREM HandoffsAreSealed == Spec => []HandoffIsSealed
<1>1. ASSUME IInv PROVE HandoffIsSealed
  <2>1. ReviewedIsSealed
    BY <1>1 DEF IInv, Strengthening, DeliveredIsReviewed, HandedOff, ReviewedIsSealed
  <2>2. SettledIsSealed
    <3>1. Recoverable \cap (Terminal \cup {"awaiting_handoff", "none"}) = {}
      BY DEF Recoverable, Terminal
    <3> QED  BY <1>1, <3>1 DEF IInv, Strengthening, EndsSealed, SettledIsSealed, Terminal
  <2> QED  BY <2>1, <2>2 DEF HandoffIsSealed
<1> QED  BY <1>1, Invariance, PTL

(* merge_task: only what the reviewer approved reaches the base.            *)
THEOREM MergesAreReviewed == Spec => []MergedIsReviewed
<1>1. ASSUME IInv PROVE MergedIsReviewed
  BY <1>1 DEF IInv, Strengthening, MergesReviewed, DeliveredIsReviewed, HandedOff,
       MergedIsReviewed
<1> QED  BY <1>1, Invariance, PTL

(* derive_task_state: no step of a merge or an abandonment changes what     *)
(* became of a task.                                                        *)
LEMMA ClosedStep ==
    ASSUME [Next]_vars, creating = "done", tip = Gone
    PROVE  tip' = Gone /\ merged' = merged
<1>1. CASE CodingNext /\ UNCHANGED taskVars
  <2>1. UNCHANGED tip
    <3>1. ASSUME NEW r \in Runs, EngineRun(r) PROVE UNCHANGED tip
      BY <3>1 DEF EngineRun, RunStarts, AgentEdits, RunEnds, HeartbeatFails
    <3>2. CASE ControllerTask
      BY <3>2 DEF ControllerTask, Workflow, set_running, SetRunningFails, OpenWorkspace,
           CreateWorkspace, TimesOut, Interrupted, SubmitTurn, set_active_run, TurnOver,
           ListChanges, Check, Look, Verdict, Sealed, SealAsEnded, SealRaises, Finishes,
           Salvage, Fails
    <3>3. CASE SealingThread \/ SealingRefused \/ approve \/ CancelRun \/ CancelStore \/ LeaseExpires
      BY <3>3 DEF SealingThread, SealingRefused, approve, CancelRun, CancelStore, LeaseExpires
    <3> QED  BY <1>1, <3>1, <3>2, <3>3 DEF CodingNext
  <2> QED  BY <1>1, <2>1 DEF taskVars
<1>2. CASE start /\ UNCHANGED taskVars
  BY <1>2 DEF start, taskVars
<1>3. CASE create_task_branch \/ CreateSubmits \/ CreateRefused \/ CreateLost \/ Resubmit
  BY <1>3 DEF create_task_branch, CreateSubmits, CreateRefused, CreateLost, Resubmit, submit,
       taskVars
<1>4. CASE MergeCalled \/ commit_worktree \/ push_to_branch \/ merge_task_branch \/ MergeRefused
  BY <1>4 DEF MergeCalled, commit_worktree, push_to_branch, merge_task_branch, MergeRefused,
       codingVars
<1>5. CASE Cancel \/ AbandonCancels \/ AbandonRemoves \/ AbandonDeletes
  BY <1>5 DEF Cancel, AbandonCancels, AbandonRemoves, AbandonDeletes, CancelRead, codingVars,
       taskVars
<1>6. CASE CrashTasks
  BY <1>6 DEF CrashTasks, Crash
<1>7. CASE UNCHANGED vars
  BY <1>7 DEF vars, codingVars, taskVars
<1> QED  BY <1>1, <1>2, <1>3, <1>4, <1>5, <1>6, <1>7 DEF Next

THEOREM ClosedTasksStayClosed == Spec => ClosedTaskStaysClosed
<1>1. ASSUME IInv, [Next]_vars
      PROVE  [row /\ TaskState # "open" => TaskState' = TaskState]_vars
  <2>1. TaskState # "open" => tip = Gone
    BY DEF TaskState
  <2>2. row => creating = "done"
    BY <1>1 DEF IInv, Strengthening, RowsAreAccepted
  <2> QED  BY <1>1, <2>1, <2>2, ClosedStep DEF TaskState
<1> QED  BY <1>1, Invariance, PTL DEF Spec, ClosedTaskStaysClosed

-----------------------------------------------------------------------------
(* The coding execution implements Handoff.                                 *)
LEMMA HandoffInit == Init => H!Init
  BY DEF Init, CodingInit, H!Init, HandoffPhase, Patch, Recoverable

(* How a step may change what an execution offers.                          *)
Offers == status \in Recoverable /\ status' = "awaiting_handoff" /\ UNCHANGED artifacts /\ HandedOff
Keeps ==
    /\ status' = status \/ {status, status'} \subseteq {"none"} \cup Recoverable
    /\ status \in {"awaiting_handoff", "ready"} => UNCHANGED artifacts
Takes == status = "awaiting_handoff" /\ status' = "ready" /\ UNCHANGED artifacts
Drops == status \in Recoverable \cup {"awaiting_handoff"} /\ status' \in {"failed", "cancelled"}

LEMMA ExecutionSteps ==
    ASSUME IInv, [Next]_vars
    PROVE  Offers \/ Keeps \/ Takes \/ Drops
<1>1. status \in {"awaiting_handoff", "ready"} => ~Leased
  BY DEF IInv, Strengthening, DeliveredIsReviewed, HandedOff, Leased
<1>2. ASSUME UNCHANGED status, Leased \/ UNCHANGED artifacts PROVE Keeps
  BY <1>1, <1>2 DEF Keeps
<1>3. ASSUME NEW r \in Runs, EngineRun(r) PROVE Keeps
  BY <1>2, <1>3 DEF EngineRun, RunStarts, AgentEdits, RunEnds, HeartbeatFails, workspace,
       execution
<1>4. CASE SetRunningFails \/ OpenWorkspace \/ CreateWorkspace
  BY <1>2, <1>4 DEF SetRunningFails, OpenWorkspace, CreateWorkspace, Reserve, Created,
       CreateFails, workspace, execution
<1>5. CASE Workflow
  BY <1>2, <1>5 DEF Workflow, TimesOut, Interrupted, SubmitTurn, set_active_run, TurnOver,
       ListChanges, Check, Look, Verdict, Sealed, enumerate_artifacts, workspace, execution
<1>6. CASE SealAsEnded \/ SealRaises \/ Salvage
  BY <1>2, <1>6 DEF SealAsEnded, SealRaises, Salvage, _finalize_if_active, finalize,
       workspace, execution
<1>7. CASE SealingThread \/ SealingRefused \/ CancelRun \/ LeaseExpires
  BY <1>2, <1>7 DEF SealingThread, SealingRefused, CancelRun, LeaseExpires,
       enumerate_artifacts, Seal, Expires, workspace, execution
<1>8. CASE set_running
  BY <1>2, <1>8 DEF set_running, workspace, Keeps, Recoverable
<1>9. CASE Finishes
  <2>1. UNCHANGED artifacts
    BY <1>9 DEF Finishes, workspace
  <2>2. CASE UNCHANGED status
    BY <1>2, <2>1, <2>2
  <2>3. CASE pc = "finish" /\ status \in Recoverable /\ status' = outcome
    <3>1. outcome \in {"awaiting_handoff", "failed", "cancelled"}
      BY <2>3, Typed DEF IInv, Strengthening, OutcomeIsTrue, Values
    <3>2. outcome = "awaiting_handoff" => HandedOff
      BY DEF IInv, Strengthening, OutcomeIsTrue
    <3> QED  BY <2>1, <2>3, <3>1, <3>2 DEF Offers, Drops
  <2> QED  BY <1>9, <2>2, <2>3 DEF Finishes, finish, _done, execution
<1>10. CASE Fails
  BY <1>2, <1>10 DEF Fails, finish, workspace, execution, Drops
<1>11. CASE approve
  BY <1>11 DEF approve, workspace, Takes
<1>12. CASE CancelStore
  BY <1>2, <1>12 DEF CancelStore, workspace, execution, Drops
<1>13. CASE start \/ create_task_branch \/ CreateRefused
  BY <1>2, <1>13 DEF start, create_task_branch, CreateRefused, workspace, execution
<1>14. CASE CreateSubmits \/ Resubmit
  BY <1>14 DEF CreateSubmits, Resubmit, submit, workspace, Keeps, Recoverable
<1>15. CASE CreateLost
  BY <1>15 DEF IInv, Strengthening, RowsAreAccepted, CreateLost, Keeps, Recoverable
<1>16. CASE MergeCalled \/ commit_worktree \/ push_to_branch \/ merge_task_branch \/ MergeRefused
  BY <1>2, <1>16 DEF MergeCalled, commit_worktree, push_to_branch, merge_task_branch,
       MergeRefused, codingVars, workspace, execution
<1>17. CASE Cancel \/ AbandonCancels \/ AbandonRemoves \/ AbandonDeletes
  BY <1>2, <1>17 DEF Cancel, AbandonCancels, AbandonRemoves, AbandonDeletes, CancelRead,
       codingVars, workspace, execution
<1>18. CASE CrashTasks \/ UNCHANGED vars
  BY <1>2, <1>18 DEF CrashTasks, Crash, vars, codingVars, workspace, execution
<1> QED  BY <1>3, <1>4, <1>5, <1>6, <1>7, <1>8, <1>9, <1>10, <1>11, <1>12, <1>13, <1>14,
            <1>15, <1>16, <1>17, <1>18 DEF Next, CodingNext, ControllerTask

LEMMA HandoffStep == ASSUME IInv, [Next]_vars PROVE [H!Next]_(H!vars)
<1> USE DEF HandoffPhase, Patch, Recoverable
<1>1. status \in ExecutionStatus
  BY Typed DEF IInv, Values
<1>2. CASE Offers
  <2>1. artifacts' \in 0 .. MaxEdits
    BY <1>2, Typed, CodingAssumption DEF IInv, Strengthening, Offers, HandedOff, Values
  <2>2. H!Offer(artifacts')
    BY <1>2 DEF Offers, H!Offer
  <2> QED  BY <2>1, <2>2 DEF H!Next
<1>3. CASE Keeps
  BY <1>1, <1>3 DEF Keeps, H!vars, ExecutionStatus, Terminal
<1>4. CASE Takes
  BY <1>4 DEF Takes, H!Take, H!Next
<1>5. CASE Drops
  BY <1>5 DEF Drops, H!Drop, H!Next
<1> QED  BY <1>2, <1>3, <1>4, <1>5, ExecutionSteps

(* coding_lifecycle.py: an execution offers one patch for review, which     *)
(* stays what it was until it is taken or dropped, once, whatever its       *)
(* agents, checks, restarts and cancellations do.                           *)
THEOREM ExecutionImplementsHandoff == Spec => ImplementsHandoff
<1> QED  BY HandoffInit, HandoffStep, Invariance, PTL DEF Spec, H!Spec, ImplementsHandoff
=============================================================================
