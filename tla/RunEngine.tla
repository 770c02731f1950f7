----------------------------- MODULE RunEngine -----------------------------
(***************************************************************************)
(* src/kyn/engine.py: one daemon process at a time (controller.lock) that  *)
(* restores, accepts, executes, cancels and ends runs, over the durable    *)
(* ledger of RunStore, the reservations of governance.py and the permission*)
(* gates of interactions.py.                                               *)
(*                                                                         *)
(* An action is the code between two points where the event loop may run   *)
(* something else.  A database call is one transaction in a thread: the    *)
(* action that resumes after it also commits it.  When the awaiting task   *)
(* is cancelled instead, its result is lost and the thread is either       *)
(* withdrawn before it starts or commits later, as a member of `stray'.    *)
(*                                                                         *)
(* Left out here: workspaces, but for a preparation that fails, memory     *)
(* records and the event stream of a run, and database errors outside      *)
(* submissions, claims and lost leases.                                    *)
(***************************************************************************)
EXTENDS Naturals, Sequences, FiniteSets

CONSTANTS Runs, Bots, BotOf,
          Requests,      \* the ids an agent session gives its permission requests
          MaxTerminal, MaxClaims, MaxFailovers,
          MaxBoots,      \* bound: processes started
          MayCancel,     \* the runs the operator may cancel
          Hazards,       \* which may happen: "crash", "close", "stall" (a lease runs
                         \* out), "busy" (the database stays locked)
          NoRun, NoRequest

ASSUME EngineAssumption ==
    /\ IsFiniteSet(Runs) /\ BotOf \in [Runs -> Bots]
    /\ NoRun \notin Runs /\ NoRequest \notin Requests
    /\ MaxBoots \in Nat /\ MayCancel \subseteq Runs
    /\ MaxTerminal \in Nat /\ MaxClaims \in Nat /\ MaxFailovers \in Nat

VARIABLES
    row, token, lease, failovers, older, newer, settler,  \* RunStore
    gov,      \* governance_run_leases.status
    gate,     \* interactions.status of each permission request of each run
    proc,     \* the daemon: off, recover, restore, up, closing
    boots,
    boot,     \* the queued rows _restore_all_queued has still to restore
    sub,      \* the submission inside _state_lock: the run and its next call
    lapsed,   \* history: runs turned away whose reservation could not be taken back
    mem,      \* Engine._runs: the _RunState of each run
    worker,   \* BotWorker: its loop task, queue and active run
    task,     \* the _execute task of each run
    fin,      \* the _finish calls of a run: its task's and its cancellers'
    user,     \* the operator's decide_permission call on a run
    call,     \* the cancel calls on a run
    stray     \* transactions whose caller was cancelled

storeVars == <<row, token, lease, failovers, older, newer, settler>>
tableVars == <<storeVars, gov, gate>>
procVars  == <<proc, boots, boot, sub, lapsed>>
taskVars  == <<worker, task, fin, stray>>
vars == <<tableVars, procVars, mem, taskVars, user, call>>

Ledger == INSTANCE RunStore

Terminal == {"complete", "failed", "cancelled"}
Callers  == {"cancel", "close"}   \* who may cancel a run: the operator, Engine.close
Actors   == {"exec"} \cup Callers

(* Where the task of a run is while the run has its turn.                  *)
InTurn == {"turn", "eval", "send", "auto", "gate", "check", "wait", "failover", "reopen"}

(* What a fresh process knows.                                             *)
NoState  == [status |-> "none", finishing |-> FALSE, pending |-> {}, handle |-> 0, lock |-> "free"]
NoWorker == [loop |-> "none", fifo |-> <<>>, active |-> NoRun]
NoTask   == [pc |-> "none", ask |-> NoRequest, asked |-> {}, answered |-> {}, beats |-> FALSE]
NoFin    == [a \in Actors |-> [step |-> "idle", status |-> "complete"]]
NoCall   == [c \in Callers |-> [pc |-> "idle", target |-> NoRun]]
NoUser   == [pc |-> "idle", ask |-> NoRequest]
NoSub    == [run |-> NoRun, pc |-> "idle"]

TypeOK ==
    /\ gov \in [Runs -> {"none", "active", "finished"}]
    /\ gate \in [Runs -> [Requests -> {"none", "pending", "resolved", "expired"}]]
    /\ proc \in {"off", "recover", "restore", "up", "closing"}
    /\ boots \in 0..MaxBoots
    /\ boot \in SUBSET Runs
    /\ sub \in [run : Runs \cup {NoRun}, pc : {"idle", "reserve", "refuse", "withdraw", "release"}]
    /\ lapsed \subseteq Runs
    /\ \A r \in Runs :
          /\ mem[r].status \in {"none", "queued", "running", "waiting"} \cup Terminal
          /\ mem[r].finishing \in BOOLEAN
          /\ mem[r].pending \in SUBSET Requests
          /\ mem[r].handle \in 0..MaxClaims
          /\ mem[r].lock \in {"free", "beat"} \cup Actors
          /\ task[r].pc \in {"none", "new", "claim", "finish", "settle", "unwind"} \cup InTurn
          /\ task[r].ask \in Requests \cup {NoRequest}
          /\ task[r].asked \in SUBSET Requests
          /\ task[r].answered \in SUBSET Requests
          /\ task[r].beats \in BOOLEAN
          /\ \A a \in Actors :
                /\ fin[r][a].step \in {"idle", "lock", "expire", "commit", "govern"}
                /\ fin[r][a].status \in Terminal
          /\ user[r].pc \in {"idle", "send", "resolve", "mark"}
          /\ user[r].ask \in Requests \cup {NoRequest}
          /\ \A c \in Callers :
                /\ call[r][c].pc \in {"idle", "polite", "gather", "finish"}
                /\ call[r][c].target \in Runs \cup {NoRun}
    /\ \A b \in Bots :
          /\ worker[b].loop \in {"none", "idle", "busy", "dead"}
          /\ worker[b].fifo \in Seq(Runs)
          /\ worker[b].active \in Runs \cup {NoRun}

Fresh ==
    /\ mem' = [r \in Runs |-> NoState]
    /\ worker' = [b \in Bots |-> NoWorker]
    /\ task' = [r \in Runs |-> NoTask]
    /\ fin' = [r \in Runs |-> NoFin]
    /\ user' = [r \in Runs |-> NoUser]
    /\ call' = [r \in Runs |-> NoCall]
    /\ stray' = [r \in Runs |-> {}]
    /\ sub' = NoSub
    /\ lapsed' = {}
    /\ boot' = {}

Init ==
    /\ Ledger!Init
    /\ gov = [r \in Runs |-> "none"]
    /\ gate = [r \in Runs |-> [q \in Requests |-> "none"]]
    /\ proc = "off"
    /\ boots = 0
    /\ boot = {}
    /\ sub = NoSub
    /\ lapsed = {}
    /\ mem = [r \in Runs |-> NoState]
    /\ worker = [b \in Bots |-> NoWorker]
    /\ task = [r \in Runs |-> NoTask]
    /\ fin = [r \in Runs |-> NoFin]
    /\ user = [r \in Runs |-> NoUser]
    /\ call = [r \in Runs |-> NoCall]
    /\ stray = [r \in Runs |-> {}]

Settled(r) == mem[r].status \in Terminal
Open(r)    == mem[r].status \in {"queued", "running", "waiting"}
Holds(r)   == Ledger!RequireActiveLease(r, mem[r].handle)

-----------------------------------------------------------------------------
(* Engine.start.                                                           *)

(* Mutant of Start: reservations are not reconciled.                       *)
StartUnreconciled ==
    /\ proc = "off"
    /\ boots < MaxBoots
    /\ proc' = "recover"
    /\ boots' = boots + 1
    /\ UNCHANGED <<tableVars, boot, sub, lapsed, mem, taskVars, user, call>>

Start ==
    /\ proc = "off"
    /\ boots < MaxBoots
    /\ proc' = "recover"
    /\ boots' = boots + 1
    /\ gov' = [r \in Runs |-> IF gov[r] = "active" /\ row[r] \in Terminal \cup {"absent"}
                              THEN "finished" ELSE gov[r]]
    /\ UNCHANGED <<storeVars, gate, boot, sub, lapsed, mem, taskVars, user, call>>

Recover ==
    /\ proc = "recover"
    /\ Ledger!recover_startup
    /\ boot' = {r \in Runs : row'[r] = "queued"}
    /\ proc' = "restore"
    /\ UNCHANGED <<gov, gate, boots, sub, lapsed, mem, taskVars, user, call>>

(* _enqueue: the run's worker exists from its bot's first run on.          *)
_enqueue(r) ==
    /\ mem' = [mem EXCEPT ![r] = [NoState EXCEPT !.status = "queued"]]
    /\ worker' = [worker EXCEPT ![BotOf[r]].fifo = Append(@, r),
                                ![BotOf[r]].loop = IF @ = "none" THEN "idle" ELSE @]

(* _restore: reserve_run returns a reservation that is still active, makes *)
(* one if the quotas allow it, and raises for a finished one.              *)
_restore(r) ==
    \/ /\ gov[r] \in {"none", "active"}
       /\ gov' = [gov EXCEPT ![r] = "active"]
       /\ _enqueue(r)
    \/ gov[r] # "active" /\ UNCHANGED <<gov, mem, worker>>

(* Rows are restored in the order of their creation; one that raises is    *)
(* tried once more and then left queued.                                   *)
Restore(r) ==
    /\ proc = "restore"
    /\ r \in boot
    /\ older[r] \cap boot = {}
    /\ boot' = boot \ {r}
    /\ _restore(r)
    /\ UNCHANGED <<storeVars, gate, proc, boots, sub, lapsed, task, fin, stray, user, call>>

Started ==
    /\ proc = "restore"
    /\ boot = {}
    /\ proc' = "up"
    /\ UNCHANGED <<tableVars, boots, boot, sub, lapsed, mem, taskVars, user, call>>

-----------------------------------------------------------------------------
(* Engine.submit, under _state_lock.                                       *)

\* Governance: a run holds at most one reservation, and none once it has
\* finished; whether the quotas admit it is left open (QuotaExceeded).
reserve_run(r) ==
    /\ gov[r] # "finished"
    /\ gov' = [gov EXCEPT ![r] = "active"]

finish_run(r) == gov' = [gov EXCEPT ![r] = IF @ = "active" THEN "finished" ELSE @]

Submit(r) ==
    /\ proc = "up"
    /\ sub = NoSub
    /\ mem[r].status = "none"
    /\ Ledger!enqueue(r)
    /\ sub' = [run |-> r, pc |-> "reserve"]
    /\ UNCHANGED <<gov, gate, proc, boots, boot, lapsed, mem, taskVars, user, call>>

Reserved(r) ==
    /\ sub = [run |-> r, pc |-> "reserve"]
    /\ sub' = NoSub
    /\ reserve_run(r)
    /\ _enqueue(r)
    /\ UNCHANGED <<storeVars, gate, proc, boots, boot, lapsed, task, fin, stray, user, call>>

QuotaExceeded(r) ==
    /\ sub = [run |-> r, pc |-> "reserve"]
    /\ sub' = [sub EXCEPT !.pc = "refuse"]
    /\ UNCHANGED <<tableVars, proc, boots, boot, lapsed, mem, taskVars, user, call>>

(* The caller is cancelled while a thread enqueues the row, or reserves,   *)
(* and the thread commits all the same.                                    *)
SubmitDropped(r) ==
    /\ sub = [run |-> r, pc |-> "reserve"]
    /\ \/ sub' = NoSub /\ UNCHANGED <<gov, lapsed>>
       \/ sub' = [sub EXCEPT !.pc = "refuse"] /\ reserve_run(r) /\ lapsed' = lapsed \cup {r}
    /\ UNCHANGED <<storeVars, gate, proc, boots, boot, mem, taskVars, user, call>>

Refused(r) ==
    /\ sub = [run |-> r, pc |-> "refuse"]
    /\ sub' = NoSub
    /\ Ledger!cancel_queued(r)
    /\ UNCHANGED <<gov, gate, proc, boots, boot, lapsed, mem, taskVars, user, call>>

(* The workspace of a reserved run cannot be prepared: the row is          *)
(* withdrawn, then the reservation.  If the database is busy, the first    *)
(* failure leaves both, the second the reservation.                        *)
PrepareFails(r) ==
    /\ sub = [run |-> r, pc |-> "reserve"]
    /\ sub' = [sub EXCEPT !.pc = "withdraw"]
    /\ reserve_run(r)
    /\ UNCHANGED <<storeVars, gate, proc, boots, boot, lapsed, mem, taskVars, user, call>>

Withdrawn(r) ==
    /\ sub = [run |-> r, pc |-> "withdraw"]
    /\ sub' = [sub EXCEPT !.pc = "release"]
    /\ Ledger!cancel_queued(r)
    /\ UNCHANGED <<gov, gate, proc, boots, boot, lapsed, mem, taskVars, user, call>>

Released(r) ==
    /\ sub = [run |-> r, pc |-> "release"]
    /\ sub' = NoSub
    /\ finish_run(r)
    /\ UNCHANGED <<storeVars, gate, proc, boots, boot, lapsed, mem, taskVars, user, call>>

WithdrawalFails(r) ==
    /\ "busy" \in Hazards
    /\ sub.run = r /\ sub.pc \in {"refuse", "withdraw", "release"}
    /\ sub' = NoSub
    /\ lapsed' = IF gov[r] = "active" THEN lapsed \cup {r} ELSE lapsed
    /\ UNCHANGED <<tableVars, proc, boots, boot, mem, taskVars, user, call>>

(* The same run id submitted again, while its row is queued and unknown.   *)
Resubmit(r) ==
    /\ proc = "up"
    /\ sub = NoSub
    /\ mem[r].status = "none"
    /\ row[r] = "queued"
    /\ _restore(r)
    /\ lapsed' = lapsed \ {r}
    /\ UNCHANGED <<storeVars, gate, proc, boots, boot, sub, task, fin, stray, user, call>>

-----------------------------------------------------------------------------
(* BotWorker._run_loop and _execute.                                       *)

Take(b) ==
    /\ worker[b].loop = "idle"
    /\ worker[b].fifo # <<>>
    /\ LET r == Head(worker[b].fifo) IN
         IF Settled(r)
         THEN /\ worker' = [worker EXCEPT ![b].fifo = Tail(@)]
              /\ UNCHANGED task
         ELSE /\ worker' = [worker EXCEPT ![b] = [loop |-> "busy", fifo |-> Tail(@.fifo), active |-> r]]
              /\ task' = [task EXCEPT ![r].pc = "new"]
    /\ UNCHANGED <<tableVars, procVars, mem, fin, stray, user, call>>

(* The task is over and the loop goes on to its next run.                  *)
End(r) ==
    /\ task' = [task EXCEPT ![r] = NoTask]
    /\ worker' = [worker EXCEPT ![BotOf[r]].loop = "idle", ![BotOf[r]].active = NoRun]

(* _mark_started takes the lifecycle lock and claims the row.              *)
Begin(r) ==
    /\ task[r].pc = "new"
    /\ mem[r].lock = "free"
    /\ IF Settled(r) \/ mem[r].finishing
       THEN End(r) /\ UNCHANGED mem
       ELSE /\ task' = [task EXCEPT ![r].pc = "claim"]
            /\ mem' = [mem EXCEPT ![r].lock = "exec"]
            /\ UNCHANGED worker
    /\ UNCHANGED <<tableVars, procVars, fin, stray, user, call>>

Claimed(r) ==
    /\ task[r].pc = "claim"
    /\ Ledger!claim(r)
    /\ mem' = [mem EXCEPT ![r].lock = "free", ![r].handle = token'[r], ![r].status = "running"]
    /\ task' = [task EXCEPT ![r].pc = "turn", ![r].beats = TRUE]
    /\ UNCHANGED <<gov, gate, procVars, worker, fin, stray, user, call>>

(* _finish is called while the memory is m: it goes on at once when the    *)
(* lifecycle lock is free.                                                 *)
_finish(m, r, a, status) ==
    IF m[r].lock = "free"
    THEN /\ fin' = [fin EXCEPT ![r][a] = [step |-> "expire", status |-> status]]
         /\ mem' = [m EXCEPT ![r].lock = a, ![r].finishing = TRUE, ![r].pending = {}]
    ELSE /\ fin' = [fin EXCEPT ![r][a] = [step |-> "lock", status |-> status]]
         /\ mem' = m

(* An exception handler of _execute ends the run.                          *)
Settle(m, r, status) ==
    /\ task' = [task EXCEPT ![r].pc = "settle"]
    /\ _finish(m, r, "exec", status)

(* Mutant of ClaimFails: the lifecycle lock is not released.               *)
ClaimFailsLocked(r) ==
    /\ "busy" \in Hazards
    /\ task[r].pc = "claim"
    /\ Settle(mem, r, "failed")
    /\ UNCHANGED <<tableVars, procVars, worker, stray, user, call>>

ClaimFails(r) ==
    /\ "busy" \in Hazards
    /\ task[r].pc = "claim"
    /\ Settle([mem EXCEPT ![r].lock = "free"], r, "failed")
    /\ UNCHANGED <<tableVars, procVars, worker, stray, user, call>>

(* The heartbeats, the workspace guard and the provider process are let go *)
(* before the loop takes its next run.                                     *)
Unwind(r) ==
    /\ task[r].pc = "unwind"
    /\ End(r)
    /\ mem' = [mem EXCEPT ![r].lock = IF @ = "beat" THEN "free" ELSE @]
    /\ UNCHANGED <<tableVars, procVars, fin, stray, user, call>>

-----------------------------------------------------------------------------
(* The turn: _run_attempt, _apply_permission_policy and _maybe_failover.   *)

(* permission_lock is held by the operator's call until it returns, by the *)
(* policy while it answers.                                                *)
UserBusy(r) == user[r].pc # "idle"
PermissionLocked(r) == UserBusy(r) \/ task[r].pc \in {"send", "auto"}

Goto(r, pc) == task' = [task EXCEPT ![r].pc = pc]

AgentAsks(r, q) ==
    /\ task[r].pc = "turn"
    /\ ~UserBusy(r)
    /\ ~Settled(r)
    /\ q \notin task[r].asked
    /\ task' = [task EXCEPT ![r].pc = "eval", ![r].ask = q, ![r].asked = @ \cup {q}]
    /\ mem' = [mem EXCEPT ![r].pending = @ \cup {q}]
    /\ UNCHANGED <<tableVars, procVars, worker, fin, stray, user, call>>

(* The agent gets its answer and the request is not pending any more.      *)
Answered(r, q) ==
    mem' = [mem EXCEPT ![r].pending = @ \ {q},
                       ![r].status = IF mem[r].pending \subseteq {q} /\ ~Settled(r)
                                     THEN "running" ELSE @]

PolicyAnswers(r) ==
    /\ task[r].pc = "eval"
    /\ ~UserBusy(r)
    /\ Goto(r, IF task[r].ask \in mem[r].pending /\ ~Settled(r) THEN "send" ELSE "turn")
    /\ UNCHANGED <<tableVars, procVars, mem, worker, fin, stray, user, call>>

PolicySends(r) ==
    /\ task[r].pc = "send"
    /\ Answered(r, task[r].ask)
    /\ task' = [task EXCEPT ![r].pc = "auto", ![r].answered = @ \cup {task[r].ask}]
    /\ UNCHANGED <<tableVars, procVars, worker, fin, stray, user, call>>

PolicyAsks(r) ==
    /\ task[r].pc = "eval"
    /\ mem' = [mem EXCEPT ![r].status = "waiting"]
    /\ Goto(r, "gate")
    /\ UNCHANGED <<tableVars, procVars, worker, fin, stray, user, call>>

(* A request id the run has used before finds the gate it had then.        *)
create_permission(r, q) ==
    gate' = [gate EXCEPT ![r][q] = IF @ = "none" THEN "pending" ELSE @]

GateCreated(r) ==
    /\ task[r].pc = "gate"
    /\ create_permission(r, task[r].ask)
    /\ Goto(r, "check")
    /\ UNCHANGED <<storeVars, gov, procVars, mem, worker, fin, stray, user, call>>

StillWaiting(r) ==
    /\ task[r].pc = "check"
    /\ ~UserBusy(r)
    /\ Goto(r, IF task[r].ask \in mem[r].pending /\ mem[r].status = "waiting"
               THEN "wait" ELSE "turn")
    /\ UNCHANGED <<tableVars, procVars, mem, worker, fin, stray, user, call>>

(* A write that finds the lease lost fails the attempt.                    *)
MarkedWaiting(r) ==
    /\ task[r].pc = "wait"
    /\ \/ Ledger!mark_waiting_permission(r, mem[r].handle) /\ Goto(r, "turn")
       \/ ~Holds(r) /\ UNCHANGED storeVars /\ Goto(r, "failover")
    /\ UNCHANGED <<gov, gate, procVars, mem, worker, fin, stray, user, call>>

MarkedRunning(r) ==
    /\ task[r].pc = "auto"
    /\ \/ Ledger!mark_running(r, mem[r].handle) /\ Goto(r, "turn")
       \/ ~Holds(r) /\ UNCHANGED storeVars /\ Goto(r, "failover")
    /\ UNCHANGED <<gov, gate, procVars, mem, worker, fin, stray, user, call>>

TurnEnds(r) ==
    /\ task[r].pc = "turn"
    /\ IF Settled(r)
       THEN Goto(r, "unwind") /\ UNCHANGED <<mem, fin>>
       ELSE Goto(r, "finish") /\ _finish(mem, r, "exec", "complete")
    /\ UNCHANGED <<tableVars, procVars, worker, stray, user, call>>

(* The provider fails, or cannot be given the policy's answer.             *)
TurnFails(r) ==
    /\ task[r].pc \in {"turn", "send"}
    /\ Goto(r, "failover")
    /\ UNCHANGED <<tableVars, procVars, mem, worker, fin, stray, user, call>>

(* Another provider takes over with a session of its own.                  *)
FailsOver(r) ==
    /\ task[r].pc = "failover"
    /\ ~Settled(r)
    /\ ~mem[r].finishing
    /\ Ledger!record_failover(r, mem[r].handle)
    /\ mem' = [mem EXCEPT ![r].pending = {}, ![r].status = "running"]
    /\ Goto(r, "reopen")
    /\ UNCHANGED <<gov, gate, procVars, worker, fin, stray, user, call>>

Reopened(r) ==
    /\ task[r].pc = "reopen"
    /\ task' = [task EXCEPT ![r].pc = "turn", ![r].asked = {}, ![r].answered = {}]
    /\ UNCHANGED <<tableVars, procVars, mem, worker, fin, stray, user, call>>

(* Mutant of NoFailover: the failed run is put back instead of ended.      *)
NoFailoverQueues(r) ==
    /\ task[r].pc = "failover"
    /\ IF Settled(r) THEN Goto(r, "unwind") /\ UNCHANGED <<mem, fin>> ELSE Settle(mem, r, "queued")
    /\ UNCHANGED <<tableVars, procVars, worker, stray, user, call>>

NoFailover(r) ==
    /\ task[r].pc = "failover"
    /\ IF Settled(r) THEN Goto(r, "unwind") /\ UNCHANGED <<mem, fin>> ELSE Settle(mem, r, "failed")
    /\ UNCHANGED <<tableVars, procVars, worker, stray, user, call>>

-----------------------------------------------------------------------------
(* Engine.decide_permission, for a request the operator can see.           *)

(* Mutant of Decide: the policy's answer is not waited for.                *)
DecideUnlocked(r, q) ==
    /\ proc = "up"
    /\ ~UserBusy(r)
    /\ gate[r][q] # "none"
    /\ q \in mem[r].pending
    /\ ~Settled(r)
    /\ worker[BotOf[r]].active = r
    /\ user' = [user EXCEPT ![r] = [pc |-> "send", ask |-> q]]
    /\ UNCHANGED <<tableVars, procVars, mem, taskVars, call>>

Decide(r, q) ==
    /\ proc = "up"
    /\ ~PermissionLocked(r)
    /\ gate[r][q] # "none"
    /\ q \in mem[r].pending
    /\ ~Settled(r)
    /\ worker[BotOf[r]].active = r
    /\ user' = [user EXCEPT ![r] = [pc |-> "send", ask |-> q]]
    /\ UNCHANGED <<tableVars, procVars, mem, taskVars, call>>

(* The session that was the bot's when the call began takes the answer.    *)
Sent(r) ==
    /\ user[r].pc = "send"
    /\ Answered(r, user[r].ask)
    /\ task' = [task EXCEPT ![r].answered = @ \cup ({user[r].ask} \cap task[r].asked)]
    /\ user' = [user EXCEPT ![r].pc = "resolve"]
    /\ UNCHANGED <<tableVars, procVars, worker, fin, stray, call>>

SendFails(r) ==
    /\ user[r].pc = "send"
    /\ user' = [user EXCEPT ![r] = NoUser]
    /\ UNCHANGED <<tableVars, procVars, mem, taskVars, call>>

\* Interactions: only a pending gate takes a decision.
resolve(r, q) == gate' = [gate EXCEPT ![r][q] = IF @ = "pending" THEN "resolved" ELSE @]

Resolved(r) ==
    /\ user[r].pc = "resolve"
    /\ resolve(r, user[r].ask)
    /\ user' = [user EXCEPT ![r].pc = "mark"]
    /\ UNCHANGED <<storeVars, gov, procVars, mem, taskVars, call>>

Decided(r) ==
    /\ user[r].pc = "mark"
    /\ Ledger!mark_running(r, mem[r].handle) \/ (~Holds(r) /\ UNCHANGED storeVars)
    /\ user' = [user EXCEPT ![r] = NoUser]
    /\ UNCHANGED <<gov, gate, procVars, mem, taskVars, call>>

-----------------------------------------------------------------------------
(* Engine._finish, by the run's task or by the call that cancels it.       *)

Step(r, a, step) == fin' = [fin EXCEPT ![r][a].step = step]

(* The caller goes on.                                                     *)
FinReturns(r, a) ==
    /\ Step(r, a, "idle")
    /\ IF a = "exec"
       THEN Goto(r, "unwind") /\ UNCHANGED call
       ELSE call' = [call EXCEPT ![r][a].pc = "idle"] /\ UNCHANGED task

(* A caller that had to wait for the lifecycle lock.                       *)
FinLock(r, a) ==
    /\ fin[r][a].step = "lock"
    /\ mem[r].lock = "free"
    /\ IF Settled(r)
       THEN FinReturns(r, a) /\ UNCHANGED mem
       ELSE _finish(mem, r, a, fin[r][a].status) /\ UNCHANGED <<task, call>>
    /\ UNCHANGED <<tableVars, procVars, worker, stray, user>>

expire_run(r) ==
    gate' = [gate EXCEPT ![r] = [q \in Requests |-> IF @[q] = "pending" THEN "expired" ELSE @[q]]]

FinExpire(r, a) ==
    /\ fin[r][a].step = "expire"
    /\ expire_run(r)
    /\ Step(r, a, "commit")
    /\ UNCHANGED <<storeVars, gov, procVars, mem, worker, task, stray, user, call>>

(* Mutant of FinCommit: a row that waits for a permission does not take it. *)
FinCommitRunning(r, a) ==
    /\ fin[r][a].step = "commit"
    /\ \/ row[r] = "running" /\ Ledger!finish(r, mem[r].handle, fin[r][a].status)
       \/ row[r] # "running" /\ UNCHANGED storeVars
    /\ Step(r, a, "govern")
    /\ UNCHANGED <<gov, gate, procVars, mem, worker, task, stray, user, call>>

(* The durable outcome, when the row can still take one.                   *)
FinCommit(r, a) ==
    LET queued == mem[r].handle = 0 /\ fin[r][a].status = "cancelled" IN
    /\ fin[r][a].step = "commit"
    /\ \/ Ledger!finish(r, mem[r].handle, fin[r][a].status)
       \/ queued /\ Ledger!cancel_queued(r)
       \/ ~Holds(r) /\ ~(queued /\ row[r] = "queued") /\ UNCHANGED storeVars
    /\ Step(r, a, "govern")
    /\ UNCHANGED <<gov, gate, procVars, mem, worker, task, stray, user, call>>

(* The reservation is given back and the run settles in memory.            *)
FinGovern(r, a) ==
    /\ fin[r][a].step = "govern"
    /\ finish_run(r)
    /\ mem' = [mem EXCEPT ![r].status = fin[r][a].status, ![r].finishing = FALSE, ![r].lock = "free"]
    /\ FinReturns(r, a)
    /\ UNCHANGED <<storeVars, gate, procVars, worker, stray, user>>

-----------------------------------------------------------------------------
(* Cancelling a task: CancelledError at the point where it waits.          *)

(* The transaction it waits for, if any.  Those of expire_run and of the   *)
(* reservation are left out: the _finish that follows repeats them.        *)
Outstanding(r) ==
    CASE task[r].pc = "claim" -> {[job |-> "claim", ask |-> NoRequest]}
      [] task[r].pc = "gate"  -> {[job |-> "gate", ask |-> task[r].ask]}
      [] task[r].pc = "wait"  -> {[job |-> "waiting", ask |-> NoRequest]}
      [] task[r].pc = "auto"  -> {[job |-> "running", ask |-> NoRequest]}
      [] task[r].pc \in {"finish", "settle"} /\ fin[r]["exec"].step = "commit" ->
            {[job |-> fin[r]["exec"].status, ask |-> NoRequest]}
      [] OTHER -> {}

(* Only the claim is shielded: it is never withdrawn.                      *)
Late(r) == {late \in SUBSET Outstanding(r) : task[r].pc = "claim" => late # {}}

(* Whether _execute lets CancelledError out, which ends the worker's loop. *)
(* While another provider takes over, both parts of the code are run.      *)
Escapes(pc) == CASE pc \in {"new", "claim", "failover", "settle", "unwind"} -> {TRUE}
                 [] pc = "reopen" -> BOOLEAN
                 [] OTHER -> {FALSE}

(* Task.cancel() on the _execute task of r, the memory being m and the     *)
(* tasks t.                                                                *)
Kill(m, t, r) ==
    LET at == fin[r]["exec"].step
        released(escapes) ==
            [m EXCEPT ![r].lock = IF @ = "exec" \/ (escapes /\ @ = "beat") THEN "free" ELSE @,
                      ![r].finishing = @ /\ at # "commit"]
    IN  /\ \E late \in Late(r) : stray' = [stray EXCEPT ![r] = @ \cup late]
        /\ \E escapes \in Escapes(task[r].pc) :
              IF escapes
              THEN /\ mem' = released(TRUE)
                   /\ task' = [t EXCEPT ![r] = NoTask]
                   /\ fin' = [fin EXCEPT ![r]["exec"].step = "idle"]
                   /\ worker' = [worker EXCEPT ![BotOf[r]].loop = "dead", ![BotOf[r]].active = NoRun]
              ELSE /\ UNCHANGED worker
                   /\ IF Settled(r)
                      THEN /\ mem' = released(FALSE)
                           /\ task' = [t EXCEPT ![r].pc = "unwind"]
                           /\ fin' = [fin EXCEPT ![r]["exec"].step = "idle"]
                      ELSE /\ task' = [t EXCEPT ![r].pc = "settle"]
                           /\ _finish(released(FALSE), r, "exec", "cancelled")

(* A heartbeat that will find the lease lost takes the lifecycle lock.     *)
HeartbeatLooks(r) ==
    /\ task[r].beats
    /\ task[r].pc # "unwind"
    /\ mem[r].lock = "free"
    /\ ~Settled(r)
    /\ ~mem[r].finishing
    /\ ~Holds(r)
    /\ mem' = [mem EXCEPT ![r].lock = "beat"]
    /\ UNCHANGED <<tableVars, procVars, taskVars, user, call>>

(* The heartbeat lets the lock go, cancels the task and ends.              *)
HeartbeatFails(r) ==
    /\ mem[r].lock = "beat"
    /\ Kill([mem EXCEPT ![r].lock = "free"], [task EXCEPT ![r].beats = FALSE], r)
    /\ UNCHANGED <<tableVars, procVars, user, call>>

(* A transaction whose caller is gone.                                     *)
StrayCommits(r) ==
    \E j \in stray[r] :
        /\ stray' = [stray EXCEPT ![r] = @ \ {j}]
        /\ \/ j.job = "claim" /\ Ledger!claim(r) /\ UNCHANGED gate
           \/ j.job = "claim" /\ row[r] # "queued" /\ UNCHANGED <<storeVars, gate>>
           \/ j.job = "gate" /\ create_permission(r, j.ask) /\ UNCHANGED storeVars
           \/ j.job = "waiting" /\ Ledger!mark_waiting_permission(r, mem[r].handle) /\ UNCHANGED gate
           \/ j.job = "running" /\ Ledger!mark_running(r, mem[r].handle) /\ UNCHANGED gate
           \/ j.job \in Terminal /\ Ledger!finish(r, mem[r].handle, j.job) /\ UNCHANGED gate
           \/ j.job \in {"waiting", "running"} \cup Terminal /\ ~Holds(r) /\ UNCHANGED <<storeVars, gate>>
        /\ UNCHANGED <<gov, procVars, mem, worker, task, fin, user, call>>

-----------------------------------------------------------------------------
(* Engine.cancel, by the operator or by Engine.close for every open run,   *)
(* and BotWorker.cancel_run.                                               *)

(* Mutant of CancelFinishes: nobody looks whether the run has settled by    *)
(* itself.                                                                 *)
CancelFinishesAnyway(r, c) ==
    /\ call' = [call EXCEPT ![r][c] = [pc |-> "finish", target |-> NoRun]]
    /\ _finish(mem, r, c, "cancelled")

CancelFinishes(r, c) ==
    LET next == IF Settled(r) THEN "idle" ELSE "finish" IN
    /\ call' = [call EXCEPT ![r][c] = [pc |-> next, target |-> NoRun]]
    /\ IF Settled(r) THEN UNCHANGED <<mem, fin>> ELSE _finish(mem, r, c, "cancelled")

Cancel(r, c) ==
    /\ \/ c = "close" /\ proc = "closing"
       \/ c = "cancel" /\ proc = "up" /\ r \in MayCancel
    /\ call[r][c].pc = "idle"
    /\ Open(r)
    /\ IF worker[BotOf[r]].active = r
       THEN call' = [call EXCEPT ![r][c].pc = "polite"] /\ UNCHANGED <<mem, fin>>
       ELSE CancelFinishes(r, c)
    /\ UNCHANGED <<tableVars, procVars, worker, task, stray, user>>

(* session/cancel has been sent, or timed out, or there is no session: the *)
(* worker's active task, whichever run it is for now, is cancelled.        *)
CancelTask(r, c) ==
    LET target == worker[BotOf[r]].active IN
    /\ call[r][c].pc = "polite"
    /\ IF target = NoRun
       THEN CancelFinishes(r, c) /\ UNCHANGED <<worker, task, stray>>
       ELSE /\ Kill(mem, task, target)
            /\ call' = [call EXCEPT ![r][c] = [pc |-> "gather", target |-> target]]
    /\ UNCHANGED <<tableVars, procVars, user>>

TaskGone(r, c) ==
    /\ call[r][c].pc = "gather"
    /\ task[call[r][c].target].pc = "none"
    /\ CancelFinishes(r, c)
    /\ UNCHANGED <<tableVars, procVars, worker, task, stray, user>>

Close ==
    /\ "close" \in Hazards
    /\ proc = "up"
    /\ sub = NoSub
    /\ proc' = "closing"
    /\ UNCHANGED <<tableVars, boots, boot, sub, lapsed, mem, taskVars, user, call>>

Closed ==
    /\ proc = "closing"
    /\ \A r \in Runs : /\ ~Open(r) /\ task[r].pc = "none" /\ stray[r] = {} /\ ~UserBusy(r)
                       /\ \A c \in Callers : call[r][c].pc = "idle"
    /\ proc' = "off"
    /\ Fresh
    /\ UNCHANGED <<tableVars, boots>>

Crash ==
    /\ "crash" \in Hazards
    /\ proc # "off"
    /\ proc' = "off"
    /\ Fresh
    /\ UNCHANGED <<tableVars, boots>>

(* Mutant of LeaseExpires: expired rows are requeued under a live daemon.   *)
LeaseReaped(r) ==
    /\ "stall" \in Hazards
    /\ Ledger!LeaseExpires(r) \/ Ledger!requeue_stale
    /\ UNCHANGED <<gov, gate, procVars, mem, taskVars, user, call>>

(* The event loop, or the machine, stalls past the lease of a run.         *)
LeaseExpires(r) ==
    /\ "stall" \in Hazards
    /\ Ledger!LeaseExpires(r)
    /\ UNCHANGED <<gov, gate, procVars, mem, taskVars, user, call>>

-----------------------------------------------------------------------------
Finish(r, a) == FinLock(r, a) \/ FinExpire(r, a) \/ FinCommit(r, a) \/ FinGovern(r, a)

Turn(r) ==
    \/ Begin(r) \/ Claimed(r) \/ ClaimFails(r) \/ Unwind(r)
    \/ PolicyAnswers(r) \/ PolicySends(r) \/ PolicyAsks(r)
    \/ GateCreated(r) \/ StillWaiting(r) \/ MarkedWaiting(r) \/ MarkedRunning(r)
    \/ TurnEnds(r) \/ TurnFails(r) \/ FailsOver(r) \/ Reopened(r) \/ NoFailover(r)
    \/ Finish(r, "exec")
    \/ \E q \in Requests : AgentAsks(r, q)

Serve(r) ==
    \/ Reserved(r) \/ QuotaExceeded(r) \/ SubmitDropped(r) \/ Refused(r)
    \/ PrepareFails(r) \/ Withdrawn(r) \/ Released(r) \/ WithdrawalFails(r)
    \/ Sent(r) \/ SendFails(r) \/ Resolved(r) \/ Decided(r)
    \/ \E c \in Callers : CancelTask(r, c) \/ TaskGone(r, c) \/ Finish(r, c)
    \/ StrayCommits(r)

Boot == Start \/ Recover \/ Started \/ \E r \in Runs : Restore(r)

Next ==
    \/ Boot \/ Close \/ Closed \/ Crash
    \/ \E b \in Bots : Take(b)
    \/ \E r \in Runs :
          \/ Submit(r) \/ Resubmit(r) \/ \E q \in Requests : Decide(r, q)
          \/ Turn(r) \/ Serve(r) \/ \E c \in Callers : Cancel(r, c)
          \/ LeaseExpires(r) \/ HeartbeatLooks(r) \/ HeartbeatFails(r)

Spec == Init /\ [][Next]_vars

(* The event loop runs every task that can go on, an asyncio.Lock serves   *)
(* those that wait for it in turn, and an agent that is not waiting for an *)
(* answer goes on.                                                         *)
Fairness ==
    /\ \A b \in Bots : WF_vars(Take(b))
    /\ \A r \in Runs : SF_vars(Turn(r)) /\ WF_vars(Serve(r)) /\ WF_vars(HeartbeatFails(r))

LiveSpec == Spec /\ Fairness

-----------------------------------------------------------------------------
(* Properties.                                                             *)

(* A run in its turn holds the token of the last claim of its row, and the *)
(* row is still active: no recovery, restart or late transaction lets a    *)
(* run be executed twice, or executed after its outcome is recorded.       *)
ExecutionHasClaim ==
    \A r \in Runs : task[r].pc \in InTurn => row[r] \in Ledger!Active /\ mem[r].handle = token[r]

(* The operator and the policy never both answer one permission request,   *)
(* and neither answers it twice in a session.                              *)
NoDoubleAnswer ==
    \A r \in Runs :
        /\ user[r].pc = "send" => user[r].ask \notin task[r].answered
        /\ task[r].pc = "send" => task[r].ask \notin task[r].answered
        /\ ~(user[r].pc = "send" /\ task[r].pc = "send" /\ user[r].ask = task[r].ask)

(* While the daemon is up, a reserved slot of a bot's concurrency quota    *)
(* belongs to a run that is still open or being submitted, whatever was    *)
(* lost between the two databases' commits when the last process died: but *)
(* for a run that was turned away and could not be withdrawn from both.    *)
NoLeakedReservation ==
    proc = "up" => \A r \in Runs : gov[r] = "active" => Open(r) \/ sub.run = r \/ r \in lapsed

(* A settled run is never opened again, nor its outcome replaced, by the   *)
(* other party that was ending it.                                         *)
TerminalIsFinal ==
    [][\A r \in Runs : Settled(r) /\ proc' # "off" => mem'[r].status = mem[r].status]_vars

(* A run shown as complete is complete in the ledger, and will not be run  *)
(* again after a restart, unless it had lost its lease.                    *)
CompletedIsDurable ==
    \A r \in Runs : mem[r].status = "complete" =>
        row[r] \in {"complete", "absent"} \/ lease[r] = "expired"

(* A run that completed or failed asks the operator for nothing: not for   *)
(* what it asked in this process, and not for what it had asked before a   *)
(* restart.  (The gate a cancelled task was inserting may appear late.)    *)
SettledRunsAskNothing ==
    \A r \in Runs : mem[r].status \in {"complete", "failed"} =>
        mem[r].pending = {} /\ \A q \in Requests : gate[r][q] # "pending"

(* A permission request is answered once, and none outlives its run.       *)
GatesConsistent == NoDoubleAnswer /\ SettledRunsAskNothing

(* An accepted run settles, also behind other runs of its bot, unless the  *)
(* process ends first or a cancellation ends the worker's loop (see        *)
(* WorkerSurvives).                                                        *)
OpenRunsSettle ==
    \A r \in Runs : Open(r) ~> (Settled(r) \/ proc = "off" \/ worker[BotOf[r]].loop = "dead")

(* A cancel call ends with the run settled, whatever task it had to stop.  *)
CancelSettles ==
    \A r \in Runs, c \in Callers : call[r][c].pc # "idle" ~> (Settled(r) \/ proc = "off")

RunsSettle == OpenRunsSettle /\ CancelSettles

-----------------------------------------------------------------------------
(* What the source says and the code does not keep.                        *)

(* engine.py:254: no single run may kill the worker of its bot.            *)
WorkerSurvives == proc = "up" => \A b \in Bots : worker[b].loop # "dead"
=============================================================================
