----------------------------- MODULE Delegation -----------------------------
(***************************************************************************)
(* The durable task graph of src/kyn/delegation.py: DelegationStore, every *)
(* method of which is one SQLite transaction, and the coordinators that    *)
(* claim its nodes under expiring leases, submit one engine run per node,  *)
(* wait for the runs and record the outcomes.  One plan is modelled; plans *)
(* share no row.                                                           *)
(*                                                                         *)
(* A coordinator is one DelegationCoordinator object, whose random owner   *)
(* name lives as long as its process: a restarted service is another       *)
(* member of Coordinators.  A slot is one permit of its capacity           *)
(* semaphore, and the node-execution task that holds it.                   *)
(*                                                                         *)
(* A lease is "held" until the clock passes lease_until, which the model   *)
(* lets happen at any moment: the event loop may stall past a heartbeat,   *)
(* and no lease is renewed while a node is being submitted.                *)
(***************************************************************************)
EXTENDS Integers, FiniteSets, FiniteSetsExt, Dag

CONSTANTS Nodes,         \* a node is named by its ordinal in the plan
          PlanGraphs,    \* the dependency graphs plans are created with
          Coordinators,
          Slots,         \* max_concurrency permits
          MayStop,       \* the coordinators whose process may shut down or die
          NoOwner, NoNode

ASSUME NodesAssumption == Nodes \subseteq Nat /\ Nodes # {} /\ NoNode \notin Nodes
ASSUME GraphsAssumption == PlanGraphs \subseteq Graphs(Nodes)
ASSUME OwnersAssumption == MayStop \subseteq Coordinators /\ NoOwner \notin Coordinators

VARIABLES
    plan,        \* delegation_plans.status, "absent" before the row exists
    dispatch,    \* delegation_plans.dispatch_state
    edges,       \* delegation_edges
    node,        \* delegation_nodes.status
    runId,       \* whether delegation_nodes.run_id is set: the id is a function of the node
    owner,       \* delegation_nodes.lease_owner
    lease,       \* delegation_nodes.lease_until against the clock
    run,         \* the engine's durable run of each node
    phase,       \* where each coordinator's run_until_terminal is
    pc, job,     \* what each slot's _execute is about to do, and for which node
    cancelling   \* the nodes whose run ids cancel_plan returned and has not cancelled yet

storeVars == <<plan, dispatch, edges, node, runId, owner, lease>>
taskVars  == <<pc, job>>
vars == <<plan, dispatch, edges, node, runId, owner, lease, run, phase, pc, job, cancelling>>

Workers == Coordinators \X Slots

NodeStatus  == {"pending", "claimed", "running", "succeeded", "failed", "blocked", "cancelled"}
NodeTerminal == {"succeeded", "failed", "blocked", "cancelled"}
PlanTerminal == {"succeeded", "failed", "cancelled"}
RunTerminal  == {"complete", "failed", "cancelled"}

TypeOK ==
    /\ plan \in {"absent", "pending", "running"} \cup PlanTerminal
    /\ dispatch \in {"active", "paused"}
    /\ edges \in SUBSET (Nodes \X Nodes)
    /\ node \in [Nodes -> NodeStatus]
    /\ runId \in [Nodes -> BOOLEAN]
    /\ owner \in [Nodes -> Coordinators \cup {NoOwner}]
    /\ lease \in [Nodes -> {"none", "held", "expired"}]
    /\ run \in [Nodes -> {"none", "active"} \cup RunTerminal]
    /\ phase \in [Coordinators -> {"off", "poll", "claim", "gather", "closing", "done", "down"}]
    /\ pc \in [Workers -> {"idle", "submit", "confirm", "wait"}]
    /\ job \in [Workers -> Nodes \cup {NoNode}]
    /\ cancelling \in SUBSET Nodes

Init ==
    /\ plan = "absent"
    /\ dispatch = "active"
    /\ edges = {}
    /\ node = [n \in Nodes |-> "pending"]
    /\ runId = [n \in Nodes |-> FALSE]
    /\ owner = [n \in Nodes |-> NoOwner]
    /\ lease = [n \in Nodes |-> "none"]
    /\ run = [n \in Nodes |-> "none"]
    /\ phase = [c \in Coordinators |-> "off"]
    /\ pc = [w \in Workers |-> "idle"]
    /\ job = [w \in Workers |-> NoNode]
    /\ cancelling = {}

-----------------------------------------------------------------------------
(* The store's derived values.                                             *)

(* Mutants of PlanStatus: a status of its own for blocked nodes, and a      *)
(* plan that fails with its first failed node.                             *)
PlanStatusBlocked(status) ==
    IF \E n \in Nodes : status[n] \notin NodeTerminal
    THEN IF \A n \in Nodes : status[n] = "pending" THEN "pending" ELSE "running"
    ELSE IF \E n \in Nodes : status[n] = "blocked" THEN "blocked"
    ELSE IF \E n \in Nodes : status[n] = "failed" THEN "failed"
    ELSE IF \E n \in Nodes : status[n] = "cancelled" THEN "cancelled"
    ELSE "succeeded"

PlanStatusEager(status) ==
    IF \E n \in Nodes : status[n] = "failed" THEN "failed"
    ELSE IF \E n \in Nodes : status[n] \notin NodeTerminal
    THEN IF \A n \in Nodes : status[n] = "pending" THEN "pending" ELSE "running"
    ELSE IF \E n \in Nodes : status[n] = "cancelled" THEN "cancelled"
    ELSE "succeeded"

(* _refresh_plan: the status a plan gets from the statuses of its nodes.   *)
PlanStatus(status) ==
    IF \E n \in Nodes : status[n] \notin NodeTerminal
    THEN IF \A n \in Nodes : status[n] = "pending" THEN "pending" ELSE "running"
    ELSE IF \E n \in Nodes : status[n] \in {"failed", "blocked"} THEN "failed"
    ELSE IF \E n \in Nodes : status[n] = "cancelled" THEN "cancelled"
    ELSE "succeeded"

(* The longest chain of dependencies above a node, stored in its row.      *)
Depth(n) ==
    LET d[m \in Nodes] ==
          LET above == Parents(edges, m)
          IN  IF above = {} THEN 0 ELSE 1 + Max({d[p] : p \in above})
    IN  d[n]

(* Mutant of ParentsSucceeded: dependencies need only be under way.         *)
ParentsStarted(n) == \A p \in Parents(edges, n) : node[p] \in {"running", "succeeded"}

(* Mutant of Claimable: nothing is taken over from a lost coordinator.      *)
ClaimableOnce(n) ==
    /\ plan \in {"pending", "running"}
    /\ dispatch = "active"
    /\ node[n] = "pending"
    /\ \A p \in Parents(edges, n) : node[p] = "succeeded"

(* The rows the SELECT of claim_ready returns.                             *)
ParentsSucceeded(n) == \A p \in Parents(edges, n) : node[p] = "succeeded"

Claimable(n) ==
    /\ plan \in {"pending", "running"}
    /\ dispatch = "active"
    /\ \/ node[n] = "pending" /\ ParentsSucceeded(n)
       \/ node[n] \in {"claimed", "running"} /\ lease[n] = "expired"

(* ORDER BY depth, ordinal.                                                *)
FirstClaimable(n) ==
    /\ Claimable(n)
    /\ \A m \in Nodes : Claimable(m) =>
          \/ Depth(n) < Depth(m)
          \/ Depth(n) = Depth(m) /\ n <= m

(* Mutant of Holds: the UPDATE forgets lease_owner.                         *)
HoldsAny(c, n) == node[n] \in {"claimed", "running"}

Holds(c, n) == node[n] \in {"claimed", "running"} /\ owner[n] = c

-----------------------------------------------------------------------------
(* The API: creating, starting and cancelling the plan.                    *)

create_plan(E, start) ==
    /\ plan = "absent"
    /\ edges' = E
    /\ plan' = PlanStatus(node)
    /\ dispatch' = IF start THEN "active" ELSE "paused"
    /\ UNCHANGED <<node, runId, owner, lease, run, phase, taskVars, cancelling>>

start_plan ==
    /\ plan \notin PlanTerminal \cup {"absent"}
    /\ dispatch = "paused"
    /\ dispatch' = "active"
    /\ plan' = PlanStatus(node)
    /\ UNCHANGED <<edges, node, runId, owner, lease, run, phase, taskVars, cancelling>>

(* The store cancels every open node in one transaction and returns the    *)
(* run ids of the running ones; the coordinator then cancels those runs    *)
(* one call each (cancel_run below).                                       *)
cancel_plan ==
    /\ plan \notin PlanTerminal \cup {"absent"}
    /\ cancelling' = {n \in Nodes : node[n] = "running" /\ runId[n]}
    /\ node' = [n \in Nodes |-> IF node[n] \in NodeTerminal THEN node[n] ELSE "cancelled"]
    /\ owner' = [n \in Nodes |-> IF node[n] \in NodeTerminal THEN owner[n] ELSE NoOwner]
    /\ lease' = [n \in Nodes |-> IF node[n] \in NodeTerminal THEN lease[n] ELSE "none"]
    /\ plan' = "cancelled"
    /\ dispatch' = "active"
    /\ UNCHANGED <<edges, runId, run, phase, taskVars>>

cancel_run(n) ==
    /\ n \in cancelling
    /\ cancelling' = cancelling \ {n}
    /\ run' = [run EXCEPT ![n] = IF @ = "active" THEN "cancelled" ELSE @]
    /\ UNCHANGED <<storeVars, phase, taskVars>>

-----------------------------------------------------------------------------
(* A coordinator's loop: run_until_terminal calling tick.                  *)

(* launch_delegation, by the API or when the service starts.               *)
Launch(c) ==
    /\ phase[c] = "off"
    /\ plan \in {"pending", "running"}
    /\ dispatch = "active"
    /\ phase' = [phase EXCEPT ![c] = "poll"]
    /\ UNCHANGED <<storeVars, run, taskVars, cancelling>>

(* tick claims one node for a free slot.  The task gets the row as claimed: *)
(* a node that was already running is only waited for.                      *)
claim_ready(c, s, n) ==
    /\ phase[c] \in {"poll", "claim"}
    /\ pc[<<c, s>>] = "idle"
    /\ FirstClaimable(n)
    /\ node' = [node EXCEPT ![n] = IF @ = "running" THEN "running" ELSE "claimed"]
    /\ owner' = [owner EXCEPT ![n] = c]
    /\ lease' = [lease EXCEPT ![n] = "held"]
    /\ plan' = PlanStatus(node')
    /\ pc' = [pc EXCEPT ![<<c, s>>] =
                IF node[n] = "running" /\ runId[n] THEN "wait" ELSE "submit"]
    /\ job' = [job EXCEPT ![<<c, s>>] = n]
    /\ phase' = [phase EXCEPT ![c] = "claim"]
    /\ UNCHANGED <<dispatch, edges, runId, run, cancelling>>

(* No permit or no claimable node is left: tick gathers what it started.   *)
EndClaims(c) ==
    /\ phase[c] = "claim"
    /\ \/ \A s \in Slots : pc[<<c, s>>] # "idle"
       \/ \A n \in Nodes : ~Claimable(n)
    /\ phase' = [phase EXCEPT ![c] = "gather"]
    /\ UNCHANGED <<storeVars, run, taskVars, cancelling>>

EndTick(c) ==
    /\ phase[c] = "gather"
    /\ \A s \in Slots : pc[<<c, s>>] = "idle"
    /\ phase' = [phase EXCEPT ![c] = "poll"]
    /\ UNCHANGED <<storeVars, run, taskVars, cancelling>>

PlanIsTerminal(c) ==
    /\ phase[c] = "poll"
    /\ plan \in PlanTerminal
    /\ phase' = [phase EXCEPT ![c] = "done"]
    /\ UNCHANGED <<storeVars, run, taskVars, cancelling>>

-----------------------------------------------------------------------------
(* _execute: one node in one slot.  A store call of a coordinator that no  *)
(* longer holds the lease updates no row.                                  *)

Idle(w) ==
    /\ pc' = [pc EXCEPT ![w] = "idle"]
    /\ job' = [job EXCEPT ![w] = NoNode]

(* Mutant of _finish_node: only the direct dependents of a failure block.   *)
_finish_node_shallow(c, n, status) ==
    IF Holds(c, n)
    THEN /\ node' = [m \in Nodes |->
                IF m = n THEN status
                ELSE IF status = "failed" /\ <<n, m>> \in edges THEN "blocked" ELSE node[m]]
         /\ owner' = [m \in Nodes |-> IF m = n THEN NoOwner ELSE owner[m]]
         /\ lease' = [m \in Nodes |-> IF m = n THEN "none" ELSE lease[m]]
         /\ plan' = PlanStatus(node')
    ELSE UNCHANGED <<plan, node, owner, lease>>

(* mark_success and mark_failure.                                          *)
_finish_node(c, n, status) ==
    IF Holds(c, n)
    THEN /\ node' = [m \in Nodes |->
                IF m = n THEN status
                ELSE IF /\ status = "failed"
                        /\ m \in Descendants(Nodes, edges, n)
                        /\ node[m] \in {"pending", "claimed"}
                     THEN "blocked"
                     ELSE node[m]]
         /\ owner' = [m \in Nodes |->
                IF m = n \/ node'[m] # node[m] THEN NoOwner ELSE owner[m]]
         /\ lease' = [m \in Nodes |->
                IF m = n \/ node'[m] # node[m] THEN "none" ELSE lease[m]]
         /\ plan' = PlanStatus(node')
    ELSE UNCHANGED <<plan, node, owner, lease>>

(* engine.submit under the node's stable run id: a repeated submission     *)
(* finds the run that exists.                                              *)
Submit(c, s) ==
    LET n == job[<<c, s>>] IN
    /\ phase[c] = "gather"
    /\ pc[<<c, s>>] = "submit"
    /\ run' = [run EXCEPT ![n] = IF @ = "none" THEN "active" ELSE @]
    /\ pc' = [pc EXCEPT ![<<c, s>>] = "confirm"]
    /\ UNCHANGED <<storeVars, phase, job, cancelling>>

(* The engine refuses the submission (a quota, a workspace).               *)
SubmitFails(c, s) ==
    LET n == job[<<c, s>>] IN
    /\ phase[c] = "gather"
    /\ pc[<<c, s>>] = "submit"
    /\ run[n] = "none"
    /\ _finish_node(c, n, "failed")
    /\ Idle(<<c, s>>)
    /\ UNCHANGED <<dispatch, edges, runId, run, phase, cancelling>>

(* mark_running does not refresh the plan; when the node is no longer      *)
(* claimed by this coordinator _execute returns.                           *)
mark_running(c, s) ==
    LET n == job[<<c, s>>] IN
    /\ phase[c] = "gather"
    /\ pc[<<c, s>>] = "confirm"
    /\ IF node[n] = "claimed" /\ owner[n] = c
       THEN /\ node' = [node EXCEPT ![n] = "running"]
            /\ runId' = [runId EXCEPT ![n] = TRUE]
            /\ pc' = [pc EXCEPT ![<<c, s>>] = "wait"]
            /\ UNCHANGED job
       ELSE /\ Idle(<<c, s>>)
            /\ UNCHANGED <<node, runId>>
    /\ UNCHANGED <<plan, dispatch, edges, owner, lease, run, phase, cancelling>>

(* The heartbeat of _wait_with_lease.  A lost lease raises, and the        *)
(* mark_failure that follows finds a row this coordinator does not own.    *)
renew_claim(c, s) ==
    LET n == job[<<c, s>>] IN
    /\ phase[c] = "gather"
    /\ pc[<<c, s>>] = "wait"
    /\ IF Holds(c, n)
       THEN /\ lease[n] = "expired"
            /\ lease' = [lease EXCEPT ![n] = "held"]
            /\ UNCHANGED <<plan, node, owner, taskVars>>
       ELSE /\ _finish_node(c, n, "failed")
            /\ Idle(<<c, s>>)
    /\ UNCHANGED <<dispatch, edges, runId, run, phase, cancelling>>

(* Mutant of WaitReturns: a cancelled run counts as a success.              *)
WaitReturnsLenient(c, s) ==
    LET n == job[<<c, s>>] IN
    /\ phase[c] = "gather"
    /\ pc[<<c, s>>] = "wait"
    /\ run[n] \in RunTerminal
    /\ _finish_node(c, n, IF run[n] = "failed" THEN "failed" ELSE "succeeded")
    /\ Idle(<<c, s>>)
    /\ UNCHANGED <<dispatch, edges, runId, run, phase, cancelling>>

(* The wait returns the run's terminal snapshot, and the outcome of the    *)
(* node is recorded.                                                       *)
WaitReturns(c, s) ==
    LET n == job[<<c, s>>] IN
    /\ phase[c] = "gather"
    /\ pc[<<c, s>>] = "wait"
    /\ run[n] \in RunTerminal
    /\ _finish_node(c, n, IF run[n] = "complete" THEN "succeeded" ELSE "failed")
    /\ Idle(<<c, s>>)
    /\ UNCHANGED <<dispatch, edges, runId, run, phase, cancelling>>

(* Waiting itself raised: the node fails whatever the run is doing.        *)
WaitRaises(c, s) ==
    LET n == job[<<c, s>>] IN
    /\ phase[c] = "gather"
    /\ pc[<<c, s>>] = "wait"
    /\ _finish_node(c, n, "failed")
    /\ Idle(<<c, s>>)
    /\ UNCHANGED <<dispatch, edges, runId, run, phase, cancelling>>

-----------------------------------------------------------------------------
(* Shutdown: close() cancels the tasks, each of which hands its node back. *)

close(c) ==
    /\ c \in MayStop
    /\ phase[c] \in {"poll", "gather"}
    /\ phase' = [phase EXCEPT ![c] =
                   IF \A s \in Slots : pc[<<c, s>>] = "idle" THEN "down" ELSE "closing"]
    /\ UNCHANGED <<storeVars, run, taskVars, cancelling>>

(* release_claim of node n, when `started` tells whether its row has a run *)
(* id by now.                                                              *)
release_claim(c, n, started) ==
    IF Holds(c, n)
    THEN /\ node' = [node EXCEPT ![n] = IF started THEN "running" ELSE "pending"]
         /\ owner' = [owner EXCEPT ![n] = NoOwner]
         /\ lease' = [lease EXCEPT ![n] = IF started THEN "expired" ELSE "none"]
         /\ plan' = PlanStatus(node')
    ELSE UNCHANGED <<plan, node, owner, lease>>

(* A task cancelled while waiting releases its node.                       *)
CancelledWait(c, s) ==
    LET n == job[<<c, s>>] IN
    /\ phase[c] = "closing"
    /\ pc[<<c, s>>] = "wait"
    /\ release_claim(c, n, runId[n])
    /\ Idle(<<c, s>>)
    /\ UNCHANGED <<dispatch, edges, runId, run, phase, cancelling>>

(* A task cancelled while submitting first lets the shielded submission    *)
(* end: a run that was created is recorded before the claim is released.   *)
CancelledSubmit(c, s) ==
    LET n == job[<<c, s>>] IN
    /\ phase[c] = "closing"
    /\ pc[<<c, s>>] \in {"submit", "confirm"}
    /\ run' = [run EXCEPT ![n] = IF @ = "none" THEN "active" ELSE @]
    /\ runId' = [runId EXCEPT ![n] = @ \/ (node[n] = "claimed" /\ owner[n] = c)]
    /\ release_claim(c, n, runId'[n])
    /\ Idle(<<c, s>>)
    /\ UNCHANGED <<dispatch, edges, phase, cancelling>>

CancelledSubmitFails(c, s) ==
    LET n == job[<<c, s>>] IN
    /\ phase[c] = "closing"
    /\ pc[<<c, s>>] = "submit"
    /\ run[n] = "none"
    /\ release_claim(c, n, runId[n])
    /\ Idle(<<c, s>>)
    /\ UNCHANGED <<dispatch, edges, runId, run, phase, cancelling>>

Released(c) ==
    /\ phase[c] = "closing"
    /\ \A s \in Slots : pc[<<c, s>>] = "idle"
    /\ phase' = [phase EXCEPT ![c] = "down"]
    /\ UNCHANGED <<storeVars, run, taskVars, cancelling>>

-----------------------------------------------------------------------------
(* The environment.                                                        *)

(* The process dies: its tasks are gone and nothing is released.  The      *)
(* cancel calls it had still to make are lost if it was serving the API.   *)
Crash(c) ==
    /\ c \in MayStop
    /\ phase[c] \in {"poll", "claim", "gather", "closing"}
    /\ phase' = [phase EXCEPT ![c] = "down"]
    /\ pc' = [w \in Workers |-> IF w[1] = c THEN "idle" ELSE pc[w]]
    /\ job' = [w \in Workers |-> IF w[1] = c THEN NoNode ELSE job[w]]
    /\ cancelling' \in {cancelling, {}}
    /\ UNCHANGED <<storeVars, run>>

LeaseExpires(n) ==
    /\ lease[n] = "held"
    /\ lease' = [lease EXCEPT ![n] = "expired"]
    /\ UNCHANGED <<plan, dispatch, edges, node, runId, owner, run, phase, taskVars, cancelling>>

(* The engine ends the run; a restart of the service restores it (see the  *)
(* run store), so an interrupted run is still active here.                 *)
RunEnds(n) ==
    /\ run[n] = "active"
    /\ run' \in {[run EXCEPT ![n] = r] : r \in RunTerminal}
    /\ UNCHANGED <<storeVars, phase, taskVars, cancelling>>

-----------------------------------------------------------------------------
Execute(c, s) ==
    \/ Submit(c, s) \/ SubmitFails(c, s) \/ mark_running(c, s)
    \/ renew_claim(c, s) \/ WaitReturns(c, s) \/ WaitRaises(c, s)
    \/ CancelledWait(c, s) \/ CancelledSubmit(c, s) \/ CancelledSubmitFails(c, s)

Loop(c) ==
    \/ Launch(c) \/ EndClaims(c) \/ EndTick(c) \/ PlanIsTerminal(c) \/ Released(c)
    \/ \E s \in Slots, n \in Nodes : claim_ready(c, s, n)

Next ==
    \/ \E E \in PlanGraphs, start \in BOOLEAN : create_plan(E, start)
    \/ start_plan
    \/ cancel_plan
    \/ \E c \in Coordinators :
          Loop(c) \/ close(c) \/ Crash(c) \/ \E s \in Slots : Execute(c, s)
    \/ \E n \in Nodes : cancel_run(n) \/ LeaseExpires(n) \/ RunEnds(n)

Spec == Init /\ [][Next]_vars

(* A process that stays up keeps running its loop and its tasks, the       *)
(* engine ends every run, and the clock passes the leases of the dead.  A  *)
(* live holder renews three times per lease, so that only finitely many    *)
(* of its leases are lost to a stalled event loop.                         *)
Stopped(n) == owner[n] \in Coordinators /\ phase[owner[n]] = "down"

Fairness ==
    /\ \A c \in Coordinators : WF_vars(Loop(c))
    /\ \A c \in Coordinators, s \in Slots : WF_vars(Execute(c, s))
    /\ \A n \in Nodes : WF_vars(RunEnds(n)) /\ WF_vars(cancel_run(n))
    /\ \A n \in Nodes : WF_vars(LeaseExpires(n) /\ Stopped(n))

HeartbeatsKeepUp == <>[][\A n \in Nodes : LeaseExpires(n) => Stopped(n)]_vars

LiveSpec == Spec /\ Fairness /\ HeartbeatsKeepUp

-----------------------------------------------------------------------------
(* Properties.                                                             *)

(* A node is claimed, runs or has an outcome only when every node it       *)
(* depends on has succeeded: "dependent nodes wait for their inputs"       *)
(* (docs/architecture.md), whichever coordinator claims it and whatever    *)
(* happened to earlier claims.                                             *)
DependencyOrder ==
    \A e \in edges :
        node[e[2]] \in {"claimed", "running", "succeeded", "failed"}
            => node[e[1]] = "succeeded"

(* A node is blocked exactly when a node it transitively depends on has    *)
(* failed; no descendant of a failure is left open for a claim.            *)
BlockedExactly ==
    \A m \in Nodes :
        node[m] = "blocked" <=>
            \E n \in Nodes : node[n] = "failed" /\ m \in Descendants(Nodes, edges, n)

(* The status column of the plan, refreshed by some of the store's methods *)
(* and not by others, always agrees with the statuses of the nodes.        *)
PlanStatusCurrent ==
    plan # "absent" =>
        \/ plan = PlanStatus(node)
        \/ plan = "cancelled" /\ \A n \in Nodes : node[n] \in NodeTerminal

(* A node has a lease exactly while some coordinator may act on it, and a  *)
(* released or abandoned running node keeps an expired lease so that the   *)
(* next tick can claim it.                                                 *)
LeaseDiscipline ==
    \A n \in Nodes :
        /\ lease[n] = "none" <=> node[n] \in {"pending"} \cup NodeTerminal
        /\ owner[n] = NoOwner => lease[n] # "held" /\ node[n] # "claimed"
        /\ lease[n] = "none" => owner[n] = NoOwner
        /\ node[n] = "running" => runId[n]
        /\ node[n] \in {"pending", "claimed"} => ~runId[n]

(* What the store's table promises its readers.                            *)
TableConsistent ==
    DependencyOrder /\ BlockedExactly /\ PlanStatusCurrent /\ LeaseDiscipline

(* No engine run exists for a node before the runs of everything it        *)
(* depends on are complete, also when a coordinator submits long after its *)
(* claim was taken over or the plan was cancelled.                         *)
RunsFollowDependencies ==
    \A n \in Nodes :
        run[n] # "none" => \A p \in Parents(edges, n) : run[p] = "complete"

(* The store never records more than the engine did: a recorded run id     *)
(* names a run that exists, and a success is a completed run's.            *)
StoreFollowsEngine ==
    \A n \in Nodes :
        /\ runId[n] => run[n] # "none"
        /\ node[n] = "succeeded" => run[n] = "complete"

(* An outcome is final: a stale coordinator, a late completion or a        *)
(* second cancellation changes no terminal node and no terminal plan.      *)
OutcomesStay ==
    /\ plan \in PlanTerminal => plan' = plan
    /\ \A n \in Nodes : node[n] \in NodeTerminal => node'[n] = node[n]

(* A node succeeds or fails only by a task of the coordinator that owns it *)
(* at that moment; a coordinator whose claim was taken over cannot decide  *)
(* the node.                                                               *)
OwnersOutcome ==
    \A n \in Nodes :
        node'[n] \in {"succeeded", "failed"} /\ node'[n] # node[n] =>
           \E s \in Slots :
              /\ <<owner[n], s>> \in Workers
              /\ job[<<owner[n], s>>] = n
              /\ pc[<<owner[n], s>>] \in {"submit", "wait"}
              /\ pc'[<<owner[n], s>>] = "idle"

(* At every step outcomes come from owners and stay.                       *)
OutcomesKept == [][OutcomesStay /\ OwnersOutcome]_vars

(* A started plan reaches a verdict, through crashes, shutdowns and lost   *)
(* leases, as long as one service stays up.                                *)
StartedPlanSettles == (plan # "absent" /\ dispatch = "active") ~> plan \in PlanTerminal

(* Once a plan has been cancelled, its cancel calls made and no task is at *)
(* work for it, none of its runs is left running: "Cancel a running or     *)
(* pending team plan and its active child runs." (control_mcp.py:86).      *)
CancelStopsRuns ==
    /\ plan = "cancelled"
    /\ cancelling = {}
    /\ \A w \in Workers : pc[w] = "idle"
    => \A n \in Nodes : run[n] # "active"

-----------------------------------------------------------------------------
(* The store and its coordinators implement the abstract task graph.       *)
Outcome(status) ==
    IF status \in {"claimed", "running"} THEN "active"
    ELSE [pending |-> "todo", succeeded |-> "ok", failed |-> "bad",
          blocked |-> "skipped", cancelled |-> "cancelled"][status]

OutcomeOf == [n \in Nodes |-> Outcome(node[n])]

VerdictOf ==
    IF plan = "absent" THEN "none"
    ELSE IF plan \in {"pending", "running"} THEN "open" ELSE plan

TG == INSTANCE TaskGraph WITH graph <- edges, outcome <- OutcomeOf, verdict <- VerdictOf

(* Every step of the store maps to a step of the abstract task graph.      *)
ImplementsTaskGraph == TG!Spec
=============================================================================
