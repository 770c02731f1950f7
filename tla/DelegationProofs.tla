-------------------------- MODULE DelegationProofs --------------------------
(***************************************************************************)
(* Theorems about Delegation for every set of nodes, coordinators, slots   *)
(* and dependency graphs: type correctness, the safety invariants the runs *)
(* check, the stability of outcomes and the refinement of TaskGraph.       *)
(***************************************************************************)
EXTENDS Delegation, TLAPS

(***************************************************************************)
(* The inductive invariant.  DependencyOrder alone is not inductive for    *)
(* the engine's runs: a coordinator may submit after its claim was taken   *)
(* over, so the invariant keeps, for every task, that the dependencies of  *)
(* its node have succeeded.  A failure meets no cancelled descendant       *)
(* because nodes are cancelled only together with their plan.              *)
(***************************************************************************)
Untouched ==
    plan = "absent" => \A n \in Nodes : node[n] = "pending" /\ run[n] = "none"

TasksFollowDependencies ==
    \A w \in Workers : pc[w] # "idle" =>
        /\ job[w] \in Nodes
        /\ ParentsSucceeded(job[w])
        /\ pc[w] \in {"confirm", "wait"} => run[job[w]] # "none"
        /\ plan # "absent"

RunsAfterParents == \A n \in Nodes : run[n] # "none" => ParentsSucceeded(n)

CancelledTogether ==
    /\ \A n \in Nodes : node[n] = "cancelled" => plan = "cancelled"
    /\ plan = "cancelled" => \A n \in Nodes : node[n] \in NodeTerminal

StoreInv ==
    /\ Acyclic(Nodes, edges)
    /\ DependencyOrder
    /\ BlockedExactly
    /\ PlanStatusCurrent
    /\ LeaseDiscipline
    /\ StoreFollowsEngine
    /\ Untouched
    /\ RunsAfterParents
    /\ CancelledTogether

IInv == TypeOK /\ StoreInv /\ TasksFollowDependencies

-----------------------------------------------------------------------------
(* Facts about the operators.                                              *)

(* The plan status computed from node statuses is one of the five of the   *)
(* table's CHECK constraint.                                               *)
LEMMA PlanStatusType ==
    ASSUME NEW status
    PROVE  PlanStatus(status) \in {"pending", "running"} \cup PlanTerminal
BY DEF PlanStatus, PlanTerminal

(* A plan computed as terminal has only terminal nodes, and only then.     *)
LEMMA PlanStatusTerminal ==
    ASSUME NEW status
    PROVE  PlanStatus(status) \in PlanTerminal
              <=> \A n \in Nodes : status[n] \in NodeTerminal
BY DEF PlanStatus, PlanTerminal

(* A plan comes out as cancelled only when it has a cancelled node.        *)
LEMMA PlanStatusCancelled ==
    ASSUME NEW status, PlanStatus(status) = "cancelled"
    PROVE  \E n \in Nodes : status[n] = "cancelled"
BY DEF PlanStatus

LEMMA ParentsEdges ==
    ASSUME NEW E, NEW n
    PROVE  \A p : p \in Parents(E, n) <=> \E e \in E : e[2] = n /\ e[1] = p
BY DEF Parents

(* Whatever is closed under the edges and holds the children of n holds    *)
(* every descendant of n.                                                  *)
LEMMA DescendantsIn ==
    ASSUME NEW E, NEW n, NEW S \in SUBSET Nodes,
           \A e \in E : e[1] = n => e[2] \in S,
           \A e \in E : e[1] \in S => e[2] \in S
    PROVE  Descendants(Nodes, E, n) \subseteq S
<1>1. Children(E, n) \subseteq S
  BY DEF Children
<1>2. Closed(E, S)
  BY DEF Closed
<1> QED BY <1>1, <1>2 DEF Descendants

(* Nothing descends from a node in a graph without edges.                  *)
LEMMA NoEdges == Acyclic(Nodes, {})
<1> SUFFICES ASSUME NEW n \in Nodes PROVE n \notin Descendants(Nodes, {}, n)
  BY DEF Acyclic
<1>1. Descendants(Nodes, {}, n) \subseteq {}
  BY DescendantsIn
<1> QED BY <1>1

-----------------------------------------------------------------------------
(* Every variable keeps its type.                                          *)
LEMMA FinishType ==
    ASSUME TypeOK, NEW c, NEW n \in Nodes, NEW status \in {"succeeded", "failed"},
           _finish_node(c, n, status)
    PROVE  /\ plan' \in {"absent", "pending", "running"} \cup PlanTerminal
           /\ node' \in [Nodes -> NodeStatus]
           /\ owner' \in [Nodes -> Coordinators \cup {NoOwner}]
           /\ lease' \in [Nodes -> {"none", "held", "expired"}]
<1>1. CASE Holds(c, n)
  <2>1. node' \in [Nodes -> NodeStatus]
    BY <1>1 DEF _finish_node, TypeOK, NodeStatus
  <2>2. owner' \in [Nodes -> Coordinators \cup {NoOwner}]
    BY <1>1 DEF _finish_node, TypeOK
  <2>3. lease' \in [Nodes -> {"none", "held", "expired"}]
    BY <1>1 DEF _finish_node, TypeOK
  <2>4. PlanStatus(node') \in {"pending", "running"} \cup PlanTerminal
    BY PlanStatusType
  <2> QED BY <1>1, <2>1, <2>2, <2>3, <2>4 DEF _finish_node
<1>2. CASE ~Holds(c, n)
  BY <1>2 DEF _finish_node, TypeOK
<1> QED BY <1>1, <1>2

LEMMA ReleaseType ==
    ASSUME TypeOK, NEW c, NEW n \in Nodes, NEW started \in BOOLEAN,
           release_claim(c, n, started)
    PROVE  /\ plan' \in {"absent", "pending", "running"} \cup PlanTerminal
           /\ node' \in [Nodes -> NodeStatus]
           /\ owner' \in [Nodes -> Coordinators \cup {NoOwner}]
           /\ lease' \in [Nodes -> {"none", "held", "expired"}]
<1>1. CASE Holds(c, n)
  <2>1. PlanStatus(node') \in {"pending", "running"} \cup PlanTerminal
    BY PlanStatusType
  <2> QED BY <1>1, <2>1 DEF release_claim, TypeOK, NodeStatus
<1>2. CASE ~Holds(c, n)
  BY <1>2 DEF release_claim, TypeOK
<1> QED BY <1>1, <1>2

(* A task that does anything has a node.                                   *)
BusyHasNode == \A w \in Workers : pc[w] # "idle" => job[w] \in Nodes

LEMMA ExecuteType ==
    ASSUME TypeOK, BusyHasNode, NEW c \in Coordinators, NEW s \in Slots, Execute(c, s)
    PROVE  TypeOK'
<1> DEFINE n == job[<<c, s>>]
<1>0. <<c, s>> \in Workers
  BY DEF Workers
<1>1. n \in Nodes
  BY <1>0 DEF Execute, Submit, SubmitFails, mark_running, renew_claim, WaitReturns,
              WaitRaises, CancelledWait, CancelledSubmit, CancelledSubmitFails, BusyHasNode
<1>2. CASE Submit(c, s)
  BY <1>0, <1>1, <1>2 DEF Submit, TypeOK, storeVars
<1>3. CASE SubmitFails(c, s) \/ WaitRaises(c, s) \/ WaitReturns(c, s)
  <2>1. \E status \in {"succeeded", "failed"} : _finish_node(c, n, status)
    BY <1>3 DEF SubmitFails, WaitRaises, WaitReturns
  <2>2. /\ Idle(<<c, s>>)
        /\ UNCHANGED <<dispatch, edges, runId, run, phase, cancelling>>
    BY <1>3 DEF SubmitFails, WaitRaises, WaitReturns
  <2> QED BY <1>0, <1>1, <2>1, <2>2, FinishType DEF TypeOK, Idle
<1>4. CASE mark_running(c, s)
  BY <1>0, <1>1, <1>4 DEF mark_running, TypeOK, Idle, NodeStatus
<1>5. CASE renew_claim(c, s)
  <2>1. CASE Holds(c, n)
    BY <1>0, <1>1, <1>5, <2>1 DEF renew_claim, TypeOK, taskVars
  <2>2. CASE ~Holds(c, n)
    BY <1>0, <1>1, <1>5, <2>2, FinishType DEF renew_claim, TypeOK, Idle
  <2> QED BY <2>1, <2>2
<1>6. CASE CancelledWait(c, s) \/ CancelledSubmitFails(c, s)
  <2>1. /\ release_claim(c, n, runId[n])
        /\ Idle(<<c, s>>)
        /\ UNCHANGED <<dispatch, edges, runId, run, phase, cancelling>>
    BY <1>6 DEF CancelledWait, CancelledSubmitFails
  <2>2. runId[n] \in BOOLEAN
    BY <1>1 DEF TypeOK
  <2>3. /\ plan' \in {"absent", "pending", "running"} \cup PlanTerminal
        /\ node' \in [Nodes -> NodeStatus]
        /\ owner' \in [Nodes -> Coordinators \cup {NoOwner}]
        /\ lease' \in [Nodes -> {"none", "held", "expired"}]
    BY <1>1, <2>1, <2>2, ReleaseType
  <2> QED BY <1>0, <1>1, <2>1, <2>3 DEF TypeOK, Idle
<1>7. CASE CancelledSubmit(c, s)
  <2>1. runId' \in [Nodes -> BOOLEAN]
    BY <1>1, <1>7 DEF CancelledSubmit, TypeOK
  <2>2. /\ plan' \in {"absent", "pending", "running"} \cup PlanTerminal
        /\ node' \in [Nodes -> NodeStatus]
        /\ owner' \in [Nodes -> Coordinators \cup {NoOwner}]
        /\ lease' \in [Nodes -> {"none", "held", "expired"}]
    BY <1>1, <1>7, <2>1, ReleaseType DEF CancelledSubmit
  <2> QED BY <1>0, <1>1, <1>7, <2>1, <2>2 DEF CancelledSubmit, TypeOK, Idle
<1> QED BY <1>2, <1>3, <1>4, <1>5, <1>6, <1>7 DEF Execute

LEMMA NextType == TypeOK /\ BusyHasNode /\ [Next]_vars => TypeOK'
<1> SUFFICES ASSUME TypeOK, BusyHasNode, [Next]_vars PROVE TypeOK'
  OBVIOUS
<1>1. ASSUME NEW E \in PlanGraphs, NEW start \in BOOLEAN, create_plan(E, start) PROVE TypeOK'
  BY <1>1, PlanStatusType, GraphsAssumption DEF TypeOK, create_plan, Graphs, taskVars
<1>2. CASE start_plan
  BY <1>2, PlanStatusType DEF TypeOK, start_plan, taskVars
<1>3. CASE cancel_plan
  BY <1>3 DEF TypeOK, cancel_plan, taskVars, NodeStatus, PlanTerminal
<1>4. ASSUME NEW c \in Coordinators, NEW s \in Slots, NEW n \in Nodes, claim_ready(c, s, n)
      PROVE TypeOK'
  <2>1. PlanStatus(node') \in {"pending", "running"} \cup PlanTerminal
    BY PlanStatusType
  <2> QED BY <1>4, <2>1 DEF TypeOK, claim_ready, Workers, NodeStatus
<1>5. ASSUME NEW c \in Coordinators,
             Launch(c) \/ EndClaims(c) \/ EndTick(c) \/ PlanIsTerminal(c) \/ Released(c) \/ close(c)
      PROVE TypeOK'
  BY <1>5 DEF TypeOK, Launch, EndClaims, EndTick, PlanIsTerminal, Released, close, storeVars, taskVars
<1>6. ASSUME NEW c \in Coordinators, Crash(c) PROVE TypeOK'
  BY <1>6 DEF TypeOK, Crash, storeVars
<1>7. ASSUME NEW n \in Nodes, cancel_run(n) \/ LeaseExpires(n) \/ RunEnds(n) PROVE TypeOK'
  BY <1>7 DEF TypeOK, cancel_run, LeaseExpires, RunEnds, storeVars, taskVars, RunTerminal
<1>8. CASE UNCHANGED vars
  BY <1>8 DEF TypeOK, vars
<1> QED BY <1>1, <1>2, <1>3, <1>4, <1>5, <1>6, <1>7, <1>8, ExecuteType DEF Next, Loop

-----------------------------------------------------------------------------
(* What a step of the store preserves.                                     *)

(* The descendants of a node that has not succeeded are all waiting, or    *)
(* closed by another failure or with their plan.                           *)
LEMMA Waiting ==
    ASSUME TypeOK, DependencyOrder, NEW n \in Nodes, node[n] # "succeeded"
    PROVE  \A m \in Descendants(Nodes, edges, n) :
              m \in Nodes /\ node[m] \in {"pending", "blocked", "cancelled"}
<1> DEFINE S == {m \in Nodes : node[m] \in {"pending", "blocked", "cancelled"}}
<1>1. \A e \in edges : e[1] \in Nodes /\ e[2] \in Nodes
  BY DEF TypeOK
<1>2. \A e \in edges : node[e[1]] # "succeeded" => e[2] \in S
  BY <1>1 DEF TypeOK, DependencyOrder, NodeStatus
<1>3. \A e \in edges : e[1] = n => e[2] \in S
  BY <1>2
<1>4. \A e \in edges : e[1] \in S => e[2] \in S
  BY <1>2
<1>5. Descendants(Nodes, edges, n) \subseteq S
  BY <1>3, <1>4, DescendantsIn
<1> QED BY <1>5

(* An open node shows an open plan.                                        *)
LEMMA OpenPlan ==
    ASSUME TypeOK, StoreInv, plan # "absent",
           NEW n \in Nodes, node[n] \notin NodeTerminal
    PROVE  /\ plan \in {"pending", "running"}
           /\ plan = PlanStatus(node)
           /\ \A m \in Nodes : node[m] # "cancelled"
<1>1. plan = PlanStatus(node)
  BY DEF StoreInv, PlanStatusCurrent
<1>2. plan \notin PlanTerminal
  BY <1>1, PlanStatusTerminal
<1> QED BY <1>1, <1>2 DEF TypeOK, StoreInv, CancelledTogether, PlanTerminal

(* What the step of one node leaves intact when the node stays open, as in *)
(* claims, releases and mark_running.                                      *)
LEMMA OpenStep ==
    ASSUME TypeOK, StoreInv, TypeOK', plan # "absent",
           NEW n \in Nodes, node[n] \notin NodeTerminal,
           node' \in [Nodes -> NodeStatus],
           node'[n] \in {"pending", "claimed", "running"},
           node'[n] # "pending" => ParentsSucceeded(n),
           \A m \in Nodes : m # n => node'[m] = node[m],
           edges' = edges,
           plan' = PlanStatus(node')
    PROVE  /\ DependencyOrder'
           /\ BlockedExactly'
           /\ PlanStatusCurrent'
           /\ CancelledTogether'
           /\ plan' # "absent"
           /\ \A m \in Nodes : node[m] = "succeeded" <=> node'[m] = "succeeded"
<1>0. \A m \in Nodes : node[m] # "cancelled"
  BY OpenPlan
<1>1. \A m \in Nodes : node[m] = "succeeded" <=> node'[m] = "succeeded"
  BY DEF NodeTerminal
<1>2. DependencyOrder'
  <2> SUFFICES ASSUME NEW e \in edges,
                      node'[e[2]] \in {"claimed", "running", "succeeded", "failed"}
               PROVE  node'[e[1]] = "succeeded"
    BY DEF DependencyOrder
  <2>1. e[1] \in Nodes /\ e[2] \in Nodes
    BY DEF TypeOK
  <2>2. CASE e[2] = n
    BY <1>1, <2>1, <2>2, ParentsEdges DEF ParentsSucceeded
  <2>3. CASE e[2] # n
    BY <1>1, <2>1, <2>3 DEF StoreInv, DependencyOrder
  <2> QED BY <2>2, <2>3
<1>3. \A m \in Nodes : /\ node'[m] = "blocked" <=> node[m] = "blocked"
                       /\ node'[m] = "failed" <=> node[m] = "failed"
                       /\ node'[m] # "cancelled"
  BY <1>0 DEF NodeTerminal
<1>4. BlockedExactly'
  BY <1>3 DEF StoreInv, BlockedExactly
<1>5. plan' \notin PlanTerminal
  BY PlanStatusTerminal DEF NodeTerminal
<1>6. plan' # "absent"
  BY PlanStatusType DEF PlanTerminal
<1>7. PlanStatusCurrent'
  BY DEF PlanStatusCurrent
<1>8. CancelledTogether'
  BY <1>3, <1>5 DEF CancelledTogether, PlanTerminal
<1> QED BY <1>1, <1>2, <1>4, <1>6, <1>7, <1>8

(* mark_success and mark_failure keep every invariant of the store.        *)
LEMMA FinishStore ==
    ASSUME TypeOK, StoreInv, TypeOK', plan # "absent",
           NEW c \in Coordinators, NEW n \in Nodes, NEW status \in {"succeeded", "failed"},
           status = "succeeded" => run[n] = "complete",
           _finish_node(c, n, status),
           UNCHANGED <<edges, runId, run>>
    PROVE  StoreInv' /\ \A m \in Nodes : node[m] = "succeeded" => node'[m] = "succeeded"
<1>1. CASE ~Holds(c, n)
  BY <1>1 DEF _finish_node, StoreInv, DependencyOrder, BlockedExactly, PlanStatusCurrent,
              LeaseDiscipline, StoreFollowsEngine, Untouched, RunsAfterParents,
              CancelledTogether, ParentsSucceeded, PlanStatus
<1>2. CASE Holds(c, n)
  <2> DEFINE D == Descendants(Nodes, edges, n)
  <2>1. /\ node[n] \in {"claimed", "running"}
        /\ \A m \in Nodes : node[m] # "cancelled"
        /\ plan = PlanStatus(node)
    BY <1>2, OpenPlan DEF Holds, NodeTerminal
  <2>2. \A m \in D : m \in Nodes /\ node[m] \in {"pending", "blocked"}
    BY <2>1, Waiting DEF StoreInv
  <2>3. n \notin D
    BY DEF StoreInv, Acyclic
  <2>4. /\ node'[n] = status
        /\ \A m \in Nodes : m # n =>
              node'[m] = IF status = "failed" /\ m \in D /\ node[m] = "pending"
                         THEN "blocked" ELSE node[m]
    BY <1>2, <2>2 DEF _finish_node
  <2>5. plan' = PlanStatus(node')
    BY <1>2 DEF _finish_node
  <2>6. \A m \in Nodes : node[m] = "succeeded" => node'[m] = "succeeded"
    BY <2>1, <2>4
  <2>7. DependencyOrder'
    <3> SUFFICES ASSUME NEW e \in edges,
                        node'[e[2]] \in {"claimed", "running", "succeeded", "failed"}
                 PROVE  node'[e[1]] = "succeeded"
      BY DEF DependencyOrder
    <3>1. e[1] \in Nodes /\ e[2] \in Nodes
      BY DEF TypeOK
    <3>2. node[e[2]] \in {"claimed", "running", "succeeded", "failed"}
      BY <2>1, <2>4, <3>1
    <3> QED BY <2>6, <3>1, <3>2 DEF StoreInv, DependencyOrder
  <2>8. BlockedExactly'
    <3> SUFFICES ASSUME NEW m \in Nodes
                 PROVE  node'[m] = "blocked" <=>
                          \E k \in Nodes : node'[k] = "failed"
                                           /\ m \in Descendants(Nodes, edges, k)
      BY DEF BlockedExactly
    <3>1. node[m] = "blocked" <=>
             \E k \in Nodes : node[k] = "failed" /\ m \in Descendants(Nodes, edges, k)
      BY DEF StoreInv, BlockedExactly
    <3>2. \A k \in Nodes : node'[k] = "failed" <=> node[k] = "failed" \/ (k = n /\ status = "failed")
      BY <2>1, <2>4
    <3>3. node'[m] = "blocked" <=> node[m] = "blocked" \/ (status = "failed" /\ m \in D)
      BY <2>1, <2>2, <2>3, <2>4
    <3> QED BY <3>1, <3>2, <3>3
  <2>9. PlanStatusCurrent'
    BY <2>5 DEF PlanStatusCurrent
  <2>10. CancelledTogether'
    <3>1. \A m \in Nodes : node'[m] # "cancelled"
      BY <2>1, <2>4
    <3>2. plan' # "cancelled"
      BY <2>5, <3>1, PlanStatusCancelled
    <3> QED BY <3>1, <3>2 DEF CancelledTogether
  <2>11. Untouched'
    BY <2>5, PlanStatusType DEF Untouched, PlanTerminal
  <2>12. RunsAfterParents'
    BY <2>6, ParentsEdges DEF StoreInv, RunsAfterParents, ParentsSucceeded, TypeOK
  <2>13. StoreFollowsEngine'
    BY <2>1, <2>4 DEF StoreInv, StoreFollowsEngine
  <2>14. LeaseDiscipline'
    <3>1. /\ owner'[n] = NoOwner
          /\ lease'[n] = "none"
          /\ \A m \in Nodes : m # n =>
                IF node'[m] # node[m] THEN owner'[m] = NoOwner /\ lease'[m] = "none"
                ELSE owner'[m] = owner[m] /\ lease'[m] = lease[m]
      BY <1>2 DEF _finish_node
    <3> SUFFICES ASSUME NEW m \in Nodes PROVE
          /\ lease'[m] = "none" <=> node'[m] \in {"pending"} \cup NodeTerminal
          /\ owner'[m] = NoOwner => lease'[m] # "held" /\ node'[m] # "claimed"
          /\ lease'[m] = "none" => owner'[m] = NoOwner
          /\ node'[m] = "running" => runId[m]
          /\ node'[m] \in {"pending", "claimed"} => ~runId[m]
      BY DEF LeaseDiscipline
    <3>2. CASE m = n
      BY <2>4, <3>1, <3>2 DEF NodeTerminal
    <3>3. CASE m # n /\ node'[m] = node[m]
      BY <3>1, <3>3 DEF StoreInv, LeaseDiscipline
    <3>4. CASE m # n /\ node'[m] # node[m]
      BY <2>4, <3>1, <3>4 DEF NodeTerminal
    <3> QED BY <3>2, <3>3, <3>4
  <2>15. Acyclic(Nodes, edges')
    BY DEF StoreInv
  <2> QED BY <2>6, <2>7, <2>8, <2>9, <2>10, <2>11, <2>12, <2>13, <2>14, <2>15 DEF StoreInv
<1> QED BY <1>1, <1>2

(* claim_ready keeps every invariant of the store.                         *)
LEMMA ClaimStore ==
    ASSUME TypeOK, StoreInv, TypeOK',
           NEW c \in Coordinators, NEW s \in Slots, NEW n \in Nodes, claim_ready(c, s, n)
    PROVE  /\ StoreInv'
           /\ ParentsSucceeded(n)
           /\ plan # "absent"
           /\ \A m \in Nodes : node[m] = "succeeded" <=> node'[m] = "succeeded"
<1>1. /\ plan \in {"pending", "running"}
      /\ node[n] \in {"pending", "claimed", "running"}
  BY DEF claim_ready, FirstClaimable, Claimable
<1>2. ParentsSucceeded(n)
  BY ParentsEdges DEF claim_ready, FirstClaimable, Claimable, ParentsSucceeded, StoreInv,
                      DependencyOrder
<1>3. /\ node'[n] \in {"claimed", "running"}
      /\ node'[n] = "running" <=> node[n] = "running"
      /\ \A m \in Nodes : m # n => node'[m] = node[m]
      /\ plan' = PlanStatus(node')
      /\ owner'[n] = c /\ lease'[n] = "held"
      /\ \A m \in Nodes : m # n => owner'[m] = owner[m] /\ lease'[m] = lease[m]
      /\ edges' = edges /\ runId' = runId /\ run' = run
  BY <1>1 DEF claim_ready, TypeOK
<1>4. /\ DependencyOrder' /\ BlockedExactly' /\ PlanStatusCurrent' /\ CancelledTogether'
      /\ plan' # "absent"
      /\ \A m \in Nodes : node[m] = "succeeded" <=> node'[m] = "succeeded"
  <2>1. node[n] \notin NodeTerminal /\ plan # "absent" /\ node' \in [Nodes -> NodeStatus]
    BY <1>1 DEF NodeTerminal, TypeOK
  <2> QED BY <1>2, <1>3, <2>1, OpenStep
<1>5. LeaseDiscipline'
  BY <1>1, <1>3, OwnersAssumption DEF StoreInv, LeaseDiscipline, NodeTerminal
<1>6. StoreFollowsEngine'
  BY <1>3, <1>4 DEF StoreInv, StoreFollowsEngine
<1>7. Untouched'
  BY <1>4 DEF Untouched
<1>8. RunsAfterParents'
  BY <1>3, <1>4, ParentsEdges DEF StoreInv, RunsAfterParents, ParentsSucceeded, TypeOK
<1> QED BY <1>2, <1>1, <1>3, <1>4, <1>5, <1>6, <1>7, <1>8 DEF StoreInv

(* Handing a node back keeps every invariant of the store, also when the   *)
(* run the task was submitting is recorded at the same time.               *)
LEMMA ReleaseStore ==
    ASSUME TypeOK, StoreInv, TypeOK', plan # "absent",
           NEW c \in Coordinators, NEW n \in Nodes,
           ParentsSucceeded(n),
           runId'[n] \in BOOLEAN,
           release_claim(c, n, runId'[n]),
           edges' = edges,
           \A m \in Nodes : m # n => runId'[m] = runId[m] /\ run'[m] = run[m],
           runId[n] => runId'[n],
           runId'[n] => run'[n] # "none",
           ~Holds(c, n) => runId'[n] = runId[n],
           run[n] # "none" => run'[n] = run[n]
    PROVE  StoreInv' /\ \A m \in Nodes : node[m] = "succeeded" <=> node'[m] = "succeeded"
<1>1. ASSUME \A m \in Nodes : node[m] = "succeeded" => node'[m] = "succeeded"
      PROVE  RunsAfterParents'
  <2> SUFFICES ASSUME NEW m \in Nodes, run'[m] # "none",
                      NEW p \in Parents(edges, m)
               PROVE  node'[p] = "succeeded"
    BY DEF RunsAfterParents, ParentsSucceeded
  <2>1. p \in Nodes
    BY ParentsEdges DEF TypeOK
  <2>2. ParentsSucceeded(m)
    BY DEF StoreInv, RunsAfterParents
  <2> QED BY <1>1, <2>1, <2>2 DEF ParentsSucceeded
<1>2. CASE Holds(c, n)
  <2>1. /\ node[n] \in {"claimed", "running"}
        /\ node'[n] = IF runId'[n] THEN "running" ELSE "pending"
        /\ owner'[n] = NoOwner
        /\ lease'[n] = IF runId'[n] THEN "expired" ELSE "none"
        /\ \A m \in Nodes : m # n => /\ node'[m] = node[m]
                                     /\ owner'[m] = owner[m] /\ lease'[m] = lease[m]
        /\ plan' = PlanStatus(node')
    BY <1>2 DEF release_claim, Holds, TypeOK
  <2>2. /\ DependencyOrder' /\ BlockedExactly' /\ PlanStatusCurrent' /\ CancelledTogether'
        /\ plan' # "absent"
        /\ \A m \in Nodes : node[m] = "succeeded" <=> node'[m] = "succeeded"
    <3>1. node[n] \notin NodeTerminal /\ node' \in [Nodes -> NodeStatus]
      BY <2>1 DEF NodeTerminal, TypeOK
    <3>2. node'[n] \in {"pending", "claimed", "running"}
      BY <2>1
    <3> QED BY <2>1, <3>1, <3>2, OpenStep
  <2>3. LeaseDiscipline'
    BY <2>1 DEF StoreInv, LeaseDiscipline, NodeTerminal
  <2>4. StoreFollowsEngine'
    BY <2>1, <2>2 DEF StoreInv, StoreFollowsEngine
  <2>5. Untouched'
    BY <2>2 DEF Untouched
  <2> QED BY <1>1, <2>2, <2>3, <2>4, <2>5 DEF StoreInv
<1>3. CASE ~Holds(c, n)
  <2>1. UNCHANGED <<plan, node, owner, lease>>
    BY <1>3 DEF release_claim
  <2>2. runId' = runId
    BY <1>3 DEF TypeOK
  <2>3. \A m \in Nodes : run[m] # "none" => run'[m] = run[m]
    OBVIOUS
  <2>4. StoreFollowsEngine'
    BY <2>1, <2>2, <2>3 DEF StoreInv, StoreFollowsEngine
  <2>5. Untouched'
    BY <2>1 DEF Untouched
  <2>6. DependencyOrder' /\ BlockedExactly' /\ LeaseDiscipline' /\ CancelledTogether'
    BY <2>1, <2>2 DEF StoreInv, DependencyOrder, BlockedExactly, LeaseDiscipline,
                      CancelledTogether
  <2>7. PlanStatusCurrent'
    BY <2>1 DEF StoreInv, PlanStatusCurrent, PlanStatus
  <2> QED BY <1>1, <2>1, <2>4, <2>5, <2>6, <2>7 DEF StoreInv
<1> QED BY <1>2, <1>3

(* mark_running records the run and leaves the plan as it was.             *)
LEMMA MarkRunningStore ==
    ASSUME TypeOK, StoreInv, TypeOK', plan # "absent",
           NEW c \in Coordinators, NEW s \in Slots,
           job[<<c, s>>] \in Nodes, run[job[<<c, s>>]] # "none",
           ParentsSucceeded(job[<<c, s>>]),
           mark_running(c, s)
    PROVE  StoreInv' /\ \A m \in Nodes : node[m] = "succeeded" <=> node'[m] = "succeeded"
<1> DEFINE n == job[<<c, s>>]
<1>1. CASE node[n] = "claimed" /\ owner[n] = c
  <2>1. /\ node'[n] = "running" /\ runId'[n]
        /\ \A m \in Nodes : m # n => node'[m] = node[m] /\ runId'[m] = runId[m]
        /\ UNCHANGED <<plan, edges, owner, lease, run>>
    BY <1>1 DEF mark_running, TypeOK
  <2>2. PlanStatus(node') = PlanStatus(node)
    <3>1. node[n] \notin NodeTerminal /\ node'[n] \notin NodeTerminal
      BY <1>1, <2>1 DEF NodeTerminal
    <3>2. node[n] # "pending" /\ node'[n] # "pending"
      BY <1>1, <2>1
    <3> QED BY <3>1, <3>2 DEF PlanStatus
  <2>3. plan' = PlanStatus(node')
    BY <1>1, <2>1, <2>2, OpenPlan DEF NodeTerminal
  <2>4. /\ DependencyOrder' /\ BlockedExactly' /\ PlanStatusCurrent' /\ CancelledTogether'
        /\ plan' # "absent"
        /\ \A m \in Nodes : node[m] = "succeeded" <=> node'[m] = "succeeded"
    <3>1. node[n] \notin NodeTerminal /\ node' \in [Nodes -> NodeStatus]
      BY <1>1 DEF NodeTerminal, TypeOK
    <3> QED BY <2>1, <2>3, <3>1, OpenStep
  <2>5. LeaseDiscipline'
    BY <1>1, <2>1 DEF StoreInv, LeaseDiscipline, NodeTerminal
  <2>6. StoreFollowsEngine'
    BY <2>1, <2>4 DEF StoreInv, StoreFollowsEngine
  <2>7. Untouched'
    BY <2>4 DEF Untouched
  <2>8. RunsAfterParents'
    BY <2>1, <2>4, ParentsEdges DEF StoreInv, RunsAfterParents, ParentsSucceeded, TypeOK
  <2> QED BY <2>1, <2>4, <2>5, <2>6, <2>7, <2>8 DEF StoreInv
<1>2. CASE ~(node[n] = "claimed" /\ owner[n] = c)
  BY <1>2 DEF mark_running, StoreInv, DependencyOrder, BlockedExactly, PlanStatusCurrent,
              LeaseDiscipline, StoreFollowsEngine, Untouched, RunsAfterParents,
              CancelledTogether, ParentsSucceeded, PlanStatus
<1> QED BY <1>1, <1>2

(* Cancelling the plan keeps every invariant of the store.                 *)
LEMMA CancelStore ==
    ASSUME TypeOK, StoreInv, TypeOK', cancel_plan
    PROVE  StoreInv' /\ \A m \in Nodes : node[m] = "succeeded" <=> node'[m] = "succeeded"
<1>1. /\ plan' = "cancelled"
      /\ UNCHANGED <<edges, runId, run>>
      /\ \A m \in Nodes :
            IF node[m] \in NodeTerminal
            THEN node'[m] = node[m] /\ owner'[m] = owner[m] /\ lease'[m] = lease[m]
            ELSE node'[m] = "cancelled" /\ owner'[m] = NoOwner /\ lease'[m] = "none"
  BY DEF cancel_plan
<1>2. \A m \in Nodes : /\ node[m] = "succeeded" <=> node'[m] = "succeeded"
                       /\ node[m] = "failed" <=> node'[m] = "failed"
                       /\ node[m] = "blocked" <=> node'[m] = "blocked"
                       /\ node'[m] \in NodeTerminal
  BY <1>1 DEF NodeTerminal
<1>3. DependencyOrder'
  BY <1>1, <1>2 DEF StoreInv, DependencyOrder, NodeTerminal, TypeOK
<1>4. BlockedExactly'
  BY <1>1, <1>2 DEF StoreInv, BlockedExactly
<1>5. PlanStatusCurrent' /\ CancelledTogether'
  BY <1>1, <1>2 DEF PlanStatusCurrent, CancelledTogether
<1>6. LeaseDiscipline'
  BY <1>1, <1>2 DEF StoreInv, LeaseDiscipline, NodeTerminal
<1>7. StoreFollowsEngine'
  BY <1>1, <1>2 DEF StoreInv, StoreFollowsEngine
<1>8. Untouched'
  BY <1>1 DEF Untouched
<1>9. RunsAfterParents'
  BY <1>1, <1>2, ParentsEdges DEF StoreInv, RunsAfterParents, ParentsSucceeded, TypeOK
<1> QED BY <1>1, <1>2, <1>3, <1>4, <1>5, <1>6, <1>7, <1>8, <1>9 DEF StoreInv

(* Steps that change no row of the store and no run.                       *)
LEMMA QuietStore ==
    ASSUME StoreInv, UNCHANGED storeVars, run' = run
    PROVE  StoreInv'
BY DEF storeVars, StoreInv, DependencyOrder, BlockedExactly, PlanStatusCurrent,
       LeaseDiscipline, StoreFollowsEngine, Untouched, RunsAfterParents, CancelledTogether,
       ParentsSucceeded, PlanStatus

(* Steps of the engine: a run that exists does not cease to, and a new one *)
(* is started only after the node's dependencies.                          *)
LEMMA EngineStore ==
    ASSUME TypeOK, StoreInv, UNCHANGED storeVars,
           \A m \in Nodes : run[m] # "none" => run'[m] # "none",
           \A m \in Nodes : run[m] = "complete" => run'[m] = "complete",
           \A m \in Nodes : run'[m] # "none" => ParentsSucceeded(m),
           plan = "absent" => run' = run
    PROVE  StoreInv'
<1>1. StoreFollowsEngine'
  BY DEF storeVars, StoreInv, StoreFollowsEngine
<1>2. RunsAfterParents'
  BY DEF storeVars, RunsAfterParents, ParentsSucceeded
<1>3. Untouched'
  BY DEF storeVars, StoreInv, Untouched
<1> QED BY <1>1, <1>2, <1>3 DEF storeVars, StoreInv, DependencyOrder, BlockedExactly,
           PlanStatusCurrent, LeaseDiscipline, CancelledTogether, PlanStatus

(* A task keeps its promise as long as it is the same task or one that     *)
(* knows more, no success is undone and no run vanishes.                   *)
LEMMA TaskStep ==
    ASSUME TypeOK, TasksFollowDependencies, edges' = edges,
           \A m \in Nodes : node[m] = "succeeded" => node'[m] = "succeeded",
           \A m \in Nodes : run[m] # "none" => run'[m] # "none",
           plan # "absent" => plan' # "absent",
           NEW w \in Workers, pc'[w] # "idle", pc[w] # "idle", job'[w] = job[w],
           pc'[w] = pc[w] \/ run'[job[w]] # "none"
    PROVE  /\ job'[w] \in Nodes
           /\ ParentsSucceeded(job[w])'
           /\ pc'[w] \in {"confirm", "wait"} => run'[job'[w]] # "none"
           /\ plan' # "absent"
<1>1. job[w] \in Nodes /\ ParentsSucceeded(job[w]) /\ plan # "absent"
  BY DEF TasksFollowDependencies
<1>2. ParentsSucceeded(job[w])'
  BY <1>1, ParentsEdges DEF ParentsSucceeded, TypeOK
<1> QED BY <1>1, <1>2 DEF TasksFollowDependencies

(* The facts about its node that a busy slot acts on.                      *)
LEMMA ExecuteFacts ==
    ASSUME TypeOK, TasksFollowDependencies, NEW c \in Coordinators, NEW s \in Slots,
           pc[<<c, s>>] # "idle"
    PROVE  /\ <<c, s>> \in Workers
           /\ job[<<c, s>>] \in Nodes
           /\ ParentsSucceeded(job[<<c, s>>])
           /\ plan # "absent"
           /\ pc[<<c, s>>] \in {"confirm", "wait"} => run[job[<<c, s>>]] # "none"
BY DEF Workers, TasksFollowDependencies

(* Every step of a node-execution task keeps the invariant of the store.   *)
LEMMA ExecuteStore ==
    ASSUME TypeOK, StoreInv, TasksFollowDependencies, TypeOK',
           NEW c \in Coordinators, NEW s \in Slots, Execute(c, s)
    PROVE  /\ StoreInv'
           /\ \A m \in Nodes : node[m] = "succeeded" => node'[m] = "succeeded"
           /\ \A m \in Nodes : run[m] # "none" => run'[m] = run[m]
<1> DEFINE n == job[<<c, s>>]
<1>0. pc[<<c, s>>] # "idle"
  BY DEF Execute, Submit, SubmitFails, mark_running, renew_claim, WaitReturns, WaitRaises,
         CancelledWait, CancelledSubmit, CancelledSubmitFails
<1>1. /\ n \in Nodes /\ ParentsSucceeded(n) /\ plan # "absent"
      /\ pc[<<c, s>>] \in {"confirm", "wait"} => run[n] # "none"
  BY <1>0, ExecuteFacts
<1>2. CASE Submit(c, s)
  <2>1. /\ UNCHANGED storeVars
        /\ \A m \in Nodes : run[m] # "none" => run'[m] = run[m]
        /\ \A m \in Nodes : m # n => run'[m] = run[m]
    BY <1>1, <1>2 DEF Submit, TypeOK
  <2>2. \A m \in Nodes : run'[m] # "none" => ParentsSucceeded(m)
    BY <1>1, <2>1 DEF StoreInv, RunsAfterParents
  <2>3. StoreInv'
    BY <1>1, <2>1, <2>2, EngineStore
  <2> QED BY <2>1, <2>3 DEF storeVars
<1>3. CASE SubmitFails(c, s) \/ WaitRaises(c, s)
  <2>1. /\ _finish_node(c, n, "failed")
        /\ UNCHANGED <<edges, runId, run>>
    BY <1>3 DEF SubmitFails, WaitRaises
  <2> QED BY <1>1, <2>1, FinishStore
<1>4. CASE WaitReturns(c, s)
  <2>1. CASE run[n] = "complete"
    <3>1. _finish_node(c, n, "succeeded") /\ UNCHANGED <<edges, runId, run>>
      BY <1>4, <2>1 DEF WaitReturns
    <3> QED BY <1>1, <2>1, <3>1, FinishStore
  <2>2. CASE run[n] # "complete"
    <3>1. _finish_node(c, n, "failed") /\ UNCHANGED <<edges, runId, run>>
      BY <1>4, <2>2 DEF WaitReturns
    <3> QED BY <1>1, <3>1, FinishStore
  <2> QED BY <2>1, <2>2
<1>5. CASE mark_running(c, s)
  <2>1. pc[<<c, s>>] = "confirm" /\ run' = run
    BY <1>5 DEF mark_running
  <2> QED BY <1>1, <1>5, <2>1, MarkRunningStore
<1>6. CASE renew_claim(c, s)
  <2>1. CASE Holds(c, n)
    <3>1. /\ lease[n] = "expired" /\ lease'[n] = "held"
          /\ \A m \in Nodes : m # n => lease'[m] = lease[m]
          /\ UNCHANGED <<plan, node, owner, edges, runId, run>>
      BY <1>1, <1>6, <2>1 DEF renew_claim, TypeOK
    <3>2. LeaseDiscipline'
      BY <2>1, <3>1, OwnersAssumption DEF StoreInv, LeaseDiscipline, Holds
    <3> QED BY <3>1, <3>2 DEF StoreInv, DependencyOrder, BlockedExactly, PlanStatusCurrent,
               StoreFollowsEngine, Untouched, RunsAfterParents, CancelledTogether,
               ParentsSucceeded, PlanStatus
  <2>2. CASE ~Holds(c, n)
    <3>1. _finish_node(c, n, "failed") /\ UNCHANGED <<edges, runId, run>>
      BY <1>6, <2>2 DEF renew_claim
    <3> QED BY <1>1, <3>1, FinishStore
  <2> QED BY <2>1, <2>2
<1>7. CASE CancelledWait(c, s) \/ CancelledSubmitFails(c, s)
  <2>1. /\ release_claim(c, n, runId[n])
        /\ UNCHANGED <<edges, runId, run>>
    BY <1>7 DEF CancelledWait, CancelledSubmitFails
  <2>2. runId[n] \in BOOLEAN /\ (runId[n] => run[n] # "none")
    BY <1>1 DEF TypeOK, StoreInv, StoreFollowsEngine
  <2> QED BY <1>1, <2>1, <2>2, ReleaseStore
<1>8. CASE CancelledSubmit(c, s)
  <2>1. /\ release_claim(c, n, runId'[n])
        /\ edges' = edges
        /\ runId'[n] = (runId[n] \/ (node[n] = "claimed" /\ owner[n] = c))
        /\ run'[n] # "none"
        /\ run[n] # "none" => run'[n] = run[n]
        /\ \A m \in Nodes : m # n => runId'[m] = runId[m] /\ run'[m] = run[m]
    BY <1>1, <1>8 DEF CancelledSubmit, TypeOK
  <2>2. /\ runId'[n] \in BOOLEAN
        /\ runId[n] => runId'[n]
        /\ ~Holds(c, n) => runId'[n] = runId[n]
    BY <1>1, <2>1 DEF TypeOK, Holds
  <2>3. StoreInv' /\ \A m \in Nodes : node[m] = "succeeded" <=> node'[m] = "succeeded"
    BY <1>1, <2>1, <2>2, ReleaseStore
  <2> QED BY <2>1, <2>3
<1> QED BY <1>2, <1>3, <1>4, <1>5, <1>6, <1>7, <1>8 DEF Execute

-----------------------------------------------------------------------------
(* The invariant is inductive.                                             *)

LEMMA InitInv == Init => IInv
<1> SUFFICES ASSUME Init PROVE IInv
  OBVIOUS
<1>1. TypeOK
  BY DEF Init, TypeOK, NodeStatus
<1>2. \A n \in Nodes : node[n] = "pending" /\ run[n] = "none" /\ ~runId[n]
                       /\ owner[n] = NoOwner /\ lease[n] = "none"
  BY DEF Init
<1>3. StoreInv
  BY <1>2, NoEdges DEF Init, StoreInv, DependencyOrder, BlockedExactly, PlanStatusCurrent,
     LeaseDiscipline, StoreFollowsEngine, Untouched, RunsAfterParents, CancelledTogether,
     NodeTerminal
<1>4. TasksFollowDependencies
  BY DEF Init, TasksFollowDependencies
<1> QED BY <1>1, <1>3, <1>4 DEF IInv

(* A plan that exists does not cease to.                                   *)
LEMMA NextPlan ==
    ASSUME [Next]_vars, plan # "absent"
    PROVE  plan' # "absent"
<1> DEFINE Kept == plan' = plan \/ plan' = "cancelled" \/ \E t \in {node, node'} : plan' = PlanStatus(t)
<1>1. ASSUME NEW c \in Coordinators, NEW s \in Slots,
             SubmitFails(c, s) \/ WaitReturns(c, s) \/ WaitRaises(c, s) \/ renew_claim(c, s)
      PROVE  Kept
  <2>1. \/ plan' = plan
        \/ \E status : _finish_node(c, job[<<c, s>>], status)
    BY <1>1 DEF SubmitFails, WaitReturns, WaitRaises, renew_claim
  <2> QED BY <2>1 DEF _finish_node
<1>2. ASSUME NEW c \in Coordinators, NEW s \in Slots,
             CancelledWait(c, s) \/ CancelledSubmit(c, s) \/ CancelledSubmitFails(c, s)
      PROVE  Kept
  <2>1. \E b : release_claim(c, job[<<c, s>>], b)
    BY <1>2 DEF CancelledWait, CancelledSubmit, CancelledSubmitFails
  <2> QED BY <2>1 DEF release_claim
<1>3. ASSUME NEW c \in Coordinators, NEW s \in Slots, Submit(c, s) \/ mark_running(c, s)
      PROVE  Kept
  BY <1>3 DEF Submit, mark_running, storeVars
<1>4. ASSUME NEW c \in Coordinators, Loop(c) \/ close(c) \/ Crash(c) PROVE Kept
  BY <1>4 DEF Loop, Launch, EndClaims, EndTick, PlanIsTerminal, Released, close, Crash,
              claim_ready, storeVars
<1>5. ASSUME NEW n \in Nodes, cancel_run(n) \/ LeaseExpires(n) \/ RunEnds(n) PROVE Kept
  BY <1>5 DEF cancel_run, LeaseExpires, RunEnds, storeVars
<1>6. ASSUME NEW E \in PlanGraphs, NEW start \in BOOLEAN, create_plan(E, start) PROVE Kept
  BY <1>6 DEF create_plan
<1>7. ASSUME start_plan PROVE Kept
  BY <1>7 DEF start_plan
<1>8. ASSUME cancel_plan PROVE Kept
  BY <1>8 DEF cancel_plan
<1>9. ASSUME UNCHANGED vars PROVE Kept
  BY <1>9 DEF vars
<1>10. ASSUME NEW c \in Coordinators, NEW s \in Slots, Execute(c, s) PROVE Kept
  BY <1>1, <1>2, <1>3, <1>10 DEF Execute
<1>11. Kept
  <2> HIDE DEF Kept
  <2> QED BY <1>4, <1>5, <1>6, <1>7, <1>8, <1>9, <1>10 DEF Next
<1> QED BY <1>11, PlanStatusType DEF PlanTerminal

(* What every step does to the store, to successes and to runs.            *)
LEMMA NextStore ==
    ASSUME IInv, [Next]_vars, TypeOK'
    PROVE  /\ StoreInv'
           /\ \A m \in Nodes : node[m] = "succeeded" => node'[m] = "succeeded"
           /\ \A m \in Nodes : run[m] # "none" => run'[m] # "none"
           /\ plan # "absent" => plan' # "absent"
<1> USE DEF IInv
<1> DEFINE Keeps == /\ StoreInv'
                    /\ \A m \in Nodes : node[m] = "succeeded" => node'[m] = "succeeded"
                    /\ \A m \in Nodes : run[m] # "none" => run'[m] # "none"
<1>1. ASSUME NEW E \in PlanGraphs, NEW start \in BOOLEAN, create_plan(E, start) PROVE Keeps
  <2>1. /\ plan = "absent" /\ edges' = E
        /\ plan' = PlanStatus(node)
        /\ UNCHANGED <<node, runId, owner, lease, run>>
    BY <1>1 DEF create_plan
  <2>2. \A n \in Nodes : node[n] = "pending" /\ run[n] = "none"
    BY <2>1 DEF StoreInv, Untouched
  <2>3. Acyclic(Nodes, edges')
    BY <2>1, GraphsAssumption DEF Graphs
  <2>4. plan' \notin PlanTerminal
    BY <2>1, <2>2, NodesAssumption, PlanStatusTerminal DEF NodeTerminal
  <2>5. edges' \in SUBSET (Nodes \X Nodes)
    BY DEF TypeOK
  <2>6. DependencyOrder'
    BY <2>1, <2>2, <2>5 DEF DependencyOrder
  <2>7. BlockedExactly'
    BY <2>1, <2>2 DEF BlockedExactly
  <2>8. LeaseDiscipline' /\ StoreFollowsEngine'
    BY <2>1 DEF StoreInv, LeaseDiscipline, StoreFollowsEngine
  <2>9. PlanStatusCurrent' /\ CancelledTogether'
    BY <2>1, <2>2, <2>4 DEF PlanStatusCurrent, CancelledTogether, PlanTerminal, PlanStatus
  <2>10. Untouched' /\ RunsAfterParents'
    BY <2>1, <2>2 DEF Untouched, RunsAfterParents
  <2> QED BY <2>1, <2>3, <2>6, <2>7, <2>8, <2>9, <2>10 DEF StoreInv
<1>2. CASE start_plan
  <2>1. /\ plan' = PlanStatus(node)
        /\ plan \notin PlanTerminal \cup {"absent"}
        /\ UNCHANGED <<edges, node, runId, owner, lease, run>>
    BY <1>2 DEF start_plan
  <2>2. plan' = plan
    BY <2>1 DEF StoreInv, PlanStatusCurrent, PlanTerminal
  <2> QED BY <2>1, <2>2 DEF StoreInv, DependencyOrder, BlockedExactly, PlanStatusCurrent,
             LeaseDiscipline, StoreFollowsEngine, Untouched, RunsAfterParents,
             CancelledTogether, ParentsSucceeded, PlanStatus
<1>3. CASE cancel_plan
  BY <1>3, CancelStore DEF cancel_plan
<1>4. ASSUME NEW c \in Coordinators, NEW s \in Slots, NEW n \in Nodes, claim_ready(c, s, n)
      PROVE Keeps
  BY <1>4, ClaimStore DEF claim_ready
<1>5. ASSUME NEW c \in Coordinators,
             \/ Launch(c) \/ EndClaims(c) \/ EndTick(c) \/ PlanIsTerminal(c) \/ Released(c)
             \/ close(c) \/ Crash(c)
      PROVE Keeps
  <2>1. UNCHANGED storeVars /\ run' = run
    BY <1>5 DEF Launch, EndClaims, EndTick, PlanIsTerminal, Released, close, Crash
  <2> QED BY <2>1, QuietStore DEF storeVars
<1>6. ASSUME NEW n \in Nodes, cancel_run(n) \/ RunEnds(n) PROVE Keeps
  <2>1. /\ UNCHANGED storeVars
        /\ \A m \in Nodes : run[m] = "none" <=> run'[m] = "none"
        /\ \A m \in Nodes : run[m] = "complete" => run'[m] = "complete"
        /\ run[n] = "none" => run' = run
    BY <1>6 DEF cancel_run, RunEnds, TypeOK, RunTerminal
  <2>2. plan = "absent" => run' = run
    BY <2>1 DEF StoreInv, Untouched
  <2> QED BY <2>1, <2>2, EngineStore DEF StoreInv, RunsAfterParents, storeVars
<1>7. ASSUME NEW n \in Nodes, LeaseExpires(n) PROVE Keeps
  <2>1. /\ UNCHANGED <<plan, edges, node, runId, owner, run>>
        /\ lease[n] = "held" /\ lease'[n] = "expired"
        /\ \A m \in Nodes : m # n => lease'[m] = lease[m]
    BY <1>7 DEF LeaseExpires, TypeOK
  <2>2. LeaseDiscipline'
    BY <2>1 DEF StoreInv, LeaseDiscipline
  <2> QED BY <2>1, <2>2 DEF StoreInv, DependencyOrder, BlockedExactly, PlanStatusCurrent,
             StoreFollowsEngine, Untouched, RunsAfterParents, CancelledTogether,
             ParentsSucceeded, PlanStatus
<1>8. ASSUME NEW c \in Coordinators, NEW s \in Slots, Execute(c, s) PROVE Keeps
  BY <1>8, ExecuteStore
<1>9. CASE UNCHANGED vars
  BY <1>9, QuietStore DEF vars, storeVars
<1>10. Keeps
  BY <1>1, <1>2, <1>3, <1>4, <1>5, <1>6, <1>7, <1>8, <1>9 DEF Next, Loop
<1>11. plan # "absent" => plan' # "absent"
  BY NextPlan
<1> QED BY <1>10, <1>11

(* Tasks stay with nodes whose dependencies have succeeded.                *)
LEMMA NextTasks ==
    ASSUME IInv, [Next]_vars, TypeOK', StoreInv',
           \A m \in Nodes : node[m] = "succeeded" => node'[m] = "succeeded",
           \A m \in Nodes : run[m] # "none" => run'[m] # "none",
           plan # "absent" => plan' # "absent"
    PROVE  TasksFollowDependencies'
<1> USE DEF IInv
<1> SUFFICES ASSUME NEW w \in Workers, pc'[w] # "idle"
             PROVE  /\ job'[w] \in Nodes
                    /\ ParentsSucceeded(job[w])'
                    /\ pc'[w] \in {"confirm", "wait"} => run'[job'[w]] # "none"
                    /\ plan' # "absent"
  BY DEF TasksFollowDependencies
<1> DEFINE Same == /\ edges' = edges
                   /\ pc[w] # "idle" /\ job'[w] = job[w]
                   /\ pc'[w] = pc[w] \/ run'[job[w]] # "none"
<1> DEFINE Kept == /\ job'[w] \in Nodes
                   /\ ParentsSucceeded(job[w])'
                   /\ pc'[w] \in {"confirm", "wait"} => run'[job'[w]] # "none"
                   /\ plan' # "absent"
<1>0. ASSUME Same PROVE Kept
  BY <1>0, TaskStep
<1>1. ASSUME NEW E \in PlanGraphs, NEW start \in BOOLEAN, create_plan(E, start) PROVE Kept
  <2>1. plan = "absent" /\ pc' = pc
    BY <1>1 DEF create_plan, taskVars
  <2> QED BY <2>1 DEF TasksFollowDependencies
<1>2. ASSUME start_plan \/ cancel_plan PROVE Same
  BY <1>2 DEF start_plan, cancel_plan, taskVars
<1>3. ASSUME NEW c \in Coordinators, NEW s \in Slots, NEW n \in Nodes, claim_ready(c, s, n)
      PROVE Kept
  <2>1. /\ ParentsSucceeded(n) /\ plan # "absent"
        /\ edges' = edges /\ run' = run
    BY <1>3, ClaimStore DEF claim_ready
  <2>2. CASE w = <<c, s>>
    <3>1. job'[w] = n /\ pc'[w] = IF node[n] = "running" /\ runId[n] THEN "wait" ELSE "submit"
      BY <1>3, <2>2 DEF claim_ready, TypeOK
    <3>2. pc'[w] = "wait" => run[n] # "none"
      BY <3>1 DEF StoreInv, StoreFollowsEngine
    <3>3. ParentsSucceeded(job[w])'
      BY <2>1, <3>1, ParentsEdges DEF ParentsSucceeded, TypeOK
    <3> QED BY <2>1, <3>1, <3>2, <3>3
  <2>3. CASE w # <<c, s>>
    <3>1. pc'[w] = pc[w] /\ job'[w] = job[w]
      BY <1>3, <2>3 DEF claim_ready, TypeOK
    <3> QED BY <1>0, <2>1, <3>1
  <2> QED BY <2>2, <2>3
<1>4. ASSUME NEW c \in Coordinators,
             \/ Launch(c) \/ EndClaims(c) \/ EndTick(c) \/ PlanIsTerminal(c) \/ Released(c)
             \/ close(c)
      PROVE Same
  BY <1>4 DEF Launch, EndClaims, EndTick, PlanIsTerminal, Released, close, storeVars, taskVars
<1>5. ASSUME NEW c \in Coordinators, Crash(c) PROVE Same
  BY <1>5 DEF Crash, storeVars
<1>6. ASSUME NEW n \in Nodes, cancel_run(n) \/ LeaseExpires(n) \/ RunEnds(n) PROVE Same
  BY <1>6 DEF cancel_run, LeaseExpires, RunEnds, storeVars, taskVars
<1>7. ASSUME NEW c \in Coordinators, NEW s \in Slots, Execute(c, s) PROVE Same
  <2>1. edges' = edges
    BY <1>7 DEF Execute, Submit, SubmitFails, mark_running, renew_claim, WaitReturns,
                WaitRaises, CancelledWait, CancelledSubmit, CancelledSubmitFails, storeVars
  <2>2. CASE \/ Submit(c, s) \/ mark_running(c, s)
             \/ renew_claim(c, s) /\ UNCHANGED taskVars
    <3>1. /\ pc[<<c, s>>] # "idle"
          /\ w # <<c, s>> => pc'[w] = pc[w] /\ job'[w] = job[w]
      BY <2>2 DEF Submit, mark_running, renew_claim, Idle, taskVars, TypeOK
    <3>2. job[<<c, s>>] \in Nodes /\ <<c, s>> \in Workers
          /\ (pc[<<c, s>>] \in {"confirm", "wait"} => run[job[<<c, s>>]] # "none")
      BY <3>1, ExecuteFacts
    <3>3. w = <<c, s>> => job'[w] = job[w] /\ (pc'[w] = pc[w] \/ run'[job[w]] # "none")
      BY <2>2, <3>2 DEF Submit, mark_running, renew_claim, Idle, taskVars, TypeOK
    <3> QED BY <2>1, <3>1, <3>3
  <2>3. CASE Idle(<<c, s>>)
    BY <2>1, <2>3 DEF Idle, TypeOK
  <2> QED BY <1>7, <2>2, <2>3 DEF Execute, SubmitFails, renew_claim, WaitReturns,
             WaitRaises, CancelledWait, CancelledSubmit, CancelledSubmitFails
<1>8. ASSUME UNCHANGED vars PROVE Same
  BY <1>8 DEF vars
<1> HIDE DEF Same, Kept
<1>9. Kept
  BY <1>0, <1>1, <1>2, <1>3, <1>4, <1>5, <1>6, <1>7, <1>8 DEF Next, Loop
<1> QED BY <1>9 DEF Kept

(* The inductive invariant holds in every reachable state.                 *)
THEOREM Invariance == Spec => []IInv
<1>1. IInv /\ [Next]_vars => IInv'
  <2> SUFFICES ASSUME IInv, [Next]_vars PROVE IInv'
    OBVIOUS
  <2>1. TypeOK'
    BY NextType DEF IInv, BusyHasNode, TasksFollowDependencies
  <2>2. /\ StoreInv'
        /\ \A m \in Nodes : node[m] = "succeeded" => node'[m] = "succeeded"
        /\ \A m \in Nodes : run[m] # "none" => run'[m] # "none"
        /\ plan # "absent" => plan' # "absent"
    BY <2>1, NextStore
  <2>3. TasksFollowDependencies'
    BY <2>1, <2>2, NextTasks
  <2> QED BY <2>1, <2>2, <2>3 DEF IInv
<1> QED BY InitInv, <1>1, PTL DEF Spec

-----------------------------------------------------------------------------
(* The results.                                                            *)

(* Every variable keeps the type of its column or field.                   *)
THEOREM Typing == Spec => []TypeOK
<1>1. IInv => TypeOK
  BY DEF IInv
<1> QED BY Invariance, <1>1, PTL

(* No node of any plan is claimed before everything it depends on has      *)
(* succeeded.                                                              *)
THEOREM DependenciesFirst == Spec => []DependencyOrder
<1>1. IInv => DependencyOrder
  BY DEF IInv, StoreInv
<1> QED BY Invariance, <1>1, PTL

(* The recursive query of _finish_node blocks exactly the transitive       *)
(* dependents of failed nodes, in every acyclic graph.                     *)
THEOREM FailuresBlockDependents == Spec => []BlockedExactly
<1>1. IInv => BlockedExactly
  BY DEF IInv, StoreInv
<1> QED BY Invariance, <1>1, PTL

(* The plan's status column is never stale.                                *)
THEOREM PlanNeverStale == Spec => []PlanStatusCurrent
<1>1. IInv => PlanStatusCurrent
  BY DEF IInv, StoreInv
<1> QED BY Invariance, <1>1, PTL

(* Lease columns and node statuses agree, and no interrupted node is left  *)
(* without a way to be claimed again.                                      *)
THEOREM LeasesDisciplined == Spec => []LeaseDiscipline
<1>1. IInv => LeaseDiscipline
  BY DEF IInv, StoreInv
<1> QED BY Invariance, <1>1, PTL

(* What readers of the table rely on, as one fact: dependencies first,     *)
(* failures blocking exactly, a current plan status, disciplined leases.   *)
THEOREM TableAlwaysConsistent == Spec => []TableConsistent
<1>1. IInv => TableConsistent
  BY DEF IInv, StoreInv, TableConsistent
<1> QED BY Invariance, <1>1, PTL

(* The store records no run that does not exist and no success that did    *)
(* not happen.                                                             *)
THEOREM StoreNeverAhead == Spec => []StoreFollowsEngine
<1>1. IInv => StoreFollowsEngine
  BY DEF IInv, StoreInv
<1> QED BY Invariance, <1>1, PTL

(* No engine run is submitted for a node whose dependencies' runs are not  *)
(* complete, by whichever coordinator and however stale its claim.         *)
THEOREM RunsInOrder == Spec => []RunsFollowDependencies
<1>1. IInv => RunsFollowDependencies
  <2> SUFFICES ASSUME IInv, NEW n \in Nodes, run[n] # "none", NEW p \in Parents(edges, n)
               PROVE  run[p] = "complete"
    BY DEF RunsFollowDependencies
  <2>1. p \in Nodes
    BY ParentsEdges DEF IInv, TypeOK
  <2>2. node[p] = "succeeded"
    BY DEF IInv, StoreInv, RunsAfterParents, ParentsSucceeded
  <2> QED BY <2>1, <2>2 DEF IInv, StoreInv, StoreFollowsEngine
<1> QED BY Invariance, <1>1, PTL

(* What _finish_node does to a node that is already terminal: nothing.     *)
LEMMA FinishStable ==
    ASSUME NEW c, NEW n \in Nodes, NEW status, _finish_node(c, n, status),
           NEW m \in Nodes, node[m] \in NodeTerminal
    PROVE  node'[m] = node[m]
<1>1. CASE Holds(c, n)
  BY <1>1 DEF _finish_node, Holds, NodeTerminal
<1>2. CASE ~Holds(c, n)
  BY <1>2 DEF _finish_node
<1> QED BY <1>1, <1>2

(* No step changes a terminal node.                                        *)
LEMMA NodesStable ==
    ASSUME IInv, [Next]_vars, NEW m \in Nodes, node[m] \in NodeTerminal
    PROVE  node'[m] = node[m]
<1> DEFINE Kept == node'[m] = node[m]
<1> USE DEF IInv
<1>1. ASSUME NEW c \in Coordinators, NEW s \in Slots, Execute(c, s) PROVE Kept
  <2> DEFINE n == job[<<c, s>>]
  <2>0. n \in Nodes
    BY <1>1, ExecuteFacts DEF Execute, Submit, SubmitFails, mark_running, renew_claim,
       WaitReturns, WaitRaises, CancelledWait, CancelledSubmit, CancelledSubmitFails
  <2>1. CASE SubmitFails(c, s) \/ WaitReturns(c, s) \/ WaitRaises(c, s) \/ renew_claim(c, s)
    <3>1. node' = node \/ \E status : _finish_node(c, n, status)
      BY <2>1 DEF SubmitFails, WaitReturns, WaitRaises, renew_claim
    <3> QED BY <2>0, <3>1, FinishStable
  <2>2. CASE CancelledWait(c, s) \/ CancelledSubmit(c, s) \/ CancelledSubmitFails(c, s)
    <3>1. \E b : release_claim(c, n, b)
      BY <2>2 DEF CancelledWait, CancelledSubmit, CancelledSubmitFails
    <3> QED BY <2>0, <3>1 DEF release_claim, Holds, NodeTerminal, TypeOK
  <2>3. CASE Submit(c, s) \/ mark_running(c, s)
    BY <2>0, <2>3 DEF Submit, mark_running, storeVars, NodeTerminal, TypeOK
  <2> QED BY <1>1, <2>1, <2>2, <2>3 DEF Execute
<1>2. ASSUME NEW c \in Coordinators, NEW s \in Slots, NEW n \in Nodes, claim_ready(c, s, n)
      PROVE Kept
  BY <1>2 DEF claim_ready, FirstClaimable, Claimable, NodeTerminal, TypeOK
<1>3. ASSUME NEW c \in Coordinators,
             \/ Launch(c) \/ EndClaims(c) \/ EndTick(c) \/ PlanIsTerminal(c) \/ Released(c)
             \/ close(c) \/ Crash(c)
      PROVE Kept
  BY <1>3 DEF Launch, EndClaims, EndTick, PlanIsTerminal, Released, close, Crash, storeVars
<1>4. ASSUME NEW n \in Nodes, cancel_run(n) \/ LeaseExpires(n) \/ RunEnds(n) PROVE Kept
  BY <1>4 DEF cancel_run, LeaseExpires, RunEnds, storeVars
<1>5. ASSUME NEW E \in PlanGraphs, NEW start \in BOOLEAN, create_plan(E, start) PROVE Kept
  BY <1>5 DEF create_plan
<1>6. ASSUME start_plan \/ cancel_plan \/ UNCHANGED vars PROVE Kept
  BY <1>6 DEF start_plan, cancel_plan, vars
<1> HIDE DEF Kept
<1>7. Kept
  BY <1>1, <1>2, <1>3, <1>4, <1>5, <1>6 DEF Next, Loop
<1> QED BY <1>7 DEF Kept

(* No step changes a terminal plan: all its nodes are terminal, so that no *)
(* coordinator holds one.                                                  *)
LEMMA PlanStable ==
    ASSUME IInv, [Next]_vars, plan \in PlanTerminal
    PROVE  plan' = plan
<1> DEFINE Kept == plan' = plan
<1> USE DEF IInv
<1>0. \A n \in Nodes : node[n] \in NodeTerminal
  BY PlanStatusTerminal DEF StoreInv, PlanStatusCurrent, CancelledTogether, PlanTerminal
<1>1. ASSUME NEW c \in Coordinators, NEW s \in Slots, Execute(c, s) PROVE Kept
  <2> DEFINE n == job[<<c, s>>]
  <2>0. n \in Nodes
    BY <1>1, ExecuteFacts DEF Execute, Submit, SubmitFails, mark_running, renew_claim,
       WaitReturns, WaitRaises, CancelledWait, CancelledSubmit, CancelledSubmitFails
  <2>1. ~Holds(c, n)
    BY <1>0, <2>0 DEF Holds, NodeTerminal
  <2>2. CASE SubmitFails(c, s) \/ WaitReturns(c, s) \/ WaitRaises(c, s) \/ renew_claim(c, s)
    <3>1. plan' = plan \/ \E status : _finish_node(c, n, status)
      BY <2>2 DEF SubmitFails, WaitReturns, WaitRaises, renew_claim
    <3> QED BY <2>1, <3>1 DEF _finish_node
  <2>3. CASE CancelledWait(c, s) \/ CancelledSubmit(c, s) \/ CancelledSubmitFails(c, s)
    <3>1. \E b : release_claim(c, n, b)
      BY <2>3 DEF CancelledWait, CancelledSubmit, CancelledSubmitFails
    <3> QED BY <2>1, <3>1 DEF release_claim
  <2>4. CASE Submit(c, s) \/ mark_running(c, s)
    BY <2>4 DEF Submit, mark_running, storeVars
  <2> QED BY <1>1, <2>2, <2>3, <2>4 DEF Execute
<1>2. ASSUME NEW c \in Coordinators, NEW s \in Slots, NEW n \in Nodes, claim_ready(c, s, n)
      PROVE Kept
  BY <1>2 DEF claim_ready, FirstClaimable, Claimable, PlanTerminal
<1>3. ASSUME NEW c \in Coordinators,
             \/ Launch(c) \/ EndClaims(c) \/ EndTick(c) \/ PlanIsTerminal(c) \/ Released(c)
             \/ close(c) \/ Crash(c)
      PROVE Kept
  BY <1>3 DEF Launch, EndClaims, EndTick, PlanIsTerminal, Released, close, Crash, storeVars
<1>4. ASSUME NEW n \in Nodes, cancel_run(n) \/ LeaseExpires(n) \/ RunEnds(n) PROVE Kept
  BY <1>4 DEF cancel_run, LeaseExpires, RunEnds, storeVars
<1>5. ASSUME NEW E \in PlanGraphs, NEW start \in BOOLEAN, create_plan(E, start) PROVE Kept
  BY <1>5 DEF create_plan, PlanTerminal
<1>6. ASSUME start_plan \/ cancel_plan \/ UNCHANGED vars PROVE Kept
  BY <1>6 DEF start_plan, cancel_plan, vars
<1> HIDE DEF Kept
<1>7. Kept
  BY <1>1, <1>2, <1>3, <1>4, <1>5, <1>6 DEF Next, Loop
<1> QED BY <1>7 DEF Kept

(* Outcomes of nodes and plans are final.                                  *)
THEOREM OutcomesFinal == Spec => [][OutcomesStay]_vars
<1>1. IInv /\ [Next]_vars => OutcomesStay
  BY NodesStable, PlanStable DEF OutcomesStay
<1> QED BY Invariance, <1>1, PTL DEF Spec

(* Only a task of the coordinator that owns a node decides it, however     *)
(* many coordinators are still working on it.                              *)
LEMMA OwnerDecides ==
    ASSUME IInv, [Next]_vars, NEW n \in Nodes,
           node'[n] \in {"succeeded", "failed"}, node'[n] # node[n]
    PROVE  \E s \in Slots : /\ <<owner[n], s>> \in Workers
                            /\ job[<<owner[n], s>>] = n
                            /\ pc[<<owner[n], s>>] \in {"submit", "wait"}
                            /\ pc'[<<owner[n], s>>] = "idle"
<1> USE DEF IInv
<1>1. ASSUME NEW E \in PlanGraphs, NEW start \in BOOLEAN, create_plan(E, start) PROVE FALSE
  BY <1>1 DEF create_plan
<1>2. ASSUME start_plan \/ cancel_plan \/ UNCHANGED vars PROVE FALSE
  BY <1>2 DEF start_plan, cancel_plan, vars
<1>3. ASSUME NEW c \in Coordinators, NEW s \in Slots, NEW m \in Nodes, claim_ready(c, s, m)
      PROVE FALSE
  BY <1>3 DEF claim_ready, TypeOK
<1>4. ASSUME NEW c \in Coordinators,
             \/ Launch(c) \/ EndClaims(c) \/ EndTick(c) \/ PlanIsTerminal(c) \/ Released(c)
             \/ close(c) \/ Crash(c)
      PROVE FALSE
  BY <1>4 DEF Launch, EndClaims, EndTick, PlanIsTerminal, Released, close, Crash, storeVars
<1>5. ASSUME NEW m \in Nodes, cancel_run(m) \/ LeaseExpires(m) \/ RunEnds(m) PROVE FALSE
  BY <1>5 DEF cancel_run, LeaseExpires, RunEnds, storeVars
<1>6. PICK c \in Coordinators, s \in Slots : Execute(c, s)
  BY <1>1, <1>2, <1>3, <1>4, <1>5 DEF Next, Loop
<1> DEFINE m == job[<<c, s>>]
<1>7. <<c, s>> \in Workers /\ m \in Nodes
  BY <1>6, ExecuteFacts DEF Execute, Submit, SubmitFails, mark_running, renew_claim,
     WaitReturns, WaitRaises, CancelledWait, CancelledSubmit, CancelledSubmitFails
<1>8. CASE SubmitFails(c, s) \/ WaitReturns(c, s) \/ WaitRaises(c, s) \/ renew_claim(c, s)
  <2>1. /\ pc[<<c, s>>] \in {"submit", "wait"}
        /\ \/ node' = node
           \/ Idle(<<c, s>>) /\ \E status : _finish_node(c, m, status)
    BY <1>8 DEF SubmitFails, WaitReturns, WaitRaises, renew_claim
  <2>2. Holds(c, m) /\ Idle(<<c, s>>)
    BY <2>1 DEF _finish_node
  <2>3. n = m
    BY <2>1 DEF _finish_node
  <2> QED BY <1>7, <2>1, <2>2, <2>3 DEF Holds, Idle, TypeOK
<1>9. CASE CancelledWait(c, s) \/ CancelledSubmit(c, s) \/ CancelledSubmitFails(c, s)
  <2>1. \E b : release_claim(c, m, b)
    BY <1>9 DEF CancelledWait, CancelledSubmit, CancelledSubmitFails
  <2> QED BY <1>7, <2>1 DEF release_claim, TypeOK
<1>10. CASE Submit(c, s) \/ mark_running(c, s)
  BY <1>7, <1>10 DEF Submit, mark_running, storeVars, TypeOK
<1> QED BY <1>6, <1>8, <1>9, <1>10 DEF Execute

(* Outcomes are decided by owners, at every step of the service.           *)
THEOREM OwnersDecide == Spec => [][OwnersOutcome]_vars
<1>1. IInv /\ [Next]_vars => OwnersOutcome
  BY OwnerDecides DEF OwnersOutcome
<1> QED BY Invariance, <1>1, PTL DEF Spec

(* Verdicts come from owners and stay, in every behaviour.                 *)
THEOREM OutcomesAlwaysKept == Spec => OutcomesKept
<1>1. [][OutcomesStay]_vars /\ [][OwnersOutcome]_vars => [][OutcomesStay /\ OwnersOutcome]_vars
  BY PTL
<1> QED BY OutcomesFinal, OwnersDecide, <1>1, PTL DEF OutcomesKept

-----------------------------------------------------------------------------
(* Refinement of TaskGraph.                                                *)

(* The mapping of statuses, value by value.                                *)
LEMMA Outcomes ==
    /\ Outcome("pending") = "todo"
    /\ Outcome("claimed") = "active"
    /\ Outcome("running") = "active"
    /\ Outcome("succeeded") = "ok"
    /\ Outcome("failed") = "bad"
    /\ Outcome("blocked") = "skipped"
    /\ Outcome("cancelled") = "cancelled"
BY DEF Outcome

(* The abstract verdict of the mapped outcomes is the mapped plan status.  *)
LEMMA VerdictAgrees ==
    ASSUME NEW st, NEW out,
           \A n \in Nodes : out[n] = Outcome(st[n]),
           \A n \in Nodes : st[n] \in NodeStatus
    PROVE  /\ TG!Verdict(out) \in {"open"} \cup PlanTerminal
           /\ TG!Verdict(out) = "open" <=> PlanStatus(st) \in {"pending", "running"}
           /\ TG!Verdict(out) # "open" => TG!Verdict(out) = PlanStatus(st)
<1>1. \A n \in Nodes : out[n] \in TG!Settled <=> st[n] \in NodeTerminal
  BY Outcomes DEF TG!Settled, NodeTerminal, NodeStatus
<1>2. \A n \in Nodes : out[n] \in {"bad", "skipped"} <=> st[n] \in {"failed", "blocked"}
  BY Outcomes DEF NodeStatus
<1>3. \A n \in Nodes : out[n] = "cancelled" <=> st[n] = "cancelled"
  BY Outcomes DEF NodeStatus
<1> QED BY <1>1, <1>2, <1>3 DEF TG!Verdict, PlanStatus, PlanTerminal

(* The initial state maps to the abstract one.                             *)
LEMMA InitRefines == Init => TG!Init
BY Outcomes DEF Init, TG!Init, OutcomeOf, VerdictOf

(* Finishing a node is the abstract Succeed or Fail, or changes nothing.   *)
LEMMA FinishRefines ==
    ASSUME IInv, IInv', plan # "absent",
           NEW c \in Coordinators, NEW n \in Nodes, NEW status \in {"succeeded", "failed"},
           _finish_node(c, n, status), edges' = edges
    PROVE  TG!Next \/ UNCHANGED TG!vars
<1> USE DEF IInv
<1>1. CASE ~Holds(c, n)
  BY <1>1 DEF _finish_node, TG!vars, OutcomeOf, VerdictOf
<1>2. CASE Holds(c, n)
  <2>1. /\ node[n] \in {"claimed", "running"}
        /\ plan \in {"pending", "running"}
        /\ \A m \in Nodes : node[m] # "cancelled"
    BY <1>2, OpenPlan DEF Holds, NodeTerminal
  <2>2. \A m \in Descendants(Nodes, edges, n) : m \in Nodes /\ node[m] \in {"pending", "blocked"}
    BY <2>1, Waiting DEF StoreInv
  <2>3. /\ node'[n] = status
        /\ \A m \in Nodes : m # n =>
              node'[m] = IF /\ status = "failed"
                            /\ m \in Descendants(Nodes, edges, n)
                            /\ node[m] = "pending"
                         THEN "blocked" ELSE node[m]
        /\ plan' = PlanStatus(node')
    BY <1>2, <2>2 DEF _finish_node
  <2>4. VerdictOf' = TG!Verdict(OutcomeOf')
    <3>1. /\ \A m \in Nodes : OutcomeOf'[m] = Outcome(node'[m])
          /\ \A m \in Nodes : node'[m] \in NodeStatus
      BY DEF OutcomeOf, TypeOK
    <3> QED BY <2>3, <3>1, VerdictAgrees, PlanStatusType DEF VerdictOf, PlanTerminal
  <2>5. OutcomeOf[n] = "active"
    BY <2>1, Outcomes DEF OutcomeOf
  <2>6. CASE status = "succeeded"
    <3>1. OutcomeOf' = [OutcomeOf EXCEPT ![n] = "ok"]
      BY <2>3, <2>6, Outcomes DEF OutcomeOf
    <3>2. TG!Succeed(n)
      BY <2>4, <2>5, <3>1 DEF TG!Succeed
    <3> QED BY <3>2 DEF TG!Next
  <2>7. CASE status = "failed"
    <3>1. \A m \in Nodes : OutcomeOf[m] = "todo" <=> node[m] = "pending"
      BY Outcomes DEF OutcomeOf, TypeOK, NodeStatus
    <3>2. \A m \in Nodes : OutcomeOf'[m] =
             IF m = n THEN "bad"
             ELSE IF m \in Descendants(Nodes, edges, n) /\ OutcomeOf[m] = "todo"
                  THEN "skipped" ELSE OutcomeOf[m]
      BY <2>3, <2>7, <3>1, Outcomes DEF OutcomeOf
    <3>3. OutcomeOf' = [m \in Nodes |->
             IF m = n THEN "bad"
             ELSE IF m \in Descendants(Nodes, edges, n) /\ OutcomeOf[m] = "todo"
                  THEN "skipped" ELSE OutcomeOf[m]]
      BY <3>2, Outcomes DEF OutcomeOf
    <3>4. TG!Fail(n)
      BY <2>4, <2>5, <3>3 DEF TG!Fail, TG!Descendants, Descendants, TG!Children, Children,
         TG!Closed, Closed
    <3> QED BY <3>4 DEF TG!Next
  <2> QED BY <2>6, <2>7
<1> QED BY <1>1, <1>2

(* Handing a node back is the abstract Yield, or changes nothing.          *)
LEMMA ReleaseRefines ==
    ASSUME IInv, IInv', plan # "absent",
           NEW c \in Coordinators, NEW n \in Nodes, NEW b \in BOOLEAN,
           release_claim(c, n, b), edges' = edges
    PROVE  TG!Next \/ UNCHANGED TG!vars
<1> USE DEF IInv
<1>1. CASE ~Holds(c, n)
  BY <1>1 DEF release_claim, TG!vars, OutcomeOf, VerdictOf
<1>2. CASE Holds(c, n)
  <2>1. /\ node[n] \in {"claimed", "running"}
        /\ plan \in {"pending", "running"}
        /\ \A m \in Nodes : m # n => node'[m] = node[m]
        /\ node'[n] = IF b THEN "running" ELSE "pending"
        /\ plan' = PlanStatus(node')
    BY <1>2, OpenPlan DEF release_claim, Holds, NodeTerminal, TypeOK
  <2>2. plan' \in {"pending", "running"}
    <3>1. plan' \notin PlanTerminal
      BY <2>1, PlanStatusTerminal DEF NodeTerminal
    <3> QED BY <2>1, <3>1, PlanStatusType
  <2>3. VerdictOf = "open" /\ VerdictOf' = "open"
    BY <2>1, <2>2 DEF VerdictOf
  <2>4. CASE b
    <3>1. OutcomeOf' = OutcomeOf
      BY <2>1, <2>4, Outcomes DEF OutcomeOf
    <3> QED BY <2>3, <3>1 DEF TG!vars
  <2>5. CASE ~b
    <3>1. OutcomeOf' = [OutcomeOf EXCEPT ![n] = "todo"] /\ OutcomeOf[n] = "active"
      BY <2>1, <2>5, Outcomes DEF OutcomeOf
    <3>2. TG!Yield(n)
      BY <2>3, <3>1 DEF TG!Yield
    <3> QED BY <3>2 DEF TG!Next
  <2> QED BY <2>4, <2>5
<1> QED BY <1>1, <1>2

(* Claiming a pending node is the abstract Start; taking over a claim is   *)
(* no step at all.                                                         *)
LEMMA ClaimRefines ==
    ASSUME IInv, IInv',
           NEW c \in Coordinators, NEW s \in Slots, NEW n \in Nodes, claim_ready(c, s, n)
    PROVE  TG!Next \/ UNCHANGED TG!vars
<1> USE DEF IInv
<1>1. /\ plan \in {"pending", "running"}
      /\ edges' = edges
      /\ node[n] \in {"pending", "claimed", "running"}
      /\ node'[n] \in {"claimed", "running"}
      /\ \A m \in Nodes : m # n => node'[m] = node[m]
      /\ plan' = PlanStatus(node')
  BY DEF claim_ready, FirstClaimable, Claimable, TypeOK
<1>2. plan' \in {"pending", "running"}
  <2>1. plan' \notin PlanTerminal
    BY <1>1, PlanStatusTerminal DEF NodeTerminal
  <2> QED BY <1>1, <2>1, PlanStatusType
<1>3. VerdictOf = "open" /\ VerdictOf' = "open"
  BY <1>1, <1>2 DEF VerdictOf
<1>4. CASE node[n] = "pending"
  <2>1. OutcomeOf' = [OutcomeOf EXCEPT ![n] = "active"] /\ OutcomeOf[n] = "todo"
    BY <1>1, <1>4, Outcomes DEF OutcomeOf
  <2>2. \A p \in Parents(edges, n) : OutcomeOf[p] = "ok"
    <3> SUFFICES ASSUME NEW p \in Parents(edges, n) PROVE OutcomeOf[p] = "ok"
      OBVIOUS
    <3>1. p \in Nodes
      BY ParentsEdges DEF TypeOK
    <3>2. node[p] = "succeeded"
      BY ClaimStore DEF ParentsSucceeded
    <3> QED BY <3>1, <3>2, Outcomes DEF OutcomeOf
  <2>3. TG!Start(n)
    BY <1>1, <1>3, <2>1, <2>2 DEF TG!Start, TG!Parents, Parents
  <2> QED BY <2>3 DEF TG!Next
<1>5. CASE node[n] # "pending"
  <2>1. OutcomeOf' = OutcomeOf
    BY <1>1, <1>5, Outcomes DEF OutcomeOf
  <2> QED BY <1>1, <1>3, <2>1 DEF TG!vars
<1> QED BY <1>4, <1>5

(* Every step of the service maps to a step of the task graph or to none.  *)
LEMMA NextRefines ==
    ASSUME IInv, IInv', [Next]_vars
    PROVE  TG!Next \/ UNCHANGED TG!vars
<1> DEFINE Maps == TG!Next \/ UNCHANGED TG!vars
<1> USE DEF IInv
<1>1. ASSUME NEW E \in PlanGraphs, NEW start \in BOOLEAN, create_plan(E, start) PROVE Maps
  <2>1. /\ plan = "absent" /\ edges' = E /\ node' = node
        /\ plan' = PlanStatus(node)
    BY <1>1 DEF create_plan
  <2>2. plan' \in {"pending", "running"}
    <3>1. plan' \notin PlanTerminal
      BY <2>1, NodesAssumption, PlanStatusTerminal DEF StoreInv, Untouched, NodeTerminal
    <3> QED BY <2>1, <3>1, PlanStatusType
  <2>3. OutcomeOf' = OutcomeOf /\ VerdictOf = "none" /\ VerdictOf' = "open"
    BY <2>1, <2>2 DEF OutcomeOf, VerdictOf
  <2>4. edges' \in TG!Graphs(Nodes)
    BY <2>1, GraphsAssumption DEF Graphs, TG!Graphs, Acyclic, TG!Acyclic, Descendants,
       TG!Descendants, Children, TG!Children, Closed, TG!Closed
  <2> QED BY <2>3, <2>4 DEF TG!Open, TG!Next
<1>2. ASSUME start_plan PROVE Maps
  <2>1. /\ plan' = PlanStatus(node) /\ node' = node /\ edges' = edges
        /\ plan \notin PlanTerminal \cup {"absent"}
    BY <1>2 DEF start_plan
  <2>2. plan' = plan
    BY <2>1 DEF StoreInv, PlanStatusCurrent, PlanTerminal
  <2> QED BY <2>1, <2>2 DEF TG!vars, OutcomeOf, VerdictOf
<1>3. ASSUME cancel_plan PROVE Maps
  <2>1. /\ plan \in {"pending", "running"} /\ plan' = "cancelled" /\ edges' = edges
        /\ node' = [n \in Nodes |-> IF node[n] \in NodeTerminal THEN node[n] ELSE "cancelled"]
    BY <1>3 DEF cancel_plan, TypeOK
  <2>2. VerdictOf = "open" /\ VerdictOf' = "cancelled"
    BY <2>1 DEF VerdictOf
  <2>3. \A n \in Nodes : OutcomeOf[n] \in TG!Settled <=> node[n] \in NodeTerminal
    BY Outcomes DEF OutcomeOf, TG!Settled, TypeOK, NodeStatus, NodeTerminal
  <2>4. OutcomeOf' = [n \in Nodes |->
                        IF OutcomeOf[n] \in TG!Settled THEN OutcomeOf[n] ELSE "cancelled"]
    BY <2>1, <2>3, Outcomes DEF OutcomeOf
  <2>5. TG!Abandon
    BY <2>1, <2>2, <2>4 DEF TG!Abandon
  <2> QED BY <2>5 DEF TG!Next
<1>4. ASSUME NEW c \in Coordinators, NEW s \in Slots, NEW n \in Nodes, claim_ready(c, s, n)
      PROVE Maps
  BY <1>4, ClaimRefines
<1>5. ASSUME NEW c \in Coordinators,
             \/ Launch(c) \/ EndClaims(c) \/ EndTick(c) \/ PlanIsTerminal(c) \/ Released(c)
             \/ close(c) \/ Crash(c)
      PROVE Maps
  <2>1. plan' = plan /\ node' = node /\ edges' = edges
    BY <1>5 DEF Launch, EndClaims, EndTick, PlanIsTerminal, Released, close, Crash, storeVars
  <2> QED BY <2>1 DEF TG!vars, OutcomeOf, VerdictOf
<1>6. ASSUME NEW n \in Nodes, cancel_run(n) \/ LeaseExpires(n) \/ RunEnds(n) PROVE Maps
  <2>1. plan' = plan /\ node' = node /\ edges' = edges
    BY <1>6 DEF cancel_run, LeaseExpires, RunEnds, storeVars
  <2> QED BY <2>1 DEF TG!vars, OutcomeOf, VerdictOf
<1>7. ASSUME NEW c \in Coordinators, NEW s \in Slots, Execute(c, s) PROVE Maps
  <2> DEFINE n == job[<<c, s>>]
  <2>0. n \in Nodes /\ plan # "absent"
    BY <1>7, ExecuteFacts DEF Execute, Submit, SubmitFails, mark_running, renew_claim,
       WaitReturns, WaitRaises, CancelledWait, CancelledSubmit, CancelledSubmitFails
  <2>1. CASE SubmitFails(c, s) \/ WaitReturns(c, s) \/ WaitRaises(c, s) \/ renew_claim(c, s)
    <3>1. /\ edges' = edges
          /\ \/ plan' = plan /\ node' = node
             \/ \E status \in {"succeeded", "failed"} : _finish_node(c, n, status)
      BY <2>1 DEF SubmitFails, WaitReturns, WaitRaises, renew_claim
    <3>2. CASE plan' = plan /\ node' = node
      BY <3>1, <3>2 DEF TG!vars, OutcomeOf, VerdictOf
    <3> QED BY <2>0, <3>1, <3>2, FinishRefines
  <2>2. CASE CancelledWait(c, s) \/ CancelledSubmit(c, s) \/ CancelledSubmitFails(c, s)
    <3>1. edges' = edges /\ \E b \in {runId[n], runId'[n]} : release_claim(c, n, b)
      BY <2>2 DEF CancelledWait, CancelledSubmit, CancelledSubmitFails
    <3>2. runId[n] \in BOOLEAN /\ runId'[n] \in BOOLEAN
      BY <2>0 DEF TypeOK
    <3> QED BY <2>0, <3>1, <3>2, ReleaseRefines
  <2>3. CASE Submit(c, s)
    BY <2>3 DEF Submit, storeVars, TG!vars, OutcomeOf, VerdictOf
  <2>4. CASE mark_running(c, s)
    <3>1. /\ plan' = plan /\ edges' = edges
          /\ \A m \in Nodes : \/ node'[m] = node[m]
                              \/ node[m] = "claimed" /\ node'[m] = "running"
      BY <2>0, <2>4 DEF mark_running, TypeOK
    <3>2. OutcomeOf' = OutcomeOf
      BY <3>1, Outcomes DEF OutcomeOf
    <3> QED BY <3>1, <3>2 DEF TG!vars, VerdictOf
  <2> QED BY <1>7, <2>1, <2>2, <2>3, <2>4 DEF Execute
<1>8. ASSUME UNCHANGED vars PROVE Maps
  BY <1>8 DEF vars, TG!vars, OutcomeOf, VerdictOf
<1> HIDE DEF Maps
<1>9. Maps
  BY <1>1, <1>2, <1>3, <1>4, <1>5, <1>6, <1>7, <1>8 DEF Next, Loop
<1> QED BY <1>9 DEF Maps

(* DelegationStore and its coordinators implement the abstract task graph. *)
THEOREM Refinement == Spec => ImplementsTaskGraph
<1>1. IInv /\ IInv' /\ [Next]_vars => [TG!Next]_(TG!vars)
  BY NextRefines
<1> QED BY Invariance, InitRefines, <1>1, PTL DEF Spec, TG!Spec, ImplementsTaskGraph
=============================================================================
