----------------------------- MODULE TaskGraph -----------------------------
(***************************************************************************)
(* What a delegation plan promises to the person who reads it, without     *)
(* leases, coordinators or engine runs: a node starts only when everything *)
(* it depends on has succeeded, a failure closes everything that depends   *)
(* on it in the same step, and the plan's verdict is settled exactly when  *)
(* its last node is.  Delegation.tla implements this specification.        *)
(***************************************************************************)
EXTENDS Dag

CONSTANT Nodes

VARIABLES graph,    \* the edges of the plan
          outcome,  \* what has become of each node
          verdict   \* what has become of the plan

vars == <<graph, outcome, verdict>>

Settled == {"ok", "bad", "skipped", "cancelled"}

(* The verdict of a plan none of whose nodes is still open.                *)
Verdict(out) ==
    IF \E n \in Nodes : out[n] \notin Settled THEN "open"
    ELSE IF \E n \in Nodes : out[n] \in {"bad", "skipped"} THEN "failed"
    ELSE IF \E n \in Nodes : out[n] = "cancelled" THEN "cancelled"
    ELSE "succeeded"

Init ==
    /\ graph = {}
    /\ outcome = [n \in Nodes |-> "todo"]
    /\ verdict = "none"

Open ==
    /\ verdict = "none"
    /\ graph' \in Graphs(Nodes)
    /\ verdict' = "open"
    /\ UNCHANGED outcome

Start(n) ==
    /\ verdict = "open"
    /\ outcome[n] = "todo"
    /\ \A p \in Parents(graph, n) : outcome[p] = "ok"
    /\ outcome' = [outcome EXCEPT ![n] = "active"]
    /\ UNCHANGED <<graph, verdict>>

(* The work on n was interrupted before anything came of it.               *)
Yield(n) ==
    /\ outcome[n] = "active"
    /\ outcome' = [outcome EXCEPT ![n] = "todo"]
    /\ UNCHANGED <<graph, verdict>>

Succeed(n) ==
    /\ outcome[n] = "active"
    /\ outcome' = [outcome EXCEPT ![n] = "ok"]
    /\ verdict' = Verdict(outcome')
    /\ UNCHANGED graph

Fail(n) ==
    /\ outcome[n] = "active"
    /\ outcome' = [m \in Nodes |->
                     IF m = n THEN "bad"
                     ELSE IF m \in Descendants(Nodes, graph, n) /\ outcome[m] = "todo"
                          THEN "skipped"
                          ELSE outcome[m]]
    /\ verdict' = Verdict(outcome')
    /\ UNCHANGED graph

Abandon ==
    /\ verdict = "open"
    /\ outcome' = [n \in Nodes |->
                     IF outcome[n] \in Settled THEN outcome[n] ELSE "cancelled"]
    /\ verdict' = "cancelled"
    /\ UNCHANGED graph

Next ==
    \/ Open
    \/ Abandon
    \/ \E n \in Nodes : Start(n) \/ Yield(n) \/ Succeed(n) \/ Fail(n)

Spec == Init /\ [][Next]_vars
=============================================================================
