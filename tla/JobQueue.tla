------------------------------ MODULE JobQueue ------------------------------
(***************************************************************************)
(* What the durable run ledger promises, without leases, columns or        *)
(* clocks: a job that was accepted waits, is taken under a fresh ticket,   *)
(* and is settled once, under the last ticket drawn for it or by a         *)
(* withdrawal while it waits.  A taken job may be given back and taken     *)
(* again ("recovery is at-least-once"), and then no earlier ticket settles *)
(* it; only settled jobs are ever forgotten.                               *)
(***************************************************************************)
EXTENDS Naturals

CONSTANTS Jobs, Outcomes

VARIABLES phase, ticket,
          settler    \* the ticket a job was settled under, 0 while under none

vars == <<phase, ticket, settler>>

Init ==
    /\ phase = [j \in Jobs |-> "new"]
    /\ ticket = [j \in Jobs |-> 0] /\ settler = [j \in Jobs |-> 0]

Accept(j) ==
    /\ phase[j] = "new"
    /\ phase' = [phase EXCEPT ![j] = "waiting"]
    /\ settler' = [settler EXCEPT ![j] = 0]
    /\ UNCHANGED ticket

Take(j) ==
    /\ phase[j] = "waiting"
    /\ phase' = [phase EXCEPT ![j] = "taken"]
    /\ ticket' = [ticket EXCEPT ![j] = @ + 1]
    /\ UNCHANGED settler

GiveBack(back) ==
    /\ \A j \in back : phase[j] = "taken"
    /\ phase' = [j \in Jobs |-> IF j \in back THEN "waiting" ELSE phase[j]]
    /\ UNCHANGED <<ticket, settler>>

(* A job gets its outcome, and older outcomes (or its own, when none are    *)
(* kept) are forgotten with it.                                            *)
Settle(j, o, forgotten) ==
    /\ \A k \in forgotten : k = j \/ phase[k] \in Outcomes
    /\ phase' = [k \in Jobs |-> IF k \in forgotten THEN "new"
                                ELSE IF k = j THEN o ELSE phase[k]]
    /\ UNCHANGED ticket

(* The outcome of an execution comes from whoever drew the last ticket.    *)
Execution(j, o, forgotten) ==
    /\ phase[j] = "taken"
    /\ Settle(j, o, forgotten)
    /\ settler' = [settler EXCEPT ![j] = ticket[j]]

Withdrawal(j, forgotten) ==
    /\ phase[j] = "waiting"
    /\ Settle(j, "cancelled", forgotten)
    /\ UNCHANGED settler

Forget(forgotten) ==
    /\ \A j \in forgotten : phase[j] \in Outcomes
    /\ phase' = [j \in Jobs |-> IF j \in forgotten THEN "new" ELSE phase[j]]
    /\ UNCHANGED <<ticket, settler>>

Next ==
    \/ \E j \in Jobs : Accept(j) \/ Take(j)
    \/ \E j \in Jobs, o \in Outcomes, forgotten \in SUBSET Jobs : Execution(j, o, forgotten)
    \/ \E j \in Jobs, forgotten \in SUBSET Jobs : Withdrawal(j, forgotten)
    \/ \E some \in SUBSET Jobs : GiveBack(some) \/ Forget(some)

Spec == Init /\ [][Next]_vars
=============================================================================
