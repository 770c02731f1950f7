------------------------------ MODULE RunStore ------------------------------
(***************************************************************************)
(* src/kyn/run_store.py: the durable_runs table and RunRepository, every   *)
(* method of which is one BEGIN IMMEDIATE transaction, hence one action.   *)
(*                                                                         *)
(* A claim draws a random lease token that no earlier claim ever had: the  *)
(* tokens of a run are numbered in the order they are drawn, and `token'   *)
(* is the last one.  The row's lease_token is that token while the run is  *)
(* active and '' otherwise.  A caller may present any token it was ever    *)
(* given.  lease_expires_at is abstracted to whether it has passed.  That  *)
(* an outcome leaves no token in its row is why `settler' remembers the    *)
(* one it was written with: no guard reads it.                             *)
(***************************************************************************)
EXTENDS Naturals, FiniteSets

CONSTANTS Runs, Bots, BotOf,
          MaxTerminal,   \* max_terminal_runs
          MaxClaims,     \* bound: the claims of one run id
          MaxFailovers   \* _MAX_FAILOVER_ATTEMPTS

ASSUME RunsAssumption == IsFiniteSet(Runs) /\ BotOf \in [Runs -> Bots]
ASSUME BoundsAssumption == MaxTerminal \in Nat /\ MaxClaims \in Nat /\ MaxFailovers \in Nat

VARIABLES
    row,        \* durable_runs.status, "absent" when the table has no such row
    token,      \* the tokens drawn for the run so far
    lease,      \* lease_expires_at against the clock
    failovers,  \* failover_attempts
    older,      \* the rows before this one in ORDER BY created_at
    newer,      \* the terminal rows after this one in ORDER BY finished_at
    settler     \* history: the token presented with the row's outcome, 0 with none

storeVars == <<row, token, lease, failovers, older, newer, settler>>

Active   == {"running", "waiting_permission"}
Terminal == {"complete", "failed", "cancelled"}

TypeOK ==
    /\ row \in [Runs -> {"absent", "queued"} \cup Active \cup Terminal]
    /\ token \in [Runs -> 0..MaxClaims]
    /\ lease \in [Runs -> {"none", "held", "expired"}]
    /\ failovers \in [Runs -> Nat]
    /\ older \in [Runs -> SUBSET Runs]
    /\ newer \in [Runs -> SUBSET Runs]
    /\ settler \in [Runs -> 0..MaxClaims]

Init ==
    /\ row = [r \in Runs |-> "absent"]
    /\ token = [r \in Runs |-> 0]
    /\ lease = [r \in Runs |-> "none"]
    /\ failovers = [r \in Runs |-> 0]
    /\ older = [r \in Runs |-> {}]
    /\ newer = [r \in Runs |-> {}]
    /\ settler = [r \in Runs |-> 0]

Rows == {r \in Runs : row[r] # "absent"}

-----------------------------------------------------------------------------
(* Mutant of RequireActiveLease: any token of the run will do.              *)
RequireSomeLease(r, t) ==
    /\ row[r] \in Active
    /\ t <= token[r]
    /\ lease[r] = "held"

(* _require_active_lease                                                   *)
RequireActiveLease(r, t) ==
    /\ row[r] \in Active
    /\ t = token[r]
    /\ lease[r] = "held"

(* A run id that has a row keeps it: enqueue then changes nothing.         *)
enqueue(r) ==
    /\ row[r] = "absent"
    /\ row' = [row EXCEPT ![r] = "queued"]
    /\ failovers' = [failovers EXCEPT ![r] = 0]
    /\ older' = [older EXCEPT ![r] = Rows]
    /\ settler' = [settler EXCEPT ![r] = 0]
    /\ UNCHANGED <<token, lease, newer>>

claim(r) ==
    /\ row[r] = "queued"
    /\ token[r] < MaxClaims
    /\ row' = [row EXCEPT ![r] = "running"]
    /\ token' = [token EXCEPT ![r] = @ + 1]
    /\ lease' = [lease EXCEPT ![r] = "held"]
    /\ UNCHANGED <<failovers, older, newer, settler>>

claim_next(bots) ==
    \E r \in Runs :
        /\ BotOf[r] \in bots
        /\ \A q \in older[r] : BotOf[q] \in bots => row[q] # "queued"
        /\ claim(r)

(* renew_lease moves the expiry of a lease that is still held: nothing the *)
(* abstraction sees changes.                                               *)
mark_waiting_permission(r, t) ==
    /\ RequireActiveLease(r, t)
    /\ row' = [row EXCEPT ![r] = "waiting_permission"]
    /\ UNCHANGED <<token, lease, failovers, older, newer, settler>>

mark_running(r, t) ==
    /\ RequireActiveLease(r, t)
    /\ row' = [row EXCEPT ![r] = "running"]
    /\ UNCHANGED <<token, lease, failovers, older, newer, settler>>

record_failover(r, t) ==
    /\ RequireActiveLease(r, t)
    /\ failovers[r] < MaxFailovers
    /\ failovers' = [failovers EXCEPT ![r] = @ + 1]
    /\ UNCHANGED <<row, token, lease, older, newer, settler>>

(* Mutant of Requeue: the lease columns survive.                            *)
RequeueLeased(back) ==
    /\ row' = [r \in Runs |-> IF r \in back THEN "queued" ELSE row[r]]
    /\ UNCHANGED <<lease, token, failovers, older, newer, settler>>

Requeue(back) ==
    /\ row' = [r \in Runs |-> IF r \in back THEN "queued" ELSE row[r]]
    /\ lease' = [r \in Runs |-> IF r \in back THEN "none" ELSE lease[r]]
    /\ UNCHANGED <<token, failovers, older, newer, settler>>

requeue_stale == Requeue({r \in Runs : row[r] \in Active /\ lease[r] = "expired"})

recover_startup == Requeue({r \in Runs : row[r] \in Active})

(* A mutant of Surplus: rows that are not terminal count as well.           *)
SurplusEvery(status, after, maximum) ==
    {r \in Runs : status[r] # "absent" /\ Cardinality(after[r]) >= maximum}

(* The terminal rows beyond the newest maximum.                            *)
Surplus(status, after, maximum) ==
    {r \in Runs : status[r] \in Terminal /\ Cardinality(after[r]) >= maximum}

(* _prune_db over the given columns.                                       *)
_prune_db(status, after, maximum) ==
    LET gone == Surplus(status, after, maximum)
    IN  /\ row' = [r \in Runs |-> IF r \in gone THEN "absent" ELSE status[r]]
        /\ older' = [r \in Runs |-> IF r \in gone THEN {} ELSE older[r] \ gone]
        /\ newer' = [r \in Runs |-> IF r \in gone THEN {} ELSE after[r] \ gone]

(* The run r gets its terminal status now.                                 *)
Finished(r, status) ==
    LET terminal == {x \in Runs : row[x] \in Terminal} IN
    /\ _prune_db([row EXCEPT ![r] = status],
                 [x \in Runs |-> IF x \in terminal THEN newer[x] \cup {r} ELSE newer[x]],
                 MaxTerminal)
    /\ lease' = [lease EXCEPT ![r] = "none"]
    /\ UNCHANGED <<token, failovers>>

finish(r, t, status) ==
    /\ RequireActiveLease(r, t)
    /\ Finished(r, status)
    /\ settler' = [settler EXCEPT ![r] = t]

cancel_queued(r) ==
    /\ row[r] = "queued"
    /\ Finished(r, "cancelled")
    /\ UNCHANGED settler

prune(maximum) ==
    /\ _prune_db(row, newer, maximum)
    /\ UNCHANGED <<token, lease, failovers, settler>>

(* Mutant of LeaseExpires: an expired lease makes the row "stale".          *)
LeaseReleased(r) ==
    /\ lease[r] = "held"
    /\ lease' = [lease EXCEPT ![r] = "expired"]
    /\ row' = [row EXCEPT ![r] = "stale"]
    /\ UNCHANGED <<token, failovers, older, newer, settler>>

(* The clock passes lease_expires_at.                                      *)
LeaseExpires(r) ==
    /\ lease[r] = "held"
    /\ lease' = [lease EXCEPT ![r] = "expired"]
    /\ UNCHANGED <<row, token, failovers, older, newer, settler>>

-----------------------------------------------------------------------------
Next ==
    \/ \E r \in Runs : enqueue(r) \/ claim(r) \/ cancel_queued(r) \/ LeaseExpires(r)
    \/ \E bots \in {Bots} \cup {{b} : b \in Bots} : claim_next(bots)
    \/ \E r \in Runs, t \in 1..MaxClaims :
          \/ mark_waiting_permission(r, t)
          \/ mark_running(r, t)
          \/ record_failover(r, t)
          \/ \E status \in Terminal : finish(r, t, status)
    \/ requeue_stale
    \/ recover_startup
    \/ \E maximum \in 0..MaxTerminal : prune(maximum)

Spec == Init /\ [][Next]_storeVars

-----------------------------------------------------------------------------
(* Properties.                                                             *)

(* A row has a lease exactly while it is active, whatever mixture of       *)
(* claims, recoveries, expiries and retentions led to it: an active row    *)
(* without one could never be finished, and a queued row with one could be *)
(* finished by a caller that lost it.                                      *)
LeaseColumns == \A r \in Runs : lease[r] # "none" <=> row[r] \in Active

(* Retention deletes only terminal rows, and only the ones that finished   *)
(* before every terminal row it keeps.                                     *)
OnlyOldOutcomesForgotten ==
    [][\A r \in Rows : row'[r] = "absent" =>
          /\ row[r] \in {"queued"} \cup Active => MaxTerminal = 0
          /\ \A q \in Rows :
                row[q] \in Terminal /\ q \notin newer[r] => row'[q] = "absent" \/ q = r]_storeVars

(* The phase of a run in the abstract queue.                               *)
PhaseOf ==
    [r \in Runs |-> IF row[r] = "absent" THEN "new"
                    ELSE IF row[r] = "queued" THEN "waiting"
                    ELSE IF row[r] \in Active THEN "taken" ELSE row[r]]

JQ == INSTANCE JobQueue WITH Jobs <- Runs, Outcomes <- Terminal,
                             phase <- PhaseOf, ticket <- token

(* Every transaction of the repository is a step of the abstract queue: a  *)
(* run is settled once, and an execution is settled under the last token   *)
(* drawn for the run, whoever else still has one from before a recovery.   *)
ImplementsJobQueue == JQ!Spec
=============================================================================
