--------------------------- MODULE RunStoreProofs ---------------------------
(* Proofs about RunStore, for any set of runs and any bounds.              *)
EXTENDS RunStore, FiniteSetTheorems, TLAPS

(* Finishing time orders the terminal rows strictly and totally.           *)
FinishOrder ==
    /\ \A r \in Runs : newer[r] \subseteq {q \in Runs : row[q] \in Terminal}
    /\ \A r \in Runs : row[r] \notin Terminal => newer[r] = {}
    /\ \A r \in Runs : r \notin newer[r]
    /\ \A r, q \in Runs :
          row[r] \in Terminal /\ row[q] \in Terminal /\ q # r =>
             (q \in newer[r] \/ r \in newer[q])
    /\ \A r, q \in Runs : q \in newer[r] => newer[q] \subseteq newer[r]

IInv == TypeOK /\ LeaseColumns /\ FinishOrder

-----------------------------------------------------------------------------
(* The transactions that delete rows, over the columns they start from.    *)
After(r) == [x \in Runs |-> IF row[x] \in Terminal THEN newer[x] \cup {r} ELSE newer[x]]

LEMMA PruneTypes ==
    ASSUME NEW status, status \in [Runs -> {"absent", "queued"} \cup Active \cup Terminal],
           NEW after, after \in [Runs -> SUBSET Runs],
           NEW maximum, TypeOK, _prune_db(status, after, maximum)
    PROVE  /\ row' \in [Runs -> {"absent", "queued"} \cup Active \cup Terminal]
           /\ older' \in [Runs -> SUBSET Runs]
           /\ newer' \in [Runs -> SUBSET Runs]
           /\ \A r \in Runs : row'[r] = status[r] \/ (status[r] \in Terminal /\ row'[r] = "absent")
  BY DEF _prune_db, Surplus, TypeOK

(* Deleting keeps the order of the rows that stay.                         *)
LEMMA PruneOrder ==
    ASSUME NEW status, status \in [Runs -> {"absent", "queued"} \cup Active \cup Terminal],
           NEW after, after \in [Runs -> SUBSET Runs],
           NEW maximum, _prune_db(status, after, maximum),
           \A r \in Runs : after[r] \subseteq {q \in Runs : status[q] \in Terminal},
           \A r \in Runs : status[r] \notin Terminal => after[r] = {},
           \A r \in Runs : r \notin after[r],
           \A r, q \in Runs :
              status[r] \in Terminal /\ status[q] \in Terminal /\ q # r =>
                 (q \in after[r] \/ r \in after[q]),
           \A r, q \in Runs : q \in after[r] => after[q] \subseteq after[r]
    PROVE  FinishOrder'
<1> DEFINE gone == Surplus(status, after, maximum)
<1>1. /\ row' = [r \in Runs |-> IF r \in gone THEN "absent" ELSE status[r]]
      /\ newer' = [r \in Runs |-> IF r \in gone THEN {} ELSE after[r] \ gone]
  BY DEF _prune_db
<1>2. "absent" \notin Terminal
  BY DEF Terminal
<1> HIDE DEF gone
<1> QED  BY <1>1, <1>2 DEF FinishOrder

LEMMA AfterOrder ==
    ASSUME IInv, NEW r \in Runs, row[r] \in {"queued"} \cup Active, NEW s \in Terminal
    PROVE  LET status == [row EXCEPT ![r] = s] IN
           /\ After(r) \in [Runs -> SUBSET Runs]
           /\ status \in [Runs -> {"absent", "queued"} \cup Active \cup Terminal]
           /\ \A x \in Runs : After(r)[x] \subseteq {q \in Runs : status[q] \in Terminal}
           /\ \A x \in Runs : status[x] \notin Terminal => After(r)[x] = {}
           /\ \A x \in Runs : x \notin After(r)[x]
           /\ \A x, q \in Runs :
                status[x] \in Terminal /\ status[q] \in Terminal /\ q # x =>
                   (q \in After(r)[x] \/ x \in After(r)[q])
           /\ \A x, q \in Runs : q \in After(r)[x] => After(r)[q] \subseteq After(r)[x]
<1>1. row[r] \notin Terminal
  BY DEF Active, Terminal
<1> QED  BY <1>1 DEF IInv, TypeOK, FinishOrder, After

LEMMA FinishedKeeps ==
    ASSUME IInv, NEW r \in Runs, row[r] \in {"queued"} \cup Active, NEW s \in Terminal,
           Finished(r, s), settler' \in [Runs -> 0..MaxClaims]
    PROVE  IInv'
<1> DEFINE status == [row EXCEPT ![r] = s]
<1>1. /\ _prune_db(status, After(r), MaxTerminal)
      /\ lease' = [lease EXCEPT ![r] = "none"]
      /\ UNCHANGED <<token, failovers>>
  BY DEF Finished, After, IInv, TypeOK
<1>2. FinishOrder'
  BY <1>1, AfterOrder, PruneOrder
<1>3. TypeOK' /\ \A x \in Runs : row'[x] = status[x] \/ (status[x] \in Terminal /\ row'[x] = "absent")
  <2>1. /\ status \in [Runs -> {"absent", "queued"} \cup Active \cup Terminal]
        /\ After(r) \in [Runs -> SUBSET Runs]
    BY AfterOrder
  <2> HIDE DEF status
  <2>2. TypeOK
    BY DEF IInv
  <2>3. /\ row' \in [Runs -> {"absent", "queued"} \cup Active \cup Terminal]
        /\ older' \in [Runs -> SUBSET Runs]
        /\ newer' \in [Runs -> SUBSET Runs]
        /\ \A x \in Runs : row'[x] = status[x] \/ (status[x] \in Terminal /\ row'[x] = "absent")
    BY <1>1, <2>1, <2>2, PruneTypes
  <2> QED  BY <1>1, <2>2, <2>3 DEF TypeOK
<1>4. LeaseColumns'
  BY <1>1, <1>3 DEF IInv, TypeOK, LeaseColumns, Active, Terminal
<1> QED  BY <1>2, <1>3, <1>4 DEF IInv

LEMMA PrunedKeeps ==
    ASSUME IInv, NEW maximum, prune(maximum)
    PROVE  IInv'
<1>1. _prune_db(row, newer, maximum) /\ UNCHANGED <<token, lease, failovers, settler>>
  BY DEF prune
<1>2. FinishOrder'
  BY <1>1, PruneOrder DEF IInv, TypeOK, FinishOrder
<1>3. TypeOK' /\ \A x \in Runs : row'[x] = row[x] \/ (row[x] \in Terminal /\ row'[x] = "absent")
  BY <1>1, PruneTypes DEF IInv, TypeOK
<1>4. LeaseColumns'
  BY <1>1, <1>3 DEF IInv, TypeOK, LeaseColumns, Active, Terminal
<1> QED  BY <1>2, <1>3, <1>4 DEF IInv

LEMMA RequeueKeeps ==
    ASSUME IInv, NEW back, \A r \in back : r \in Runs /\ row[r] \in Active, Requeue(back)
    PROVE  IInv'
<1> USE DEF IInv, Requeue
<1>1. TypeOK'
  BY DEF TypeOK
<1>2. LeaseColumns'
  BY DEF TypeOK, LeaseColumns, Active
<1>3. FinishOrder'
  BY DEF TypeOK, FinishOrder, Active, Terminal
<1> QED  BY <1>1, <1>2, <1>3

-----------------------------------------------------------------------------
LEMMA InitKeeps == Init => IInv
<1> SUFFICES ASSUME Init PROVE IInv
  OBVIOUS
<1>1. TypeOK
  BY BoundsAssumption DEF Init, TypeOK
<1>2. LeaseColumns /\ FinishOrder
  BY DEF Init, LeaseColumns, FinishOrder, Active, Terminal
<1> QED  BY <1>1, <1>2 DEF IInv

(* Every transaction keeps the invariant.                                  *)
LEMMA StepKeeps == IInv /\ [Next]_storeVars => IInv'
<1> SUFFICES ASSUME IInv, [Next]_storeVars PROVE IInv'
  OBVIOUS
<1> USE RunsAssumption, BoundsAssumption
<1>1. ASSUME NEW r \in Runs, enqueue(r) PROVE IInv'
  <2>1. TypeOK'
    BY <1>1 DEF IInv, TypeOK, enqueue, Rows
  <2>2. LeaseColumns' /\ FinishOrder'
    BY <1>1 DEF IInv, TypeOK, enqueue, LeaseColumns, FinishOrder, Active, Terminal
  <2> QED  BY <2>1, <2>2 DEF IInv
<1>2. ASSUME NEW r \in Runs, claim(r) PROVE IInv'
  <2>1. TypeOK'
    BY <1>2 DEF IInv, TypeOK, claim, Active
  <2>2. LeaseColumns' /\ FinishOrder'
    BY <1>2 DEF IInv, TypeOK, claim, LeaseColumns, FinishOrder, Active, Terminal
  <2> QED  BY <2>1, <2>2 DEF IInv
<1>3. ASSUME NEW r \in Runs, NEW t, mark_waiting_permission(r, t) \/ mark_running(r, t) PROVE IInv'
  <2>1. TypeOK'
    BY <1>3 DEF IInv, TypeOK, mark_waiting_permission, mark_running, Active
  <2>2. LeaseColumns' /\ FinishOrder'
    BY <1>3 DEF IInv, TypeOK, mark_waiting_permission, mark_running, RequireActiveLease,
                LeaseColumns, FinishOrder, Active, Terminal
  <2> QED  BY <2>1, <2>2 DEF IInv
<1>4. ASSUME NEW r \in Runs, NEW t, record_failover(r, t) PROVE IInv'
  BY <1>4 DEF IInv, TypeOK, record_failover, LeaseColumns, FinishOrder
<1>5. ASSUME NEW r \in Runs, NEW t, NEW s \in Terminal, finish(r, t, s) PROVE IInv'
  <2>1. row[r] \in Active /\ t = token[r] /\ Finished(r, s)
    BY <1>5 DEF finish, RequireActiveLease
  <2>2. settler' \in [Runs -> 0..MaxClaims]
    BY <1>5, <2>1 DEF finish, IInv, TypeOK
  <2> QED  BY <2>1, <2>2, FinishedKeeps
<1>6. ASSUME NEW r \in Runs, cancel_queued(r) PROVE IInv'
  <2>1. settler' \in [Runs -> 0..MaxClaims]
    BY <1>6 DEF cancel_queued, IInv, TypeOK
  <2> QED  BY <1>6, <2>1, FinishedKeeps DEF cancel_queued, Terminal
<1>7. ASSUME requeue_stale \/ recover_startup PROVE IInv'
  BY <1>7, RequeueKeeps DEF requeue_stale, recover_startup
<1>8. ASSUME NEW maximum, prune(maximum) PROVE IInv'
  BY <1>8, PrunedKeeps
<1>9. ASSUME NEW r \in Runs, LeaseExpires(r) PROVE IInv'
  BY <1>9 DEF IInv, TypeOK, LeaseExpires, LeaseColumns, FinishOrder
<1>10. ASSUME UNCHANGED storeVars PROVE IInv'
  BY <1>10 DEF storeVars, IInv, TypeOK, LeaseColumns, FinishOrder
<1> QED
  BY <1>1, <1>2, <1>3, <1>4, <1>5, <1>6, <1>7, <1>8, <1>9, <1>10 DEF Next, claim_next

THEOREM Invariance == Spec => []IInv
  BY InitKeeps, StepKeeps, PTL DEF Spec

(* Every column keeps its type.                                            *)
THEOREM Typing == Spec => []TypeOK
  BY Invariance, PTL DEF IInv

(* An active row has a lease and no other row has one, whatever the order  *)
(* of claims, recoveries, expiries, outcomes and deletions.                *)
THEOREM LeasesMatchStatus == Spec => []LeaseColumns
  BY Invariance, PTL DEF IInv

-----------------------------------------------------------------------------
(* A row at least as old as a deleted one has at least as many newer rows. *)
LEMMA OlderHasMoreNewer ==
    ASSUME NEW S \in SUBSET Runs, NEW T \in SUBSET Runs, S \subseteq T,
           NEW maximum \in Nat, Cardinality(S) >= maximum
    PROVE  Cardinality(T) >= maximum
<1>1. IsFiniteSet(T) /\ IsFiniteSet(S)
  BY FS_Subset, RunsAssumption
<1>2. Cardinality(S) <= Cardinality(T) /\ Cardinality(S) \in Nat /\ Cardinality(T) \in Nat
  BY <1>1, FS_Subset, FS_CardinalityType
<1> QED  BY <1>2

Forgetting ==
    \A r \in Rows : row'[r] = "absent" =>
        /\ row[r] \in {"queued"} \cup Active => MaxTerminal = 0
        /\ \A q \in Rows :
              row[q] \in Terminal /\ q \notin newer[r] => row'[q] = "absent" \/ q = r

LEMMA PruneForgets ==
    ASSUME IInv, NEW maximum \in Nat, prune(maximum)
    PROVE  Forgetting
<1> SUFFICES ASSUME NEW r \in Rows, row'[r] = "absent"
             PROVE  /\ row[r] \in {"queued"} \cup Active => MaxTerminal = 0
                    /\ \A q \in Rows :
                          row[q] \in Terminal /\ q \notin newer[r] => row'[q] = "absent" \/ q = r
  BY DEF Forgetting
<1>1. row' = [x \in Runs |-> IF x \in Surplus(row, newer, maximum) THEN "absent" ELSE row[x]]
  BY DEF prune, _prune_db
<1>2. r \in Runs /\ row[r] \in Terminal /\ Cardinality(newer[r]) >= maximum
  BY <1>1 DEF Rows, Surplus
<1>3. ASSUME NEW q \in Rows, row[q] \in Terminal, q \notin newer[r], q # r
      PROVE  row'[q] = "absent"
  <2>1. r \in newer[q] /\ newer[r] \subseteq newer[q] /\ q \in Runs
    BY <1>2, <1>3 DEF IInv, FinishOrder, Rows
  <2>2. Cardinality(newer[q]) >= maximum
    BY <1>2, <2>1, OlderHasMoreNewer DEF IInv, TypeOK
  <2> QED  BY <1>1, <1>3, <2>1, <2>2 DEF Surplus
<1> QED  BY <1>2, <1>3 DEF Active, Terminal

LEMMA FinishedForgets ==
    ASSUME IInv, NEW f \in Runs, row[f] \in {"queued"} \cup Active, NEW s \in Terminal,
           Finished(f, s)
    PROVE  Forgetting
<1> SUFFICES ASSUME NEW r \in Rows, row'[r] = "absent"
             PROVE  /\ row[r] \in {"queued"} \cup Active => MaxTerminal = 0
                    /\ \A q \in Rows :
                          row[q] \in Terminal /\ q \notin newer[r] => row'[q] = "absent" \/ q = r
  BY DEF Forgetting
<1> DEFINE status == [row EXCEPT ![f] = s]
           gone == Surplus(status, After(f), MaxTerminal)
<1>1. row' = [x \in Runs |-> IF x \in gone THEN "absent" ELSE status[x]]
  BY DEF Finished, _prune_db, After, IInv, TypeOK
<1>2. /\ After(f) \in [Runs -> SUBSET Runs]
      /\ status \in [Runs -> {"absent", "queued"} \cup Active \cup Terminal]
      /\ \A x \in Runs : status[x] \notin Terminal => After(f)[x] = {}
      /\ \A x, q \in Runs :
            status[x] \in Terminal /\ status[q] \in Terminal /\ q # x =>
                (q \in After(f)[x] \/ x \in After(f)[q])
      /\ \A x, q \in Runs : q \in After(f)[x] => After(f)[q] \subseteq After(f)[x]
  BY AfterOrder
<1>3. r \in Runs /\ status[r] \in Terminal /\ Cardinality(After(f)[r]) >= MaxTerminal
  <2>1. r \in Runs /\ status[r] # "absent"
    BY DEF Rows, IInv, TypeOK, Terminal
  <2>2. r \in gone
    <3> HIDE DEF gone, status
    <3> QED  BY <1>1, <2>1
  <2> QED  BY <2>2 DEF Surplus
<1>4. f \in Runs /\ row[f] \notin Terminal /\ After(f)[f] = {}
  BY DEF Active, Terminal, After, IInv, FinishOrder
<1>5. row[r] \in {"queued"} \cup Active => MaxTerminal = 0
  <2> SUFFICES ASSUME row[r] \notin Terminal PROVE MaxTerminal = 0
    BY DEF Active, Terminal
  <2>1. r = f
    BY <1>3 DEF IInv, TypeOK
  <2> QED  BY <1>3, <1>4, <2>1, FS_EmptySet, BoundsAssumption
<1>6. ASSUME NEW q \in Rows, row[q] \in Terminal, q \notin newer[r], q # r
      PROVE  row'[q] = "absent"
  <2>1. q \in Runs /\ q # f /\ status[q] \in Terminal
    BY <1>4, <1>6 DEF Rows, IInv, TypeOK
  <2>2. q \notin After(f)[r]
    BY <1>6, <2>1, <1>3 DEF After
  <2>3. After(f)[r] \subseteq After(f)[q]
    <3> HIDE DEF status
    <3> QED  BY <1>2, <1>3, <1>6, <2>1, <2>2
  <2>4. Cardinality(After(f)[q]) >= MaxTerminal
    BY <1>2, <1>3, <2>1, <2>3, OlderHasMoreNewer, BoundsAssumption
  <2> QED  BY <1>1, <2>1, <2>4 DEF Surplus
<1> QED  BY <1>5, <1>6

LEMMA StepForgets == IInv /\ [Next]_storeVars => [Forgetting]_storeVars
<1> SUFFICES ASSUME IInv, Next PROVE Forgetting
  OBVIOUS
<1>1. ASSUME NEW r \in Runs, NEW t, NEW s \in Terminal, finish(r, t, s) PROVE Forgetting
  BY <1>1, FinishedForgets DEF finish, RequireActiveLease
<1>2. ASSUME NEW r \in Runs, cancel_queued(r) PROVE Forgetting
  BY <1>2, FinishedForgets DEF cancel_queued, Terminal
<1>3. ASSUME NEW maximum \in 0..MaxTerminal, prune(maximum) PROVE Forgetting
  BY <1>3, PruneForgets, BoundsAssumption
<1>4. CASE \A r \in Rows : row'[r] # "absent"
  BY <1>4 DEF Forgetting
<1>5. ASSUME NEW r \in Runs,
             \/ enqueue(r) \/ claim(r) \/ LeaseExpires(r)
             \/ \E t \in 1..MaxClaims :
                   mark_waiting_permission(r, t) \/ mark_running(r, t) \/ record_failover(r, t)
      PROVE  Forgetting
  BY <1>4, <1>5 DEF Rows, IInv, TypeOK, enqueue, claim, LeaseExpires, mark_waiting_permission,
                    mark_running, record_failover
<1>6. ASSUME requeue_stale \/ recover_startup PROVE Forgetting
  BY <1>4, <1>6 DEF Rows, IInv, TypeOK, requeue_stale, recover_startup, Requeue
<1> QED  BY <1>1, <1>2, <1>3, <1>5, <1>6 DEF Next, claim_next

(* Retention never deletes work that has not ended, and deletes outcomes   *)
(* oldest first.                                                           *)
THEOREM OldestForgottenFirst == Spec => OnlyOldOutcomesForgotten
<1>1. IInv /\ [Next]_storeVars => [Forgetting]_storeVars
  BY StepForgets
<1>2. Spec => [][Forgetting]_storeVars
  BY <1>1, Invariance, PTL DEF Spec
<1> QED  BY <1>2 DEF OnlyOldOutcomesForgotten, Forgetting

-----------------------------------------------------------------------------
(* Refinement of the abstract queue.                                       *)
LEMMA InitRefines == Init => JQ!Init
  BY DEF Init, JQ!Init, PhaseOf

LEMMA PhaseAfterPrune ==
    ASSUME NEW status, status \in [Runs -> {"absent", "queued"} \cup Active \cup Terminal],
           NEW after, NEW maximum, _prune_db(status, after, maximum)
    PROVE  /\ \A r \in Surplus(status, after, maximum) : r \in Runs /\ status[r] \in Terminal
           /\ PhaseOf' = [r \in Runs |->
                 IF r \in Surplus(status, after, maximum) THEN "new"
                 ELSE IF status[r] = "absent" THEN "new"
                 ELSE IF status[r] = "queued" THEN "waiting"
                 ELSE IF status[r] \in Active THEN "taken" ELSE status[r]]
  BY DEF _prune_db, Surplus, PhaseOf, Terminal, Active

LEMMA FinishedRefines ==
    ASSUME TypeOK, NEW r \in Runs, row[r] \in {"queued"} \cup Active, NEW s \in Terminal,
           Finished(r, s)
    PROVE  JQ!Settle(r, s, Surplus([row EXCEPT ![r] = s], After(r), MaxTerminal))
<1> DEFINE status == [row EXCEPT ![r] = s]
           gone == Surplus(status, After(r), MaxTerminal)
<1>1. _prune_db(status, After(r), MaxTerminal) /\ token' = token
  BY DEF Finished, After, TypeOK
<1>2. status \in [Runs -> {"absent", "queued"} \cup Active \cup Terminal]
  BY DEF TypeOK
<1>3. /\ \A x \in gone : x \in Runs /\ status[x] \in Terminal
      /\ PhaseOf' = [x \in Runs |->
                 IF x \in gone THEN "new"
                 ELSE IF status[x] = "absent" THEN "new"
                 ELSE IF status[x] = "queued" THEN "waiting"
                 ELSE IF status[x] \in Active THEN "taken" ELSE status[x]]
  <2> HIDE DEF status
  <2> QED  BY <1>1, <1>2, PhaseAfterPrune
<1> HIDE DEF gone
<1>4. \A k \in gone : k = r \/ PhaseOf[k] \in Terminal
  BY <1>3 DEF PhaseOf, Active, Terminal, TypeOK
<1>5. PhaseOf' = [k \in Runs |-> IF k \in gone THEN "new" ELSE IF k = r THEN s ELSE PhaseOf[k]]
  BY <1>3 DEF PhaseOf, Active, Terminal, TypeOK
<1> QED  BY <1>1, <1>4, <1>5 DEF JQ!Settle, gone

LEMMA StepRefines == IInv /\ [Next]_storeVars => [JQ!Next]_(JQ!vars)
<1> SUFFICES ASSUME IInv, [Next]_storeVars PROVE [JQ!Next]_(JQ!vars)
  OBVIOUS
<1> USE DEF IInv
<1>1. ASSUME NEW r \in Runs, enqueue(r) PROVE JQ!Accept(r)
  BY <1>1 DEF enqueue, JQ!Accept, PhaseOf, TypeOK
<1>2. ASSUME NEW r \in Runs, claim(r) PROVE JQ!Take(r)
  BY <1>2 DEF claim, JQ!Take, PhaseOf, TypeOK, Active
<1>3. ASSUME NEW r \in Runs, NEW t,
             mark_waiting_permission(r, t) \/ mark_running(r, t) \/ record_failover(r, t)
      PROVE  UNCHANGED JQ!vars
  BY <1>3 DEF mark_waiting_permission, mark_running, record_failover, RequireActiveLease,
              JQ!vars, PhaseOf, TypeOK, Active
<1>4. ASSUME NEW r \in Runs, NEW t, NEW s \in Terminal, finish(r, t, s)
      PROVE  \E forgotten \in SUBSET Runs : JQ!Execution(r, s, forgotten)
  <2>1. row[r] \in Active /\ Finished(r, s) /\ settler' = [settler EXCEPT ![r] = token[r]]
    BY <1>4 DEF finish, RequireActiveLease
  <2>2. JQ!Settle(r, s, Surplus([row EXCEPT ![r] = s], After(r), MaxTerminal))
    BY <2>1, FinishedRefines
  <2>3. PhaseOf[r] = "taken" /\ Surplus([row EXCEPT ![r] = s], After(r), MaxTerminal) \in SUBSET Runs
    BY <2>1 DEF PhaseOf, Active, Surplus
  <2> QED  BY <2>1, <2>2, <2>3 DEF JQ!Execution
<1>5. ASSUME NEW r \in Runs, cancel_queued(r)
      PROVE  \E forgotten \in SUBSET Runs : JQ!Withdrawal(r, forgotten)
  <2>1. row[r] = "queued" /\ Finished(r, "cancelled") /\ "cancelled" \in Terminal
        /\ UNCHANGED settler
    BY <1>5 DEF cancel_queued, Terminal
  <2>2. JQ!Settle(r, "cancelled", Surplus([row EXCEPT ![r] = "cancelled"], After(r), MaxTerminal))
    BY <2>1, FinishedRefines
  <2>3. PhaseOf[r] = "waiting"
        /\ Surplus([row EXCEPT ![r] = "cancelled"], After(r), MaxTerminal) \in SUBSET Runs
    BY <2>1 DEF PhaseOf, Surplus
  <2> QED  BY <2>1, <2>2, <2>3 DEF JQ!Withdrawal
<1>6. ASSUME NEW back \in SUBSET Runs, \A r \in back : row[r] \in Active, Requeue(back)
      PROVE  JQ!GiveBack(back)
  BY <1>6 DEF Requeue, JQ!GiveBack, PhaseOf, TypeOK, Active
<1>7. ASSUME requeue_stale \/ recover_startup PROVE \E some \in SUBSET Runs : JQ!GiveBack(some)
  BY <1>6, <1>7 DEF requeue_stale, recover_startup
<1>8. ASSUME NEW maximum, prune(maximum) PROVE \E some \in SUBSET Runs : JQ!Forget(some)
  <2>1. _prune_db(row, newer, maximum) /\ UNCHANGED <<token, settler>>
    BY <1>8 DEF prune
  <2>2. JQ!Forget(Surplus(row, newer, maximum))
    BY <2>1, PhaseAfterPrune DEF JQ!Forget, PhaseOf, TypeOK, Active, Terminal
  <2> QED  BY <2>2 DEF Surplus
<1>9. ASSUME (\E r \in Runs : LeaseExpires(r)) \/ UNCHANGED storeVars
      PROVE  UNCHANGED JQ!vars
  BY <1>9 DEF LeaseExpires, storeVars, JQ!vars, PhaseOf
<1> QED
  BY <1>1, <1>2, <1>3, <1>4, <1>5, <1>7, <1>8, <1>9 DEF Next, claim_next, JQ!Next

(* The repository implements the abstract at-least-once queue: whoever     *)
(* calls, late or twice, a run gets one outcome, and the outcome of an     *)
(* execution is written under the last token that a claim drew for it.     *)
THEOREM Refinement == Spec => ImplementsJobQueue
  BY InitRefines, StepRefines, Invariance, PTL DEF Spec, JQ!Spec, ImplementsJobQueue
=============================================================================
