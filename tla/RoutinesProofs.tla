--------------------------- MODULE RoutinesProofs ---------------------------
(***************************************************************************)
(* Proofs about Routines, for any routines, delays and bounds.  IInv adds  *)
(* to the properties what makes them inductive: Rested says, between two   *)
(* runs of a routine, why the next one will not come too early.            *)
(***************************************************************************)
EXTENDS Routines, FiniteSetTheorems, TLAPS

(* An id that was never used carries no history, the owner names of         *)
(* schedulers are not NoOwner, and a routine is never both in flight and    *)
(* left behind.                                                             *)
Bookkeeping ==
    /\ \A r \in Routine : rows[r] = NoRow => age[r] = Never /\ r \notin inflight \cup lost
    /\ loop # "none" => boot > 0
    /\ loop = "none" => inflight = {}
    /\ lost \cap inflight = {}
    /\ edited \subseteq excused \cup (inflight \ accepted)

(* What is known of a routine that has run and whose mark was neither lost  *)
(* nor overruled: an interval routine has waited, or will have when it is   *)
(* next due; a one-shot is over.                                            *)
Waits(row, a, flying) ==
    /\ row.next_run_at # Never
    /\ a >= row.timing \/ (~flying /\ a + row.next_run_at >= row.timing)

Rested ==
    \A r \in Routine : Exists(r) =>
        /\ rows[r].timing <= MaxAge
        /\ age[r] # Never /\ r \notin excused \cup accepted =>
              IF rows[r].trigger_kind = "interval"
              THEN Waits(rows[r], age[r], r \in inflight)
              ELSE ~Armed(r) /\ r \notin inflight

Core == TypeOK /\ LeaseTracksSubmission /\ Bookkeeping
IInv == Core /\ Rested

-----------------------------------------------------------------------------
(* What the writes make of a row.                                          *)

LEMMA NoLeaseRow ==
    ASSUME NEW row \in Rows
    PROVE  /\ NoLease(row) \in Rows
           /\ NoLease(row).lease_owner = NoOwner
           /\ NoLease(row).trigger_kind = row.trigger_kind
           /\ NoLease(row).timing = row.timing
           /\ NoLease(row).enabled = row.enabled
           /\ NoLease(row).next_run_at = row.next_run_at
  BY RoutinesAssumption DEF NoLease, Rows, NoOwner

LEMMA ScheduledRow ==
    ASSUME NEW old \in Rows, NEW kind \in Kinds, NEW timing \in Nat,
           NEW enabled \in BOOLEAN, NEW retimed \in BOOLEAN,
           NEW new, new = Scheduled(old, kind, timing, enabled, retimed)
    PROVE  /\ new \in Rows
           /\ new.lease_owner = NoOwner
           /\ new.trigger_kind = kind /\ new.timing = timing /\ new.enabled = enabled
           /\ new.next_run_at = IF retimed \/ (enabled /\ ~old.enabled)
                                THEN timing ELSE old.next_run_at
<1> DEFINE next == IF retimed \/ (enabled /\ ~old.enabled) THEN timing ELSE old.next_run_at
           row == [old EXCEPT !.trigger_kind = kind, !.timing = timing, !.enabled = enabled,
                              !.next_run_at = next]
<1>1. next \in Int \cup {Never}
  BY DEF Rows
<1>2. new = NoLease(row)
  BY DEF Scheduled
<1> HIDE DEF next
<1>3. row \in Rows
  BY <1>1 DEF Rows
<1>4. row.trigger_kind = kind /\ row.timing = timing /\ row.enabled = enabled /\ row.next_run_at = next
  BY <1>1 DEF Rows
<1> HIDE DEF row
<1> QED  BY <1>2, <1>3, <1>4, NoLeaseRow DEF next

LEMMA SoonerRow ==
    ASSUME NEW row \in Rows
    PROVE  /\ Sooner(row) \in Rows
           /\ Sooner(row).trigger_kind = row.trigger_kind
           /\ Sooner(row).enabled = row.enabled
           /\ Sooner(row).lease_owner = row.lease_owner
           /\ Sooner(row).timing <= row.timing
           /\ row.trigger_kind = "interval" => Sooner(row).timing = row.timing
           /\ Sooner(row).next_run_at = Never <=> row.next_run_at = Never
           /\ row.next_run_at # Never => Sooner(row).next_run_at >= row.next_run_at - 1
<1> DEFINE timing == IF row.trigger_kind = "once" /\ row.timing > 0 THEN row.timing - 1 ELSE row.timing
           next == IF row.next_run_at # Never /\ row.next_run_at > -MaxLate
                   THEN row.next_run_at - 1 ELSE row.next_run_at
           until == IF row.lease_until > 0 THEN row.lease_until - 1 ELSE row.lease_until
<1>1. timing \in Nat /\ until \in Nat /\ next \in Int \cup {Never}
  BY DEF Rows
<1>2. /\ timing <= row.timing
      /\ row.trigger_kind = "interval" => timing = row.timing
      /\ next = Never <=> row.next_run_at = Never
      /\ row.next_run_at # Never => next >= row.next_run_at - 1
  BY RoutinesAssumption DEF Rows
<1>3. Sooner(row) = [row EXCEPT !.timing = timing, !.next_run_at = next, !.lease_until = until]
  BY DEF Sooner
<1> HIDE DEF timing, next, until
<1>4. Sooner(row) \in Rows
  BY <1>1, <1>3 DEF Rows
<1>5. /\ Sooner(row).timing = timing /\ Sooner(row).next_run_at = next
      /\ Sooner(row).trigger_kind = row.trigger_kind /\ Sooner(row).enabled = row.enabled
      /\ Sooner(row).lease_owner = row.lease_owner
  BY <1>1, <1>3 DEF Rows
<1> QED  BY <1>2, <1>4, <1>5

LEMMA MarkedRow ==
    ASSUME NEW r \in Routine, rows[r] \in Rows
    PROVE  /\ Succeeded(r) \in Rows /\ Failed(r) \in Rows
           /\ Succeeded(r).timing = rows[r].timing /\ Failed(r).timing = rows[r].timing
           /\ Succeeded(r).trigger_kind = rows[r].trigger_kind
           /\ Failed(r).trigger_kind = rows[r].trigger_kind
           /\ Failed(r).enabled = rows[r].enabled
           /\ ~Owned(r) => Succeeded(r) = rows[r] /\ Failed(r) = rows[r]
           /\ Owned(r) =>
                /\ Succeeded(r).lease_owner = NoOwner /\ Failed(r).lease_owner = NoOwner
                /\ Failed(r).next_run_at = BackoffSeconds
                /\ rows[r].trigger_kind = "once" => ~Succeeded(r).enabled
                /\ rows[r].trigger_kind = "interval" =>
                      Succeeded(r).next_run_at = rows[r].timing
<1> DEFINE over == [rows[r] EXCEPT !.enabled = FALSE, !.next_run_at = Never]
           next == [rows[r] EXCEPT !.next_run_at = rows[r].timing]
           back == [rows[r] EXCEPT !.next_run_at = BackoffSeconds]
<1>1. over \in Rows /\ over.timing = rows[r].timing /\ ~over.enabled
      /\ over.trigger_kind = rows[r].trigger_kind
  BY DEF Rows
<1>4. next \in Rows /\ next.timing = rows[r].timing /\ next.next_run_at = rows[r].timing
      /\ next.trigger_kind = rows[r].trigger_kind
  BY DEF Rows
<1>5. BackoffSeconds \in Nat
  BY RoutinesAssumption
<1>6. back \in Rows /\ back.timing = rows[r].timing /\ back.next_run_at = BackoffSeconds
      /\ back.trigger_kind = rows[r].trigger_kind /\ back.enabled = rows[r].enabled
  BY <1>5 DEF Rows
<1>2. Failed(r) = IF Owned(r) THEN NoLease(back) ELSE rows[r]
  BY DEF Failed
<1>3. Succeeded(r) = IF ~Owned(r) THEN rows[r]
                     ELSE IF rows[r].trigger_kind = "once" THEN NoLease(over) ELSE NoLease(next)
  BY DEF Succeeded
<1> HIDE DEF over, next, back
<1> QED  BY <1>1, <1>2, <1>3, <1>4, <1>6, NoLeaseRow

-----------------------------------------------------------------------------
(* However many routines are due, a tick claims at most max_concurrency.   *)

LEMMA FewClaimed ==
    ASSUME TypeOK
    PROVE  /\ Claimable \subseteq due /\ IsFiniteSet(Claimable)
           /\ Cardinality(Claimable) <= max_concurrency
<1> DEFINE ahead(r) == {s \in due : Before(s, r)}
           rank == [r \in Claimable |-> Cardinality(ahead(r))]
           top == max_concurrency - 1
<1>1. IsFiniteSet(due) /\ \A r \in Routine : IsFiniteSet(ahead(r)) /\ Cardinality(ahead(r)) \in Nat
  BY RoutinesAssumption, FS_Subset, FS_CardinalityType, due \subseteq Routine,
     \A r : ahead(r) \subseteq due DEF due
<1>2. max_concurrency \in Nat \ {0} /\ top \in Nat
  BY RoutinesAssumption DEF TypeOK
<1>3. rank \in [Claimable -> 0 .. top]
  BY <1>1, <1>2 DEF Claimable, due
<1>4. ASSUME NEW r \in due, NEW s \in due, Before(r, s)
      PROVE  Cardinality(ahead(r)) < Cardinality(ahead(s))
  <2>1. \A q \in due : rows[q].next_run_at \in Int /\ q \in Nat
    BY RoutinesAssumption DEF due, Armed, Exists, TypeOK, Rows
  <2>2. ahead(r) \subseteq ahead(s) /\ r \in ahead(s) /\ r \notin ahead(r)
    BY <1>4, <2>1 DEF Before
  <2>3. r \in Routine /\ s \in Routine
    BY DEF due
  <2> HIDE DEF ahead
  <2>4. Cardinality(ahead(r)) <= Cardinality(ahead(s)) /\ Cardinality(ahead(r)) # Cardinality(ahead(s))
    BY <1>1, <2>2, <2>3, FS_Subset
  <2> QED  BY <1>1, <2>3, <2>4
<1>5. \A r, s \in due : r # s => Before(r, s) \/ Before(s, r)
  BY RoutinesAssumption DEF due, Armed, Exists, TypeOK, Rows, Before
<1>6. rank \in Injection(Claimable, 0 .. top)
  <2> SUFFICES ASSUME NEW r \in Claimable, NEW s \in Claimable, r # s
               PROVE  rank[r] # rank[s]
    BY <1>3 DEF Injection, IsInjective
  <2>1. r \in due /\ s \in due /\ r \in Routine /\ s \in Routine
    BY DEF Claimable, due
  <2>2. rank[r] = Cardinality(ahead(r)) /\ rank[s] = Cardinality(ahead(s))
    OBVIOUS
  <2>3. Cardinality(ahead(r)) < Cardinality(ahead(s)) \/ Cardinality(ahead(s)) < Cardinality(ahead(r))
    BY <1>4, <1>5, <2>1
  <2> HIDE DEF ahead, rank
  <2> QED  BY <1>1, <2>1, <2>2, <2>3
<1>7. IsFiniteSet(0 .. top) /\ Cardinality(0 .. top) = max_concurrency
  BY <1>2, FS_Interval
<1>8. IsFiniteSet(Claimable) /\ Cardinality(Claimable) <= Cardinality(0 .. top)
  BY <1>6, <1>7, FS_Injection
<1> QED  BY <1>7, <1>8 DEF Claimable

-----------------------------------------------------------------------------
(* Facts the steps share.                                                  *)

LEMMA FewerInFlight ==
    ASSUME TypeOK, NEW S \in SUBSET inflight
    PROVE  Cardinality(S) <= max_concurrency
<1>1. IsFiniteSet(inflight) /\ IsFiniteSet(S) /\ Cardinality(S) <= Cardinality(inflight)
  BY RoutinesAssumption, FS_Subset DEF TypeOK
<1>2. Cardinality(S) \in Nat /\ Cardinality(inflight) \in Nat /\ max_concurrency \in Nat
  BY <1>1, RoutinesAssumption, FS_CardinalityType DEF TypeOK
<1> QED  BY <1>1, <1>2 DEF TypeOK

(* A routine in flight is owned by this scheduler unless it was edited,     *)
(* and then by nobody.                                                      *)
LEMMA Ownership ==
    ASSUME Core, NEW r \in Routine, Exists(r), r \in inflight
    PROVE  /\ boot > 0 /\ loop # "none" /\ r \notin lost
           /\ Owned(r) <=> r \notin edited
           /\ r \in edited => rows[r].lease_owner = NoOwner
<1>1. boot > 0 /\ loop # "none" /\ r \notin lost
  BY DEF Core, Bookkeeping
<1>2. /\ rows[r].lease_owner # NoOwner <=> r \notin edited
      /\ r \notin edited => rows[r].lease_owner = boot
  BY <1>1 DEF Core, LeaseTracksSubmission
<1>3. boot # NoOwner
  BY <1>1 DEF NoOwner, Core, TypeOK
<1> QED  BY <1>1, <1>2, <1>3 DEF Owned

LEMMA ExistingRow ==
    ASSUME TypeOK, NEW r \in Routine
    PROVE  /\ Exists(r) <=> rows[r] \in Rows
           /\ rows[r] \in Rows \cup {NoRow, Deleted}
  BY NotARow DEF TypeOK, Exists

-----------------------------------------------------------------------------
(* The table is empty at first, so nothing is leased or in flight.          *)
THEOREM Initially == Init => IInv
<1> SUFFICES ASSUME Init PROVE IInv
  OBVIOUS
<1>1. TypeOK
  <2>1. Cardinality(inflight) = 0 /\ max_concurrency \in Nat
    BY RoutinesAssumption, FS_EmptySet DEF Init
  <2>2. 0 \in 0 .. MaxBoots /\ 0 \in 0 .. MaxEdits
    BY RoutinesAssumption
  <2>3. Cardinality(inflight) <= max_concurrency
    BY <2>1, RoutinesAssumption
  <2> QED  BY <2>2, <2>3 DEF Init, TypeOK
<1>2. \A r \in Routine : ~Exists(r)
  BY DEF Init, Exists
<1> QED  BY <1>1, <1>2 DEF Init, IInv, Core, LeaseTracksSubmission, Bookkeeping, Rested

(* create: a fresh id, without history.                                     *)
LEMMA CreateStep ==
    ASSUME IInv, NEW r \in Routine, NEW kind \in Kinds, NEW timing \in Delays,
           NEW enabled \in BOOLEAN, create(r, kind, timing, enabled)
    PROVE  IInv'
<1> DEFINE row == [trigger_kind |-> kind, enabled |-> enabled, timing |-> timing,
                   next_run_at |-> timing, lease_owner |-> NoOwner, lease_until |-> 0]
<1>1. timing \in 0 .. MaxAge /\ timing \in Nat /\ timing <= MaxAge
  BY RoutinesAssumption
<1>2. row \in Rows /\ row.lease_owner = NoOwner /\ row.timing <= MaxAge
  BY <1>1 DEF Rows, NoOwner
<1> HIDE DEF row
<1>3. /\ rows[r] = NoRow /\ rows' = [rows EXCEPT ![r] = row]
      /\ UNCHANGED <<scheduler, edits, age, edited, lost, excused>>
  BY DEF create, row
<1>4. age[r] = Never /\ r \notin inflight \cup lost /\ r \notin edited
  BY <1>3 DEF IInv, Core, Bookkeeping, TypeOK
<1>5. TypeOK'
  BY <1>2, <1>3 DEF IInv, Core, TypeOK, scheduler
<1>6. /\ rows'[r] = row
      /\ \A q \in Routine \ {r} : rows'[q] = rows[q] /\ (Exists(q)' <=> Exists(q))
  BY <1>3 DEF IInv, Core, TypeOK, Exists
<1>7. LeaseTracksSubmission'
  BY <1>2, <1>3, <1>4, <1>6 DEF IInv, Core, LeaseTracksSubmission, scheduler
<1>8. Bookkeeping'
  BY <1>2, <1>3, <1>6, NotARow DEF IInv, Core, Bookkeeping, scheduler
<1>9. Rested'
  BY <1>2, <1>3, <1>4, <1>6 DEF IInv, Rested, scheduler, Waits, Armed
<1> QED  BY <1>5, <1>7, <1>8, <1>9 DEF IInv, Core

-----------------------------------------------------------------------------
(* Edits: a lease is gone, and a row that is not excused keeps waiting.     *)
LEMMA EditStep ==
    ASSUME IInv, NEW r \in Routine, NEW row \in Rows \cup {Deleted}, NEW asked \in BOOLEAN,
           Edit(r, row, asked),
           row # Deleted => row.lease_owner = NoOwner /\ row.timing <= MaxAge,
           row # Deleted /\ ~asked /\ r \notin inflight /\ age[r] # Never /\ r \notin excused =>
              IF row.trigger_kind = "interval" THEN Waits(row, age[r], FALSE)
              ELSE ~(row.enabled /\ row.next_run_at # Never)
    PROVE  IInv'
<1>1. /\ Exists(r) /\ edits < MaxEdits /\ edits' = edits + 1
      /\ rows' = [rows EXCEPT ![r] = row]
      /\ edited' = edited \cup ({r} \cap inflight)
      /\ lost' = lost \ {r}
      /\ excused' = IF asked \/ r \in inflight \cup lost THEN excused \cup {r} ELSE excused
      /\ UNCHANGED <<loop, max_concurrency, closed, boot, inflight, accepted, age>>
  BY DEF Edit, scheduler
<1>2. /\ rows'[r] = row
      /\ \A q \in Routine \ {r} : rows'[q] = rows[q] /\ (Exists(q)' <=> Exists(q))
      /\ Exists(r)' <=> row # Deleted
      /\ row # NoRow
  BY <1>1, NotARow, RoutinesAssumption DEF IInv, Core, TypeOK, Exists
<1>3. edits' \in 0 .. MaxEdits
  BY <1>1, RoutinesAssumption DEF IInv, Core, TypeOK
<1>4. TypeOK'
  BY <1>1, <1>3 DEF IInv, Core, TypeOK
<1>5. LeaseTracksSubmission'
  <2> SUFFICES ASSUME NEW q \in Routine, Exists(q)'
               PROVE  (/\ rows[q].lease_owner # NoOwner <=> (q \in (inflight \ edited) \cup lost)
                       /\ q \in inflight \ edited => rows[q].lease_owner = boot)'
    BY DEF LeaseTracksSubmission
  <2>1. CASE q = r
    BY <1>1, <1>2, <2>1
  <2>2. CASE q # r
    BY <1>1, <1>2, <2>2 DEF IInv, Core, LeaseTracksSubmission
  <2> QED  BY <2>1, <2>2
<1>6. Bookkeeping'
  BY <1>1, <1>2 DEF IInv, Core, Bookkeeping
<1>7. Rested'
  <2> SUFFICES ASSUME NEW q \in Routine, Exists(q)'
               PROVE  (/\ rows[q].timing <= MaxAge
                       /\ age[q] # Never /\ q \notin excused \cup accepted =>
                             IF rows[q].trigger_kind = "interval"
                             THEN Waits(rows[q], age[q], q \in inflight)
                             ELSE ~Armed(q) /\ q \notin inflight)'
    BY DEF Rested
  <2>1. CASE q = r
    BY <1>1, <1>2, <2>1 DEF Waits, Armed
  <2>2. CASE q # r
    BY <1>1, <1>2, <2>2 DEF IInv, Rested, Waits, Armed
  <2> QED  BY <2>1, <2>2
<1> QED  BY <1>4, <1>5, <1>6, <1>7 DEF IInv, Core

LEMMA UpdateStep ==
    ASSUME IInv, NEW r \in Routine, NEW enabled \in BOOLEAN, update(r, enabled)
    PROVE  IInv'
<1> DEFINE old == rows[r]
           row == Scheduled(old, old.trigger_kind, old.timing, enabled, FALSE)
           asked == enabled /\ ~old.enabled /\ old.trigger_kind = "once"
<1>1. Exists(r) /\ Edit(r, row, asked)
  BY DEF update
<1>2. old \in Rows
  BY <1>1, ExistingRow DEF IInv, Core
<1>3. old.trigger_kind \in Kinds /\ old.timing \in Nat /\ old.enabled \in BOOLEAN
  BY <1>2 DEF Rows
<1>4. /\ row \in Rows /\ row.lease_owner = NoOwner
      /\ row.trigger_kind = old.trigger_kind /\ row.timing = old.timing /\ row.enabled = enabled
      /\ row.next_run_at = IF enabled /\ ~old.enabled THEN old.timing ELSE old.next_run_at
  <2> DEFINE retimed == FALSE
  <2>1. retimed \in BOOLEAN /\ ~retimed
    OBVIOUS
  <2>2. row = Scheduled(old, old.trigger_kind, old.timing, enabled, retimed)
    OBVIOUS
  <2> HIDE DEF retimed, row, old
  <2> QED  BY <1>2, <1>3, <2>1, <2>2, ScheduledRow
<1> HIDE DEF row
<1>5. row.timing <= MaxAge
  BY <1>1, <1>4 DEF IInv, Rested
<1>6. ASSUME ~asked, r \notin inflight, age[r] # Never, r \notin excused
      PROVE  IF row.trigger_kind = "interval" THEN Waits(row, age[r], FALSE)
             ELSE ~(row.enabled /\ row.next_run_at # Never)
  <2>1. r \notin accepted /\ age[r] \in Nat
    BY <1>6 DEF IInv, Core, TypeOK
  <2>2. IF old.trigger_kind = "interval" THEN Waits(old, age[r], r \in inflight) ELSE ~Armed(r)
    BY <1>1, <1>6, <2>1 DEF IInv, Rested
  <2>3. CASE old.trigger_kind = "interval"
    BY <1>3, <1>4, <1>6, <2>1, <2>2, <2>3, RoutinesAssumption DEF Waits
  <2>4. CASE old.trigger_kind = "once"
    BY <1>1, <1>4, <1>6, <2>2, <2>4 DEF Armed
  <2> QED  BY <1>3, <2>3, <2>4 DEF Kinds
<1>7. asked \in BOOLEAN
  BY <1>3
<1> HIDE DEF asked
<1> QED  BY <1>1, <1>4, <1>5, <1>6, <1>7, EditStep

LEMMA RetimeStep ==
    ASSUME IInv, NEW r \in Routine, NEW kind \in Kinds, NEW timing \in Delays,
           NEW enabled \in BOOLEAN, Retime(r, kind, timing, enabled)
    PROVE  IInv'
<1> DEFINE old == rows[r]
           row == Scheduled(old, kind, timing, enabled, TRUE)
           asked == kind = "once"
<1>1. Exists(r) /\ Edit(r, row, asked)
  BY DEF Retime
<1>2. old \in Rows
  BY <1>1, ExistingRow DEF IInv, Core
<1>3. timing \in Nat /\ timing <= MaxAge
  BY RoutinesAssumption
<1>4. /\ row \in Rows /\ row.lease_owner = NoOwner
      /\ row.trigger_kind = kind /\ row.timing = timing /\ row.enabled = enabled
      /\ row.next_run_at = timing
  <2> DEFINE next == [old EXCEPT !.trigger_kind = kind, !.timing = timing, !.enabled = enabled,
                                 !.next_run_at = timing]
  <2>1. row = NoLease(next)
    BY DEF Scheduled
  <2>2. timing \in Nat /\ timing \in Int \cup {Never} /\ kind \in Kinds /\ enabled \in BOOLEAN
    BY <1>3
  <2>3. next \in Rows
    <3> HIDE DEF old
    <3> QED  BY <1>2, <2>2 DEF Rows
  <2>4. /\ next.trigger_kind = kind /\ next.timing = timing /\ next.enabled = enabled
        /\ next.next_run_at = timing
    BY <1>2 DEF Rows
  <2> HIDE DEF next, row
  <2> QED  BY <2>1, <2>3, <2>4, NoLeaseRow
<1> HIDE DEF row
<1>5. ASSUME ~asked, age[r] # Never
      PROVE  row.trigger_kind = "interval" /\ Waits(row, age[r], FALSE)
  <2>1. age[r] \in Nat
    BY <1>5, RoutinesAssumption DEF IInv, Core, TypeOK
  <2> QED  BY <1>3, <1>4, <1>5, <2>1, RoutinesAssumption DEF Waits, Kinds
<1> QED  BY <1>1, <1>3, <1>4, <1>5, EditStep

LEMMA DeleteStep ==
    ASSUME IInv, NEW r \in Routine, delete(r)
    PROVE  IInv'
  BY EditStep DEF delete

LEMMA OperatorStep ==
    ASSUME IInv, NEW r \in Routine, Operator(r)
    PROVE  IInv'
  BY CreateStep, UpdateStep, RetimeStep, DeleteStep DEF Operator

-----------------------------------------------------------------------------
(* The end of a submission that leaves the given row, whatever became of    *)
(* its mark.                                                                *)
Ends(r, row) ==
    /\ r \in inflight /\ Returned(r)
    /\ loop' \in {"polling", "ticking", "dead"}
    /\ loop' = "polling" => inflight = {r}
    /\ loop' = "ticking" => inflight # {r}
    /\ rows' = [rows EXCEPT ![r] = row]
    /\ ~Exists(r) => row = rows[r]
    /\ Exists(r) =>
          /\ row \in Rows /\ row.timing = rows[r].timing
          /\ row.lease_owner # NoOwner <=> r \in lost'
    /\ lost' \subseteq Routine /\ lost' \ {r} = lost \ {r}
    /\ r \in lost' => Exists(r)
    /\ excused' \subseteq Routine
    /\ excused \subseteq excused' /\ excused' \subseteq excused \cup {r}
    /\ Exists(r) /\ age[r] # Never /\ r \notin excused' =>
          IF row.trigger_kind = "interval" THEN Waits(row, age[r], FALSE)
          ELSE ~(row.enabled /\ row.next_run_at # Never)

LEMMA ReturnStep ==
    ASSUME IInv, NEW r \in Routine, NEW row, Ends(r, row)
    PROVE  IInv'
<1> USE DEF Ends
<1>1. /\ inflight' = inflight \ {r} /\ accepted' = accepted \ {r} /\ edited' = edited \ {r}
      /\ UNCHANGED <<max_concurrency, closed, boot, edits, age>>
      /\ loop # "none" /\ boot > 0
  BY DEF Returned, IInv, Core, Bookkeeping
<1>2. /\ rows'[r] = row
      /\ \A q \in Routine \ {r} : rows'[q] = rows[q] /\ (Exists(q)' <=> Exists(q))
      /\ Exists(r)' <=> Exists(r)
      /\ row = NoRow <=> rows[r] = NoRow
  BY NotARow DEF IInv, Core, TypeOK, Exists
<1>3. Cardinality(inflight') <= max_concurrency
  BY <1>1, FewerInFlight DEF IInv, Core
<1>4. rows' \in [Routine -> Rows \cup {NoRow, Deleted}]
  BY ExistingRow DEF IInv, Core, TypeOK
<1>5. TypeOK'
  BY <1>1, <1>3, <1>4 DEF IInv, Core, TypeOK
<1>6. LeaseTracksSubmission'
  <2> SUFFICES ASSUME NEW q \in Routine, Exists(q)'
               PROVE  (/\ rows[q].lease_owner # NoOwner <=> (q \in (inflight \ edited) \cup lost)
                       /\ q \in inflight \ edited => rows[q].lease_owner = boot)'
    BY DEF LeaseTracksSubmission
  <2>1. CASE q = r
    BY <1>1, <1>2, <2>1
  <2>2. CASE q # r
    BY <1>1, <1>2, <2>2 DEF IInv, Core, LeaseTracksSubmission
  <2> QED  BY <2>1, <2>2
<1>7. Bookkeeping'
  <2>1. \A q \in Routine : rows'[q] = NoRow => age'[q] = Never /\ q \notin inflight' \cup lost'
    BY <1>1, <1>2 DEF IInv, Core, Bookkeeping, Exists
  <2> QED  BY <1>1, <2>1 DEF IInv, Core, Bookkeeping
<1>8. Rested'
  <2> SUFFICES ASSUME NEW q \in Routine, Exists(q)'
               PROVE  (/\ rows[q].timing <= MaxAge
                       /\ age[q] # Never /\ q \notin excused \cup accepted =>
                             IF rows[q].trigger_kind = "interval"
                             THEN Waits(rows[q], age[q], q \in inflight)
                             ELSE ~Armed(q) /\ q \notin inflight)'
    BY DEF Rested
  <2>1. CASE q = r
    BY <1>1, <1>2, <2>1 DEF Waits, Armed, IInv, Rested
  <2>2. CASE q # r
    BY <1>1, <1>2, <2>2 DEF IInv, Rested, Waits, Armed
  <2> QED  BY <2>1, <2>2
<1> QED  BY <1>5, <1>6, <1>7, <1>8 DEF IInv, Core

(* A mark needs the lease, so an edited row is left as the edit made it;    *)
(* one that is marked waits its interval again, or is over.                 *)
LEMMA SubmitReturnsStep ==
    ASSUME IInv, NEW r \in Routine, SubmitReturns(r)
    PROVE  IInv'
<1> DEFINE row == Succeeded(r)
<1>1. /\ r \in accepted /\ r \in inflight /\ r \notin lost /\ Returned(r) /\ TickGoesOn(r)
      /\ rows' = [rows EXCEPT ![r] = row]
      /\ lost' = lost /\ excused' = excused
      /\ loop \in {"polling", "ticking", "dead"} /\ (loop = "polling" => inflight = {})
  BY DEF SubmitReturns, mark_success, IInv, Core, TypeOK, Bookkeeping
<1>2. ~Exists(r) => row = rows[r]
  BY DEF Succeeded, Owned
<1>3. ASSUME Exists(r)
      PROVE  /\ row \in Rows /\ row.timing = rows[r].timing
             /\ row.trigger_kind = rows[r].trigger_kind
             /\ row.lease_owner = NoOwner
             /\ rows[r] \in Rows
  BY <1>1, <1>3, ExistingRow, MarkedRow, Ownership DEF IInv, Core
<1>4. ASSUME Exists(r), age[r] # Never, r \notin excused
      PROVE  IF row.trigger_kind = "interval" THEN Waits(row, age[r], FALSE)
             ELSE ~(row.enabled /\ row.next_run_at # Never)
  <2>1. Owned(r)
    BY <1>1, <1>4, Ownership DEF IInv, Core, Bookkeeping
  <2>2. rows[r].timing \in Nat /\ rows[r].trigger_kind \in Kinds /\ age[r] \in Nat
    BY <1>3, <1>4 DEF Rows, IInv, Core, TypeOK
  <2>3. CASE rows[r].trigger_kind = "interval"
    <3>1. row.next_run_at = rows[r].timing /\ row.timing = rows[r].timing
      BY <1>3, <1>4, <2>1, <2>3, MarkedRow
    <3>2. rows[r].timing # Never /\ age[r] + rows[r].timing >= rows[r].timing
      BY <2>2, RoutinesAssumption
    <3> QED  BY <1>3, <1>4, <2>3, <3>1, <3>2 DEF Waits
  <2>4. CASE rows[r].trigger_kind = "once"
    BY <1>3, <1>4, <2>1, <2>4, MarkedRow
  <2> QED  BY <2>2, <2>3, <2>4 DEF Kinds
<1>5. lost' \subseteq Routine /\ excused' \subseteq Routine
  BY <1>1 DEF IInv, Core, TypeOK
<1>6. /\ loop' \in {"polling", "ticking", "dead"}
      /\ loop' = "polling" => inflight = {r}
      /\ loop' = "ticking" => inflight # {r}
  BY <1>1 DEF TickGoesOn
<1> HIDE DEF row
<1>7. Ends(r, row)
  BY <1>1, <1>2, <1>3, <1>4, <1>5, <1>6 DEF Ends
<1> QED  BY <1>7, ReturnStep

LEMMA SubmitFailsStep ==
    ASSUME IInv, NEW r \in Routine, SubmitFails(r)
    PROVE  IInv'
<1> DEFINE row == Failed(r)
<1>1. /\ r \in inflight \ accepted /\ r \notin lost /\ Returned(r) /\ TickGoesOn(r)
      /\ rows' = [rows EXCEPT ![r] = row]
      /\ lost' = lost /\ excused' = excused
      /\ loop \in {"polling", "ticking", "dead"} /\ (loop = "polling" => inflight = {})
  BY DEF SubmitFails, mark_failure, IInv, Core, TypeOK, Bookkeeping
<1>2. ~Exists(r) => row = rows[r]
  BY DEF Failed, Owned
<1>3. ASSUME Exists(r)
      PROVE  /\ row \in Rows /\ row.timing = rows[r].timing
             /\ row.trigger_kind = rows[r].trigger_kind
             /\ row.lease_owner = NoOwner
  BY <1>1, <1>3, ExistingRow, MarkedRow, Ownership DEF IInv, Core
<1>4. ASSUME Exists(r), age[r] # Never, r \notin excused
      PROVE  row.trigger_kind = "interval" /\ Waits(row, age[r], FALSE)
  <2>1. rows[r].trigger_kind = "interval" /\ age[r] >= rows[r].timing
        /\ rows[r].next_run_at # Never
    BY <1>1, <1>4 DEF IInv, Rested, Waits
  <2>2. row.next_run_at # Never
    <3>1. rows[r] \in Rows /\ BackoffSeconds # Never
      BY <1>4, ExistingRow, RoutinesAssumption DEF IInv, Core
    <3> QED  BY <2>1, <3>1, MarkedRow
  <2> QED  BY <1>3, <1>4, <2>1, <2>2 DEF Waits
<1>5. lost' \subseteq Routine /\ excused' \subseteq Routine
  BY <1>1 DEF IInv, Core, TypeOK
<1>6. /\ loop' \in {"polling", "ticking", "dead"}
      /\ loop' = "polling" => inflight = {r}
      /\ loop' = "ticking" => inflight # {r}
  BY <1>1 DEF TickGoesOn
<1> HIDE DEF row
<1>7. Ends(r, row)
  BY <1>1, <1>2, <1>3, <1>4, <1>5, <1>6 DEF Ends
<1> QED  BY <1>7, ReturnStep

(* A mark that fails leaves the row leased, and with nobody to mark it.     *)
LEMMA MarkFailsStep ==
    ASSUME IInv, NEW r \in Routine, MarkFails(r)
    PROVE  IInv'
<1> DEFINE row == rows[r]
<1>1. /\ r \in inflight /\ r \notin lost /\ Returned(r) /\ loop' = "dead" /\ rows' = rows
      /\ lost' = IF Owned(r) THEN lost \cup {r} ELSE lost
      /\ excused' = IF r \in accepted THEN excused \cup {r} ELSE excused
  BY DEF MarkFails, IInv, Core, Bookkeeping
<1>2. rows' = [rows EXCEPT ![r] = row]
  BY <1>1 DEF IInv, Core, TypeOK
<1>3. ASSUME Exists(r)
      PROVE  row \in Rows /\ (row.lease_owner # NoOwner <=> r \in lost')
  <2>1. boot # NoOwner
    BY <1>1, <1>3, Ownership DEF IInv, Core, TypeOK, NoOwner
  <2>2. row \in Rows /\ (Owned(r) <=> r \notin edited) /\ (r \in edited => row.lease_owner = NoOwner)
    BY <1>1, <1>3, Ownership, ExistingRow DEF IInv, Core
  <2> QED  BY <1>1, <2>1, <2>2 DEF Owned
<1>4. ASSUME Exists(r), age[r] # Never, r \notin excused'
      PROVE  row.trigger_kind = "interval" /\ Waits(row, age[r], FALSE)
  BY <1>1, <1>4 DEF IInv, Rested, Waits
<1>5. lost' \subseteq Routine /\ excused' \subseteq Routine /\ (r \in lost' => Exists(r))
      /\ lost' \ {r} = lost \ {r}
  BY <1>1 DEF IInv, Core, TypeOK, Owned
<1> HIDE DEF row
<1>6. Ends(r, row)
  <2>1. ~Exists(r) => row = rows[r]
    BY DEF row
  <2>2. row.timing = rows[r].timing
    BY DEF row
  <2> QED  BY <1>1, <1>2, <1>3, <1>4, <1>5, <2>1, <2>2 DEF Ends
<1> QED  BY <1>6, ReturnStep

-----------------------------------------------------------------------------
(* The engine accepts a run: the routine is excused for the next one only   *)
(* if it was edited while this one was being submitted.                     *)
LEMMA AcceptStep ==
    ASSUME IInv, NEW r \in Routine, Accept(r)
    PROVE  IInv'
<1>1. /\ r \in inflight \ accepted /\ accepted' = accepted \cup {r}
      /\ age' = [age EXCEPT ![r] = 0]
      /\ excused' = IF r \in edited THEN excused \cup {r} ELSE excused \ {r}
      /\ UNCHANGED <<max_concurrency, rows, loop, closed, boot, inflight, edits, edited, lost>>
  BY DEF Accept
<1>2. 0 \in 0 .. MaxAge
  BY RoutinesAssumption
<1>3. TypeOK'
  BY <1>1, <1>2 DEF IInv, Core, TypeOK
<1>4. LeaseTracksSubmission'
  BY <1>1 DEF IInv, Core, LeaseTracksSubmission, Exists
<1>5. Bookkeeping'
  <2>1. \A q \in Routine : rows'[q] = NoRow => age'[q] = Never /\ q \notin inflight' \cup lost'
    BY <1>1 DEF IInv, Core, TypeOK, Bookkeeping
  <2>2. edited' \subseteq excused' \cup (inflight' \ accepted')
    BY <1>1 DEF IInv, Core, Bookkeeping
  <2> QED  BY <1>1, <2>1, <2>2 DEF IInv, Core, Bookkeeping
<1>6. Rested'
  <2> SUFFICES ASSUME NEW q \in Routine, Exists(q)'
               PROVE  (/\ rows[q].timing <= MaxAge
                       /\ age[q] # Never /\ q \notin excused \cup accepted =>
                             IF rows[q].trigger_kind = "interval"
                             THEN Waits(rows[q], age[q], q \in inflight)
                             ELSE ~Armed(q) /\ q \notin inflight)'
    BY DEF Rested
  <2>1. Exists(q)
    BY <1>1 DEF Exists
  <2>2. CASE q = r
    BY <1>1, <2>1, <2>2 DEF IInv, Rested
  <2>3. CASE q # r
    BY <1>1, <2>1, <2>3 DEF IInv, Core, TypeOK, Rested, Waits, Armed, Exists
  <2> QED  BY <2>2, <2>3
<1> QED  BY <1>3, <1>4, <1>5, <1>6 DEF IInv, Core

(* Starting, being told to stop, and a tick that fails before it claims.    *)
LEMMA QuietStep ==
    ASSUME IInv, start \/ close \/ TickFails
    PROVE  IInv'
<1>1. UNCHANGED <<rows, max_concurrency, inflight, accepted, edits, age, edited, lost, excused>>
  BY DEF start, close, TickFails
<1>2. /\ loop' \in {"none", "polling", "ticking", "dead"} /\ closed' \in BOOLEAN
      /\ boot' \in 0 .. MaxBoots /\ boot' > 0
      /\ loop' # "none"
      /\ loop' \in {"none", "polling"} => inflight = {}
      /\ loop' = "ticking" => inflight # {}
      /\ inflight # {} => boot' = boot
  <2>1. boot \in Nat /\ MaxBoots \in Nat /\ boot <= MaxBoots /\ (loop # "none" => boot > 0)
    BY RoutinesAssumption DEF IInv, Core, TypeOK, Bookkeeping
  <2>2. CASE start
    <3>1. loop = "none" /\ boot < MaxBoots /\ boot' = boot + 1 /\ loop' = "polling" /\ closed' = FALSE
      BY <2>2 DEF start
    <3>2. inflight = {}
      BY <3>1 DEF IInv, Core, Bookkeeping
    <3>3. boot' \in 0 .. MaxBoots /\ boot' > 0
      BY <2>1, <3>1
    <3> QED  BY <3>1, <3>2, <3>3
  <2>3. CASE close
    BY <2>1, <2>3 DEF close, IInv, Core, TypeOK
  <2>4. CASE TickFails
    BY <2>1, <2>4 DEF TickFails, IInv, Core, TypeOK
  <2> QED  BY <2>2, <2>3, <2>4
<1>3. TypeOK'
  BY <1>1, <1>2 DEF IInv, Core, TypeOK
<1>4. LeaseTracksSubmission'
  BY <1>1, <1>2 DEF IInv, Core, LeaseTracksSubmission, Exists
<1>5. Bookkeeping'
  BY <1>1, <1>2 DEF IInv, Core, Bookkeeping
<1>6. Rested'
  BY <1>1 DEF IInv, Rested, Waits, Armed, Exists
<1> QED  BY <1>3, <1>4, <1>5, <1>6 DEF IInv, Core

-----------------------------------------------------------------------------
(* The end of a process, whether it marks what is in flight or not.         *)
Gone ==
    /\ Over
    /\ rows' \in [Routine -> Rows \cup {NoRow, Deleted}] /\ lost' \subseteq Routine
    /\ \A q \in Routine :
          /\ ~Exists(q) => rows'[q] = rows[q]
          /\ q \notin inflight => rows'[q] = rows[q]
          /\ rows[q] = NoRow => q \notin lost'
          /\ Exists(q) =>
                /\ rows'[q] \in Rows
                /\ rows'[q].trigger_kind = rows[q].trigger_kind
                /\ rows'[q].timing = rows[q].timing
                /\ rows[q].next_run_at # Never => rows'[q].next_run_at # Never
                /\ rows'[q].lease_owner # NoOwner <=> q \in lost'

LEMMA GoneStep ==
    ASSUME IInv, Gone
    PROVE  IInv'
<1>1. /\ loop' = "none" /\ inflight' = {} /\ accepted' = {} /\ edited' = {}
      /\ excused' = excused \cup accepted
      /\ UNCHANGED <<max_concurrency, closed, boot, edits, age>>
  BY DEF Gone, Over
<1>2. \A q \in Routine : Exists(q)' <=> Exists(q)
  BY NotARow DEF Gone, Exists
<1>3. Cardinality(inflight') <= max_concurrency
  BY <1>1, FewerInFlight DEF IInv, Core
<1>4. TypeOK'
  BY <1>1, <1>3 DEF Gone, IInv, Core, TypeOK
<1>5. LeaseTracksSubmission'
  BY <1>1, <1>2 DEF Gone, LeaseTracksSubmission
<1>6. Bookkeeping'
  <2>1. \A q \in Routine : rows'[q] = NoRow => rows[q] = NoRow
    BY NotARow DEF Gone, Exists
  <2> QED  BY <1>1, <2>1 DEF Gone, IInv, Core, Bookkeeping
<1>7. Rested'
  <2> SUFFICES ASSUME NEW q \in Routine, Exists(q)'
               PROVE  (/\ rows[q].timing <= MaxAge
                       /\ age[q] # Never /\ q \notin excused \cup accepted =>
                             IF rows[q].trigger_kind = "interval"
                             THEN Waits(rows[q], age[q], q \in inflight)
                             ELSE ~Armed(q) /\ q \notin inflight)'
    BY DEF Rested
  <2>1. Exists(q) /\ rows[q].timing <= MaxAge
    BY <1>2 DEF IInv, Rested
  <2>2. ASSUME age[q] # Never, q \notin excused, q \notin accepted
        PROVE  IF rows[q].trigger_kind = "interval"
               THEN Waits(rows[q], age[q], q \in inflight)
               ELSE ~Armed(q) /\ q \notin inflight
    BY <2>1, <2>2 DEF IInv, Rested
  <2>3. CASE q \in inflight
    BY <1>1, <2>1, <2>2, <2>3 DEF Gone, Waits
  <2>4. CASE q \notin inflight
    BY <1>1, <1>2, <2>1, <2>2, <2>4 DEF Gone, Waits, Armed
  <2> QED  BY <2>3, <2>4
<1> QED  BY <1>4, <1>5, <1>6, <1>7 DEF IInv, Core

LEMMA ExitStep ==
    ASSUME IInv, Exit
    PROVE  IInv'
<1>1. /\ Over /\ lost' = lost
      /\ rows' = [r \in Routine |-> IF r \in inflight THEN Failed(r) ELSE rows[r]]
  BY DEF Exit
<1>2. ASSUME NEW q \in Routine
      PROVE  /\ ~Exists(q) => rows'[q] = rows[q]
             /\ q \notin inflight => rows'[q] = rows[q]
             /\ rows[q] = NoRow => q \notin lost'
             /\ rows'[q] \in Rows \cup {NoRow, Deleted}
  <2>1. ~Exists(q) => Failed(q) = rows[q]
    BY DEF Failed, Owned
  <2>2. Exists(q) => Failed(q) \in Rows
    BY ExistingRow, MarkedRow DEF IInv, Core
  <2>3. rows[q] \in Rows \cup {NoRow, Deleted} /\ (rows[q] = NoRow => q \notin lost)
    BY ExistingRow DEF IInv, Core, Bookkeeping
  <2> QED  BY <1>1, <2>1, <2>2, <2>3
<1>3. ASSUME NEW q \in Routine, Exists(q)
      PROVE  /\ rows'[q] \in Rows
             /\ rows'[q].trigger_kind = rows[q].trigger_kind
             /\ rows'[q].timing = rows[q].timing
             /\ rows[q].next_run_at # Never => rows'[q].next_run_at # Never
             /\ rows'[q].lease_owner # NoOwner <=> q \in lost'
  <2>1. rows[q] \in Rows
    BY <1>3, ExistingRow DEF IInv, Core
  <2>2. CASE q \notin inflight
    BY <1>1, <1>3, <2>1, <2>2 DEF IInv, Core, LeaseTracksSubmission
  <2>3. CASE q \in inflight
    <3>1. rows'[q] = Failed(q) /\ q \notin lost'
      BY <1>1, <1>3, <2>3, Ownership DEF IInv
    <3>2. Failed(q).lease_owner = NoOwner
      BY <1>3, <2>1, <2>3, MarkedRow, Ownership DEF IInv
    <3>3. rows[q].next_run_at # Never => Failed(q).next_run_at # Never
      BY <2>1, MarkedRow, RoutinesAssumption
    <3> QED  BY <2>1, <3>1, <3>2, <3>3, MarkedRow
  <2> QED  BY <2>2, <2>3
<1>4. rows' \in [Routine -> Rows \cup {NoRow, Deleted}] /\ lost' \subseteq Routine
  BY <1>1, <1>2 DEF IInv, Core, TypeOK
<1>5. Gone
  BY <1>1, <1>2, <1>3, <1>4 DEF Gone
<1> QED  BY <1>5, GoneStep

LEMMA CrashStep ==
    ASSUME IInv, Crash
    PROVE  IInv'
<1>1. Over /\ rows' = rows /\ lost' = lost \cup {r \in inflight : Owned(r)}
  BY DEF Crash
<1>2. ASSUME NEW q \in Routine, Exists(q)
      PROVE  rows[q] \in Rows /\ (rows[q].lease_owner # NoOwner <=> q \in lost')
  <2>1. rows[q] \in Rows
    BY <1>2, ExistingRow DEF IInv, Core
  <2>2. CASE q \notin inflight
    <3>1. q \in lost' <=> q \in lost
      BY <1>1, <2>2
    <3> QED  BY <1>2, <2>1, <2>2, <3>1 DEF IInv, Core, LeaseTracksSubmission
  <2>3. CASE q \in inflight
    <3>1. boot # NoOwner /\ (Owned(q) <=> q \notin edited) /\ q \notin lost
          /\ (q \in edited => rows[q].lease_owner = NoOwner)
      BY <1>2, <2>3, Ownership DEF IInv, Core, TypeOK, NoOwner
    <3> QED  BY <1>1, <2>1, <2>3, <3>1 DEF Owned
  <2> QED  BY <2>1, <2>2, <2>3
<1>3. lost' \subseteq Routine /\ \A q \in Routine : rows[q] = NoRow => q \notin lost'
  BY <1>1 DEF IInv, Core, TypeOK, Bookkeeping, Owned, Exists
<1>4. Gone
  BY <1>1, <1>2, <1>3 DEF Gone, IInv, Core, TypeOK
<1> QED  BY <1>4, GoneStep

-----------------------------------------------------------------------------
(* A tick leases what it submits, and submits what is due.                  *)
LEMMA TickStep ==
    ASSUME IInv, tick
    PROVE  IInv'
<1>1. /\ loop = "polling" /\ loop' = "ticking" /\ Claimable # {} /\ inflight' = Claimable
      /\ rows' = [r \in Routine |->
                    IF r \in Claimable
                    THEN [rows[r] EXCEPT !.lease_owner = boot, !.lease_until = LeaseSeconds]
                    ELSE rows[r]]
      /\ lost' = lost \ Claimable
      /\ UNCHANGED <<max_concurrency, closed, boot, accepted, edits, age, edited, excused>>
  BY DEF tick, claim_due
<1>2. inflight = {} /\ accepted = {} /\ edited = {} /\ boot > 0 /\ boot \in Nat
  <2>1. inflight = {} /\ accepted \subseteq inflight /\ edited \subseteq inflight /\ boot \in 0 .. MaxBoots
    BY <1>1 DEF IInv, Core, TypeOK
  <2>2. boot > 0
    BY <1>1 DEF IInv, Core, Bookkeeping
  <2> QED  BY <2>1, <2>2
<1>3. Claimable \subseteq Routine /\ Cardinality(Claimable) <= max_concurrency
  BY FewClaimed DEF IInv, Core, due
<1>4. ASSUME NEW q \in Claimable
      PROVE  Exists(q) /\ Armed(q) /\ rows[q] \in Rows /\ rows[q].next_run_at <= 0
  BY FewClaimed, <1>3, ExistingRow DEF due, Armed, IInv, Core
<1>5. ASSUME NEW q \in Claimable
      PROVE  /\ rows'[q] \in Rows /\ rows'[q].lease_owner = boot
             /\ rows'[q].trigger_kind = rows[q].trigger_kind
             /\ rows'[q].timing = rows[q].timing /\ rows'[q].next_run_at = rows[q].next_run_at
  <2> DEFINE row == rows[q]
  <2>1. row \in Rows /\ LeaseSeconds \in Nat
    BY <1>4, RoutinesAssumption
  <2>2. rows'[q] = [row EXCEPT !.lease_owner = boot, !.lease_until = LeaseSeconds]
    BY <1>1, <1>3
  <2> HIDE DEF row
  <2>3. rows'[q] \in Rows
    BY <1>2, <2>1, <2>2 DEF Rows
  <2>4. /\ rows'[q].lease_owner = boot
        /\ rows'[q].trigger_kind = row.trigger_kind
        /\ rows'[q].timing = row.timing /\ rows'[q].next_run_at = row.next_run_at
    BY <2>1, <2>2 DEF Rows
  <2> QED  BY <2>3, <2>4 DEF row
<1>6. ASSUME NEW q \in Routine, q \notin Claimable
      PROVE  rows'[q] = rows[q] /\ (Exists(q)' <=> Exists(q))
  BY <1>1, <1>6 DEF Exists
<1>7. TypeOK'
  <2>1. rows' \in [Routine -> Rows \cup {NoRow, Deleted}]
    <3>1. \A q \in Routine : rows'[q] \in Rows \cup {NoRow, Deleted}
      BY <1>5, <1>6, ExistingRow DEF IInv, Core
    <3> QED  BY <1>1, <3>1
  <2> QED  BY <1>1, <1>2, <1>3, <2>1 DEF IInv, Core, TypeOK
<1>8. LeaseTracksSubmission'
  <2> SUFFICES ASSUME NEW q \in Routine, Exists(q)'
               PROVE  (/\ rows[q].lease_owner # NoOwner <=> (q \in (inflight \ edited) \cup lost)
                       /\ q \in inflight \ edited => rows[q].lease_owner = boot)'
    BY DEF LeaseTracksSubmission
  <2>1. CASE q \in Claimable
    <3>1. q \in inflight' /\ q \notin edited' /\ rows'[q].lease_owner = boot'
      BY <1>1, <1>2, <1>5, <2>1
    <3>2. boot # NoOwner /\ boot' = boot
      <4>1. boot > 0 /\ boot \in Nat
        BY <1>2
      <4>2. boot' = boot
        BY <1>1
      <4> QED  BY <4>1, <4>2 DEF NoOwner
    <3> QED  BY <3>1, <3>2
  <2>2. CASE q \notin Claimable
    BY <1>1, <1>2, <1>6, <2>2 DEF IInv, Core, LeaseTracksSubmission
  <2> QED  BY <2>1, <2>2
<1>9. Bookkeeping'
  <2>1. \A q \in Routine : rows'[q] = NoRow => age'[q] = Never /\ q \notin inflight' \cup lost'
    BY <1>1, <1>5, <1>6, NotARow DEF IInv, Core, Bookkeeping
  <2> QED  BY <1>1, <1>2, <2>1 DEF Bookkeeping
<1>10. Rested'
  <2> SUFFICES ASSUME NEW q \in Routine, Exists(q)'
               PROVE  (/\ rows[q].timing <= MaxAge
                       /\ age[q] # Never /\ q \notin excused \cup accepted =>
                             IF rows[q].trigger_kind = "interval"
                             THEN Waits(rows[q], age[q], q \in inflight)
                             ELSE ~Armed(q) /\ q \notin inflight)'
    BY DEF Rested
  <2>1. CASE q \in Claimable
    <3>1. rows[q].timing <= MaxAge
      BY <1>4, <2>1 DEF IInv, Rested
    <3>2. ASSUME age[q] # Never, q \notin excused
          PROVE  /\ rows[q].trigger_kind = "interval" /\ rows[q].next_run_at # Never
                 /\ age[q] >= rows[q].timing \/ age[q] + rows[q].next_run_at >= rows[q].timing
      BY <1>2, <1>4, <2>1, <3>2 DEF IInv, Rested, Waits
    <3>3. ASSUME age[q] # Never, q \notin excused
          PROVE  age[q] >= rows[q].timing
      <4>1. age[q] \in Nat /\ rows[q].timing \in Nat /\ rows[q].next_run_at \in Int
        BY <1>4, <2>1, <3>2, <3>3 DEF IInv, Core, TypeOK, Rows
      <4> QED  BY <1>4, <2>1, <3>2, <3>3, <4>1
    <3> QED  BY <1>1, <1>5, <2>1, <3>1, <3>2, <3>3 DEF Waits
  <2>2. CASE q \notin Claimable
    BY <1>1, <1>2, <1>6, <2>2 DEF IInv, Rested, Waits, Armed
  <2> QED  BY <2>1, <2>2
<1> QED  BY <1>7, <1>8, <1>9, <1>10 DEF IInv, Core

(* Time passes: what is waited for comes nearer as what was waited grows.   *)
LEMMA ClockStep ==
    ASSUME IInv, Clock
    PROVE  IInv'
<1>1. /\ rows' = [r \in Routine |-> IF Exists(r) THEN Sooner(rows[r]) ELSE rows[r]]
      /\ age' = [r \in Routine |-> IF age[r] # Never /\ age[r] < MaxAge THEN age[r] + 1 ELSE age[r]]
      /\ UNCHANGED <<loop, max_concurrency, closed, boot, inflight, accepted, edits, edited, lost, excused>>
  BY DEF Clock, scheduler
<1>2. ASSUME NEW q \in Routine
      PROVE  /\ Exists(q)' <=> Exists(q)
             /\ Exists(q) => rows[q] \in Rows /\ rows'[q] = Sooner(rows[q]) /\ rows'[q] \in Rows
             /\ ~Exists(q) => rows'[q] = rows[q] /\ rows[q] \in {NoRow, Deleted}
  <2>1. Exists(q) => rows[q] \in Rows /\ rows'[q] = Sooner(rows[q]) /\ rows'[q] \in Rows
    BY <1>1, ExistingRow, SoonerRow DEF IInv, Core
  <2> QED  BY <1>1, <2>1, NotARow DEF Exists
<1>3. ASSUME NEW q \in Routine
      PROVE  /\ age'[q] \in 0 .. MaxAge \cup {Never}
             /\ age'[q] = Never <=> age[q] = Never
             /\ age[q] # Never => age[q] \in Nat /\ (age'[q] = age[q] + 1 \/ (age'[q] = age[q] /\ age[q] >= MaxAge))
  <2>1. age[q] \in 0 .. MaxAge \cup {Never} /\ MaxAge \in Nat
    BY RoutinesAssumption DEF IInv, Core, TypeOK
  <2>2. age'[q] = IF age[q] # Never /\ age[q] < MaxAge THEN age[q] + 1 ELSE age[q]
    BY <1>1
  <2> QED  BY <2>1, <2>2, RoutinesAssumption
<1>4. TypeOK'
  <2>1. rows' \in [Routine -> Rows \cup {NoRow, Deleted}]
    BY <1>1, <1>2
  <2>2. age' \in [Routine -> 0 .. MaxAge \cup {Never}]
    BY <1>1, <1>3
  <2> QED  BY <1>1, <2>1, <2>2 DEF IInv, Core, TypeOK
<1>5. LeaseTracksSubmission'
  BY <1>1, <1>2, SoonerRow DEF IInv, Core, LeaseTracksSubmission
<1>6. Bookkeeping'
  <2>1. \A q \in Routine : rows'[q] = NoRow => age'[q] = Never /\ q \notin inflight' \cup lost'
    BY <1>1, <1>2, <1>3, NotARow DEF IInv, Core, Bookkeeping
  <2> QED  BY <1>1, <2>1 DEF IInv, Core, Bookkeeping
<1>7. Rested'
  <2> SUFFICES ASSUME NEW q \in Routine, Exists(q)'
               PROVE  (/\ rows[q].timing <= MaxAge
                       /\ age[q] # Never /\ q \notin excused \cup accepted =>
                             IF rows[q].trigger_kind = "interval"
                             THEN Waits(rows[q], age[q], q \in inflight)
                             ELSE ~Armed(q) /\ q \notin inflight)'
    BY DEF Rested
  <2> DEFINE old == rows[q]
             new == rows'[q]
  <2>1. Exists(q) /\ old \in Rows /\ new = Sooner(old)
    BY <1>2
  <2>2. old.timing \in Nat /\ old.timing <= MaxAge /\ old.next_run_at \in Int \cup {Never}
    BY <2>1 DEF Rows, IInv, Rested
  <2>3. /\ new \in Rows /\ new.trigger_kind = old.trigger_kind /\ new.enabled = old.enabled
        /\ new.timing <= old.timing
        /\ old.trigger_kind = "interval" => new.timing = old.timing
        /\ new.next_run_at = Never <=> old.next_run_at = Never
        /\ old.next_run_at # Never => new.next_run_at >= old.next_run_at - 1
    <3> HIDE DEF old, new
    <3> QED  BY <2>1, SoonerRow
  <2>4. new.timing \in Nat /\ new.next_run_at \in Int \cup {Never}
    BY <2>3 DEF Rows
  <2>5. new.timing <= MaxAge
    BY <2>2, <2>3, <2>4, RoutinesAssumption
  <2>6. ASSUME age'[q] # Never, q \notin excused, q \notin accepted
        PROVE  IF new.trigger_kind = "interval"
               THEN Waits(new, age'[q], q \in inflight)
               ELSE ~(new.enabled /\ new.next_run_at # Never) /\ q \notin inflight
    <3>1. IF old.trigger_kind = "interval"
          THEN Waits(old, age[q], q \in inflight)
          ELSE ~Armed(q) /\ q \notin inflight
      BY <1>3, <2>1, <2>6 DEF IInv, Rested
    <3>2. CASE old.trigger_kind = "interval"
      <4>1. /\ age[q] \in Nat
            /\ age'[q] = age[q] + 1 \/ (age'[q] = age[q] /\ age[q] >= MaxAge)
        BY <1>3, <2>6
      <4>2. /\ old.next_run_at # Never
            /\ age[q] >= old.timing \/ (q \notin inflight /\ age[q] + old.next_run_at >= old.timing)
        BY <3>1, <3>2 DEF Waits
      <4> HIDE DEF old, new
      <4>3. CASE age[q] >= old.timing
        <5>1. age'[q] >= new.timing
          BY <2>2, <2>3, <3>2, <4>1, <4>3
        <5> QED  BY <2>3, <3>2, <4>2, <5>1 DEF Waits
      <4>4. CASE q \notin inflight /\ age[q] + old.next_run_at >= old.timing
        <5>1. /\ old.next_run_at \in Int /\ new.next_run_at \in Int
              /\ new.next_run_at >= old.next_run_at - 1 /\ new.timing = old.timing
          BY <2>2, <2>3, <2>4, <3>2, <4>2
        <5>2. age'[q] >= new.timing \/ age'[q] + new.next_run_at >= new.timing
          BY <2>2, <4>1, <4>4, <5>1, RoutinesAssumption
        <5> QED  BY <2>3, <3>2, <4>2, <4>4, <5>2 DEF Waits
      <4> QED  BY <4>2, <4>3, <4>4
    <3>3. CASE old.trigger_kind # "interval"
      BY <2>1, <2>3, <3>1, <3>3 DEF Armed
    <3> QED  BY <3>2, <3>3
  <2> QED  BY <1>1, <2>5, <2>6 DEF Armed
<1> QED  BY <1>4, <1>5, <1>6, <1>7 DEF IInv, Core

-----------------------------------------------------------------------------
(* Every step of the operator, the scheduler and the engine keeps IInv.     *)
THEOREM Inductive == IInv /\ [Next]_vars => IInv'
<1> SUFFICES ASSUME IInv, [Next]_vars PROVE IInv'
  OBVIOUS
<1>1. ASSUME NEW r \in Routine, Operator(r) PROVE IInv'
  BY <1>1, OperatorStep
<1>2. ASSUME NEW r \in Routine, Accept(r) PROVE IInv'
  BY <1>2, AcceptStep
<1>3. ASSUME NEW r \in Routine, _submit(r) PROVE IInv'
  BY <1>3, SubmitReturnsStep, SubmitFailsStep DEF _submit
<1>4. ASSUME NEW r \in Routine, MarkFails(r) PROVE IInv'
  BY <1>4, MarkFailsStep
<1>5. CASE start \/ close \/ TickFails
  BY <1>5, QuietStep
<1>6. CASE tick
  BY <1>6, TickStep
<1>7. CASE Exit
  BY <1>7, ExitStep
<1>8. CASE Crash
  BY <1>8, CrashStep
<1>9. CASE Clock
  BY <1>9, ClockStep
<1>10. CASE UNCHANGED vars
  BY <1>10 DEF vars, IInv, Core, TypeOK, LeaseTracksSubmission, Bookkeeping, Rested, Waits, Armed, Exists
<1> QED  BY <1>1, <1>2, <1>3, <1>4, <1>5, <1>6, <1>7, <1>8, <1>9, <1>10 DEF Next

(* Hence IInv holds in every state a scheduler and its rows can reach.      *)
THEOREM Invariance == Spec => []IInv
  BY Initially, Inductive, PTL DEF Spec

(* Every variable keeps its type, and at most max_concurrency submissions   *)
(* are in flight.                                                           *)
THEOREM Typing == Spec => []TypeOK
<1>1. IInv => TypeOK
  BY DEF IInv, Core
<1> QED  BY <1>1, Invariance, PTL

(* Leases and submissions agree (claim_due, mark_success, mark_failure,     *)
(* update), through crashes, failed marks, edits and restarts.              *)
THEOREM Leases == Spec => []LeaseTracksSubmission
<1>1. IInv => LeaseTracksSubmission
  BY DEF IInv, Core
<1> QED  BY <1>1, Invariance, PTL

(* No accepted run follows the last one sooner than the routine says.       *)
THEOREM Spacing == Spec => Spaced
<1> DEFINE Apart ==
      \A r \in Routine :
        r \in accepted' \ accepted /\ Exists(r) /\ age[r] # Never
          => \/ r \in excused
             \/ rows[r].trigger_kind = "interval" /\ age[r] >= rows[r].timing
<1>1. IInv /\ [Next]_vars => Apart
  <2> SUFFICES ASSUME IInv, [Next]_vars, NEW r \in Routine,
                      r \in accepted' \ accepted, Exists(r), age[r] # Never, r \notin excused
               PROVE  rows[r].trigger_kind = "interval" /\ age[r] >= rows[r].timing
    OBVIOUS
  <2>1. PICK q \in Routine : Accept(q)
    BY DEF Next, Operator, create, update, Retime, delete, Edit, scheduler, _submit, SubmitReturns,
           SubmitFails, MarkFails, Returned, start, tick, TickFails, close, Exit, Crash, Over, Clock, vars
  <2>2. r \in inflight
    BY <2>1 DEF Accept
  <2> QED  BY <2>2 DEF IInv, Rested, Waits
<1> QED  BY <1>1, Invariance, PTL DEF Spec, Spaced

(* A mark never overwrites an edit made while the routine was submitted.    *)
THEOREM EditsStay == Spec => OperatorWins
<1> DEFINE Kept == \A r \in edited \ inflight' : rows'[r] = rows[r]
<1>1. IInv /\ [Next]_vars => Kept
  <2> SUFFICES ASSUME IInv, [Next]_vars, NEW r \in edited, r \notin inflight'
               PROVE  rows'[r] = rows[r]
    OBVIOUS
  <2>1. r \in Routine /\ r \in inflight
    BY DEF IInv, Core, TypeOK
  <2>2. ~Owned(r)
    BY <2>1, Ownership DEF IInv, Owned
  <2>3. Succeeded(r) = rows[r] /\ Failed(r) = rows[r]
    BY <2>2 DEF Succeeded, Failed
  <2>4. CASE \E q \in Routine : SubmitReturns(q) \/ SubmitFails(q) \/ MarkFails(q)
    <3>1. PICK q \in Routine : SubmitReturns(q) \/ SubmitFails(q) \/ MarkFails(q)
      BY <2>4
    <3>2. inflight' = inflight \ {q}
      BY <3>1 DEF SubmitReturns, SubmitFails, MarkFails, Returned
    <3>3. q = r
      BY <2>1, <3>2
    <3>4. rows \in [Routine -> Rows \cup {NoRow, Deleted}]
      BY DEF IInv, Core, TypeOK
    <3> QED  BY <2>1, <2>3, <3>1, <3>3, <3>4
             DEF SubmitReturns, SubmitFails, MarkFails, mark_success, mark_failure
  <2>5. CASE Exit \/ Crash
    BY <2>1, <2>3, <2>5 DEF Exit, Crash
  <2>6. CASE tick
    BY <2>1, <2>6 DEF tick, IInv, Core, TypeOK
  <2>7. CASE inflight' = inflight
    BY <2>1, <2>7
  <2>8. \/ \E q \in Routine : SubmitReturns(q) \/ SubmitFails(q) \/ MarkFails(q)
        \/ Exit \/ Crash \/ tick \/ inflight' = inflight
    BY DEF Next, Operator, create, update, Retime, delete, Edit, scheduler, _submit, Accept,
           start, TickFails, close, Clock, vars
  <2> QED  BY <2>4, <2>5, <2>6, <2>7, <2>8
<1> QED  BY <1>1, Invariance, PTL DEF Spec, OperatorWins
==============================================================================
