------------------------------ MODULE Routines ------------------------------
(***************************************************************************)
(* Scheduled routines and the scheduler that submits them (routines.py).   *)
(*                                                                         *)
(* A routine is a row: an interval or an instant, whether it is enabled,   *)
(* when it is next due, and the lease of the scheduler that is submitting  *)
(* it.  A scheduler lives as long as its process and leases under a name   *)
(* of its own (the number of the boot).  Its loop claims the routines that *)
(* are due, submits them to the engine at once, and marks each one when    *)
(* its submission returns; the operator edits rows, and the engine accepts *)
(* a run before the submission returns, in between.                        *)
(*                                                                         *)
(* Instants are kept relative to now: a row counts down to its next run    *)
(* and to the end of its lease, and Clock moves all of them.               *)
(***************************************************************************)
EXTENDS Integers, FiniteSets

CONSTANTS
    Routine,        \* ids; numbers, whose order breaks ties (created_at, id)
    Delays,         \* the intervals and distances to run_at the operator uses
    LeaseSeconds, BackoffSeconds,
    Concurrency,    \* the values max_concurrency may be given
    MaxLate,        \* bound: how long a routine is overdue while the loop runs
    MaxAge,         \* bound: no distinction between runs longer ago
    MaxBoots,       \* bound: how often the process starts
    MaxEdits,       \* bound: how many edits the operator makes
    Faults,         \* which of "crash", "busy", "refuse" occur
    NoRow, Deleted, Never

ASSUME RoutinesAssumption ==
    /\ Routine \subseteq Nat /\ IsFiniteSet(Routine)
    /\ MaxAge \in Nat /\ Delays \subseteq 0 .. MaxAge
    /\ LeaseSeconds \in Nat \ {0}
    /\ BackoffSeconds \in Nat
    /\ Concurrency \subseteq Nat \ {0}
    /\ MaxLate \in Nat /\ MaxBoots \in Nat /\ MaxEdits \in Nat
    /\ Never \notin Int /\ NoRow # Deleted

VARIABLES
    rows,           \* the table; an id is never used again
    loop,           \* the task of the loop: polling, in a tick, dead or not there
    max_concurrency,
    closed,         \* the scheduler was told to stop
    boot,           \* owner name of the current (or last) scheduler
    inflight,       \* routines whose _submit has not returned
    accepted,       \* those of them whose run the engine has accepted
    edits,
    age,            \* history: how long ago a run of the routine was accepted
    edited,         \* history: in flight and edited since they were claimed
    lost,           \* history: leased, and whoever should mark them is gone
    excused         \* history: the last run left no mark, or the operator asked

vars == <<rows, loop, max_concurrency, closed, boot, inflight, accepted,
          edits, age, edited, lost, excused>>
scheduler == <<loop, max_concurrency, closed, boot, inflight, accepted>>

Kinds == {"interval", "once"}
NoOwner == 0

(* timing: the interval of an interval routine; for a one-shot how far      *)
(* run_at is away, 0 once it has passed.                                    *)
Rows ==
    [trigger_kind : Kinds, enabled : BOOLEAN, timing : Nat,
     next_run_at : Int \cup {Never}, lease_owner : Nat, lease_until : Nat]

ASSUME NotARow == NoRow \notin Rows /\ Deleted \notin Rows

Exists(r) == rows[r] \notin {NoRow, Deleted}
Armed(r) == Exists(r) /\ rows[r].enabled /\ rows[r].next_run_at # Never

NoLease(row) == [row EXCEPT !.lease_owner = NoOwner, !.lease_until = 0]

Init ==
    /\ rows = [r \in Routine |-> NoRow]
    /\ loop = "none" /\ max_concurrency \in Concurrency /\ closed = FALSE /\ boot = 0
    /\ inflight = {} /\ accepted = {} /\ edits = 0
    /\ age = [r \in Routine |-> Never]
    /\ edited = {} /\ lost = {} /\ excused = {}

----------------------------------------------------------------------------
(* The operator's API.                                                      *)

(* _validated: an interval is at least a minute.                            *)
Valid(kind, timing) == kind = "interval" => timing > 0

create(r, kind, timing, enabled) ==
    /\ rows[r] = NoRow
    /\ Valid(kind, timing)
    /\ rows' = [rows EXCEPT ![r] =
                  [trigger_kind |-> kind, enabled |-> enabled, timing |-> timing,
                   next_run_at |-> timing, lease_owner |-> NoOwner, lease_until |-> 0]]
    /\ UNCHANGED <<scheduler, edits, age, edited, lost, excused>>

(* What an edit leaves of a row.  A new timing, or enabling a row again,    *)
(* schedules it; any edit writes the row back without its lease.            *)
Scheduled(old, kind, timing, enabled, retimed) ==
    LET reenabled == enabled /\ ~old.enabled
    IN NoLease([old EXCEPT
         !.trigger_kind = kind, !.timing = timing, !.enabled = enabled,
         !.next_run_at = IF retimed \/ reenabled THEN timing ELSE @])

(* A bot's deletion deletes its routines one by one, as this does.          *)
Edit(r, row, asked) ==
    /\ Exists(r)
    /\ edits < MaxEdits
    /\ edits' = edits + 1
    /\ rows' = [rows EXCEPT ![r] = row]
    /\ edited' = edited \cup ({r} \cap inflight)
    /\ lost' = lost \ {r}
    /\ excused' = IF asked \/ r \in inflight \cup lost THEN excused \cup {r} ELSE excused
    /\ UNCHANGED <<scheduler, age>>

update(r, enabled) ==
    /\ Exists(r)
    /\ LET old == rows[r]
       IN Edit(r, Scheduled(old, old.trigger_kind, old.timing, enabled, FALSE),
               enabled /\ ~old.enabled /\ old.trigger_kind = "once")

Retime(r, kind, timing, enabled) ==
    /\ Exists(r)
    /\ Valid(kind, timing)
    /\ Edit(r, Scheduled(rows[r], kind, timing, enabled, TRUE), kind = "once")

delete(r) == Edit(r, Deleted, TRUE)

Operator(r) ==
    \/ \E enabled \in BOOLEAN, kind \in Kinds, timing \in Delays :
          create(r, kind, timing, enabled) \/ Retime(r, kind, timing, enabled)
    \/ \E enabled \in BOOLEAN : update(r, enabled)
    \/ delete(r)

----------------------------------------------------------------------------
(* The scheduler.                                                           *)

start ==
    /\ loop = "none"
    /\ boot < MaxBoots
    /\ boot' = boot + 1 /\ loop' = "polling" /\ closed' = FALSE
    /\ UNCHANGED <<max_concurrency, rows, inflight, accepted>>
    /\ UNCHANGED <<edits, age, edited, lost, excused>>

due == {r \in Routine : Armed(r) /\ rows[r].next_run_at <= 0 /\ rows[r].lease_until <= 0}

(* Mistake: the newest due time goes first.                                 *)
BeforeReversed(r, s) ==
    LET a == rows[r].next_run_at
        b == rows[s].next_run_at
    IN a > b \/ (a = b /\ r < s)

Before(r, s) ==
    LET a == rows[r].next_run_at
        b == rows[s].next_run_at
    IN a < b \/ (a = b /\ r < s)

(* ORDER BY next_run_at, created_at, id LIMIT max_concurrency               *)
Claimable == {r \in due : Cardinality({s \in due : Before(s, r)}) < max_concurrency}

claim_due ==
    /\ rows' = [r \in Routine |->
                  IF r \in Claimable
                  THEN [rows[r] EXCEPT !.lease_owner = boot, !.lease_until = LeaseSeconds]
                  ELSE rows[r]]
    /\ lost' = lost \ Claimable

(* A tick that finds something; the stop flag is read before each tick.     *)
tick ==
    /\ loop = "polling" /\ ~closed
    /\ Claimable # {}
    /\ claim_due
    /\ inflight' = Claimable
    /\ loop' = "ticking"
    /\ UNCHANGED <<max_concurrency, closed, boot, accepted, edits, age, edited, excused>>

(* The database stays locked: the exception ends the loop, and no one       *)
(* awaits its task before close().                                          *)
TickFails ==
    /\ "busy" \in Faults
    /\ loop = "polling" /\ ~closed
    /\ loop' = "dead"
    /\ UNCHANGED <<max_concurrency, rows, closed, boot, inflight, accepted>>
    /\ UNCHANGED <<edits, age, edited, lost, excused>>

(* The engine accepts the run; the submission returns later.                *)
Accept(r) ==
    /\ r \in inflight \ accepted
    /\ accepted' = accepted \cup {r}
    /\ age' = [age EXCEPT ![r] = 0]
    /\ excused' = IF r \in edited THEN excused \cup {r} ELSE excused \ {r}
    /\ UNCHANGED <<max_concurrency, rows, loop, closed, boot, inflight, edits, edited, lost>>

(* Mistake: a mark is taken from anybody.                                   *)
OwnedByAnyone(r) == Exists(r)

Owned(r) == Exists(r) /\ rows[r].lease_owner = boot

(* Mistake: the next run is counted from the time the last one was due.     *)
SucceededOverdue(r) ==
    LET row == rows[r]
    IN IF ~Owned(r) THEN row
       ELSE IF row.trigger_kind = "once"
            THEN NoLease([row EXCEPT !.enabled = FALSE, !.next_run_at = Never])
            ELSE NoLease([row EXCEPT !.next_run_at = row.next_run_at + row.timing])

Succeeded(r) ==
    LET row == rows[r]
    IN IF ~Owned(r) THEN row
       ELSE IF row.trigger_kind = "once"
            THEN NoLease([row EXCEPT !.enabled = FALSE, !.next_run_at = Never])
            ELSE NoLease([row EXCEPT !.next_run_at = row.timing])

mark_success(r) == rows' = [rows EXCEPT ![r] = Succeeded(r)]

(* Mistake: a failed submission keeps its lease.                            *)
FailedLeased(r) ==
    IF Owned(r) THEN [rows[r] EXCEPT !.next_run_at = BackoffSeconds] ELSE rows[r]

Failed(r) ==
    IF Owned(r) THEN NoLease([rows[r] EXCEPT !.next_run_at = BackoffSeconds]) ELSE rows[r]

mark_failure(r) == rows' = [rows EXCEPT ![r] = Failed(r)]

(* Mistake: a submission is not forgotten when it is over.                  *)
ReturnedEarly(r) ==
    /\ accepted' = accepted \ {r}
    /\ UNCHANGED <<max_concurrency, closed, boot, inflight, edits, age, edited>>

(* _submit(r) is over; the tick is, when it was the last one.               *)
Returned(r) ==
    /\ inflight' = inflight \ {r}
    /\ accepted' = accepted \ {r}
    /\ edited' = edited \ {r}
    /\ UNCHANGED <<max_concurrency, closed, boot, edits, age>>

TickGoesOn(r) == loop' = IF loop = "ticking" /\ inflight = {r} THEN "polling" ELSE loop

SubmitReturns(r) ==
    /\ r \in accepted
    /\ mark_success(r)
    /\ Returned(r) /\ TickGoesOn(r)
    /\ UNCHANGED <<max_concurrency, lost, excused>>

SubmitFails(r) ==
    /\ "refuse" \in Faults
    /\ r \in inflight \ accepted
    /\ mark_failure(r)
    /\ Returned(r) /\ TickGoesOn(r)
    /\ UNCHANGED <<max_concurrency, lost, excused>>

_submit(r) == SubmitReturns(r) \/ SubmitFails(r)

(* Marking fails with the database locked: the row stays leased, and the    *)
(* exception goes through gather and ends the loop; the other submissions   *)
(* of the tick go on by themselves.                                         *)
MarkFails(r) ==
    /\ "busy" \in Faults
    /\ r \in inflight
    /\ Returned(r)
    /\ loop' = "dead"
    /\ lost' = IF Owned(r) THEN lost \cup {r} ELSE lost
    /\ excused' = IF r \in accepted THEN excused \cup {r} ELSE excused
    /\ UNCHANGED rows

close ==
    /\ loop # "none" /\ ~closed
    /\ closed' = TRUE
    /\ UNCHANGED <<max_concurrency, rows, loop, boot, inflight, accepted>>
    /\ UNCHANGED <<edits, age, edited, lost, excused>>

Over ==
    /\ loop' = "none"
    /\ inflight' = {} /\ accepted' = {} /\ edited' = {}
    /\ excused' = excused \cup accepted
    /\ UNCHANGED <<max_concurrency, closed, boot, edits, age>>

(* close() has awaited the loop and the process ends.  Submissions that     *)
(* outlived a dead loop are cancelled and marked as failed.                 *)
Exit ==
    /\ closed /\ loop \in {"polling", "dead"}
    /\ rows' = [r \in Routine |-> IF r \in inflight THEN Failed(r) ELSE rows[r]]
    /\ Over
    /\ UNCHANGED lost

Crash ==
    /\ "crash" \in Faults
    /\ loop # "none"
    /\ Over
    /\ lost' = lost \cup {r \in inflight : Owned(r)}
    /\ UNCHANGED rows

----------------------------------------------------------------------------
Sooner(row) ==
    [row EXCEPT
       !.timing = IF row.trigger_kind = "once" /\ @ > 0 THEN @ - 1 ELSE @,
       !.next_run_at = IF @ # Never /\ @ > -MaxLate THEN @ - 1 ELSE @,
       !.lease_until = IF @ > 0 THEN @ - 1 ELSE @]

(* While the loop runs, no routine is overdue for longer than MaxLate.       *)
Clock ==
    /\ loop \in {"polling", "ticking"} /\ ~closed =>
          \A r \in due : rows[r].next_run_at > -MaxLate
    /\ rows' = [r \in Routine |-> IF Exists(r) THEN Sooner(rows[r]) ELSE rows[r]]
    /\ age' = [r \in Routine |-> IF age[r] # Never /\ age[r] < MaxAge THEN age[r] + 1 ELSE age[r]]
    /\ UNCHANGED <<scheduler, edits, edited, lost, excused>>

Next ==
    \/ \E r \in Routine : Operator(r) \/ Accept(r) \/ _submit(r) \/ MarkFails(r)
    \/ start \/ tick \/ TickFails \/ close \/ Exit \/ Crash
    \/ Clock

Spec == Init /\ [][Next]_vars

(* The loop and the submissions go on as long as the event loop does, and   *)
(* time passes.                                                             *)
Fairness ==
    /\ WF_vars(tick)
    /\ \A r \in Routine : WF_vars(Accept(r) \/ _submit(r))
    /\ WF_vars(Clock)

LiveSpec == Spec /\ Fairness

----------------------------------------------------------------------------
(* The variables have their types, and only a scheduler has submissions.    *)
TypeOK ==
    /\ rows \in [Routine -> Rows \cup {NoRow, Deleted}]
    /\ loop \in {"none", "polling", "ticking", "dead"}
    /\ max_concurrency \in Concurrency /\ closed \in BOOLEAN /\ boot \in 0 .. MaxBoots
    /\ inflight \subseteq Routine /\ accepted \subseteq inflight
    /\ Cardinality(inflight) <= max_concurrency
    /\ edits \in 0 .. MaxEdits
    /\ age \in [Routine -> 0 .. MaxAge \cup {Never}]
    /\ edited \subseteq inflight /\ lost \cup excused \subseteq Routine
    /\ loop \in {"none", "polling"} => inflight = {}
    /\ loop = "ticking" => inflight # {}

(* A row is leased exactly while the scheduler that leased it is going to   *)
(* mark it, except that an edit takes the lease away and that a crash or a  *)
(* failed mark leaves it behind.  In particular a scheduler that was closed *)
(* leaves nothing behind that its successor would have to wait for.         *)
LeaseTracksSubmission ==
    \A r \in Routine : Exists(r) =>
        /\ rows[r].lease_owner # NoOwner <=> (r \in (inflight \ edited) \cup lost)
        /\ r \in inflight \ edited => rows[r].lease_owner = boot

(* Runs of an interval routine start at least its interval apart and a      *)
(* one-shot runs once, also over failed submissions, late ticks and edits   *)
(* of other fields, unless the mark of the last run was lost or overruled   *)
(* or the operator asked for another one.                                   *)
Spaced ==
    [][\A r \in Routine :
         r \in accepted' \ accepted /\ Exists(r) /\ age[r] # Never
           => \/ r \in excused
              \/ rows[r].trigger_kind = "interval" /\ age[r] >= rows[r].timing]_vars

(* The mark of a submission never overrules an edit made while it ran: a    *)
(* routine that was paused, moved or deleted stays so.                      *)
OperatorWins ==
    [][\A r \in edited \ inflight' : rows'[r] = rows[r]]_vars

(* An enabled routine is submitted when its time comes, also behind other   *)
(* routines, after refused submissions, and after the lease of a scheduler  *)
(* that died with it has run out, unless nothing schedules any more.        *)
ArmedIsSubmitted ==
    \A r \in Routine :
        Armed(r) ~> (r \in inflight \/ ~Armed(r) \/ closed \/ loop \notin {"polling", "ticking"})

==============================================================================
