---------------------------- MODULE EngineProofs ----------------------------
(* Proofs about RunEngine, for any number of runs, bots, requests, claims,  *)
(* failovers, restarts, and any mixture of faults.                          *)
EXTENDS RunEngine, SequenceTheorems, TLAPS

(* The shape of what the process remembers of a run, a worker, a task, a    *)
(* _finish, a decision and a cancel call, and of a late transaction.        *)
MemType == [status : {"none", "queued", "running", "waiting"} \cup Terminal, finishing : BOOLEAN,
            pending : SUBSET Requests, handle : 0 .. MaxClaims,
            lock : {"free", "beat"} \cup Actors]
WorkerType == [loop : {"none", "idle", "busy", "dead"}, fifo : Seq(Runs),
               active : Runs \cup {NoRun}]
TaskType == [pc : {"none", "new", "claim", "finish", "settle", "unwind"} \cup InTurn,
             ask : Requests \cup {NoRequest}, asked : SUBSET Requests,
             answered : SUBSET Requests, beats : BOOLEAN]
FinType == [step : {"idle", "lock", "expire", "commit", "govern"}, status : Terminal]
UserType == [pc : {"idle", "send", "resolve", "mark"}, ask : Requests \cup {NoRequest}]
CallType == [pc : {"idle", "polite", "gather", "finish"}, target : Runs \cup {NoRun}]
Jobs == [job : {"claim", "gate", "waiting", "running"} \cup Terminal,
         ask : Requests \cup {NoRequest}]

(* The type invariant, one component at a time.                             *)
LedgerTyped == Ledger!TypeOK /\ Ledger!LeaseColumns
TablesTyped ==
    /\ gov \in [Runs -> {"none", "active", "finished"}]
    /\ gate \in [Runs -> [Requests -> {"none", "pending", "resolved", "expired"}]]
ProcTyped ==
    /\ proc \in {"off", "recover", "restore", "up", "closing"}
    /\ boots \in 0 .. MaxBoots
    /\ boot \in SUBSET Runs
    /\ sub \in [run : Runs \cup {NoRun}, pc : {"idle", "reserve", "refuse", "withdraw", "release"}]
    /\ lapsed \in SUBSET Runs
MemTyped == mem \in [Runs -> MemType]
WorkerTyped == worker \in [Bots -> WorkerType]
TaskTyped == task \in [Runs -> TaskType]
FinTyped == fin \in [Runs -> [Actors -> FinType]]
UserTyped == user \in [Runs -> UserType]
CallTyped == call \in [Runs -> [Callers -> CallType]]
StrayTyped == stray \in [Runs -> SUBSET Jobs]

Typed ==
    /\ LedgerTyped /\ TablesTyped /\ ProcTyped /\ MemTyped /\ WorkerTyped
    /\ TaskTyped /\ FinTyped /\ UserTyped /\ CallTyped /\ StrayTyped

Queued(r) == \E i \in 1 .. Len(worker[BotOf[r]].fifo) : worker[BotOf[r]].fifo[i] = r

(* The inductive invariant, one property of a run at a time.                *)

(* Nothing of a run that this process has not taken in is at work.          *)
Unknown(r) ==
    mem[r].status = "none" =>
      /\ task[r].pc = "none" /\ user[r].pc = "idle" /\ stray[r] = {}
      /\ \A a \in Actors : fin[r][a].step = "idle"
      /\ \A c \in Callers : call[r][c].pc = "idle"
      /\ ~Queued(r)

(* A run waits in the queue, has the worker's loop, or is over.             *)
Placed(r) ==
    /\ worker[BotOf[r]].active = r <=> task[r].pc # "none"
    /\ Queued(r) => /\ task[r].pc = "none" /\ stray[r] = {}
                    /\ \A c \in Callers : call[r][c].pc \in {"idle", "finish"}
    /\ task[r].pc = "new" => stray[r] = {}
    /\ stray[r] # {} => task[r].pc \in {"none", "settle", "unwind"}
    /\ \A c \in Callers :
         call[r][c].pc = "gather" =>
            /\ call[r][c].target \in Runs
            /\ call[r][c].target # r => task[r].pc = "none"

(* Who may hold the lifecycle lock, and what a _finish that holds it may    *)
(* rely on.                                                                 *)
Holding == {"expire", "commit", "govern"}
Beating == InTurn \cup {"finish", "settle", "unwind"}
Locked(r) ==
    /\ mem[r].lock = "exec" <=> \/ task[r].pc = "claim"
                                \/ fin[r]["exec"].step \in Holding
    /\ mem[r].lock = "beat" => task[r].pc \in Beating
    /\ task[r].beats => task[r].pc \in Beating
    /\ fin[r]["exec"].step # "idle" <=> task[r].pc \in {"finish", "settle"}
    /\ \A c \in Callers :
         /\ mem[r].lock = c <=> fin[r][c].step \in Holding
         /\ fin[r][c].step # "idle" <=> call[r][c].pc = "finish"
         /\ fin[r][c].step # "idle" =>
              /\ fin[r][c].status = "cancelled" /\ task[r].pc \in {"none", "new"}
              /\ mem[r].lock \in Callers \/ Settled(r)
    /\ \A a \in Actors : fin[r][a].step \in Holding => ~Settled(r)
    /\ task[r].pc \in InTurn \cup {"claim", "finish", "settle"} => ~Settled(r)

(* What is executed is claimed, and what completes is written down.         *)
HasClaim(r) == row[r] \in Ledger!Active /\ mem[r].handle = token[r]
Completing(r) == fin[r]["exec"].status = "complete" /\ fin[r]["exec"].step # "idle"
Durable(r) == row[r] \in {"complete", "absent"} \/ lease[r] = "expired"
Claims(r) ==
    /\ task[r].pc \in InTurn => HasClaim(r)
    /\ Completing(r) => /\ task[r].pc = "finish"
                        /\ fin[r]["exec"].step # "govern" => HasClaim(r)
                        /\ fin[r]["exec"].step = "govern" => Durable(r)
    /\ mem[r].status = "complete" => Durable(r)

(* A request is pending until it is answered once.                          *)
Asking(r) ==
    /\ mem[r].pending \cap task[r].answered = {}
    /\ task[r].answered \subseteq task[r].asked
    /\ task[r].pc \in {"eval", "send"} => task[r].ask \in task[r].asked
    /\ task[r].pc = "send" => task[r].ask \notin task[r].answered
    /\ user[r].pc = "send" => user[r].ask \notin task[r].answered
    /\ user[r].pc # "idle" => task[r].pc \notin {"send", "auto"}

(* The end of a run withdraws what it asked.                                *)
NoneOpen(r) == \A q \in Requests : gate[r][q] # "pending"
Quiet(r) ==
    /\ \A a \in Actors : fin[r][a].step \in Holding => mem[r].pending = {}
    /\ fin[r]["exec"].step \in {"commit", "govern"} /\ fin[r]["exec"].status # "cancelled"
         => NoneOpen(r)
    /\ mem[r].status \in {"complete", "failed"} => mem[r].pending = {} /\ NoneOpen(r)
    /\ \A j \in stray[r] :
         j.job = "gate" => /\ mem[r].status \notin {"complete", "failed"}
                           /\ fin[r]["exec"].step # "idle" => fin[r]["exec"].status = "cancelled"

Good(r) == Unknown(r) /\ Placed(r) /\ Locked(r) /\ Claims(r) /\ Asking(r) /\ Quiet(r)

(* What is still to be restored, or is being submitted, is not known yet,   *)
(* and nothing is before the process has recovered the ledger.              *)
Submitting ==
    /\ \A r \in Runs : r \in boot \/ sub.run = r => mem[r].status = "none"
    /\ proc \in {"off", "recover"} => \A r \in Runs : mem[r].status = "none"
    /\ proc # "restore" => boot = {}
    /\ proc # "up" => sub = NoSub
    /\ sub.run = NoRun => sub = NoSub
    /\ sub.pc = "idle" => sub = NoSub

(* A worker's loop serves the runs of its bot, each once.                   *)
Served ==
    \A b \in Bots :
      /\ \A i \in 1 .. Len(worker[b].fifo) : BotOf[worker[b].fifo[i]] = b
      /\ \A i, j \in 1 .. Len(worker[b].fifo) : worker[b].fifo[i] = worker[b].fifo[j] => i = j
      /\ worker[b].active # NoRun <=> worker[b].loop = "busy"
      /\ worker[b].active # NoRun => BotOf[worker[b].active] = b

(* Where a reservation comes from at each stage of the process.             *)
Reservations ==
    \A r \in Runs : gov[r] = "active" =>
      /\ proc = "recover" => row[r] \in {"queued"} \cup Ledger!Active
      /\ proc = "restore" => Open(r) \/ r \in boot
      /\ proc = "up" => Open(r) \/ sub.run = r \/ r \in lapsed
      /\ sub.run = r /\ sub.pc \in {"reserve", "refuse"} => r \in lapsed

IInv == Typed /\ Submitting /\ Served /\ Reservations /\ \A r \in Runs : Good(r)

-----------------------------------------------------------------------------
(* What the helpers of the actions do.                                      *)

(* The queues stay as they are.                                             *)
LEMMA QueueKeeps ==
    ASSUME \A b \in Bots : worker'[b].fifo = worker[b].fifo
    PROVE  \A r \in Runs : Queued(r)' <=> Queued(r)
  BY EngineAssumption DEF Queued

(* _finish has been called for r, whose lock was free or not.               *)
Called(r, a, s, free) ==
    /\ mem' \in [Runs -> MemType] /\ fin' \in [Runs -> [Actors -> FinType]]
    /\ \A q \in Runs : q # r => mem'[q] = mem[q] /\ fin'[q] = fin[q]
    /\ \A b \in Actors : b # a => fin'[r][b] = fin[r][b]
    /\ fin'[r][a].status = s
    /\ fin'[r][a].step = IF free THEN "expire" ELSE "lock"
    /\ mem'[r].status = mem[r].status /\ mem'[r].handle = mem[r].handle
    /\ mem'[r].lock = IF free THEN a ELSE mem[r].lock
    /\ mem'[r].pending = IF free THEN {} ELSE mem[r].pending

LEMMA TakesLock ==
    ASSUME NEW m \in [Runs -> MemType], NEW r \in Runs, NEW a \in Actors, NEW f \in BOOLEAN
    PROVE  [m EXCEPT ![r].lock = a, ![r].finishing = f, ![r].pending = {}] \in [Runs -> MemType]
<1> DEFINE x == [m[r] EXCEPT !.lock = a, !.finishing = f, !.pending = {}]
<1>1. m[r] \in MemType
  OBVIOUS
<1>2. x \in MemType
  BY <1>1 DEF MemType
<1>3. [m EXCEPT ![r].lock = a, ![r].finishing = f, ![r].pending = {}] = [m EXCEPT ![r] = x]
  OBVIOUS
<1> HIDE DEF x
<1> QED  BY <1>2, <1>3

LEMMA FinishIsCalled ==
    ASSUME MemTyped, FinTyped, NEW r \in Runs, NEW a \in Actors, NEW s \in Terminal,
           _finish(mem, r, a, s)
    PROVE  Called(r, a, s, mem[r].lock = "free")
<1>1. mem \in [Runs -> MemType] /\ fin \in [Runs -> [Actors -> FinType]]
  BY DEF MemTyped, FinTyped
<1>2. CASE mem[r].lock = "free"
  <2>1. /\ fin' = [fin EXCEPT ![r][a] = [step |-> "expire", status |-> s]]
        /\ mem' = [mem EXCEPT ![r].lock = a, ![r].finishing = TRUE, ![r].pending = {}]
    BY <1>2 DEF _finish
  <2>2. fin' \in [Runs -> [Actors -> FinType]]
    BY <1>1, <2>1 DEF FinType
  <2>3. mem' \in [Runs -> MemType]
    BY <1>1, <2>1, TakesLock
  <2> QED  BY <1>1, <1>2, <2>1, <2>2, <2>3 DEF Called, MemType
<1>3. CASE mem[r].lock # "free"
  <2>1. fin' = [fin EXCEPT ![r][a] = [step |-> "lock", status |-> s]] /\ mem' = mem
    BY <1>3 DEF _finish
  <2>2. fin' \in [Runs -> [Actors -> FinType]]
    BY <1>1, <2>1 DEF FinType
  <2> QED  BY <1>1, <1>3, <2>1, <2>2 DEF Called
<1> QED  BY <1>2, <1>3

(* ... after a failed claim has let the lock go.                            *)
LEMMA FinishReleased ==
    ASSUME MemTyped, FinTyped, NEW r \in Runs, NEW a \in Actors, NEW s \in Terminal,
           NEW m \in [Runs -> MemType], _finish(m, r, a, s), m[r].lock = "free",
           m[r].status = mem[r].status, m[r].handle = mem[r].handle,
           \A q \in Runs : q # r => m[q] = mem[q]
    PROVE  Called(r, a, s, TRUE)
<1>1. fin \in [Runs -> [Actors -> FinType]]
  BY DEF FinTyped
<1>2. /\ fin' = [fin EXCEPT ![r][a] = [step |-> "expire", status |-> s]]
      /\ mem' = [m EXCEPT ![r].lock = a, ![r].finishing = TRUE, ![r].pending = {}]
  BY DEF _finish
<1>3. fin' \in [Runs -> [Actors -> FinType]]
  BY <1>1, <1>2 DEF FinType
<1>4. mem' \in [Runs -> MemType]
  BY <1>2, TakesLock
<1> QED  BY <1>1, <1>2, <1>3, <1>4 DEF Called, MemType

(* The task of r has ended.                                                 *)
Over(r) ==
    /\ task' \in [Runs -> TaskType]
    /\ \A q \in Runs : q # r => task'[q] = task[q]
    /\ task'[r].pc = "none" /\ ~task'[r].beats
    /\ task'[r].asked = {} /\ task'[r].answered = {}

Idles(r, loop) ==
    /\ worker' \in [Bots -> WorkerType]
    /\ \A b \in Bots : worker'[b].fifo = worker[b].fifo
    /\ \A b \in Bots : b # BotOf[r] => worker'[b] = worker[b]
    /\ worker'[BotOf[r]].loop = loop /\ worker'[BotOf[r]].active = NoRun

LEMMA Ends ==
    ASSUME TaskTyped, NEW r \in Runs, task' = [task EXCEPT ![r] = NoTask]
    PROVE  Over(r)
<1>1. NoTask \in TaskType
  <2>1. NoTask.beats \in BOOLEAN
    BY DEF NoTask
  <2> QED  BY <2>1 DEF NoTask, TaskType
<1>2. NoTask.pc = "none" /\ ~NoTask.beats /\ NoTask.asked = {} /\ NoTask.answered = {}
  BY DEF NoTask
<1> QED  BY <1>1, <1>2 DEF Over, TaskTyped

LEMMA Frees ==
    ASSUME WorkerTyped, NEW r \in Runs, NEW loop \in {"idle", "dead"},
           worker' = [worker EXCEPT ![BotOf[r]].loop = loop, ![BotOf[r]].active = NoRun]
    PROVE  Idles(r, loop)
<1>1. BotOf[r] \in Bots /\ worker \in [Bots -> WorkerType]
  BY EngineAssumption DEF WorkerTyped
<1>2. worker' \in [Bots -> WorkerType]
  BY <1>1 DEF WorkerType
<1> QED  BY <1>1, <1>2 DEF Idles, WorkerType

LEMMA EndIsOver ==
    ASSUME TaskTyped, WorkerTyped, NEW r \in Runs, End(r)
    PROVE  Over(r) /\ Idles(r, "idle")
  BY Ends, Frees DEF End

(* A run joins the queue of its bot.                                        *)
Enqueued(r) ==
    /\ mem' \in [Runs -> MemType]
    /\ \A q \in Runs : q # r => mem'[q] = mem[q]
    /\ mem'[r].status = "queued" /\ mem'[r].lock = "free" /\ mem'[r].pending = {}
    /\ worker' \in [Bots -> WorkerType]
    /\ \A b \in Bots : worker'[b].active = worker[b].active
    /\ \A q \in Runs : Queued(q)' <=> Queued(q) \/ q = r
    /\ Served'

LEMMA EnqueueIsEnqueued ==
    ASSUME MemTyped, WorkerTyped, Served, NEW r \in Runs, ~Queued(r), _enqueue(r)
    PROVE  Enqueued(r)
<1> DEFINE b0 == BotOf[r]
           old == worker[b0].fifo
           new == worker'[b0].fifo
<1>1. b0 \in Bots /\ worker[b0] \in WorkerType /\ old \in Seq(Runs) /\ BotOf \in [Runs -> Bots]
  BY EngineAssumption DEF WorkerTyped, WorkerType
<1>2. /\ mem' = [mem EXCEPT ![r] = [NoState EXCEPT !.status = "queued"]]
      /\ worker' = [worker EXCEPT ![b0].fifo = Append(@, r),
                                  ![b0].loop = IF @ = "none" THEN "idle" ELSE @]
  BY Zenon DEF _enqueue
<1>3. [NoState EXCEPT !.status = "queued"] \in MemType
  <2>1. ASSUME NEW f \in BOOLEAN
        PROVE  [[status |-> "none", finishing |-> f, pending |-> {}, handle |-> 0, lock |-> "free"]
                  EXCEPT !.status = "queued"] \in MemType
    BY EngineAssumption DEF MemType
  <2> QED  BY <2>1 DEF NoState
<1>4. /\ [NoState EXCEPT !.status = "queued"].status = "queued"
      /\ [NoState EXCEPT !.status = "queued"].lock = "free"
      /\ [NoState EXCEPT !.status = "queued"].pending = {}
  BY DEF NoState
<1>5. Append(old, r) \in Seq(Runs) /\ Len(Append(old, r)) = Len(old) + 1
        /\ Append(old, r)[Len(old) + 1] = r
        /\ \A i \in 1 .. Len(old) : Append(old, r)[i] = old[i]
  BY <1>1, AppendProperties
<1>6. new = Append(old, r) /\ \A b \in Bots : b # b0 => worker'[b] = worker[b]
  BY <1>1, <1>2 DEF WorkerTyped, WorkerType
<1>7. Len(old) \in Nat
  BY <1>1, LenProperties
<1>8. worker' \in [Bots -> WorkerType]
  BY <1>1, <1>2, <1>5 DEF WorkerTyped, WorkerType
<1>9. \A b \in Bots : /\ worker'[b].active = worker[b].active
                      /\ worker'[b].loop = "busy" <=> worker[b].loop = "busy"
  BY <1>1, <1>2 DEF WorkerTyped, WorkerType
<1>10. \A q \in Runs : Queued(q)' <=> Queued(q) \/ q = r
  <2>1. Queued(r)'
    BY <1>5, <1>6, <1>7 DEF Queued
  <2>2. ASSUME NEW q \in Runs, q # r PROVE Queued(q)' <=> Queued(q)
    <3>1. CASE BotOf[q] # b0
      BY <1>1, <1>6, <3>1 DEF Queued
    <3>2. CASE BotOf[q] = b0
      <4>1. Queued(q) <=> \E i \in 1 .. Len(old) : old[i] = q
        BY <3>2 DEF Queued
      <4>2. Queued(q)' <=> \E i \in 1 .. Len(old) + 1 : Append(old, r)[i] = q
        BY <1>5, <1>6, <3>2 DEF Queued
      <4>3. \A i \in 1 .. Len(old) + 1 : i \in 1 .. Len(old) \/ i = Len(old) + 1
        BY <1>7
      <4>4. \A i \in 1 .. Len(old) : i \in 1 .. Len(old) + 1
        BY <1>7
      <4> HIDE DEF old
      <4> QED  BY <1>5, <2>2, <4>1, <4>2, <4>3, <4>4
    <3> QED  BY <3>1, <3>2
  <2> QED  BY <2>1, <2>2
<1>11. Served'
  <2>1. \A i \in 1 .. Len(old) : old[i] # r
    BY DEF Queued
  <2>2. \A i \in 1 .. Len(new) : BotOf[new[i]] = b0
    BY <1>1, <1>5, <1>6, <1>7 DEF Served
  <2>3. \A i, j \in 1 .. Len(old) : old[i] = old[j] => i = j
    BY <1>1 DEF Served
  <2>4. \A i, j \in 1 .. Len(new) : new[i] = new[j] => i = j
    <3>1. ASSUME NEW i \in 1 .. Len(new)
          PROVE  \/ i \in 1 .. Len(old) /\ new[i] = old[i]
                 \/ i = Len(old) + 1 /\ new[i] = r
      BY <1>5, <1>6, <1>7
    <3> HIDE DEF old, new
    <3> QED  BY <2>1, <2>3, <3>1
  <2> HIDE DEF new
  <2>5. ASSUME NEW b \in Bots
        PROVE  /\ \A i \in 1 .. Len(worker'[b].fifo) : BotOf[worker'[b].fifo[i]] = b
               /\ \A i, j \in 1 .. Len(worker'[b].fifo) :
                     worker'[b].fifo[i] = worker'[b].fifo[j] => i = j
    <3>1. CASE b = b0
      BY <2>2, <2>4, <3>1 DEF new
    <3>2. CASE b # b0
      BY <1>6, <3>2 DEF Served
    <3> QED  BY <3>1, <3>2
  <2>6. \A b \in Bots : /\ worker'[b].active # NoRun <=> worker'[b].loop = "busy"
                        /\ worker'[b].active # NoRun => BotOf[worker'[b].active] = b
    BY <1>9 DEF Served
  <2> QED  BY <2>5, <2>6 DEF Served
<1>12. mem' \in [Runs -> MemType] /\ \A q \in Runs : q # r => mem'[q] = mem[q]
  BY <1>2, <1>3 DEF MemTyped
<1>13. mem'[r].status = "queued" /\ mem'[r].lock = "free" /\ mem'[r].pending = {}
  BY <1>2, <1>4 DEF MemTyped
<1> QED  BY <1>8, <1>9, <1>10, <1>11, <1>12, <1>13 DEF Enqueued

(* The worker of b takes the run r from its queue, and skips one that has   *)
(* settled.                                                                 *)
Taken(b, r) ==
    /\ r \in Runs /\ BotOf[r] = b /\ Queued(r)
    /\ \A q \in Runs : Queued(q)' <=> Queued(q) /\ q # r
    /\ worker' \in [Bots -> WorkerType] /\ Served'
    /\ \A c \in Bots : c # b => worker'[c] = worker[c]
    /\ UNCHANGED <<tableVars, procVars, mem, fin, stray, user, call>>
    /\ \/ Settled(r) /\ worker'[b].active = worker[b].active /\ UNCHANGED task
       \/ /\ ~Settled(r) /\ worker[b].active = NoRun /\ worker'[b].active = r
          /\ task' \in [Runs -> TaskType]
          /\ \A q \in Runs : q # r => task'[q] = task[q]
          /\ task'[r].pc = "new" /\ (task'[r].beats <=> task[r].beats)
          /\ task'[r].ask = task[r].ask
          /\ task'[r].asked = task[r].asked /\ task'[r].answered = task[r].answered

LEMMA TakeIsTaken ==
    ASSUME TaskTyped, WorkerTyped, Served, NEW b \in Bots, Take(b)
    PROVE  \E r \in Runs : Taken(b, r)
<1> DEFINE old == worker[b].fifo
           new == worker'[b].fifo
           r == Head(old)
<1>1. worker[b] \in WorkerType /\ old \in Seq(Runs) /\ old # <<>> /\ BotOf \in [Runs -> Bots]
  BY EngineAssumption DEF WorkerTyped, WorkerType, Take
<1>2. /\ Tail(old) \in Seq(Runs) /\ Len(Tail(old)) = Len(old) - 1 /\ r \in Runs /\ r = old[1]
      /\ \A i \in 1 .. Len(Tail(old)) : Tail(old)[i] = old[i + 1]
      /\ Len(old) \in Nat /\ Len(old) >= 1
  BY <1>1, HeadTailProperties, EmptySeq, LenProperties
<1>3. BotOf[r] = b
  BY <1>2 DEF Served
<1>4. new = Tail(old) /\ \A c \in Bots : c # b => worker'[c] = worker[c]
  <2>1. CASE Settled(r)
    BY <1>1, <2>1 DEF Take, WorkerTyped, WorkerType
  <2>2. CASE ~Settled(r)
    BY <1>1, <2>2 DEF Take, WorkerTyped, WorkerType
  <2> QED  BY <2>1, <2>2
<1>5. Queued(r)
  BY <1>2, <1>3 DEF Queued
<1>6. \A i, j \in 1 .. Len(old) : old[i] = old[j] => i = j
  BY DEF Served
<1> HIDE DEF r, new
<1>7. \A q \in Runs : Queued(q)' <=> Queued(q) /\ q # r
  <2>1. ASSUME NEW q \in Runs, BotOf[q] # b PROVE Queued(q)' <=> Queued(q) /\ q # r
    BY <1>1, <1>3, <1>4, <2>1 DEF Queued
  <2>2. ASSUME NEW q \in Runs, BotOf[q] = b, Queued(q), q # r PROVE Queued(q)'
    <3>1. PICK i \in 1 .. Len(old) : old[i] = q
      BY <2>2 DEF Queued
    <3>2. i - 1 \in 1 .. Len(Tail(old)) /\ Tail(old)[i - 1] = q
      BY <1>2, <2>2, <3>1
    <3> QED  BY <1>4, <2>2, <3>2 DEF Queued, new
  <2>3. ASSUME NEW q \in Runs, BotOf[q] = b, Queued(q)' PROVE Queued(q) /\ q # r
    <3>1. PICK i \in 1 .. Len(Tail(old)) : Tail(old)[i] = q
      BY <1>4, <2>3 DEF Queued, new
    <3>2. i + 1 \in 1 .. Len(old) /\ old[i + 1] = q
      BY <1>2, <3>1
    <3>3. Queued(q)
      BY <2>3, <3>2 DEF Queued
    <3>4. q # r
      BY <1>2, <1>6, <3>1, <3>2
    <3> QED  BY <3>3, <3>4
  <2> QED  BY <2>1, <2>2, <2>3
<1>8. /\ \A i \in 1 .. Len(new) : BotOf[new[i]] = b
      /\ \A i, j \in 1 .. Len(new) : new[i] = new[j] => i = j
  <2>1. \A i \in 1 .. Len(old) : BotOf[old[i]] = b
    BY DEF Served
  <2> QED  BY <1>2, <1>4, <1>6, <2>1
<1>9. ASSUME worker' \in [Bots -> WorkerType],
             \/ worker'[b].loop = worker[b].loop /\ worker'[b].active = worker[b].active
             \/ worker'[b].loop = "busy" /\ worker'[b].active = r
      PROVE  Served'
  <2>1. ASSUME NEW c \in Bots
        PROVE  /\ \A i \in 1 .. Len(worker'[c].fifo) : BotOf[worker'[c].fifo[i]] = c
               /\ \A i, j \in 1 .. Len(worker'[c].fifo) :
                     worker'[c].fifo[i] = worker'[c].fifo[j] => i = j
    <3>1. CASE c = b
      BY <1>8, <3>1 DEF new
    <3>2. CASE c # b
      BY <1>4, <3>2 DEF Served
    <3> QED  BY <3>1, <3>2
  <2>2. \A c \in Bots : /\ worker'[c].active # NoRun <=> worker'[c].loop = "busy"
                        /\ worker'[c].active # NoRun => BotOf[worker'[c].active] = c
    BY <1>2, <1>3, <1>4, <1>9, EngineAssumption DEF Served
  <2> QED  BY <2>1, <2>2 DEF Served
<1>10. UNCHANGED <<tableVars, procVars, mem, fin, stray, user, call>>
  BY DEF Take
<1>11. CASE Settled(r)
  <2>1. worker' = [worker EXCEPT ![b].fifo = Tail(@)] /\ UNCHANGED task
    BY <1>11 DEF Take, r
  <2>2. worker' \in [Bots -> WorkerType]
    BY <1>1, <1>2, <2>1 DEF WorkerTyped, WorkerType
  <2>3. worker'[b].loop = worker[b].loop /\ worker'[b].active = worker[b].active
    BY <1>1, <2>1 DEF WorkerTyped, WorkerType
  <2>4. Served'
    BY <1>9, <2>2, <2>3
  <2>5. Taken(b, r)
    BY <1>2, <1>3, <1>4, <1>5, <1>7, <1>11, <1>10, <2>1, <2>2, <2>3, <2>4
      DEF Taken
  <2> QED  BY <1>2, <2>5
<1>12. CASE ~Settled(r)
  <2>1. /\ worker' = [worker EXCEPT ![b] = [loop |-> "busy", fifo |-> Tail(@.fifo), active |-> r]]
        /\ task' = [task EXCEPT ![r].pc = "new"]
    BY <1>12 DEF Take, r
  <2>2. worker' \in [Bots -> WorkerType]
    BY <1>1, <1>2, <2>1 DEF WorkerTyped, WorkerType
  <2>3. worker'[b].loop = "busy" /\ worker'[b].active = r
    BY <1>1, <2>1 DEF WorkerTyped, WorkerType
  <2>4. Served'
    BY <1>9, <2>2, <2>3
  <2>5. worker[b].active = NoRun
    BY DEF Take, Served
  <2>6. task' \in [Runs -> TaskType]
    <3>1. task[r] \in TaskType /\ [task[r] EXCEPT !.pc = "new"] \in TaskType
      BY <1>2 DEF TaskTyped, TaskType
    <3> QED  BY <2>1, <3>1 DEF TaskTyped
  <2>7. /\ \A q \in Runs : q # r => task'[q] = task[q]
        /\ task'[r].pc = "new" /\ (task'[r].beats <=> task[r].beats)
        /\ task'[r].ask = task[r].ask
        /\ task'[r].asked = task[r].asked /\ task'[r].answered = task[r].answered
    BY <1>2, <2>1 DEF TaskTyped, TaskType
  <2>8. Taken(b, r)
    BY <1>2, <1>3, <1>4, <1>5, <1>7, <1>12, <1>10, <2>2, <2>3, <2>4, <2>5,
       <2>6, <2>7 DEF Taken
  <2> QED  BY <1>2, <2>8
<1> QED  BY <1>11, <1>12

(* The task of r has been cancelled while its lifecycle lock was lock: the  *)
(* worker's loop dies with it, or the task ends the run itself.             *)
Killed(r, lock) ==
    LET kept == IF lock = "exec" THEN "free" ELSE lock IN
    /\ mem' \in [Runs -> MemType] /\ task' \in [Runs -> TaskType]
    /\ fin' \in [Runs -> [Actors -> FinType]] /\ worker' \in [Bots -> WorkerType]
    /\ \A q \in Runs : q # r => /\ mem'[q] = mem[q] /\ task'[q] = task[q]
                                /\ fin'[q] = fin[q] /\ stray'[q] = stray[q]
    /\ stray' \in [Runs -> SUBSET Jobs]
    /\ stray'[r] \subseteq stray[r] \cup Outstanding(r)
    /\ \A c \in Callers : fin'[r][c] = fin[r][c]
    /\ mem'[r].status = mem[r].status /\ mem'[r].handle = mem[r].handle
    /\ task'[r].beats => task[r].beats
    /\ \/ /\ task[r].pc \in {"new", "claim", "failover", "reopen", "settle", "unwind"}
          /\ Over(r) /\ Idles(r, "dead") /\ fin'[r]["exec"].step = "idle"
          /\ mem'[r].lock = IF kept = "beat" THEN "free" ELSE kept
          /\ mem'[r].pending = mem[r].pending
       \/ /\ task[r].pc \notin {"new", "claim", "failover", "settle", "unwind"}
          /\ UNCHANGED worker
          /\ task'[r].ask = task[r].ask
          /\ task'[r].asked = task[r].asked /\ task'[r].answered = task[r].answered
          /\ \/ /\ Settled(r) /\ task'[r].pc = "unwind" /\ fin'[r]["exec"].step = "idle"
                /\ mem'[r].lock = kept /\ mem'[r].pending = mem[r].pending
             \/ /\ ~Settled(r) /\ task'[r].pc = "settle"
                /\ fin'[r]["exec"].status = "cancelled"
                /\ fin'[r]["exec"].step = IF kept = "free" THEN "expire" ELSE "lock"
                /\ mem'[r].lock = IF kept = "free" THEN "exec" ELSE kept
                /\ mem'[r].pending = IF kept = "free" THEN {} ELSE mem[r].pending

(* What a cancelled task leaves of what is remembered of its run.           *)
Freed(m, r, escapes) ==
    [m EXCEPT ![r].lock = IF @ = "exec" \/ (escapes /\ @ = "beat") THEN "free" ELSE @,
              ![r].finishing = @ /\ fin[r]["exec"].step # "commit"]

LEMMA FreedIs ==
    ASSUME NEW m \in [Runs -> MemType], NEW r \in Runs, NEW escapes \in BOOLEAN
    PROVE  /\ Freed(m, r, escapes) \in [Runs -> MemType]
           /\ \A q \in Runs : q # r => Freed(m, r, escapes)[q] = m[q]
           /\ Freed(m, r, escapes)[r].status = m[r].status
           /\ Freed(m, r, escapes)[r].handle = m[r].handle
           /\ Freed(m, r, escapes)[r].pending = m[r].pending
           /\ Freed(m, r, escapes)[r].lock
                = IF m[r].lock = "exec" \/ (escapes /\ m[r].lock = "beat") THEN "free" ELSE m[r].lock
<1> DEFINE l == IF m[r].lock = "exec" \/ (escapes /\ m[r].lock = "beat") THEN "free" ELSE m[r].lock
           f == m[r].finishing /\ fin[r]["exec"].step # "commit"
<1>2. l \in {"free", "beat"} \cup Actors
  BY DEF MemType
<1>3. f \in BOOLEAN
  OBVIOUS
<1>4. Freed(m, r, escapes) = [m EXCEPT ![r].lock = l, ![r].finishing = f]
  BY Zenon DEF Freed
<1> HIDE DEF l, f
<1>5. PICK k \in {"free", "beat"} \cup Actors, g \in BOOLEAN :
         k = l /\ Freed(m, r, escapes) = [m EXCEPT ![r].lock = k, ![r].finishing = g]
  BY <1>2, <1>3, <1>4, Zenon
<1> DEFINE n == [m EXCEPT ![r].lock = k, ![r].finishing = g]
<1>6. /\ n \in [Runs -> MemType] /\ \A q \in Runs : q # r => n[q] = m[q]
      /\ n[r].status = m[r].status /\ n[r].handle = m[r].handle
      /\ n[r].pending = m[r].pending /\ n[r].lock = k
  BY DEF MemType
<1>7. Freed(m, r, escapes) = n /\ k = l
  BY <1>5
<1> HIDE DEF n
<1> QED  BY <1>6, <1>7 DEF l

LEMMA OutstandingJobs ==
    ASSUME TaskTyped, FinTyped, NEW r \in Runs
    PROVE  Outstanding(r) \subseteq Jobs
<1>1. task[r].ask \in Requests \cup {NoRequest} /\ fin[r]["exec"].status \in Terminal
  BY DEF TaskTyped, TaskType, FinTyped, FinType, Actors
<1> QED  BY <1>1 DEF Outstanding, Jobs

LEMMA KillIsKilled ==
    ASSUME MemTyped, TaskTyped, FinTyped, WorkerTyped, StrayTyped, NEW r \in Runs,
           NEW m \in [Runs -> MemType], NEW t \in [Runs -> TaskType], Kill(m, t, r),
           m[r].status = mem[r].status, m[r].handle = mem[r].handle,
           m[r].pending = mem[r].pending, \A q \in Runs : q # r => m[q] = mem[q] /\ t[q] = task[q],
           t[r].pc = task[r].pc, t[r].ask = task[r].ask, t[r].asked = task[r].asked,
           t[r].answered = task[r].answered, t[r].beats => task[r].beats
    PROVE  Killed(r, m[r].lock)
<1>1. PICK late \in Late(r) : stray' = [stray EXCEPT ![r] = @ \cup late]
  BY DEF Kill
<1>2. /\ stray' \in [Runs -> SUBSET Jobs] /\ stray'[r] \subseteq stray[r] \cup Outstanding(r)
      /\ \A q \in Runs : q # r => stray'[q] = stray[q]
  <2>1. late \subseteq Outstanding(r) /\ late \subseteq Jobs
    BY OutstandingJobs DEF Late
  <2> QED  BY <1>1, <2>1 DEF StrayTyped
<1>3. PICK escapes \in Escapes(task[r].pc) :
         IF escapes
         THEN /\ mem' = Freed(m, r, TRUE)
              /\ task' = [t EXCEPT ![r] = NoTask]
              /\ fin' = [fin EXCEPT ![r]["exec"].step = "idle"]
              /\ worker' = [worker EXCEPT ![BotOf[r]].loop = "dead", ![BotOf[r]].active = NoRun]
         ELSE /\ UNCHANGED worker
              /\ IF Settled(r)
                 THEN /\ mem' = Freed(m, r, FALSE)
                      /\ task' = [t EXCEPT ![r].pc = "unwind"]
                      /\ fin' = [fin EXCEPT ![r]["exec"].step = "idle"]
                 ELSE /\ task' = [t EXCEPT ![r].pc = "settle"]
                      /\ _finish(Freed(m, r, FALSE), r, "exec", "cancelled")
  BY Zenon DEF Kill, Freed
<1>4. /\ "exec" \in Actors /\ fin \in [Runs -> [Actors -> FinType]]
      /\ worker \in [Bots -> WorkerType] /\ mem \in [Runs -> MemType] /\ task \in [Runs -> TaskType]
  BY DEF Actors, FinTyped, WorkerTyped, MemTyped, TaskTyped
<1>5. fin' = [fin EXCEPT ![r]["exec"].step = "idle"] =>
         /\ fin' \in [Runs -> [Actors -> FinType]] /\ fin'[r]["exec"].step = "idle"
         /\ \A q \in Runs : q # r => fin'[q] = fin[q]
         /\ \A c \in Callers : fin'[r][c] = fin[r][c]
  <2> SUFFICES ASSUME fin' = [fin EXCEPT ![r]["exec"].step = "idle"]
               PROVE  /\ fin' \in [Runs -> [Actors -> FinType]] /\ fin'[r]["exec"].step = "idle"
                      /\ \A q \in Runs : q # r => fin'[q] = fin[q]
                      /\ \A c \in Callers : fin'[r][c] = fin[r][c]
    OBVIOUS
  <2>1. fin' \in [Runs -> [Actors -> FinType]]
    <3>1. fin[r] \in [Actors -> FinType] /\ fin[r]["exec"] \in FinType
      BY <1>4
    <3> DEFINE x == fin[r]["exec"]
    <3>3. [x EXCEPT !.step = "idle"] \in FinType
      BY <3>1 DEF FinType
    <3>2. [fin[r] EXCEPT !["exec"].step = "idle"] \in [Actors -> FinType]
      BY <1>4, <3>1, <3>3
    <3> QED  BY <1>4, <3>2
  <2> QED  BY <1>4, <2>1 DEF FinType, Callers
<1>6. CASE escapes
  <2>1. task[r].pc \in {"new", "claim", "failover", "reopen", "settle", "unwind"}
    BY <1>3, <1>6 DEF Escapes
  <2>2. Idles(r, "dead")
    BY <1>3, <1>6, Frees
  <2>3. Over(r) /\ ~task'[r].beats
    <3>1. task' = [t EXCEPT ![r] = NoTask]
      BY <1>3, <1>6
    <3>2. NoTask \in TaskType
      <4>1. ASSUME NEW f \in BOOLEAN
            PROVE  [pc |-> "none", ask |-> NoRequest, asked |-> {}, answered |-> {}, beats |-> f]
                     \in TaskType
        BY DEF TaskType
      <4> QED  BY <4>1 DEF NoTask
    <3>3. NoTask.pc = "none" /\ ~NoTask.beats /\ NoTask.asked = {} /\ NoTask.answered = {}
      BY DEF NoTask
    <3> QED  BY <1>4, <3>1, <3>2, <3>3 DEF Over
  <2>4. mem' = Freed(m, r, TRUE) /\ fin' = [fin EXCEPT ![r]["exec"].step = "idle"]
    BY <1>3, <1>6
  <2>5. /\ mem' \in [Runs -> MemType] /\ \A q \in Runs : q # r => mem'[q] = mem[q]
        /\ mem'[r].status = mem[r].status /\ mem'[r].handle = mem[r].handle
        /\ mem'[r].pending = mem[r].pending
        /\ mem'[r].lock = IF m[r].lock \in {"exec", "beat"} THEN "free" ELSE m[r].lock
    <3> DEFINE n == Freed(m, r, TRUE)
    <3>1. /\ n \in [Runs -> MemType] /\ \A q \in Runs : q # r => n[q] = m[q]
          /\ n[r].status = m[r].status /\ n[r].handle = m[r].handle
          /\ n[r].pending = m[r].pending
          /\ n[r].lock
               = IF m[r].lock = "exec" \/ (TRUE /\ m[r].lock = "beat") THEN "free" ELSE m[r].lock
      BY FreedIs, Zenon
    <3>2. mem' = n
      BY <2>4
    <3> HIDE DEF n
    <3> QED  BY <3>1, <3>2
  <2>6. task' \in [Runs -> TaskType] /\ worker' \in [Bots -> WorkerType]
          /\ \A q \in Runs : q # r => task'[q] = task[q]
    BY <2>2, <2>3 DEF Over, Idles
  <2> QED  BY <1>2, <1>5, <2>1, <2>2, <2>3, <2>4, <2>5, <2>6 DEF Killed
<1>7. CASE ~escapes
  <2>1. task[r].pc \notin {"new", "claim", "failover", "settle", "unwind"}
    BY <1>3, <1>7 DEF Escapes
  <2>2. ASSUME NEW to \in {"unwind", "settle"}, task' = [t EXCEPT ![r].pc = to]
        PROVE  /\ task' \in [Runs -> TaskType] /\ \A q \in Runs : q # r => task'[q] = task[q]
               /\ task'[r].pc = to /\ task'[r].ask = task[r].ask
               /\ task'[r].asked = task[r].asked /\ task'[r].answered = task[r].answered
               /\ task'[r].beats => task[r].beats
    <3>1. [t[r] EXCEPT !.pc = to] \in TaskType
      BY DEF TaskType
    <3>2. task' = [t EXCEPT ![r] = [t[r] EXCEPT !.pc = to]]
      BY <2>2
    <3>3. task'[r] = [t[r] EXCEPT !.pc = to]
      BY <3>2
    <3>4. task' \in [Runs -> TaskType] /\ \A q \in Runs : q # r => task'[q] = task[q]
      BY <3>1, <3>2
    <3> QED  BY <3>3, <3>4 DEF TaskType
  <2> DEFINE n == Freed(m, r, FALSE)
  <2>3. /\ n \in [Runs -> MemType] /\ \A q \in Runs : q # r => n[q] = mem[q]
        /\ n[r].status = mem[r].status /\ n[r].handle = mem[r].handle
        /\ n[r].pending = mem[r].pending
        /\ n[r].lock = IF m[r].lock = "exec" THEN "free" ELSE m[r].lock
    <3>1. /\ n \in [Runs -> MemType] /\ \A q \in Runs : q # r => n[q] = m[q]
          /\ n[r].status = m[r].status /\ n[r].handle = m[r].handle
          /\ n[r].pending = m[r].pending
          /\ n[r].lock
               = IF m[r].lock = "exec" \/ (FALSE /\ m[r].lock = "beat") THEN "free" ELSE m[r].lock
      BY FreedIs, Zenon
    <3> QED  BY <3>1
  <2>4. CASE Settled(r)
    <3>1. /\ mem' = n /\ task' = [t EXCEPT ![r].pc = "unwind"] /\ UNCHANGED worker
          /\ fin' = [fin EXCEPT ![r]["exec"].step = "idle"]
      BY <1>3, <1>7, <2>4
    <3> HIDE DEF n
    <3>2. /\ task' \in [Runs -> TaskType] /\ \A q \in Runs : q # r => task'[q] = task[q]
          /\ task'[r].pc = "unwind" /\ task'[r].ask = task[r].ask
          /\ task'[r].asked = task[r].asked /\ task'[r].answered = task[r].answered
          /\ task'[r].beats => task[r].beats
      BY <2>2, <3>1
    <3> QED  BY <1>2, <1>4, <1>5, <2>1, <2>3, <2>4, <3>1, <3>2 DEF Killed
  <2>5. CASE ~Settled(r)
    <3>1. /\ task' = [t EXCEPT ![r].pc = "settle"] /\ UNCHANGED worker
          /\ _finish(n, r, "exec", "cancelled")
      BY <1>3, <1>7, <2>5
    <3>2. /\ task' \in [Runs -> TaskType] /\ \A q \in Runs : q # r => task'[q] = task[q]
          /\ task'[r].pc = "settle" /\ task'[r].ask = task[r].ask
          /\ task'[r].asked = task[r].asked /\ task'[r].answered = task[r].answered
          /\ task'[r].beats => task[r].beats
      BY <2>2, <3>1
    <3> HIDE DEF n
    <3>3. /\ fin' \in [Runs -> [Actors -> FinType]] /\ \A q \in Runs : q # r => fin'[q] = fin[q]
          /\ \A c \in Callers : fin'[r][c] = fin[r][c]
          /\ fin'[r]["exec"].status = "cancelled"
          /\ fin'[r]["exec"].step = IF n[r].lock = "free" THEN "expire" ELSE "lock"
      <4>1. fin' = [fin EXCEPT ![r]["exec"] = [step |-> IF n[r].lock = "free" THEN "expire" ELSE "lock",
                                               status |-> "cancelled"]]
        BY <3>1 DEF _finish
      <4> QED  BY <1>4, <4>1 DEF FinType, Callers, Terminal
    <3>4. /\ mem' \in [Runs -> MemType] /\ \A q \in Runs : q # r => mem'[q] = mem[q]
          /\ mem'[r].status = mem[r].status /\ mem'[r].handle = mem[r].handle
          /\ mem'[r].lock = IF n[r].lock = "free" THEN "exec" ELSE n[r].lock
          /\ mem'[r].pending = IF n[r].lock = "free" THEN {} ELSE mem[r].pending
      <4>1. CASE n[r].lock = "free"
        <5>1. mem' = [n EXCEPT ![r].lock = "exec", ![r].finishing = TRUE, ![r].pending = {}]
          BY <3>1, <4>1 DEF _finish
        <5>2. mem' \in [Runs -> MemType]
          BY <1>4, <2>3, <5>1, TakesLock
        <5> QED  BY <2>3, <4>1, <5>1, <5>2 DEF MemType
      <4>2. CASE n[r].lock # "free"
        BY <2>3, <3>1, <4>2 DEF _finish
      <4> QED  BY <4>1, <4>2
    <3> QED  BY <1>2, <1>4, <2>1, <2>3, <2>5, <3>1, <3>2, <3>3, <3>4 DEF Killed
  <2> QED  BY <2>4, <2>5
<1> QED  BY <1>6, <1>7

LEMMA HeartbeatKills ==
    ASSUME MemTyped, TaskTyped, FinTyped, WorkerTyped, StrayTyped, NEW r \in Runs,
           HeartbeatFails(r)
    PROVE  Killed(r, "free")
<1> DEFINE m == [mem EXCEPT ![r].lock = "free"]
           t == [task EXCEPT ![r].beats = FALSE]
<1>1. /\ m \in [Runs -> MemType] /\ m[r].lock = "free" /\ m[r].status = mem[r].status
      /\ m[r].handle = mem[r].handle /\ m[r].pending = mem[r].pending
      /\ \A q \in Runs : q # r => m[q] = mem[q]
  BY DEF MemTyped, MemType
<1>2. t \in [Runs -> TaskType]
  <2>1. ASSUME NEW f \in BOOLEAN PROVE [task EXCEPT ![r].beats = f] \in [Runs -> TaskType]
    BY DEF TaskTyped, TaskType
  <2> QED  BY <2>1
<1>3. /\ t[r].pc = task[r].pc /\ t[r].ask = task[r].ask /\ t[r].asked = task[r].asked
      /\ t[r].answered = task[r].answered /\ \A q \in Runs : q # r => t[q] = task[q]
  BY DEF TaskTyped, TaskType
<1>4. ~t[r].beats
  BY DEF TaskTyped, TaskType
<1>5. Kill(m, t, r)
  BY DEF HeartbeatFails
<1> HIDE DEF m, t
<1>6. Killed(r, m[r].lock)
  BY <1>1, <1>2, <1>3, <1>4, <1>5, KillIsKilled
<1> QED  BY <1>1, <1>6

LEMMA CancelKills ==
    ASSUME MemTyped, TaskTyped, FinTyped, WorkerTyped, StrayTyped, NEW r \in Runs,
           Kill(mem, task, r)
    PROVE  Killed(r, mem[r].lock)
<1>1. mem \in [Runs -> MemType] /\ task \in [Runs -> TaskType]
  BY DEF MemTyped, TaskTyped
<1> QED  BY <1>1, KillIsKilled

-----------------------------------------------------------------------------
(* What the transactions of the ledger do.  The row of another run is kept, *)
(* or forgotten when it is terminal.                                        *)
Kept(r) ==
    /\ token'[r] = token[r] /\ lease'[r] = lease[r]
    /\ row'[r] = row[r] \/ (row[r] \in Terminal /\ row'[r] = "absent")

OthersKept(r) == \A q \in Runs : q # r => Kept(q)

LEMMA LedgerEnqueues ==
    ASSUME LedgerTyped, NEW r \in Runs, Ledger!enqueue(r)
    PROVE  LedgerTyped' /\ OthersKept(r) /\ row[r] = "absent" /\ row'[r] = "queued"
<1>1. 0 \in 0 .. MaxClaims
  BY EngineAssumption
<1> QED  BY <1>1 DEF LedgerTyped, OthersKept, Kept, Ledger!enqueue, Ledger!TypeOK,
                     Ledger!LeaseColumns, Ledger!Rows, Ledger!Active

LEMMA LedgerClaims ==
    ASSUME LedgerTyped, NEW r \in Runs, Ledger!claim(r)
    PROVE  /\ LedgerTyped' /\ OthersKept(r)
           /\ row[r] = "queued" /\ row'[r] \in Ledger!Active
           /\ token'[r] \in 0 .. MaxClaims /\ lease'[r] = "held"
<1>1. token[r] + 1 \in 0 .. MaxClaims
  BY EngineAssumption DEF LedgerTyped, Ledger!claim, Ledger!TypeOK
<1> QED  BY <1>1 DEF LedgerTyped, OthersKept, Kept, Ledger!claim, Ledger!TypeOK,
                     Ledger!LeaseColumns, Ledger!Active

LEMMA LedgerMarks ==
    ASSUME LedgerTyped, NEW r \in Runs, NEW t,
           Ledger!mark_waiting_permission(r, t) \/ Ledger!mark_running(r, t)
    PROVE  /\ LedgerTyped' /\ OthersKept(r) /\ UNCHANGED <<token, lease>>
           /\ row[r] \in Ledger!Active /\ row'[r] \in Ledger!Active /\ t = token[r]
  BY DEF LedgerTyped, OthersKept, Kept, Ledger!mark_waiting_permission, Ledger!mark_running,
         Ledger!RequireActiveLease, Ledger!TypeOK, Ledger!LeaseColumns, Ledger!Active

LEMMA LedgerFailsOver ==
    ASSUME LedgerTyped, NEW r \in Runs, NEW t, Ledger!record_failover(r, t)
    PROVE  /\ LedgerTyped' /\ UNCHANGED <<row, token, lease>> /\ row[r] \in Ledger!Active
           /\ t = token[r]
  BY DEF LedgerTyped, Ledger!record_failover, Ledger!RequireActiveLease, Ledger!TypeOK,
         Ledger!LeaseColumns

LEMMA LedgerFinished ==
    ASSUME LedgerTyped, NEW r \in Runs, NEW s \in Terminal,
           row[r] \in {"queued"} \cup Ledger!Active,
           Ledger!Finished(r, s), settler' \in [Runs -> 0 .. MaxClaims]
    PROVE  /\ LedgerTyped' /\ OthersKept(r) /\ UNCHANGED token
           /\ row'[r] \in {s, "absent"} /\ lease'[r] = "none"
<1> DEFINE status == [row EXCEPT ![r] = s]
           after == [x \in Runs |-> IF x \in {y \in Runs : row[y] \in Ledger!Terminal}
                                    THEN newer[x] \cup {r} ELSE newer[x]]
           gone == Ledger!Surplus(status, after, MaxTerminal)
<1>1. /\ row' = [q \in Runs |-> IF q \in gone THEN "absent" ELSE status[q]]
      /\ older' = [q \in Runs |-> IF q \in gone THEN {} ELSE older[q] \ gone]
      /\ newer' = [q \in Runs |-> IF q \in gone THEN {} ELSE after[q] \ gone]
      /\ lease' = [lease EXCEPT ![r] = "none"] /\ token' = token /\ failovers' = failovers
  BY Zenon DEF Ledger!Finished, Ledger!_prune_db
<1>2. \A q \in gone : q \in Runs /\ status[q] \in Terminal
  BY DEF Ledger!Surplus, Ledger!Terminal, Terminal
<1>3. Ledger!TypeOK
  BY DEF LedgerTyped
<1>4. /\ after \in [Runs -> SUBSET Runs]
      /\ status \in [Runs -> {"absent", "queued"} \cup Ledger!Active \cup Terminal]
  BY <1>3 DEF Ledger!TypeOK, Ledger!Terminal, Terminal
<1>5. status[r] = s /\ \A q \in Runs : q # r => status[q] = row[q]
  BY <1>3 DEF Ledger!TypeOK
<1> HIDE DEF gone, after, status
<1>6. /\ row'[r] \in {s, "absent"}
      /\ \A q \in Runs : q # r => row'[q] = row[q] \/ (row[q] \in Terminal /\ row'[q] = "absent")
  BY <1>1, <1>2, <1>5
<1>7. lease'[r] = "none" /\ \A q \in Runs : q # r => lease'[q] = lease[q]
  BY <1>1, <1>3 DEF Ledger!TypeOK
<1>8. row' \in [Runs -> {"absent", "queued"} \cup Ledger!Active \cup Terminal]
  BY <1>1, <1>4
<1>9. older' \in [Runs -> SUBSET Runs] /\ newer' \in [Runs -> SUBSET Runs]
  BY <1>1, <1>3, <1>4 DEF Ledger!TypeOK
<1>10. lease' \in [Runs -> {"none", "held", "expired"}] /\ token' \in [Runs -> 0 .. MaxClaims]
         /\ failovers' \in [Runs -> Nat]
  BY <1>1, <1>3 DEF Ledger!TypeOK
<1>11. Ledger!TypeOK'
  BY <1>8, <1>9, <1>10 DEF Ledger!TypeOK, Ledger!Terminal, Terminal
<1>12. Ledger!LeaseColumns'
  BY <1>6, <1>7 DEF LedgerTyped, Ledger!LeaseColumns, Ledger!Active, Terminal
<1> QED  BY <1>1, <1>6, <1>7, <1>11, <1>12 DEF LedgerTyped, OthersKept, Kept

LEMMA LedgerFinishes ==
    ASSUME LedgerTyped, NEW r \in Runs, NEW t, NEW s \in Terminal, Ledger!finish(r, t, s)
    PROVE  /\ LedgerTyped' /\ OthersKept(r) /\ UNCHANGED token
           /\ row[r] \in Ledger!Active /\ t = token[r]
           /\ row'[r] \in {s, "absent"} /\ lease'[r] = "none"
<1>1. row[r] \in Ledger!Active /\ t = token[r] /\ Ledger!Finished(r, s)
  BY DEF Ledger!finish, Ledger!RequireActiveLease
<1>2. settler' \in [Runs -> 0 .. MaxClaims]
  BY <1>1 DEF Ledger!finish, LedgerTyped, Ledger!TypeOK
<1> QED  BY <1>1, <1>2, LedgerFinished

LEMMA LedgerCancels ==
    ASSUME LedgerTyped, NEW r \in Runs, Ledger!cancel_queued(r)
    PROVE  /\ LedgerTyped' /\ OthersKept(r) /\ UNCHANGED token
           /\ row[r] = "queued" /\ row'[r] \in {"cancelled", "absent"} /\ lease'[r] = "none"
<1>1. row[r] = "queued" /\ Ledger!Finished(r, "cancelled") /\ "cancelled" \in Terminal
  BY DEF Ledger!cancel_queued, Terminal
<1>2. settler' \in [Runs -> 0 .. MaxClaims]
  BY DEF Ledger!cancel_queued, LedgerTyped, Ledger!TypeOK
<1> QED  BY <1>1, <1>2, LedgerFinished

LEMMA LedgerExpires ==
    ASSUME LedgerTyped, NEW r \in Runs, Ledger!LeaseExpires(r)
    PROVE  LedgerTyped' /\ OthersKept(r) /\ UNCHANGED <<row, token>> /\ lease'[r] = "expired"
  BY DEF LedgerTyped, OthersKept, Kept, Ledger!LeaseExpires, Ledger!TypeOK, Ledger!LeaseColumns

LEMMA LedgerRecovers ==
    ASSUME LedgerTyped, Ledger!recover_startup
    PROVE  /\ LedgerTyped' /\ UNCHANGED token
           /\ \A r \in Runs : row'[r] = IF row[r] \in Ledger!Active THEN "queued" ELSE row[r]
<1> DEFINE back == {r \in Runs : row[r] \in Ledger!Active}
<1>1. /\ row' = [r \in Runs |-> IF r \in back THEN "queued" ELSE row[r]]
      /\ lease' = [r \in Runs |-> IF r \in back THEN "none" ELSE lease[r]]
      /\ UNCHANGED <<token, failovers, older, newer, settler>>
  BY DEF Ledger!recover_startup, Ledger!Requeue
<1> QED  BY <1>1 DEF LedgerTyped, Ledger!TypeOK, Ledger!LeaseColumns, Ledger!Active

LEMMA LedgerRests ==
    ASSUME LedgerTyped, UNCHANGED storeVars
    PROVE  LedgerTyped' /\ UNCHANGED <<row, token, lease>>
  BY DEF LedgerTyped, storeVars, Ledger!TypeOK, Ledger!LeaseColumns

(* The task of r goes to another point.                                     *)
Moves(r, pc) ==
    /\ task' \in [Runs -> TaskType] /\ \A q \in Runs : q # r => task'[q] = task[q]
    /\ task'[r].pc = pc /\ (task'[r].beats <=> task[r].beats)
    /\ task'[r].ask = task[r].ask
    /\ task'[r].asked = task[r].asked /\ task'[r].answered = task[r].answered

LEMMA GoesTo ==
    ASSUME TaskTyped, NEW r \in Runs,
           NEW pc \in {"none", "new", "claim", "finish", "settle", "unwind"} \cup InTurn,
           task' = [task EXCEPT ![r].pc = pc]
    PROVE  Moves(r, pc)
<1>1. task[r] \in TaskType /\ [task[r] EXCEPT !.pc = pc] \in TaskType
  BY DEF TaskTyped, TaskType
<1>2. task' \in [Runs -> TaskType] /\ \A q \in Runs : q # r => task'[q] = task[q]
  BY <1>1 DEF TaskTyped
<1>3. task'[r] = [task[r] EXCEPT !.pc = pc]
  BY <1>1 DEF TaskTyped
<1> QED  BY <1>1, <1>2, <1>3 DEF Moves, TaskType

(* The task ends the run, unless it has settled.                            *)
EndsRun(r, pc, s) ==
    /\ UNCHANGED <<tableVars, procVars, worker, stray, user, call>>
    /\ \/ Settled(r) /\ Moves(r, "unwind") /\ UNCHANGED <<mem, fin>>
       \/ ~Settled(r) /\ Moves(r, pc) /\ Called(r, "exec", s, mem[r].lock = "free")

LEMMA TurnEndsRun ==
    ASSUME MemTyped, TaskTyped, FinTyped, NEW r \in Runs, TurnEnds(r)
    PROVE  task[r].pc = "turn" /\ EndsRun(r, "finish", "complete")
<1>1. "exec" \in Actors /\ "complete" \in Terminal
  BY DEF Actors, Terminal
<1> QED  BY <1>1, GoesTo, FinishIsCalled DEF TurnEnds, Goto, EndsRun

LEMMA NoFailoverEndsRun ==
    ASSUME MemTyped, TaskTyped, FinTyped, NEW r \in Runs, NoFailover(r)
    PROVE  task[r].pc = "failover" /\ EndsRun(r, "settle", "failed")
<1>1. "exec" \in Actors /\ "failed" \in Terminal
  BY DEF Actors, Terminal
<1> QED  BY <1>1, GoesTo, FinishIsCalled DEF NoFailover, Settle, Goto, EndsRun

LEMMA ClaimFailsRun ==
    ASSUME MemTyped, TaskTyped, FinTyped, NEW r \in Runs, ClaimFails(r)
    PROVE  /\ task[r].pc = "claim" /\ Moves(r, "settle") /\ Called(r, "exec", "failed", TRUE)
           /\ UNCHANGED <<tableVars, procVars, worker, stray, user, call>>
<1> DEFINE m == [mem EXCEPT ![r].lock = "free"]
<1>1. /\ m \in [Runs -> MemType] /\ m[r].lock = "free" /\ m[r].status = mem[r].status
      /\ m[r].handle = mem[r].handle /\ \A q \in Runs : q # r => m[q] = mem[q]
  BY DEF MemTyped, MemType
<1>2. _finish(m, r, "exec", "failed")
  BY DEF ClaimFails, Settle
<1>3. "exec" \in Actors /\ "failed" \in Terminal
  BY DEF Actors, Terminal
<1> HIDE DEF m
<1>4. Called(r, "exec", "failed", TRUE)
  BY <1>1, <1>2, <1>3, FinishReleased
<1>5. task[r].pc = "claim" /\ task' = [task EXCEPT ![r].pc = "settle"]
        /\ UNCHANGED <<tableVars, procVars, worker, stray, user, call>>
  BY DEF ClaimFails, Settle
<1> QED  BY <1>4, <1>5, GoesTo

(* The task is over, or claims the row.                                     *)
LEMMA BeginIs ==
    ASSUME MemTyped, TaskTyped, WorkerTyped, NEW r \in Runs, Begin(r)
    PROVE  /\ task[r].pc = "new" /\ mem[r].lock = "free"
           /\ UNCHANGED <<tableVars, procVars, fin, stray, user, call>>
           /\ \/ Over(r) /\ Idles(r, "idle") /\ UNCHANGED mem
              \/ /\ ~Settled(r) /\ Moves(r, "claim") /\ UNCHANGED worker
                 /\ mem' \in [Runs -> MemType] /\ \A q \in Runs : q # r => mem'[q] = mem[q]
                 /\ mem'[r].lock = "exec" /\ mem'[r].status = mem[r].status
                 /\ mem'[r].handle = mem[r].handle /\ mem'[r].pending = mem[r].pending
<1>1. /\ task[r].pc = "new" /\ mem[r].lock = "free"
      /\ UNCHANGED <<tableVars, procVars, fin, stray, user, call>>
  BY DEF Begin
<1>2. CASE Settled(r) \/ mem[r].finishing
  BY <1>1, <1>2, EndIsOver DEF Begin
<1>3. CASE ~(Settled(r) \/ mem[r].finishing)
  <2>1. /\ task' = [task EXCEPT ![r].pc = "claim"] /\ UNCHANGED worker
        /\ mem' = [mem EXCEPT ![r].lock = "exec"]
    BY <1>3 DEF Begin
  <2>2. Moves(r, "claim")
    BY <2>1, GoesTo
  <2>3. /\ mem' \in [Runs -> MemType] /\ \A q \in Runs : q # r => mem'[q] = mem[q]
        /\ mem'[r].lock = "exec" /\ mem'[r].status = mem[r].status
        /\ mem'[r].handle = mem[r].handle /\ mem'[r].pending = mem[r].pending
    BY <2>1 DEF MemTyped, MemType, Actors
  <2> QED  BY <1>1, <1>3, <2>1, <2>2, <2>3
<1> QED  BY <1>2, <1>3

LEMMA UnwindIs ==
    ASSUME MemTyped, TaskTyped, WorkerTyped, NEW r \in Runs, Unwind(r)
    PROVE  /\ task[r].pc = "unwind" /\ Over(r) /\ Idles(r, "idle")
           /\ UNCHANGED <<tableVars, procVars, fin, stray, user, call>>
           /\ mem' \in [Runs -> MemType] /\ \A q \in Runs : q # r => mem'[q] = mem[q]
           /\ mem'[r].lock = IF mem[r].lock = "beat" THEN "free" ELSE mem[r].lock
           /\ mem'[r].status = mem[r].status
           /\ mem'[r].handle = mem[r].handle /\ mem'[r].pending = mem[r].pending
<1>1. /\ task[r].pc = "unwind" /\ Over(r) /\ Idles(r, "idle")
      /\ UNCHANGED <<tableVars, procVars, fin, stray, user, call>>
  BY EndIsOver DEF Unwind
<1>2. mem' = [mem EXCEPT ![r].lock = IF mem[r].lock = "beat" THEN "free" ELSE mem[r].lock]
  BY DEF Unwind
<1>3. /\ mem' \in [Runs -> MemType] /\ \A q \in Runs : q # r => mem'[q] = mem[q]
      /\ mem'[r].lock = IF mem[r].lock = "beat" THEN "free" ELSE mem[r].lock
      /\ mem'[r].status = mem[r].status
      /\ mem'[r].handle = mem[r].handle /\ mem'[r].pending = mem[r].pending
  BY <1>2 DEF MemTyped, MemType
<1> QED  BY <1>1, <1>3

(* Where the call c on r goes next.                                         *)
Returns(r, c, pc, target) ==
    /\ call' \in [Runs -> [Callers -> CallType]] /\ \A q \in Runs : q # r => call'[q] = call[q]
    /\ \A d \in Callers : d # c => call'[r][d] = call[r][d]
    /\ call'[r][c].pc = pc /\ call'[r][c].target = target

LEMMA CallReturns ==
    ASSUME CallTyped, NEW r \in Runs, NEW c \in Callers, NEW target \in Runs \cup {NoRun},
           NEW pc \in {"idle", "polite", "gather", "finish"},
           call' = [call EXCEPT ![r][c] = [pc |-> pc, target |-> target]]
    PROVE  Returns(r, c, pc, target)
<1>1. [pc |-> pc, target |-> target] \in CallType
  BY DEF CallType
<1> QED  BY <1>1 DEF Returns, CallTyped

(* The _finish of r by a goes to another step.                              *)
Stepped(r, a, step) ==
    /\ fin' \in [Runs -> [Actors -> FinType]] /\ \A q \in Runs : q # r => fin'[q] = fin[q]
    /\ \A b \in Actors : b # a => fin'[r][b] = fin[r][b]
    /\ fin'[r][a].step = step /\ fin'[r][a].status = fin[r][a].status

LEMMA StepsTo ==
    ASSUME FinTyped, NEW r \in Runs, NEW a \in Actors,
           NEW step \in {"idle", "lock", "expire", "commit", "govern"}, Step(r, a, step)
    PROVE  Stepped(r, a, step)
<1>1. fin[r] \in [Actors -> FinType] /\ fin[r][a] \in FinType
  BY DEF FinTyped
<1> DEFINE x == fin[r][a]
<1>2. [x EXCEPT !.step = step] \in FinType
  BY <1>1 DEF FinType
<1>3. fin' = [fin EXCEPT ![r][a] = [x EXCEPT !.step = step]]
  BY DEF Step
<1>4. fin'[r][a] = [x EXCEPT !.step = step] /\ \A b \in Actors : b # a => fin'[r][b] = fin[r][b]
  BY <1>1, <1>3 DEF FinTyped
<1>5. fin' \in [Runs -> [Actors -> FinType]] /\ \A q \in Runs : q # r => fin'[q] = fin[q]
  BY <1>1, <1>2, <1>3 DEF FinTyped
<1> QED  BY <1>1, <1>4, <1>5 DEF Stepped, FinType

(* The task or the call that has called _finish goes on.                    *)
GoesOn(r, a) ==
    /\ Stepped(r, a, "idle")
    /\ \/ a = "exec" /\ Moves(r, "unwind") /\ UNCHANGED call
       \/ a \in Callers /\ Returns(r, a, "idle", call[r][a].target) /\ UNCHANGED task

LEMMA FinGoesOn ==
    ASSUME TaskTyped, FinTyped, CallTyped, NEW r \in Runs, NEW a \in Actors, FinReturns(r, a)
    PROVE  GoesOn(r, a)
<1>1. Stepped(r, a, "idle")
  BY StepsTo DEF FinReturns
<1>2. CASE a = "exec"
  BY <1>1, <1>2, GoesTo DEF FinReturns, Goto, GoesOn
<1>3. CASE a # "exec"
  <2>1. a \in Callers /\ call[r][a] \in CallType /\ call[r][a].target \in Runs \cup {NoRun}
    BY <1>3 DEF Actors, CallTyped, CallType
  <2>2. /\ call' = [call EXCEPT ![r][a] = [pc |-> "idle", target |-> call[r][a].target]]
        /\ UNCHANGED task
    BY <1>3, <2>1 DEF FinReturns, CallType, CallTyped
  <2> QED  BY <1>1, <2>1, <2>2, CallReturns DEF GoesOn
<1> QED  BY <1>2, <1>3

(* The steps of a _finish: after waiting for the lock, or finding the run   *)
(* settled, it expires the gates, commits the outcome and gives the         *)
(* reservation back.                                                        *)
LEMMA FinLockIs ==
    ASSUME MemTyped, TaskTyped, FinTyped, CallTyped, NEW r \in Runs, NEW a \in Actors,
           FinLock(r, a)
    PROVE  /\ fin[r][a].step = "lock" /\ mem[r].lock = "free"
           /\ UNCHANGED <<tableVars, procVars, worker, stray, user>>
           /\ \/ Settled(r) /\ GoesOn(r, a) /\ UNCHANGED mem
              \/ /\ ~Settled(r) /\ Called(r, a, fin[r][a].status, TRUE) /\ UNCHANGED <<task, call>>
<1>1. fin[r][a].status \in Terminal
  BY DEF FinTyped, FinType
<1> QED  BY <1>1, FinGoesOn, FinishIsCalled DEF FinLock

LEMMA FinExpireIs ==
    ASSUME FinTyped, NEW r \in Runs, NEW a \in Actors, FinExpire(r, a)
    PROVE  /\ fin[r][a].step = "expire" /\ expire_run(r) /\ Stepped(r, a, "commit")
           /\ UNCHANGED <<storeVars, gov, procVars, mem, worker, task, stray, user, call>>
  BY StepsTo DEF FinExpire

LEMMA FinCommitIs ==
    ASSUME FinTyped, LedgerTyped, NEW r \in Runs, NEW a \in Actors, FinCommit(r, a)
    PROVE  /\ fin[r][a].step = "commit" /\ Stepped(r, a, "govern")
           /\ UNCHANGED <<gov, gate, procVars, mem, worker, task, stray, user, call>>
           /\ LedgerTyped' /\ UNCHANGED token
           /\ \/ /\ row[r] \in Ledger!Active /\ mem[r].handle = token[r] /\ OthersKept(r)
                 /\ row'[r] \in {fin[r][a].status, "absent"}
              \/ row[r] = "queued" /\ fin[r][a].status = "cancelled" /\ OthersKept(r)
              \/ ~Holds(r) /\ UNCHANGED <<row, lease>>
<1>1. fin[r][a].status \in Terminal
  BY DEF FinTyped, FinType
<1>2. /\ fin[r][a].step = "commit" /\ Stepped(r, a, "govern")
      /\ UNCHANGED <<gov, gate, procVars, mem, worker, task, stray, user, call>>
  BY StepsTo DEF FinCommit
<1>3. CASE Ledger!finish(r, mem[r].handle, fin[r][a].status)
  BY <1>1, <1>2, <1>3, LedgerFinishes
<1>4. CASE fin[r][a].status = "cancelled" /\ Ledger!cancel_queued(r)
  BY <1>2, <1>4, LedgerCancels
<1>5. CASE ~Holds(r) /\ UNCHANGED storeVars
  BY <1>2, <1>5, LedgerRests
<1> QED  BY <1>3, <1>4, <1>5 DEF FinCommit

LEMMA FinGovernIs ==
    ASSUME MemTyped, TaskTyped, FinTyped, CallTyped, NEW r \in Runs, NEW a \in Actors,
           FinGovern(r, a)
    PROVE  /\ fin[r][a].step = "govern" /\ GoesOn(r, a) /\ finish_run(r)
           /\ UNCHANGED <<storeVars, gate, procVars, worker, stray, user>>
           /\ mem' \in [Runs -> MemType] /\ \A q \in Runs : q # r => mem'[q] = mem[q]
           /\ mem'[r].status = fin[r][a].status /\ mem'[r].lock = "free"
           /\ mem'[r].pending = mem[r].pending /\ mem'[r].handle = mem[r].handle
<1>1. fin[r][a].status \in Terminal
  BY DEF FinTyped, FinType
<1>2. PICK f \in BOOLEAN :
         mem' = [mem EXCEPT ![r].status = fin[r][a].status, ![r].finishing = f, ![r].lock = "free"]
  BY DEF FinGovern
<1>3. mem' \in [Runs -> MemType] /\ \A q \in Runs : q # r => mem'[q] = mem[q]
  <2> DEFINE x == [mem[r] EXCEPT !.status = fin[r][a].status, !.finishing = f, !.lock = "free"]
  <2>1. mem[r] \in MemType
    BY DEF MemTyped
  <2>2. x \in MemType
    BY <1>1, <2>1 DEF MemType
  <2>3. mem' = [mem EXCEPT ![r] = x]
    BY <1>2
  <2> HIDE DEF x
  <2> QED  BY <2>2, <2>3 DEF MemTyped
<1>4. /\ mem'[r].status = fin[r][a].status /\ mem'[r].lock = "free"
      /\ mem'[r].pending = mem[r].pending /\ mem'[r].handle = mem[r].handle
  BY <1>1, <1>2 DEF MemTyped, MemType
<1> QED  BY <1>3, <1>4, FinGoesOn DEF FinGovern

(* The call has no task to stop, and ends the run unless it has settled.    *)
EndsCall(r, c) ==
    \/ Settled(r) /\ Returns(r, c, "idle", NoRun) /\ UNCHANGED <<mem, fin>>
    \/ ~Settled(r) /\ Returns(r, c, "finish", NoRun) /\ Called(r, c, "cancelled", mem[r].lock = "free")

LEMMA CancelEndsCall ==
    ASSUME MemTyped, FinTyped, CallTyped, NEW r \in Runs, NEW c \in Callers, CancelFinishes(r, c)
    PROVE  EndsCall(r, c)
<1>1. c \in Actors /\ "cancelled" \in Terminal
  BY DEF Actors, Callers, Terminal
<1> QED  BY <1>1, CallReturns, FinishIsCalled DEF CancelFinishes, EndsCall

LEMMA CancelIs ==
    ASSUME MemTyped, FinTyped, CallTyped, NEW r \in Runs, NEW c \in Callers, Cancel(r, c)
    PROVE  /\ UNCHANGED <<tableVars, procVars, worker, task, stray, user>>
           /\ call[r][c].pc = "idle" /\ Open(r) /\ proc \in {"up", "closing"}
           /\ \/ /\ worker[BotOf[r]].active = r /\ UNCHANGED <<mem, fin>>
                 /\ Returns(r, c, "polite", call[r][c].target)
              \/ worker[BotOf[r]].active # r /\ EndsCall(r, c)
<1>1. CASE worker[BotOf[r]].active = r
  <2>1. call[r][c] \in CallType /\ call[r][c].target \in Runs \cup {NoRun}
    BY DEF CallTyped, CallType
  <2>2. call' = [call EXCEPT ![r][c] = [pc |-> "polite", target |-> call[r][c].target]]
    BY <1>1, <2>1 DEF Cancel, CallType, CallTyped
  <2>3. Returns(r, c, "polite", call[r][c].target)
    BY <2>1, <2>2, CallReturns
  <2> QED  BY <1>1, <2>3 DEF Cancel
<1>2. CASE worker[BotOf[r]].active # r
  BY <1>2, CancelEndsCall DEF Cancel
<1> QED  BY <1>1, <1>2

LEMMA CancelTaskIs ==
    ASSUME MemTyped, TaskTyped, FinTyped, WorkerTyped, StrayTyped, CallTyped,
           NEW r \in Runs, NEW c \in Callers, CancelTask(r, c)
    PROVE  /\ UNCHANGED <<tableVars, procVars, user>> /\ call[r][c].pc = "polite"
           /\ \/ /\ worker[BotOf[r]].active = NoRun /\ EndsCall(r, c)
                 /\ UNCHANGED <<worker, task, stray>>
              \/ \E target \in Runs :
                    /\ worker[BotOf[r]].active = target /\ Killed(target, mem[target].lock)
                    /\ Returns(r, c, "gather", target)
<1> DEFINE target == worker[BotOf[r]].active
<1>1. target \in Runs \cup {NoRun}
  BY EngineAssumption DEF WorkerTyped, WorkerType
<1>2. CASE target = NoRun
  BY <1>2, CancelEndsCall DEF CancelTask
<1>3. CASE target # NoRun
  <2>1. target \in Runs
    BY <1>1, <1>3
  <2>2. /\ Kill(mem, task, target)
        /\ call' = [call EXCEPT ![r][c] = [pc |-> "gather", target |-> target]]
    BY <1>3 DEF CancelTask
  <2>3. Returns(r, c, "gather", target)
    BY <1>1, <2>2, CallReturns
  <2>4. Killed(target, mem[target].lock)
    BY <2>1, <2>2, CancelKills
  <2> QED  BY <2>1, <2>3, <2>4 DEF CancelTask
<1> QED  BY <1>2, <1>3

LEMMA TaskGoneIs ==
    ASSUME MemTyped, FinTyped, CallTyped, NEW r \in Runs, NEW c \in Callers, TaskGone(r, c)
    PROVE  /\ UNCHANGED <<tableVars, procVars, worker, task, stray, user>> /\ EndsCall(r, c)
           /\ call[r][c].pc = "gather" /\ task[call[r][c].target].pc = "none"
  BY CancelEndsCall DEF TaskGone

LEMMA HeartbeatIs ==
    ASSUME MemTyped, TaskTyped, FinTyped, WorkerTyped, StrayTyped, NEW r \in Runs,
           HeartbeatFails(r)
    PROVE  /\ mem[r].lock = "beat" /\ Killed(r, "free")
           /\ UNCHANGED <<tableVars, procVars, user, call>>
  BY HeartbeatKills DEF HeartbeatFails

(* A process that ends takes everything but the tables with it.             *)
LEMMA Forgets ==
    ASSUME Closed \/ Crash
    PROVE  /\ proc' = "off" /\ UNCHANGED <<tableVars, boots>>
           /\ sub' = NoSub /\ lapsed' = {} /\ boot' = {}
           /\ MemTyped' /\ WorkerTyped' /\ TaskTyped' /\ FinTyped' /\ UserTyped' /\ CallTyped'
           /\ StrayTyped'
           /\ \A r \in Runs :
                /\ mem'[r].status = "none" /\ mem'[r].lock = "free" /\ mem'[r].pending = {}
                /\ task'[r].pc = "none" /\ ~task'[r].beats
                /\ task'[r].asked = {} /\ task'[r].answered = {}
                /\ \A a \in Actors : fin'[r][a].step = "idle" /\ fin'[r][a].status = "complete"
                /\ user'[r].pc = "idle" /\ stray'[r] = {} /\ ~Queued(r)'
                /\ \A c \in Callers : call'[r][c].pc = "idle"
           /\ \A b \in Bots : /\ worker'[b].loop = "none" /\ worker'[b].active = NoRun
                              /\ worker'[b].fifo = <<>>
<1>1. Fresh /\ proc' = "off" /\ UNCHANGED <<tableVars, boots>>
  BY DEF Closed, Crash
<1>2. MemTyped'
  <2>1. ASSUME NEW f \in BOOLEAN
        PROVE  [status |-> "none", finishing |-> f, pending |-> {}, handle |-> 0, lock |-> "free"]
                 \in MemType
    BY EngineAssumption DEF MemType
  <2> QED  BY <1>1, <2>1 DEF MemTyped, Fresh, NoState
<1>3. WorkerTyped'
  BY <1>1 DEF WorkerTyped, Fresh, NoWorker, WorkerType
<1>4. TaskTyped'
  <2>1. ASSUME NEW f \in BOOLEAN
        PROVE  [pc |-> "none", ask |-> NoRequest, asked |-> {}, answered |-> {}, beats |-> f]
                 \in TaskType
    BY DEF TaskType
  <2> QED  BY <1>1, <2>1 DEF TaskTyped, Fresh, NoTask
<1>5. FinTyped'
  BY <1>1 DEF FinTyped, Fresh, NoFin, FinType, Terminal
<1>6. UserTyped' /\ CallTyped' /\ StrayTyped'
  BY <1>1 DEF UserTyped, CallTyped, StrayTyped, Fresh, NoUser, NoCall, UserType, CallType
<1>7. \A b \in Bots : worker'[b].loop = "none" /\ worker'[b].active = NoRun /\ worker'[b].fifo = <<>>
  BY <1>1 DEF Fresh, NoWorker
<1>8. \A r \in Runs : ~Queued(r)'
  BY <1>7, EngineAssumption DEF Queued
<1>9. ASSUME NEW r \in Runs
      PROVE  /\ mem'[r].status = "none" /\ mem'[r].lock = "free" /\ mem'[r].pending = {}
             /\ task'[r].pc = "none" /\ ~task'[r].beats
             /\ task'[r].asked = {} /\ task'[r].answered = {}
             /\ \A a \in Actors : fin'[r][a].step = "idle" /\ fin'[r][a].status = "complete"
             /\ user'[r].pc = "idle" /\ stray'[r] = {}
             /\ \A c \in Callers : call'[r][c].pc = "idle"
  BY <1>1 DEF Fresh, NoState, NoTask, NoFin, NoUser, NoCall
<1>10. sub' = NoSub /\ lapsed' = {} /\ boot' = {}
  BY <1>1 DEF Fresh
<1> QED  BY <1>1, <1>2, <1>3, <1>4, <1>5, <1>6, <1>7, <1>8, <1>9, <1>10

(* What is remembered of r, and of its task.                                *)
Remembers(r, status, pending, handle, lock) ==
    /\ mem' \in [Runs -> MemType] /\ \A q \in Runs : q # r => mem'[q] = mem[q]
    /\ mem'[r].status = status /\ mem'[r].pending = pending
    /\ mem'[r].handle = handle /\ mem'[r].lock = lock

Acts(r, pc, ask, asked, answered) ==
    /\ task' \in [Runs -> TaskType] /\ \A q \in Runs : q # r => task'[q] = task[q]
    /\ task'[r].pc = pc /\ task'[r].ask = ask
    /\ task'[r].asked = asked /\ task'[r].answered = answered

LEMMA MovesActs ==
    ASSUME NEW r \in Runs, NEW pc, Moves(r, pc)
    PROVE  Acts(r, pc, task[r].ask, task[r].asked, task[r].answered)
  BY DEF Moves, Acts

LEMMA ClaimedIs ==
    ASSUME LedgerTyped, MemTyped, TaskTyped, NEW r \in Runs, Claimed(r)
    PROVE  /\ task[r].pc = "claim"
           /\ LedgerTyped' /\ OthersKept(r) /\ row'[r] \in Ledger!Active
           /\ Remembers(r, "running", mem[r].pending, token'[r], "free")
           /\ Acts(r, "turn", task[r].ask, task[r].asked, task[r].answered)
           /\ UNCHANGED <<gov, gate, procVars, worker, fin, stray, user, call>>
<1>1. /\ task[r].pc = "claim" /\ Ledger!claim(r)
      /\ UNCHANGED <<gov, gate, procVars, worker, fin, stray, user, call>>
  BY DEF Claimed
<1>2. /\ LedgerTyped' /\ OthersKept(r) /\ row'[r] \in Ledger!Active
      /\ token'[r] \in 0 .. MaxClaims
  BY <1>1, LedgerClaims
<1>3. Remembers(r, "running", mem[r].pending, token'[r], "free")
  <2>1. mem' = [mem EXCEPT ![r].lock = "free", ![r].handle = token'[r], ![r].status = "running"]
    BY DEF Claimed
  <2> QED  BY <1>2, <2>1 DEF MemTyped, MemType, Remembers
<1>4. Acts(r, "turn", task[r].ask, task[r].asked, task[r].answered)
  <2>1. PICK f \in BOOLEAN : task' = [task EXCEPT ![r].pc = "turn", ![r].beats = f]
    BY DEF Claimed
  <2> DEFINE x == [task[r] EXCEPT !.pc = "turn", !.beats = f]
  <2>2. task[r] \in TaskType
    BY DEF TaskTyped
  <2>3. x \in TaskType
    BY <2>2 DEF TaskType, InTurn
  <2>4. task' = [task EXCEPT ![r] = x]
    BY <2>1
  <2>5. /\ x.pc = "turn" /\ x.ask = task[r].ask
        /\ x.asked = task[r].asked /\ x.answered = task[r].answered
    BY <2>2 DEF TaskType
  <2> HIDE DEF x
  <2> QED  BY <2>3, <2>4, <2>5 DEF TaskTyped, Acts
<1> QED  BY <1>1, <1>2, <1>3, <1>4

LEMMA AgentAsksIs ==
    ASSUME MemTyped, TaskTyped, NEW r \in Runs, NEW q \in Requests, AgentAsks(r, q)
    PROVE  /\ task[r].pc = "turn" /\ user[r].pc = "idle" /\ q \notin task[r].asked
           /\ Remembers(r, mem[r].status, mem[r].pending \cup {q}, mem[r].handle, mem[r].lock)
           /\ Acts(r, "eval", q, task[r].asked \cup {q}, task[r].answered)
           /\ UNCHANGED <<tableVars, procVars, worker, fin, stray, user, call>>
<1>1. /\ task[r].pc = "turn" /\ user[r].pc = "idle" /\ q \notin task[r].asked
      /\ UNCHANGED <<tableVars, procVars, worker, fin, stray, user, call>>
  BY DEF AgentAsks, UserBusy
<1>2. Remembers(r, mem[r].status, mem[r].pending \cup {q}, mem[r].handle, mem[r].lock)
  <2>1. mem' = [mem EXCEPT ![r].pending = mem[r].pending \cup {q}]
    BY DEF AgentAsks
  <2> QED  BY <2>1 DEF MemTyped, MemType, Remembers
<1>3. Acts(r, "eval", q, task[r].asked \cup {q}, task[r].answered)
  <2> DEFINE asked == task[r].asked \cup {q}
             x == [task[r] EXCEPT !.pc = "eval", !.ask = q, !.asked = asked]
  <2>1. task' = [task EXCEPT ![r] = x]
    BY DEF AgentAsks
  <2>2. task[r] \in TaskType /\ asked \in SUBSET Requests
    BY DEF TaskTyped, TaskType
  <2> HIDE DEF asked
  <2>3. /\ x \in TaskType /\ x.pc = "eval" /\ x.ask = q /\ x.asked = asked
        /\ x.answered = task[r].answered
    BY <2>2 DEF TaskType, InTurn
  <2> HIDE DEF x
  <2> QED  BY <2>1, <2>3 DEF TaskTyped, Acts, asked
<1> QED  BY <1>1, <1>2, <1>3

LEMMA AnsweredIs ==
    ASSUME MemTyped, NEW r \in Runs, NEW q, Answered(r, q)
    PROVE  \E s \in {mem[r].status, "running"} :
              /\ Remembers(r, s, mem[r].pending \ {q}, mem[r].handle, mem[r].lock)
              /\ Settled(r) => s = mem[r].status
<1> DEFINE s == IF mem[r].pending \subseteq {q} /\ ~Settled(r) THEN "running" ELSE mem[r].status
<1>1. mem' = [mem EXCEPT ![r].pending = mem[r].pending \ {q}, ![r].status = s]
  BY DEF Answered, MemTyped, MemType
<1>2. s \in {mem[r].status, "running"} /\ (Settled(r) => s = mem[r].status)
  OBVIOUS
<1> HIDE DEF s
<1>3. Remembers(r, s, mem[r].pending \ {q}, mem[r].handle, mem[r].lock)
  BY <1>1, <1>2 DEF MemTyped, MemType, Remembers
<1> QED  BY <1>2, <1>3

LEMMA PolicySendsIs ==
    ASSUME MemTyped, TaskTyped, NEW r \in Runs, task[r].ask \in task[r].asked, PolicySends(r)
    PROVE  /\ task[r].pc = "send"
           /\ \E s \in {mem[r].status, "running"} :
                 /\ Remembers(r, s, mem[r].pending \ {task[r].ask}, mem[r].handle, mem[r].lock)
                 /\ Settled(r) => s = mem[r].status
           /\ Acts(r, "auto", task[r].ask, task[r].asked, task[r].answered \cup {task[r].ask})
           /\ UNCHANGED <<tableVars, procVars, worker, fin, stray, user, call>>
<1>1. /\ task[r].pc = "send" /\ Answered(r, task[r].ask)
      /\ UNCHANGED <<tableVars, procVars, worker, fin, stray, user, call>>
  BY DEF PolicySends
<1>2. Acts(r, "auto", task[r].ask, task[r].asked, task[r].answered \cup {task[r].ask})
  <2> DEFINE answered == task[r].answered \cup {task[r].ask}
             x == [task[r] EXCEPT !.pc = "auto", !.answered = answered]
  <2>1. task' = [task EXCEPT ![r] = x]
    BY DEF PolicySends
  <2>2. task[r] \in TaskType /\ answered \in SUBSET Requests
    BY DEF TaskTyped, TaskType
  <2> HIDE DEF answered
  <2>3. /\ x \in TaskType /\ x.pc = "auto" /\ x.ask = task[r].ask /\ x.asked = task[r].asked
        /\ x.answered = answered
    BY <2>2 DEF TaskType, InTurn
  <2> HIDE DEF x
  <2> QED  BY <2>1, <2>3 DEF TaskTyped, Acts, answered
<1> QED  BY <1>1, <1>2, AnsweredIs

LEMMA SentIs ==
    ASSUME MemTyped, TaskTyped, UserTyped, NEW r \in Runs, Sent(r)
    PROVE  /\ user[r].pc = "send"
           /\ \E s \in {mem[r].status, "running"} :
                 /\ Remembers(r, s, mem[r].pending \ {user[r].ask}, mem[r].handle, mem[r].lock)
                 /\ Settled(r) => s = mem[r].status
           /\ Acts(r, task[r].pc, task[r].ask, task[r].asked,
                   task[r].answered \cup ({user[r].ask} \cap task[r].asked))
           /\ task'[r].beats <=> task[r].beats
           /\ user' \in [Runs -> UserType] /\ \A q \in Runs : q # r => user'[q] = user[q]
           /\ user'[r].pc = "resolve"
           /\ UNCHANGED <<tableVars, procVars, worker, fin, stray, call>>
<1>1. /\ user[r].pc = "send" /\ Answered(r, user[r].ask)
      /\ UNCHANGED <<tableVars, procVars, worker, fin, stray, call>>
  BY DEF Sent
<1>2. /\ user' \in [Runs -> UserType] /\ (\A q \in Runs : q # r => user'[q] = user[q])
      /\ user'[r].pc = "resolve"
  BY DEF Sent, UserTyped, UserType
<1>3. /\ Acts(r, task[r].pc, task[r].ask, task[r].asked,
              task[r].answered \cup ({user[r].ask} \cap task[r].asked))
      /\ task'[r].beats <=> task[r].beats
  <2> DEFINE answered == task[r].answered \cup ({user[r].ask} \cap task[r].asked)
             x == [task[r] EXCEPT !.answered = answered]
  <2>1. task' = [task EXCEPT ![r] = x]
    BY DEF Sent
  <2>2. task[r] \in TaskType /\ answered \in SUBSET Requests
    BY DEF TaskTyped, TaskType
  <2> HIDE DEF answered
  <2>3. /\ x \in TaskType /\ x.pc = task[r].pc /\ x.ask = task[r].ask
        /\ x.asked = task[r].asked /\ x.answered = answered
    BY <2>2 DEF TaskType
  <2>4. x.beats <=> task[r].beats
    BY <2>2 DEF TaskType
  <2> HIDE DEF x
  <2> QED  BY <2>1, <2>3, <2>4 DEF TaskTyped, Acts, answered
<1> QED  BY <1>1, <1>2, <1>3, AnsweredIs

LEMMA PolicyAsksIs ==
    ASSUME MemTyped, TaskTyped, NEW r \in Runs, PolicyAsks(r)
    PROVE  /\ task[r].pc = "eval" /\ Moves(r, "gate")
           /\ Remembers(r, "waiting", mem[r].pending, mem[r].handle, mem[r].lock)
           /\ UNCHANGED <<tableVars, procVars, worker, fin, stray, user, call>>
<1>1. /\ task[r].pc = "eval" /\ mem' = [mem EXCEPT ![r].status = "waiting"]
      /\ task' = [task EXCEPT ![r].pc = "gate"]
        /\ UNCHANGED <<tableVars, procVars, worker, fin, stray, user, call>>
  BY DEF PolicyAsks, Goto
<1>2. Remembers(r, "waiting", mem[r].pending, mem[r].handle, mem[r].lock)
  BY <1>1 DEF MemTyped, MemType, Remembers
<1> QED  BY <1>1, <1>2, GoesTo DEF InTurn

(* The policy answers or leaves the request to the operator, who may have   *)
(* decided in the meantime.                                                 *)
LEMMA PolicyIs ==
    ASSUME TaskTyped, NEW r \in Runs, PolicyAnswers(r) \/ StillWaiting(r)
    PROVE  /\ user[r].pc = "idle"
           /\ UNCHANGED <<tableVars, procVars, mem, worker, fin, stray, user, call>>
           /\ \/ task[r].pc \in {"eval", "check"} /\ Moves(r, "turn")
              \/ task[r].pc = "eval" /\ task[r].ask \in mem[r].pending /\ Moves(r, "send")
              \/ task[r].pc = "check" /\ Moves(r, "wait")
<1>1. "turn" \in InTurn /\ "send" \in InTurn /\ "wait" \in InTurn
  BY DEF InTurn
<1>2. CASE PolicyAnswers(r)
  <2>1. /\ task[r].pc = "eval" /\ user[r].pc = "idle"
        /\ UNCHANGED <<tableVars, procVars, mem, worker, fin, stray, user, call>>
    BY <1>2 DEF PolicyAnswers, UserBusy
  <2>2. CASE task[r].ask \in mem[r].pending /\ ~Settled(r)
    BY <1>1, <1>2, <2>1, <2>2, GoesTo DEF PolicyAnswers, Goto
  <2>3. CASE ~(task[r].ask \in mem[r].pending /\ ~Settled(r))
    BY <1>1, <1>2, <2>1, <2>3, GoesTo DEF PolicyAnswers, Goto
  <2> QED  BY <2>2, <2>3
<1>3. CASE StillWaiting(r)
  <2>1. /\ task[r].pc = "check" /\ user[r].pc = "idle"
        /\ UNCHANGED <<tableVars, procVars, mem, worker, fin, stray, user, call>>
    BY <1>3 DEF StillWaiting, UserBusy
  <2>2. CASE task[r].ask \in mem[r].pending /\ mem[r].status = "waiting"
    BY <1>1, <1>3, <2>1, <2>2, GoesTo DEF StillWaiting, Goto
  <2>3. CASE ~(task[r].ask \in mem[r].pending /\ mem[r].status = "waiting")
    BY <1>1, <1>3, <2>1, <2>3, GoesTo DEF StillWaiting, Goto
  <2> QED  BY <2>2, <2>3
<1> QED  BY <1>2, <1>3

LEMMA GateCreatedIs ==
    ASSUME TaskTyped, NEW r \in Runs, GateCreated(r)
    PROVE  /\ task[r].pc = "gate" /\ create_permission(r, task[r].ask) /\ Moves(r, "check")
           /\ UNCHANGED <<storeVars, gov, procVars, mem, worker, fin, stray, user, call>>
  BY GoesTo DEF GateCreated, Goto, InTurn

LEMMA MarkedIs ==
    ASSUME LedgerTyped, TaskTyped, NEW r \in Runs, MarkedWaiting(r) \/ MarkedRunning(r)
    PROVE  /\ task[r].pc \in {"wait", "auto"} /\ (Moves(r, "turn") \/ Moves(r, "failover"))
           /\ LedgerTyped' /\ OthersKept(r) /\ UNCHANGED <<token, lease>>
           /\ row[r] \in Ledger!Active => row'[r] \in Ledger!Active
           /\ row[r] \notin Ledger!Active => row'[r] = row[r]
           /\ UNCHANGED <<gov, gate, procVars, mem, worker, fin, stray, user, call>>
<1>1. /\ task[r].pc \in {"wait", "auto"}
      /\ UNCHANGED <<gov, gate, procVars, mem, worker, fin, stray, user, call>>
      /\ \/ /\ Ledger!mark_waiting_permission(r, mem[r].handle) \/ Ledger!mark_running(r, mem[r].handle)
            /\ task' = [task EXCEPT ![r].pc = "turn"]
         \/ UNCHANGED storeVars /\ task' = [task EXCEPT ![r].pc = "failover"]
  BY DEF MarkedWaiting, MarkedRunning, Goto
<1>2. Moves(r, "turn") \/ Moves(r, "failover")
  BY <1>1, GoesTo DEF InTurn
<1>3. CASE Ledger!mark_waiting_permission(r, mem[r].handle) \/ Ledger!mark_running(r, mem[r].handle)
  BY <1>1, <1>2, <1>3, LedgerMarks
<1>4. CASE UNCHANGED storeVars
  BY <1>1, <1>2, <1>4, LedgerRests DEF OthersKept, Kept
<1> QED  BY <1>1, <1>3, <1>4

LEMMA TurnFailsIs ==
    ASSUME TaskTyped, NEW r \in Runs, TurnFails(r)
    PROVE  /\ task[r].pc \in {"turn", "send"} /\ Moves(r, "failover")
           /\ UNCHANGED <<tableVars, procVars, mem, worker, fin, stray, user, call>>
  BY GoesTo DEF TurnFails, Goto, InTurn

LEMMA FailsOverIs ==
    ASSUME LedgerTyped, MemTyped, TaskTyped, NEW r \in Runs, FailsOver(r)
    PROVE  /\ task[r].pc = "failover" /\ ~Settled(r) /\ Moves(r, "reopen")
           /\ LedgerTyped' /\ UNCHANGED <<row, token, lease>>
           /\ Remembers(r, "running", {}, mem[r].handle, mem[r].lock)
           /\ UNCHANGED <<gov, gate, procVars, worker, fin, stray, user, call>>
<1>1. /\ task[r].pc = "failover" /\ ~Settled(r) /\ Ledger!record_failover(r, mem[r].handle)
      /\ mem' = [mem EXCEPT ![r].pending = {}, ![r].status = "running"]
      /\ task' = [task EXCEPT ![r].pc = "reopen"]
      /\ UNCHANGED <<gov, gate, procVars, worker, fin, stray, user, call>>
  BY DEF FailsOver, Goto
<1>2. Remembers(r, "running", {}, mem[r].handle, mem[r].lock)
  BY <1>1 DEF MemTyped, MemType, Remembers
<1>3. Moves(r, "reopen")
  BY <1>1, GoesTo DEF InTurn
<1> QED  BY <1>1, <1>2, <1>3, LedgerFailsOver

LEMMA ReopenedIs ==
    ASSUME TaskTyped, NEW r \in Runs, Reopened(r)
    PROVE  /\ task[r].pc = "reopen" /\ Acts(r, "turn", task[r].ask, {}, {})
           /\ UNCHANGED <<tableVars, procVars, mem, worker, fin, stray, user, call>>
<1> DEFINE x == [task[r] EXCEPT !.pc = "turn", !.asked = {}, !.answered = {}]
<1>1. task[r].pc = "reopen" /\ task' = [task EXCEPT ![r] = x]
        /\ UNCHANGED <<tableVars, procVars, mem, worker, fin, stray, user, call>>
  BY DEF Reopened
<1>2. x \in TaskType /\ x.pc = "turn" /\ x.ask = task[r].ask /\ x.asked = {} /\ x.answered = {}
  BY DEF TaskTyped, TaskType, InTurn
<1> HIDE DEF x
<1> QED  BY <1>1, <1>2 DEF TaskTyped, Acts

LEMMA LooksIs ==
    ASSUME MemTyped, NEW r \in Runs, HeartbeatLooks(r)
    PROVE  /\ task[r].beats /\ mem[r].lock = "free" /\ ~Holds(r)
           /\ Remembers(r, mem[r].status, mem[r].pending, mem[r].handle, "beat")
           /\ UNCHANGED <<tableVars, procVars, taskVars, user, call>>
<1>1. /\ task[r].beats /\ mem[r].lock = "free" /\ ~Holds(r)
      /\ mem' = [mem EXCEPT ![r].lock = "beat"]
      /\ UNCHANGED <<tableVars, procVars, taskVars, user, call>>
  BY DEF HeartbeatLooks
<1>2. Remembers(r, mem[r].status, mem[r].pending, mem[r].handle, "beat")
  BY <1>1 DEF MemTyped, MemType, Remembers
<1> QED  BY <1>1, <1>2

(* A submission or a restart takes the run in.                              *)
Reserves(r) == gov' = [gov EXCEPT ![r] = "active"]

TakesIn(r) ==
    \/ Enqueued(r) /\ Reserves(r)
    \/ gov[r] # "active" /\ UNCHANGED <<gov, mem, worker>>

LEMMA RestoreTakesIn ==
    ASSUME MemTyped, WorkerTyped, Served, NEW r \in Runs, Unknown(r), mem[r].status = "none",
           _restore(r)
    PROVE  TakesIn(r)
  BY EnqueueIsEnqueued DEF _restore, TakesIn, Reserves, Unknown

LEMMA RestoreIs ==
    ASSUME MemTyped, WorkerTyped, Served, Submitting, NEW r \in Runs, Unknown(r), Restore(r)
    PROVE  /\ proc = "restore" /\ mem[r].status = "none" /\ r \in boot
           /\ boot' = boot \ {r} /\ TakesIn(r)
           /\ UNCHANGED <<storeVars, gate, proc, boots, sub, lapsed, task, fin, stray,
                          user, call>>
<1>1. mem[r].status = "none" /\ _restore(r)
  BY DEF Restore, Submitting
<1> QED  BY <1>1, RestoreTakesIn DEF Restore

LEMMA ResubmitIs ==
    ASSUME MemTyped, WorkerTyped, Served, NEW r \in Runs, Unknown(r), Resubmit(r)
    PROVE  /\ proc = "up" /\ mem[r].status = "none" /\ sub = NoSub
           /\ lapsed' = lapsed \ {r} /\ TakesIn(r)
           /\ UNCHANGED <<storeVars, gate, proc, boots, boot, sub, task, fin, stray, user, call>>
<1>1. mem[r].status = "none" /\ _restore(r)
  BY DEF Resubmit
<1> QED  BY <1>1, RestoreTakesIn DEF Resubmit

LEMMA ReservedIs ==
    ASSUME MemTyped, WorkerTyped, Served, Submitting, NEW r \in Runs, Unknown(r), Reserved(r)
    PROVE  /\ sub = [run |-> r, pc |-> "reserve"] /\ sub' = NoSub /\ mem[r].status = "none"
           /\ Enqueued(r) /\ Reserves(r)
           /\ UNCHANGED <<storeVars, gate, proc, boots, boot, lapsed, task, fin, stray,
                          user, call>>
<1>1. /\ sub = [run |-> r, pc |-> "reserve"] /\ sub' = NoSub /\ _enqueue(r) /\ Reserves(r)
      /\ UNCHANGED <<storeVars, gate, proc, boots, boot, lapsed, task, fin, stray, user, call>>
  BY DEF Reserved, reserve_run, Reserves
<1>2. sub.run = r
  BY <1>1
<1>3. mem[r].status = "none" /\ ~Queued(r)
  BY <1>2 DEF Submitting, Unknown
<1> QED  BY <1>1, <1>3, EnqueueIsEnqueued

(* The other steps of a submission are those of one run; they leave what is *)
(* remembered of all runs alone.                                            *)
LEMMA SubmissionIs ==
    ASSUME LedgerTyped, ProcTyped, NEW r \in Runs,
           \/ Submit(r) \/ QuotaExceeded(r) \/ SubmitDropped(r) \/ Refused(r)
           \/ PrepareFails(r) \/ Withdrawn(r) \/ Released(r) \/ WithdrawalFails(r)
    PROVE  /\ LedgerTyped' /\ OthersKept(r)
           /\ \/ row'[r] = row[r] /\ UNCHANGED lease
              \/ row[r] = "absent" /\ row'[r] = "queued"
              \/ row[r] = "queued" /\ row'[r] \in {"cancelled", "absent"}
           /\ UNCHANGED <<gate, proc, boots, boot, mem, taskVars, user, call>>
           /\ \/ mem[r].status = "none" /\ proc = "up" /\ sub = NoSub
              \/ sub.run = r
           /\ sub' = NoSub \/ (sub'.run = r /\ sub'.pc # "idle")
<1>1. CASE Submit(r)
  BY <1>1, LedgerEnqueues DEF Submit
<1>2. CASE Refused(r) \/ Withdrawn(r)
  <2>1. /\ Ledger!cancel_queued(r)
        /\ UNCHANGED <<gate, proc, boots, boot, mem, taskVars, user, call>>
        /\ sub.run = r
        /\ sub' = NoSub \/ (sub = [run |-> r, pc |-> "withdraw"] /\ sub' = [sub EXCEPT !.pc = "release"])
    BY <1>2 DEF Refused, Withdrawn
  <2>2. sub' = NoSub \/ (sub'.run = r /\ sub'.pc # "idle")
    BY <2>1
  <2> QED  BY <2>1, <2>2, LedgerCancels
<1>3. CASE QuotaExceeded(r) \/ SubmitDropped(r) \/ PrepareFails(r) \/ Released(r) \/ WithdrawalFails(r)
  <2>1. /\ UNCHANGED storeVars /\ UNCHANGED <<gate, proc, boots, boot, mem, taskVars, user, call>>
        /\ sub.run = r
    BY <1>3 DEF QuotaExceeded, SubmitDropped, PrepareFails, Released, WithdrawalFails, tableVars
  <2>2. sub' = NoSub \/ (sub'.run = r /\ sub'.pc # "idle")
    BY <1>3 DEF QuotaExceeded, SubmitDropped, PrepareFails, Released, WithdrawalFails
  <2> QED  BY <2>1, <2>2, LedgerRests DEF OthersKept, Kept
<1> QED  BY <1>1, <1>2, <1>3

(* The steps of decide_permission but the answer itself.                    *)
LEMMA OperatorIs ==
    ASSUME LedgerTyped, UserTyped, NEW r \in Runs,
           (\E q \in Requests : Decide(r, q)) \/ SendFails(r) \/ Resolved(r) \/ Decided(r)
    PROVE  /\ LedgerTyped' /\ OthersKept(r) /\ UNCHANGED <<token, lease>>
           /\ row[r] \in Ledger!Active => row'[r] \in Ledger!Active
           /\ row[r] \notin Ledger!Active => row'[r] = row[r]
           /\ user' \in [Runs -> UserType] /\ \A q \in Runs : q # r => user'[q] = user[q]
           /\ UNCHANGED <<gov, procVars, mem, taskVars, call>>
           /\ \/ /\ user'[r].pc = "send" /\ ~PermissionLocked(r) /\ worker[BotOf[r]].active = r
                 /\ user'[r].ask \in mem[r].pending /\ proc = "up"
              \/ user[r].pc \in {"send", "mark"} /\ user'[r].pc = "idle"
              \/ user[r].pc = "resolve" /\ user'[r].pc = "mark"
           /\ gate' = gate \/ (user[r].pc = "resolve" /\ resolve(r, user[r].ask))
<1>1. user \in [Runs -> UserType]
  BY DEF UserTyped
<1>2. ASSUME NEW q \in Requests, Decide(r, q)
      PROVE  /\ user' \in [Runs -> UserType] /\ \A p \in Runs : p # r => user'[p] = user[p]
             /\ UNCHANGED <<tableVars, procVars, mem, taskVars, call>>
             /\ user'[r].pc = "send" /\ ~PermissionLocked(r) /\ worker[BotOf[r]].active = r
             /\ user'[r].ask \in mem[r].pending /\ proc = "up"
  <2>1. user' = [user EXCEPT ![r] = [pc |-> "send", ask |-> q]]
    BY <1>2 DEF Decide
  <2>2. [pc |-> "send", ask |-> q] \in UserType
    BY DEF UserType
  <2> QED  BY <1>1, <1>2, <2>1, <2>2 DEF Decide
<1>3. CASE SendFails(r) \/ Decided(r)
  <2>1. /\ user' = [user EXCEPT ![r] = NoUser] /\ user[r].pc \in {"send", "mark"}
        /\ UNCHANGED <<gov, gate, procVars, mem, taskVars, call>>
        /\ Ledger!mark_running(r, mem[r].handle) \/ UNCHANGED storeVars
    BY <1>3 DEF SendFails, Decided, tableVars
  <2>2. NoUser \in UserType /\ NoUser.pc = "idle"
    BY DEF UserType, NoUser
  <2>3. /\ user' \in [Runs -> UserType] /\ (\A q \in Runs : q # r => user'[q] = user[q])
        /\ user'[r].pc = "idle"
    BY <1>1, <2>1, <2>2
  <2> QED  BY <2>1, <2>3, LedgerMarks, LedgerRests DEF OthersKept, Kept
<1>4. CASE Resolved(r)
  <2>1. /\ user' = [user EXCEPT ![r].pc = "mark"] /\ user[r].pc = "resolve"
        /\ resolve(r, user[r].ask)
        /\ UNCHANGED <<gov, procVars, mem, taskVars, call>> /\ UNCHANGED storeVars
    BY <1>4 DEF Resolved
  <2>2. /\ user' \in [Runs -> UserType] /\ (\A q \in Runs : q # r => user'[q] = user[q])
        /\ user'[r].pc = "mark"
    BY <1>1, <2>1 DEF UserType
  <2> QED  BY <2>1, <2>2, LedgerRests DEF OthersKept, Kept
<1>5. ASSUME NEW q \in Requests, Decide(r, q)
      PROVE  LedgerTyped' /\ OthersKept(r) /\ UNCHANGED <<row, token, lease, gov, gate>>
  BY <1>2, <1>5, LedgerRests DEF OthersKept, Kept, tableVars
<1> QED  BY <1>2, <1>3, <1>4, <1>5

(* A late transaction finds its row queued or leased, or changes nothing.   *)
LEMMA StrayIs ==
    ASSUME LedgerTyped, StrayTyped, NEW r \in Runs, StrayCommits(r)
    PROVE  /\ LedgerTyped' /\ OthersKept(r)
           /\ UNCHANGED <<gov, procVars, mem, worker, task, fin, user, call>>
           /\ \/ row'[r] = row[r] /\ UNCHANGED lease
              \/ row[r] = "queued" \/ (row[r] \in Ledger!Active /\ lease[r] = "held")
           /\ \E j \in stray[r] :
                /\ stray' = [stray EXCEPT ![r] = @ \ {j}]
                /\ gate' = gate \/ (j.job = "gate" /\ create_permission(r, j.ask))
<1>1. PICK j \in stray[r] :
         /\ stray' = [stray EXCEPT ![r] = @ \ {j}]
         /\ \/ Ledger!claim(r) /\ UNCHANGED gate
            \/ UNCHANGED storeVars /\ (gate' = gate \/ (j.job = "gate" /\ create_permission(r, j.ask)))
            \/ Ledger!mark_waiting_permission(r, mem[r].handle) /\ UNCHANGED gate
            \/ Ledger!mark_running(r, mem[r].handle) /\ UNCHANGED gate
            \/ j.job \in Terminal /\ Ledger!finish(r, mem[r].handle, j.job) /\ UNCHANGED gate
  BY DEF StrayCommits
<1>2. UNCHANGED <<gov, procVars, mem, worker, task, fin, user, call>>
  BY DEF StrayCommits
<1>3. CASE Ledger!claim(r) /\ UNCHANGED gate
  BY <1>1, <1>2, <1>3, LedgerClaims
<1>4. CASE /\ UNCHANGED storeVars
           /\ (gate' = gate \/ (j.job = "gate" /\ create_permission(r, j.ask)))
  BY <1>1, <1>2, <1>4, LedgerRests DEF OthersKept, Kept
<1>5. CASE /\ Ledger!mark_waiting_permission(r, mem[r].handle) \/ Ledger!mark_running(r, mem[r].handle)
           /\ UNCHANGED gate
  <2>1. lease[r] = "held" /\ row[r] \in Ledger!Active
    BY <1>5 DEF Ledger!mark_waiting_permission, Ledger!mark_running, Ledger!RequireActiveLease
  <2> QED  BY <1>1, <1>2, <1>5, <2>1, LedgerMarks
<1>6. CASE j.job \in Terminal /\ Ledger!finish(r, mem[r].handle, j.job) /\ UNCHANGED gate
  <2>1. lease[r] = "held" /\ row[r] \in Ledger!Active
    BY <1>6 DEF Ledger!finish, Ledger!RequireActiveLease
  <2> QED  BY <1>1, <1>2, <1>6, <2>1, LedgerFinishes
<1> QED  BY <1>1, <1>3, <1>4, <1>5, <1>6

(* A process that starts.                                                   *)
LEMMA StartIs ==
    ASSUME LedgerTyped, Start \/ Recover \/ Started \/ Close
    PROVE  /\ LedgerTyped' /\ UNCHANGED <<gate, sub, lapsed, mem, taskVars, user, call, token>>
           /\ \/ proc = "off" /\ proc' = "recover" /\ UNCHANGED <<row, boot>>
              \/ proc = "recover" /\ proc' = "restore" /\ boot' = {r \in Runs : row'[r] = "queued"}
              \/ /\ proc = "restore" /\ proc' = "up" /\ boot = {} /\ UNCHANGED <<row, boot>>
              \/ /\ proc = "up" /\ proc' = "closing" /\ sub = NoSub /\ UNCHANGED <<row, boot>>
           /\ UNCHANGED lease \/ proc' = "restore"
<1>1. CASE Start
  BY <1>1, LedgerRests DEF Start
<1>2. CASE Recover
  BY <1>2, LedgerRecovers DEF Recover
<1>3. CASE Started \/ Close
  BY <1>3, LedgerRests DEF Started, Close, tableVars
<1> QED  BY <1>1, <1>2, <1>3

-----------------------------------------------------------------------------
(* What a step leaves alone.                                                *)

(* Nothing that the invariant says of a run outside S has changed.          *)
Framed(S) ==
    \A q \in Runs \ S :
      /\ mem'[q] = mem[q] /\ task'[q] = task[q] /\ fin'[q] = fin[q]
      /\ user'[q] = user[q] /\ call'[q] = call[q] /\ stray'[q] = stray[q]
      /\ gate'[q] = gate[q] /\ Kept(q)
      /\ Queued(q)' <=> Queued(q)
      /\ worker'[BotOf[q]].active = q <=> worker[BotOf[q]].active = q

LEMMA OthersGood ==
    ASSUME \A q \in Runs : Good(q), NEW S, Framed(S)
    PROVE  \A q \in Runs \ S : Good(q)'
<1> SUFFICES ASSUME NEW q \in Runs \ S
             PROVE  Good(q)'
  OBVIOUS
<1>1. /\ mem'[q] = mem[q] /\ task'[q] = task[q] /\ fin'[q] = fin[q]
      /\ user'[q] = user[q] /\ call'[q] = call[q] /\ stray'[q] = stray[q]
      /\ gate'[q] = gate[q] /\ Kept(q)
      /\ Queued(q)' <=> Queued(q)
      /\ worker'[BotOf[q]].active = q <=> worker[BotOf[q]].active = q
  BY DEF Framed
<1>2. /\ Unknown(q) /\ Placed(q) /\ Locked(q) /\ Claims(q) /\ Asking(q) /\ Quiet(q)
  BY DEF Good
<1>3. Unknown(q)'
  BY <1>1, <1>2 DEF Unknown
<1>4. Placed(q)'
  BY <1>1, <1>2 DEF Placed
<1>5. Locked(q)'
  BY <1>1, <1>2 DEF Locked, Settled
<1>6. Claims(q)'
  <2>1. HasClaim(q) => HasClaim(q)'
    BY <1>1 DEF HasClaim, Kept, Terminal, Ledger!Active
  <2>2. Durable(q) => Durable(q)'
    BY <1>1 DEF Durable, Kept
  <2> QED  BY <1>1, <1>2, <2>1, <2>2 DEF Claims, Completing
<1>7. Asking(q)'
  BY <1>1, <1>2 DEF Asking
<1>8. Quiet(q)'
  BY <1>1, <1>2 DEF Quiet, NoneOpen
<1> QED  BY <1>3, <1>4, <1>5, <1>6, <1>7, <1>8 DEF Good

(* The loop of the bot of r goes on without r.                              *)
LEMMA LoopLeft ==
    ASSUME NEW r \in Runs, Placed(r), NEW loop, task[r].pc # "none", Idles(r, loop)
    PROVE  \A q \in Runs : q # r =>
              (worker'[BotOf[q]].active = q <=> worker[BotOf[q]].active = q)
  BY EngineAssumption DEF Placed, Idles

LEMMA IdlesServes ==
    ASSUME Served, NEW r \in Runs, NEW loop \in {"idle", "dead"}, Idles(r, loop)
    PROVE  Served'
<1> SUFFICES ASSUME NEW b \in Bots
             PROVE  /\ \A i \in 1 .. Len(worker'[b].fifo) : BotOf[worker'[b].fifo[i]] = b
                    /\ \A i, j \in 1 .. Len(worker'[b].fifo) :
                          worker'[b].fifo[i] = worker'[b].fifo[j] => i = j
                    /\ worker'[b].active # NoRun <=> worker'[b].loop = "busy"
                    /\ worker'[b].active # NoRun => BotOf[worker'[b].active] = b
  BY DEF Served
<1>1. worker'[b].fifo = worker[b].fifo
  BY DEF Idles
<1>2. /\ \A i \in 1 .. Len(worker[b].fifo) : BotOf[worker[b].fifo[i]] = b
      /\ \A i, j \in 1 .. Len(worker[b].fifo) : worker[b].fifo[i] = worker[b].fifo[j] => i = j
  BY DEF Served
<1>3. /\ worker'[b].active # NoRun <=> worker'[b].loop = "busy"
      /\ worker'[b].active # NoRun => BotOf[worker'[b].active] = b
  BY DEF Served, Idles
<1> QED  BY <1>1, <1>2, <1>3

LEMMA ServedStays ==
    ASSUME Served, UNCHANGED worker
    PROVE  Served' /\ \A q \in Runs : Queued(q)' <=> Queued(q)
  BY DEF Served, Queued

(* The process and the quotas are as they were: no run is taken in, and one *)
(* that is not open any more has no reservation.                            *)
LEMMA Steady ==
    ASSUME Submitting, Reservations, UNCHANGED procVars,
           \A q \in Runs : mem[q].status = "none" => mem'[q].status = "none",
           \A q \in Runs : gov'[q] = "active" => gov[q] = "active" /\ (Open(q) => Open(q)'),
           proc = "recover" => UNCHANGED row
    PROVE  Submitting' /\ Reservations'
<1>1. proc' = proc /\ boot' = boot /\ sub' = sub /\ lapsed' = lapsed
  BY DEF procVars
<1>2. Submitting'
  BY <1>1 DEF Submitting
<1>3. Reservations'
  BY <1>1 DEF Reservations
<1> QED  BY <1>2, <1>3

(* Before the process has recovered the ledger it knows of no run.          *)
LEMMA Knows ==
    ASSUME Submitting, NEW r \in Runs, mem[r].status # "none"
    PROVE  proc \notin {"off", "recover"}
  BY DEF Submitting

LEMMA TypedStays ==
    ASSUME Typed, LedgerTyped' \/ UNCHANGED storeVars,
           TablesTyped' \/ UNCHANGED <<gov, gate>>, ProcTyped' \/ UNCHANGED procVars,
           mem' \in [Runs -> MemType] \/ UNCHANGED mem,
           worker' \in [Bots -> WorkerType] \/ UNCHANGED worker,
           task' \in [Runs -> TaskType] \/ UNCHANGED task,
           fin' \in [Runs -> [Actors -> FinType]] \/ UNCHANGED fin,
           user' \in [Runs -> UserType] \/ UNCHANGED user,
           call' \in [Runs -> [Callers -> CallType]] \/ UNCHANGED call,
           stray' \in [Runs -> SUBSET Jobs] \/ UNCHANGED stray
    PROVE  Typed'
<1>1. LedgerTyped'
  BY LedgerRests DEF Typed
<1>2. TablesTyped'
  BY DEF Typed, TablesTyped
<1>3. ProcTyped'
  BY DEF Typed, ProcTyped, procVars
<1>4. MemTyped' /\ WorkerTyped' /\ TaskTyped' /\ FinTyped'
  BY DEF Typed, MemTyped, WorkerTyped, TaskTyped, FinTyped
<1>5. UserTyped' /\ CallTyped' /\ StrayTyped'
  BY DEF Typed, UserTyped, CallTyped, StrayTyped
<1> QED  BY <1>1, <1>2, <1>3, <1>4, <1>5 DEF Typed

(* What a step does to one gate, or to the reservation of one run.          *)
LEMMA GatesTyped ==
    ASSUME TablesTyped, NEW r \in Runs, NEW q,
           create_permission(r, q) \/ resolve(r, q) \/ expire_run(r), UNCHANGED gov
    PROVE  TablesTyped' /\ \A p \in Runs : p # r => gate'[p] = gate[p]
<1>1. gate[r] \in [Requests -> {"none", "pending", "resolved", "expired"}]
  BY DEF TablesTyped
<1>2. CASE expire_run(r)
  BY <1>1, <1>2 DEF TablesTyped, expire_run
<1>3. CASE create_permission(r, q)
  BY <1>1, <1>3 DEF TablesTyped, create_permission
<1>4. CASE resolve(r, q)
  BY <1>1, <1>4 DEF TablesTyped, resolve
<1> QED  BY <1>2, <1>3, <1>4

LEMMA Reserving ==
    ASSUME TablesTyped, NEW r \in Runs, Reserves(r), UNCHANGED gate
    PROVE  TablesTyped' /\ \A p \in Runs : p # r => gov'[p] = gov[p]
  BY DEF TablesTyped, Reserves

LEMMA Returned ==
    ASSUME TablesTyped, NEW r \in Runs, finish_run(r), UNCHANGED gate
    PROVE  TablesTyped' /\ gov'[r] # "active" /\ \A p \in Runs : p # r => gov'[p] = gov[p]
  BY DEF TablesTyped, finish_run

-----------------------------------------------------------------------------
(* Every step of a run in its turn preserves the invariant.                 *)
LEMMA TurnKeeps ==
    ASSUME IInv, NEW r \in Runs, task[r].pc \in InTurn \cup {"claim"}, task'[r].pc \in InTurn,
           mem' \in [Runs -> MemType], task' \in [Runs -> TaskType],
           \A q \in Runs : q # r => mem'[q] = mem[q] /\ task'[q] = task[q] /\ gate'[q] = gate[q],
           mem'[r].status \in {mem[r].status, "running", "waiting"},
           mem'[r].lock = IF task[r].pc = "claim" THEN "free" ELSE mem[r].lock,
           LedgerTyped', OthersKept(r), HasClaim(r)', Asking(r)', TablesTyped',
           UNCHANGED <<gov, procVars, worker, fin, stray, user, call>>
    PROVE  IInv'
<1>1. /\ Typed /\ Submitting /\ Served /\ Reservations /\ Unknown(r) /\ Placed(r) /\ Locked(r)
      /\ \A q \in Runs : Good(q)
  BY DEF IInv, Good
<1>2. /\ ~Settled(r) /\ mem[r].status # "none" /\ stray[r] = {}
      /\ \A a \in Actors : fin[r][a].step = "idle"
      /\ fin' = fin /\ stray' = stray /\ user' = user /\ call' = call /\ worker' = worker
      /\ \A c \in Callers : call[r][c].pc # "finish"
  BY <1>1 DEF Unknown, Placed, Locked, InTurn, Actors
<1>3. /\ mem'[r].status # "none" /\ ~Settled(r)' /\ mem[r].lock \in {"free", "beat", "exec"}
      /\ task[r].pc = "claim" <=> mem[r].lock = "exec"
  <2>1. mem[r].lock \in {"free", "beat"} \cup Actors
    BY <1>1 DEF Typed, MemTyped, MemType
  <2> QED  BY <1>1, <1>2, <2>1 DEF Settled, Terminal, Locked, Holding, Actors, InTurn
<1>4. Served' /\ \A q \in Runs : Queued(q)' <=> Queued(q)
  BY <1>1, <1>2, ServedStays
<1>5. Framed({r})
  BY <1>2, <1>4 DEF Framed, OthersKept
<1>6. Unknown(r)' /\ Placed(r)'
  BY <1>1, <1>2, <1>3, <1>4 DEF Unknown, Placed, InTurn
<1>7. Locked(r)'
  BY <1>1, <1>2, <1>3 DEF Locked, InTurn, Holding, Beating, Actors, Callers
<1>8. Claims(r)' /\ Quiet(r)'
  BY <1>2, <1>3 DEF Claims, Quiet, Completing, Settled, Terminal, Holding, Actors
<1>9. \A q \in Runs : Good(q)'
  BY <1>1, <1>5, <1>6, <1>7, <1>8, OthersGood DEF Good
<1>10. Submitting' /\ Reservations'
  <2>1. proc \notin {"off", "recover"}
    BY <1>1, <1>2, Knows
  <2>2. \A q \in Runs : /\ mem[q].status = "none" => mem'[q].status = "none"
                        /\ Open(q) => Open(q)'
    BY <1>2, <1>3 DEF Open
  <2> QED  BY <1>1, <2>1, <2>2, Steady
<1>11. Typed'
  BY <1>1, TypedStays
<1> QED  BY <1>4, <1>9, <1>10, <1>11 DEF IInv

LEMMA ClaimedKeeps ==
    ASSUME IInv, NEW r \in Runs, Claimed(r)
    PROVE  IInv'
<1>1. Typed /\ Asking(r) /\ Locked(r) /\ Placed(r)
  BY DEF IInv, Good
<1>2. /\ task[r].pc = "claim"
      /\ LedgerTyped' /\ OthersKept(r) /\ row'[r] \in Ledger!Active
      /\ Remembers(r, "running", mem[r].pending, token'[r], "free")
      /\ Acts(r, "turn", task[r].ask, task[r].asked, task[r].answered)
      /\ UNCHANGED <<gov, gate, procVars, worker, fin, stray, user, call>>
  BY <1>1, ClaimedIs DEF Typed
<1>3. HasClaim(r)'
  BY <1>2 DEF HasClaim, Remembers
<1>4. Asking(r)'
  BY <1>1, <1>2 DEF Asking, Remembers, Acts
<1>5. TablesTyped'
  BY <1>1, <1>2 DEF Typed, TablesTyped
<1> QED  BY <1>2, <1>3, <1>4, <1>5, TurnKeeps DEF Remembers, Acts, InTurn

(* The steps of the turn that keep the claim the run has.                   *)
LEMMA ClaimKept ==
    ASSUME IInv, NEW r \in Runs, task[r].pc \in InTurn, mem'[r].handle = mem[r].handle,
           row'[r] = row[r] \/ (row[r] \in Ledger!Active => row'[r] \in Ledger!Active),
           UNCHANGED token
    PROVE  HasClaim(r)'
<1>1. HasClaim(r)
  BY DEF IInv, Good, Claims
<1> QED  BY <1>1 DEF HasClaim

LEMMA TablesKept ==
    ASSUME Typed, UNCHANGED tableVars
    PROVE  /\ LedgerTyped' /\ TablesTyped' /\ UNCHANGED <<gov, gate, row, token, lease>>
           /\ \A r \in Runs : OthersKept(r) /\ Kept(r)
<1>1. LedgerTyped' /\ UNCHANGED <<gov, gate, row, token, lease>>
  BY LedgerRests DEF Typed, tableVars
<1>2. TablesTyped'
  BY <1>1 DEF Typed, TablesTyped
<1> QED  BY <1>1, <1>2 DEF OthersKept, Kept

LEMMA AgentAsksKeeps ==
    ASSUME IInv, NEW r \in Runs, NEW q \in Requests, AgentAsks(r, q)
    PROVE  IInv'
<1>1. Typed /\ Asking(r)
  BY DEF IInv, Good
<1>2. /\ task[r].pc = "turn" /\ user[r].pc = "idle" /\ q \notin task[r].asked
      /\ Remembers(r, mem[r].status, mem[r].pending \cup {q}, mem[r].handle, mem[r].lock)
      /\ Acts(r, "eval", q, task[r].asked \cup {q}, task[r].answered)
      /\ UNCHANGED <<tableVars, procVars, worker, fin, stray, user, call>>
  BY <1>1, AgentAsksIs DEF Typed
<1>3. LedgerTyped' /\ TablesTyped' /\ OthersKept(r) /\ UNCHANGED <<gov, gate, row, token>>
  BY <1>1, <1>2, TablesKept
<1>4. HasClaim(r)'
  BY <1>2, <1>3, ClaimKept DEF Remembers, InTurn
<1>5. Asking(r)'
  BY <1>1, <1>2 DEF Asking, Remembers, Acts
<1> QED  BY <1>2, <1>3, <1>4, <1>5, TurnKeeps DEF Remembers, Acts, InTurn

LEMMA PolicySendsKeeps ==
    ASSUME IInv, NEW r \in Runs, PolicySends(r)
    PROVE  IInv'
<1>1. Typed /\ Asking(r)
  BY DEF IInv, Good
<1>2. task[r].ask \in task[r].asked
  BY <1>1 DEF Asking, PolicySends
<1>3. PICK s \in {mem[r].status, "running"} :
         /\ task[r].pc = "send"
         /\ Remembers(r, s, mem[r].pending \ {task[r].ask}, mem[r].handle, mem[r].lock)
         /\ Acts(r, "auto", task[r].ask, task[r].asked, task[r].answered \cup {task[r].ask})
         /\ UNCHANGED <<tableVars, procVars, worker, fin, stray, user, call>>
  BY <1>1, <1>2, PolicySendsIs DEF Typed
<1>4. LedgerTyped' /\ TablesTyped' /\ OthersKept(r) /\ UNCHANGED <<gov, gate, row, token>>
  BY <1>1, <1>3, TablesKept
<1>5. HasClaim(r)'
  BY <1>3, <1>4, ClaimKept DEF Remembers, InTurn
<1>6. Asking(r)'
  BY <1>1, <1>2, <1>3 DEF Asking, Remembers, Acts
<1> QED  BY <1>3, <1>4, <1>5, <1>6, TurnKeeps DEF Remembers, Acts, InTurn

LEMMA PolicyAsksKeeps ==
    ASSUME IInv, NEW r \in Runs, PolicyAsks(r)
    PROVE  IInv'
<1>1. Typed /\ Asking(r)
  BY DEF IInv, Good
<1>2. /\ task[r].pc = "eval" /\ Moves(r, "gate")
      /\ Remembers(r, "waiting", mem[r].pending, mem[r].handle, mem[r].lock)
      /\ UNCHANGED <<tableVars, procVars, worker, fin, stray, user, call>>
  BY <1>1, PolicyAsksIs DEF Typed
<1>3. LedgerTyped' /\ TablesTyped' /\ OthersKept(r) /\ UNCHANGED <<gov, gate, row, token>>
  BY <1>1, <1>2, TablesKept
<1>4. HasClaim(r)'
  BY <1>2, <1>3, ClaimKept DEF Remembers, InTurn
<1>5. Asking(r)'
  BY <1>1, <1>2 DEF Asking, Remembers, Moves
<1> QED  BY <1>2, <1>3, <1>4, <1>5, TurnKeeps DEF Remembers, Moves, InTurn

(* The task goes on and nothing is remembered of it.                        *)
LEMMA MovesKeeps ==
    ASSUME IInv, NEW r \in Runs, task[r].pc \in InTurn, NEW pc \in InTurn, Moves(r, pc),
           pc = "eval" => task[r].pc = "eval",
           pc = "auto" => task[r].pc = "auto",
           pc = "send" => /\ task[r].pc = "eval" /\ task[r].ask \in mem[r].pending
                          /\ user[r].pc = "idle",
           LedgerTyped', OthersKept(r), UNCHANGED token,
           row'[r] = row[r] \/ (row[r] \in Ledger!Active => row'[r] \in Ledger!Active),
           TablesTyped', \A q \in Runs : q # r => gate'[q] = gate[q],
           UNCHANGED <<gov, procVars, mem, worker, fin, stray, user, call>>
    PROVE  IInv'
<1>1. Typed /\ Asking(r)
  BY DEF IInv, Good
<1>2. mem' \in [Runs -> MemType] /\ mem' = mem
  BY <1>1 DEF Typed, MemTyped
<1>3. HasClaim(r)'
  BY <1>2, ClaimKept
<1>4. Asking(r)'
  BY <1>1, <1>2 DEF Asking, Moves
<1>5. task[r].pc # "claim"
  BY DEF InTurn
<1> QED  BY <1>2, <1>3, <1>4, <1>5, TurnKeeps DEF Moves

LEMMA PolicyKeeps ==
    ASSUME IInv, NEW r \in Runs, PolicyAnswers(r) \/ StillWaiting(r)
    PROVE  IInv'
<1>1. Typed
  BY DEF IInv
<1>2. /\ user[r].pc = "idle"
      /\ UNCHANGED <<tableVars, procVars, mem, worker, fin, stray, user, call>>
      /\ \/ task[r].pc \in {"eval", "check"} /\ Moves(r, "turn")
         \/ task[r].pc = "eval" /\ task[r].ask \in mem[r].pending /\ Moves(r, "send")
         \/ task[r].pc = "check" /\ Moves(r, "wait")
  BY <1>1, PolicyIs DEF Typed
<1>3. LedgerTyped' /\ TablesTyped' /\ OthersKept(r) /\ UNCHANGED <<gov, gate, row, token>>
  BY <1>1, <1>2, TablesKept
<1>4. task[r].pc \in InTurn /\ "turn" \in InTurn /\ "send" \in InTurn /\ "wait" \in InTurn
  BY <1>2 DEF InTurn
<1> QED  BY <1>2, <1>3, <1>4, MovesKeeps

LEMMA GateCreatedKeeps ==
    ASSUME IInv, NEW r \in Runs, GateCreated(r)
    PROVE  IInv'
<1>1. Typed
  BY DEF IInv
<1>2. /\ task[r].pc = "gate" /\ create_permission(r, task[r].ask) /\ Moves(r, "check")
      /\ UNCHANGED <<storeVars, gov, procVars, mem, worker, fin, stray, user, call>>
  BY <1>1, GateCreatedIs DEF Typed
<1>3. LedgerTyped' /\ OthersKept(r) /\ UNCHANGED <<row, token>>
  BY <1>1, <1>2, LedgerRests DEF Typed, OthersKept, Kept
<1>4. TablesTyped' /\ \A q \in Runs : q # r => gate'[q] = gate[q]
  BY <1>1, <1>2, GatesTyped DEF Typed
<1>5. task[r].pc \in InTurn /\ "check" \in InTurn
  BY <1>2 DEF InTurn
<1> QED  BY <1>2, <1>3, <1>4, <1>5, MovesKeeps

LEMMA MarkedKeeps ==
    ASSUME IInv, NEW r \in Runs, MarkedWaiting(r) \/ MarkedRunning(r)
    PROVE  IInv'
<1>1. Typed
  BY DEF IInv
<1>2. /\ task[r].pc \in {"wait", "auto"} /\ (Moves(r, "turn") \/ Moves(r, "failover"))
      /\ LedgerTyped' /\ OthersKept(r) /\ UNCHANGED <<token, lease>>
      /\ row[r] \in Ledger!Active => row'[r] \in Ledger!Active
      /\ UNCHANGED <<gov, gate, procVars, mem, worker, fin, stray, user, call>>
  BY <1>1, MarkedIs DEF Typed
<1>3. TablesTyped'
  BY <1>1, <1>2 DEF Typed, TablesTyped
<1>4. task[r].pc \in InTurn /\ "turn" \in InTurn /\ "failover" \in InTurn
  BY <1>2 DEF InTurn
<1> QED  BY <1>2, <1>3, <1>4, MovesKeeps

LEMMA TurnFailsKeeps ==
    ASSUME IInv, NEW r \in Runs, TurnFails(r)
    PROVE  IInv'
<1>1. Typed
  BY DEF IInv
<1>2. /\ task[r].pc \in {"turn", "send"} /\ Moves(r, "failover")
      /\ UNCHANGED <<tableVars, procVars, mem, worker, fin, stray, user, call>>
  BY <1>1, TurnFailsIs DEF Typed
<1>3. LedgerTyped' /\ TablesTyped' /\ OthersKept(r) /\ UNCHANGED <<gov, gate, row, token>>
  BY <1>1, <1>2, TablesKept
<1>4. task[r].pc \in InTurn /\ "failover" \in InTurn
  BY <1>2 DEF InTurn
<1> QED  BY <1>2, <1>3, <1>4, MovesKeeps

LEMMA FailsOverKeeps ==
    ASSUME IInv, NEW r \in Runs, FailsOver(r)
    PROVE  IInv'
<1>1. Typed /\ Asking(r)
  BY DEF IInv, Good
<1>2. /\ task[r].pc = "failover" /\ Moves(r, "reopen")
      /\ LedgerTyped' /\ UNCHANGED <<row, token, lease>>
      /\ Remembers(r, "running", {}, mem[r].handle, mem[r].lock)
      /\ UNCHANGED <<gov, gate, procVars, worker, fin, stray, user, call>>
  BY <1>1, FailsOverIs DEF Typed
<1>3. OthersKept(r) /\ TablesTyped'
  BY <1>1, <1>2 DEF Typed, TablesTyped, OthersKept, Kept
<1>4. HasClaim(r)'
  BY <1>2, ClaimKept DEF Remembers, InTurn
<1>5. Asking(r)'
  BY <1>1, <1>2 DEF Asking, Remembers, Moves
<1> QED  BY <1>2, <1>3, <1>4, <1>5, TurnKeeps DEF Remembers, Moves, InTurn

LEMMA ReopenedKeeps ==
    ASSUME IInv, NEW r \in Runs, Reopened(r)
    PROVE  IInv'
<1>1. Typed /\ Asking(r)
  BY DEF IInv, Good
<1>2. /\ task[r].pc = "reopen" /\ Acts(r, "turn", task[r].ask, {}, {})
      /\ UNCHANGED <<tableVars, procVars, mem, worker, fin, stray, user, call>>
  BY <1>1, ReopenedIs DEF Typed
<1>3. LedgerTyped' /\ TablesTyped' /\ OthersKept(r) /\ UNCHANGED <<gov, gate, row, token>>
  BY <1>1, <1>2, TablesKept
<1>4. mem' \in [Runs -> MemType] /\ mem' = mem
  BY <1>1, <1>2 DEF Typed, MemTyped
<1>5. HasClaim(r)'
  BY <1>2, <1>3, <1>4, ClaimKept DEF InTurn
<1>6. Asking(r)'
  BY <1>1, <1>2, <1>4 DEF Asking, Acts
<1> QED  BY <1>2, <1>3, <1>4, <1>5, <1>6, TurnKeeps DEF Acts, InTurn

(* The task of a run that has its turn, or claims its row, ends the run.    *)
LEMMA EndingKeeps ==
    ASSUME IInv, NEW r \in Runs, task[r].pc \in InTurn \cup {"claim"}, NEW pc, NEW s,
           \/ pc = "finish" /\ s = "complete" /\ task[r].pc # "claim"
           \/ pc = "settle" /\ s = "failed",
           Moves(r, pc), Called(r, "exec", s, mem[r].lock = "free" \/ task[r].pc = "claim"),
           UNCHANGED <<tableVars, procVars, worker, stray, user, call>>
    PROVE  IInv'
<1>1. /\ Typed /\ Submitting /\ Served /\ Reservations /\ Unknown(r) /\ Placed(r) /\ Locked(r)
      /\ Claims(r) /\ Asking(r) /\ Quiet(r) /\ \A q \in Runs : Good(q)
  BY DEF IInv, Good
<1>2. /\ ~Settled(r) /\ mem[r].status # "none" /\ stray[r] = {} /\ pc # "none"
      /\ \A a \in Actors : fin[r][a].step = "idle"
      /\ stray' = stray /\ user' = user /\ call' = call /\ worker' = worker
      /\ \A c \in Callers : call[r][c].pc # "finish"
      /\ LedgerTyped' /\ TablesTyped' /\ UNCHANGED <<gov, gate, row, token, lease>>
      /\ \A q \in Runs : Kept(q)
  BY <1>1, TablesKept DEF Unknown, Placed, Locked, InTurn, Actors
<1>3. mem[r].lock \in {"free", "beat"} \/ (mem[r].lock = "exec" /\ task[r].pc = "claim")
  <2>1. mem[r].lock \in {"free", "beat"} \cup Actors
    BY <1>1 DEF Typed, MemTyped, MemType
  <2> QED  BY <1>1, <1>2, <2>1 DEF Locked, Holding, Actors
<1>4. Served' /\ \A q \in Runs : Queued(q)' <=> Queued(q)
  BY <1>1, <1>2, ServedStays
<1>5. Framed({r})
  BY <1>2, <1>4 DEF Framed, Called, Moves
<1>6. Unknown(r)' /\ Placed(r)'
  BY <1>1, <1>2, <1>4 DEF Unknown, Placed, InTurn, Called, Moves
<1>7. Locked(r)'
  <2>1. ~Settled(r)' /\ "exec" \in Actors /\ "exec" \notin Callers
    BY <1>2 DEF Settled, Called, Actors, Callers
  <2>2. /\ mem'[r].lock = "exec" <=> fin'[r]["exec"].step = "expire"
        /\ mem'[r].lock \in {"exec", "beat"} /\ fin'[r]["exec"].step \in {"lock", "expire"}
    BY <1>2, <1>3, <2>1 DEF Called
  <2>3. \A c \in Callers : fin'[r][c].step = "idle" /\ mem'[r].lock # c
    BY <1>2, <2>1, <2>2 DEF Called, Actors, Callers
  <2> QED  BY <1>2, <2>1, <2>2, <2>3 DEF Locked, Moves, Holding, Beating, InTurn, Actors, Callers
<1>8. Claims(r)'
  BY <1>1, <1>2 DEF Claims, Completing, HasClaim, Durable, Called, Moves, InTurn, Settled,
    Terminal
<1>9. Asking(r)'
  BY <1>1, <1>2 DEF Asking, Called, Moves
<1>10. Quiet(r)'
  BY <1>1, <1>2 DEF Quiet, NoneOpen, Called, Holding, Actors, Settled, Terminal
<1>11. \A q \in Runs : Good(q)'
  BY <1>1, <1>5, <1>6, <1>7, <1>8, <1>9, <1>10, OthersGood DEF Good
<1>12. Submitting' /\ Reservations'
  <2>1. \A q \in Runs : mem'[q].status = mem[q].status
    BY DEF Called
  <2> QED  BY <1>1, <1>2, <2>1, Steady DEF Open
<1>13. Typed'
  BY <1>1, <1>2, TypedStays DEF Called, Moves
<1> QED  BY <1>4, <1>11, <1>12, <1>13 DEF IInv

LEMMA TurnEndsKeeps ==
    ASSUME IInv, NEW r \in Runs, TurnEnds(r) \/ NoFailover(r)
    PROVE  IInv'
<1>1. Typed /\ Locked(r)
  BY DEF IInv, Good
<1>2. \/ task[r].pc = "turn" /\ EndsRun(r, "finish", "complete")
      \/ task[r].pc = "failover" /\ EndsRun(r, "settle", "failed")
  BY <1>1, TurnEndsRun, NoFailoverEndsRun DEF Typed
<1>3. ~Settled(r) /\ task[r].pc \in InTurn /\ task[r].pc # "claim"
  BY <1>1, <1>2 DEF Locked, InTurn
<1> QED  BY <1>2, <1>3, EndingKeeps DEF EndsRun

LEMMA ClaimFailsKeeps ==
    ASSUME IInv, NEW r \in Runs, ClaimFails(r)
    PROVE  IInv'
<1>1. /\ task[r].pc = "claim" /\ Moves(r, "settle") /\ Called(r, "exec", "failed", TRUE)
      /\ UNCHANGED <<tableVars, procVars, worker, stray, user, call>>
  BY ClaimFailsRun DEF IInv, Typed
<1>2. Called(r, "exec", "failed", mem[r].lock = "free" \/ task[r].pc = "claim")
  BY <1>1 DEF Called
<1> QED  BY <1>1, <1>2, EndingKeeps

(* The task of r is over.                                                   *)
LEMMA OverKeeps ==
    ASSUME IInv, NEW r \in Runs, task[r].pc \in {"new", "unwind"}, Over(r), Idles(r, "idle"),
           mem' \in [Runs -> MemType], \A q \in Runs : q # r => mem'[q] = mem[q],
           mem'[r].status = mem[r].status, mem'[r].pending = mem[r].pending,
           mem'[r].handle = mem[r].handle,
           mem'[r].lock = IF mem[r].lock = "beat" THEN "free" ELSE mem[r].lock,
           UNCHANGED <<tableVars, procVars, fin, stray, user, call>>
    PROVE  IInv'
<1>1. /\ Typed /\ Submitting /\ Served /\ Reservations /\ Unknown(r) /\ Placed(r) /\ Locked(r)
      /\ Claims(r) /\ Asking(r) /\ Quiet(r) /\ \A q \in Runs : Good(q)
  BY DEF IInv, Good
<1>2. /\ LedgerTyped' /\ TablesTyped' /\ UNCHANGED <<gov, gate, row, token, lease>>
      /\ fin' = fin /\ stray' = stray /\ user' = user /\ call' = call
      /\ \A q \in Runs : Kept(q)
  BY <1>1, TablesKept
<1>3. Served' /\ \A q \in Runs : Queued(q)' <=> Queued(q)
  BY <1>1, IdlesServes, QueueKeeps DEF Idles
<1>4. Framed({r})
  <2>1. \A q \in Runs : q # r => (worker'[BotOf[q]].active = q <=> worker[BotOf[q]].active = q)
    BY <1>1, LoopLeft
  <2> QED  BY <1>2, <1>3, <2>1 DEF Framed, Over
<1>5. /\ mem[r].status # "none" /\ ~Queued(r) /\ fin[r]["exec"].step = "idle"
      /\ worker'[BotOf[r]].active # r
  BY <1>1, EngineAssumption DEF Unknown, Placed, Locked, Idles
<1>6. Unknown(r)' /\ Placed(r)'
  BY <1>1, <1>2, <1>3, <1>5 DEF Unknown, Placed, Over
<1>7. Locked(r)'
  BY <1>1, <1>2, <1>5 DEF Locked, Over, Settled, Holding, Beating, InTurn, Callers
<1>8. Claims(r)'
  BY <1>1, <1>2, <1>5 DEF Claims, Completing, Durable, Over, InTurn
<1>9. Asking(r)'
  BY <1>1, <1>2 DEF Asking, Over
<1>10. Quiet(r)'
  BY <1>1, <1>2 DEF Quiet, NoneOpen
<1>11. \A q \in Runs : Good(q)'
  BY <1>1, <1>4, <1>6, <1>7, <1>8, <1>9, <1>10, OthersGood DEF Good
<1>12. Submitting' /\ Reservations'
  <2>1. \A q \in Runs : mem'[q].status = mem[q].status
    OBVIOUS
  <2> QED  BY <1>1, <1>2, <2>1, Steady DEF Open
<1>13. Typed'
  BY <1>1, <1>2, TypedStays DEF Over, Idles
<1> QED  BY <1>3, <1>11, <1>12, <1>13 DEF IInv

LEMMA UnwindKeeps ==
    ASSUME IInv, NEW r \in Runs, Unwind(r)
    PROVE  IInv'
<1>1. MemTyped /\ TaskTyped /\ WorkerTyped
  BY DEF IInv, Typed
<1> QED  BY <1>1, UnwindIs, OverKeeps

(* The task claims the row, or finds the run settled.                       *)
LEMMA BeginKeeps ==
    ASSUME IInv, NEW r \in Runs, Begin(r)
    PROVE  IInv'
<1>1. /\ Typed /\ Submitting /\ Served /\ Reservations /\ Unknown(r) /\ Placed(r) /\ Locked(r)
      /\ Claims(r) /\ Asking(r) /\ Quiet(r) /\ \A q \in Runs : Good(q)
  BY DEF IInv, Good
<1>2. /\ task[r].pc = "new" /\ mem[r].lock = "free"
      /\ UNCHANGED <<tableVars, procVars, fin, stray, user, call>>
      /\ \/ Over(r) /\ Idles(r, "idle") /\ UNCHANGED mem
         \/ /\ ~Settled(r) /\ Moves(r, "claim") /\ UNCHANGED worker
            /\ mem' \in [Runs -> MemType] /\ \A q \in Runs : q # r => mem'[q] = mem[q]
            /\ mem'[r].lock = "exec" /\ mem'[r].status = mem[r].status
            /\ mem'[r].handle = mem[r].handle /\ mem'[r].pending = mem[r].pending
  BY <1>1, BeginIs DEF Typed
<1>3. CASE Over(r) /\ Idles(r, "idle") /\ UNCHANGED mem
  <2>1. mem' \in [Runs -> MemType] /\ mem' = mem
    BY <1>1, <1>3 DEF Typed, MemTyped
  <2> QED  BY <1>2, <1>3, <2>1, OverKeeps
<1>4. CASE /\ ~Settled(r) /\ Moves(r, "claim") /\ UNCHANGED worker
           /\ mem' \in [Runs -> MemType] /\ \A q \in Runs : q # r => mem'[q] = mem[q]
           /\ mem'[r].lock = "exec" /\ mem'[r].status = mem[r].status
           /\ mem'[r].handle = mem[r].handle /\ mem'[r].pending = mem[r].pending
  <2>1. /\ LedgerTyped' /\ TablesTyped' /\ UNCHANGED <<gov, gate, row, token, lease>>
        /\ fin' = fin /\ stray' = stray /\ user' = user /\ call' = call /\ worker' = worker
        /\ \A q \in Runs : Kept(q)
    BY <1>1, <1>2, <1>4, TablesKept
  <2>2. Served' /\ \A q \in Runs : Queued(q)' <=> Queued(q)
    BY <1>1, <2>1, ServedStays
  <2>3. Framed({r})
    BY <1>4, <2>1, <2>2 DEF Framed, Moves
  <2>4. /\ mem[r].status # "none" /\ ~Queued(r) /\ stray[r] = {}
        /\ \A a \in Actors : fin[r][a].step = "idle"
        /\ \A c \in Callers : call[r][c].pc # "finish"
    BY <1>1, <1>2, <1>4 DEF Unknown, Placed, Locked, Actors, Callers
  <2>5. Unknown(r)' /\ Placed(r)'
    BY <1>1, <1>2, <1>4, <2>1, <2>2, <2>4 DEF Unknown, Placed, Moves
  <2>6. Locked(r)'
    <3>1. ~Settled(r)'
      BY <1>4 DEF Settled
    <3> QED  BY <1>1, <1>2, <1>4, <2>1, <2>4, <3>1
                DEF Locked, Moves, Holding, Beating, InTurn, Actors, Callers
  <2>7. Claims(r)'
    BY <1>1, <1>4, <2>1, <2>4 DEF Claims, Completing, Durable, Moves, InTurn, Actors
  <2>8. Asking(r)' /\ Quiet(r)'
    BY <1>1, <1>4, <2>1 DEF Asking, Quiet, NoneOpen, Moves
  <2>9. \A q \in Runs : Good(q)'
    BY <1>1, <2>3, <2>5, <2>6, <2>7, <2>8, OthersGood DEF Good
  <2>10. Submitting' /\ Reservations'
    <3>1. \A q \in Runs : mem'[q].status = mem[q].status
      BY <1>4
    <3> QED  BY <1>1, <1>2, <2>1, <3>1, Steady DEF Open
  <2>11. Typed'
    BY <1>1, <1>2, <1>4, <2>1, TypedStays DEF Moves
  <2> QED  BY <2>2, <2>9, <2>10, <2>11 DEF IInv
<1> QED  BY <1>2, <1>3, <1>4

(* A worker takes the next run of its queue, and skips a settled one.       *)
LEMMA TakeKeeps ==
    ASSUME IInv, NEW b \in Bots, Take(b)
    PROVE  IInv'
<1>1. Typed /\ Submitting /\ Served /\ Reservations /\ \A q \in Runs : Good(q)
  BY DEF IInv
<1>2. PICK r \in Runs : Taken(b, r)
  BY <1>1, TakeIsTaken DEF Typed
<1>3. Unknown(r) /\ Placed(r) /\ Locked(r) /\ Claims(r) /\ Asking(r) /\ Quiet(r)
  BY <1>1 DEF Good
<1>4. /\ UNCHANGED <<tableVars, procVars>>
      /\ mem' = mem /\ fin' = fin /\ stray' = stray /\ user' = user /\ call' = call
      /\ Queued(r) /\ BotOf[r] = b /\ worker' \in [Bots -> WorkerType] /\ Served'
      /\ \A q \in Runs : Queued(q)' <=> Queued(q) /\ q # r
      /\ \A c \in Bots : c # b => worker'[c] = worker[c]
  BY <1>2 DEF Taken
<1>5. /\ LedgerTyped' /\ TablesTyped' /\ UNCHANGED <<gov, gate, row, token, lease>>
      /\ \A q \in Runs : Kept(q)
  BY <1>1, <1>4, TablesKept
<1>6. /\ task[r].pc = "none" /\ stray[r] = {} /\ fin[r]["exec"].step = "idle" /\ ~task[r].beats
      /\ mem[r].status # "none" /\ \A c \in Callers : call[r][c].pc \in {"idle", "finish"}
  BY <1>3, <1>4 DEF Unknown, Placed, Locked, Beating, InTurn
<1>7. CASE Settled(r) /\ worker'[b].active = worker[b].active /\ UNCHANGED task
  <2>1. \A q \in Runs : worker'[BotOf[q]].active = worker[BotOf[q]].active
    BY <1>4, <1>7, EngineAssumption
  <2>2. Framed({r})
    BY <1>4, <1>5, <1>7, <2>1 DEF Framed
  <2>3. Good(r)'
    BY <1>3, <1>4, <1>5, <1>6, <1>7, <2>1
       DEF Good, Unknown, Placed, Locked, Settled, Claims, HasClaim, Completing, Durable, Asking,
           Quiet, NoneOpen
  <2>4. \A q \in Runs : Good(q)'
    BY <1>1, <2>2, <2>3, OthersGood
  <2>5. Submitting' /\ Reservations'
    BY <1>1, <1>4, <1>5, Steady DEF Open
  <2>6. Typed'
    BY <1>1, <1>4, <1>5, <1>7, TypedStays
  <2> QED  BY <1>4, <2>4, <2>5, <2>6 DEF IInv
<1>8. CASE /\ ~Settled(r) /\ worker[b].active = NoRun /\ worker'[b].active = r
           /\ task' \in [Runs -> TaskType]
           /\ \A q \in Runs : q # r => task'[q] = task[q]
           /\ task'[r].pc = "new" /\ (task'[r].beats <=> task[r].beats)
           /\ task'[r].ask = task[r].ask
           /\ task'[r].asked = task[r].asked /\ task'[r].answered = task[r].answered
  <2>1. \A q \in Runs : q # r => (worker'[BotOf[q]].active = q <=> worker[BotOf[q]].active = q)
    BY <1>4, <1>8, EngineAssumption
  <2>2. Framed({r})
    BY <1>4, <1>5, <1>8, <2>1 DEF Framed
  <2>3. Unknown(r)' /\ Placed(r)'
    BY <1>3, <1>4, <1>6, <1>8 DEF Unknown, Placed
  <2>4. Locked(r)'
    BY <1>3, <1>4, <1>6, <1>8 DEF Locked, Settled, InTurn, Beating, Holding
  <2>5. Claims(r)' /\ Asking(r)' /\ Quiet(r)'
    BY <1>3, <1>4, <1>5, <1>6, <1>8
       DEF Claims, Completing, Durable, Asking, Quiet, NoneOpen, InTurn
  <2>6. \A q \in Runs : Good(q)'
    BY <1>1, <2>2, <2>3, <2>4, <2>5, OthersGood DEF Good
  <2>7. Submitting' /\ Reservations'
    BY <1>1, <1>4, <1>5, Steady DEF Open
  <2>8. Typed'
    BY <1>1, <1>4, <1>5, <1>8, TypedStays
  <2> QED  BY <1>4, <2>6, <2>7, <2>8 DEF IInv
<1> QED  BY <1>2, <1>4, <1>7, <1>8 DEF Taken

-----------------------------------------------------------------------------
(* The steps of _finish, by the task of the run or by a call that cancels   *)
(* it.                                                                      *)

(* The other actors of a run while one of them is in _finish: none of them  *)
(* holds the lifecycle lock, and the task has left the turn.                *)
LEMMA Finishing ==
    ASSUME NEW r \in Runs, NEW a \in Actors, Locked(r), fin[r][a].step # "idle"
    PROVE  /\ a = "exec" => /\ task[r].pc \in {"finish", "settle"} /\ ~Settled(r)
                            /\ \A c \in Callers : fin[r][c].step = "idle" /\ mem[r].lock # c
           /\ a # "exec" => /\ a \in Callers /\ task[r].pc \in {"none", "new"}
                            /\ fin[r]["exec"].step = "idle" /\ fin[r][a].status = "cancelled"
                            /\ mem[r].lock \notin {"exec", "beat"} /\ call[r][a].pc = "finish"
                            /\ ~task[r].beats
  BY DEF Locked, Actors, Callers, Holding, Beating, InTurn

LEMMA FinLockKeeps ==
    ASSUME IInv, NEW r \in Runs, NEW a \in Actors, FinLock(r, a)
    PROVE  IInv'
<1>1. /\ Typed /\ Submitting /\ Served /\ Reservations /\ Unknown(r) /\ Placed(r) /\ Locked(r)
      /\ Claims(r) /\ Asking(r) /\ Quiet(r) /\ \A q \in Runs : Good(q)
  BY DEF IInv, Good
<1>2. /\ fin[r][a].step = "lock" /\ mem[r].lock = "free"
      /\ UNCHANGED <<tableVars, procVars, worker, stray, user>>
      /\ \/ Settled(r) /\ GoesOn(r, a) /\ UNCHANGED mem
         \/ ~Settled(r) /\ Called(r, a, fin[r][a].status, TRUE) /\ UNCHANGED <<task, call>>
  BY <1>1, FinLockIs DEF Typed
<1>3. /\ LedgerTyped' /\ TablesTyped' /\ UNCHANGED <<gov, gate, row, token, lease>>
      /\ stray' = stray /\ user' = user /\ worker' = worker
      /\ \A q \in Runs : Kept(q)
  BY <1>1, <1>2, TablesKept
<1>4. Served' /\ \A q \in Runs : Queued(q)' <=> Queued(q)
  BY <1>1, <1>3, ServedStays
<1>5. mem[r].status # "none"
  BY <1>1, <1>2 DEF Unknown
<1>6. CASE Settled(r) /\ GoesOn(r, a) /\ UNCHANGED mem
  <2>1. /\ a \in Callers /\ a # "exec" /\ Returns(r, a, "idle", call[r][a].target)
        /\ task' = task /\ mem' = mem /\ Stepped(r, a, "idle")
        /\ task[r].pc \in {"none", "new"} /\ fin[r]["exec"].step = "idle"
    BY <1>1, <1>2, <1>6, Finishing DEF GoesOn, Callers
  <2>2. Framed({r})
    BY <1>3, <1>4, <2>1 DEF Framed, Stepped, Returns
  <2>3. Unknown(r)' /\ Placed(r)'
    BY <1>1, <1>3, <1>4, <1>5, <2>1 DEF Unknown, Placed, Returns
  <2>4. Locked(r)'
    BY <1>1, <1>2, <1>6, <2>1 DEF Locked, Settled, Stepped, Returns, Actors, Callers, Holding
  <2>5. Claims(r)' /\ Asking(r)'
    BY <1>1, <1>3, <2>1
       DEF Claims, HasClaim, Completing, Durable, Asking, Stepped, Actors, Callers
  <2>6. Quiet(r)'
    BY <1>1, <1>3, <2>1 DEF Quiet, NoneOpen, Stepped, Actors, Callers, Holding
  <2>7. \A q \in Runs : Good(q)'
    BY <1>1, <2>2, <2>3, <2>4, <2>5, <2>6, OthersGood DEF Good
  <2>8. Submitting' /\ Reservations'
    BY <1>1, <1>2, <1>3, <2>1, Steady DEF Open
  <2>9. Typed'
    BY <1>1, <1>2, <1>3, <2>1, TypedStays DEF Stepped, Returns
  <2> QED  BY <1>4, <2>7, <2>8, <2>9 DEF IInv
<1>7. CASE ~Settled(r) /\ Called(r, a, fin[r][a].status, TRUE) /\ UNCHANGED <<task, call>>
  <2>1. /\ a = "exec" /\ task[r].pc \in {"finish", "settle"} /\ task' = task /\ call' = call
        /\ \A c \in Callers : fin[r][c].step = "idle" /\ c # "exec"
        /\ ~Settled(r)'
    BY <1>1, <1>2, <1>7, Finishing DEF Locked, Actors, Callers, Settled, Called
  <2>2. Framed({r})
    BY <1>3, <1>4, <1>7, <2>1 DEF Framed, Called
  <2>3. Unknown(r)' /\ Placed(r)'
    BY <1>1, <1>3, <1>4, <1>5, <1>7, <2>1 DEF Unknown, Placed, Called
  <2>4. Locked(r)'
    BY <1>1, <1>2, <1>7, <2>1 DEF Locked, Called, Actors, Callers, Holding
  <2>5. Claims(r)' /\ Asking(r)'
    BY <1>1, <1>2, <1>3, <1>7, <2>1
       DEF Claims, HasClaim, Completing, Durable, Asking, Called, InTurn
  <2>6. Quiet(r)'
    BY <1>1, <1>2, <1>3, <1>7, <2>1 DEF Quiet, NoneOpen, Called, Actors, Callers, Holding
  <2>7. \A q \in Runs : Good(q)'
    BY <1>1, <2>2, <2>3, <2>4, <2>5, <2>6, OthersGood DEF Good
  <2>8. Submitting' /\ Reservations'
    <3>1. \A q \in Runs : mem'[q].status = mem[q].status
      BY <1>7 DEF Called
    <3> QED  BY <1>1, <1>2, <1>3, <3>1, Steady DEF Open
  <2>9. Typed'
    BY <1>1, <1>2, <1>3, <1>7, <2>1, TypedStays DEF Called
  <2> QED  BY <1>4, <2>7, <2>8, <2>9 DEF IInv
<1> QED  BY <1>2, <1>6, <1>7

(* The outcome is prepared and written down; the lock is held throughout.   *)
LEMMA SteppedKeeps ==
    ASSUME IInv, NEW r \in Runs, NEW a \in Actors, NEW step, Stepped(r, a, step),
           \/ fin[r][a].step = "expire" /\ step = "commit" /\ NoneOpen(r)'
           \/ fin[r][a].step = "commit" /\ step = "govern" /\ (NoneOpen(r) => NoneOpen(r)'),
           LedgerTyped', OthersKept(r), TablesTyped',
           \A q \in Runs : q # r => gate'[q] = gate[q],
           Claims(r)',
           UNCHANGED <<gov, procVars, mem, worker, task, stray, user, call>>
    PROVE  IInv'
<1>1. /\ Typed /\ Submitting /\ Served /\ Reservations /\ Unknown(r) /\ Placed(r) /\ Locked(r)
      /\ Asking(r) /\ Quiet(r) /\ \A q \in Runs : Good(q)
  BY DEF IInv, Good
<1>2. /\ mem' = mem /\ worker' = worker /\ task' = task /\ stray' = stray /\ user' = user
      /\ call' = call
  OBVIOUS
<1>3. Served' /\ \A q \in Runs : Queued(q)' <=> Queued(q)
  BY <1>1, ServedStays
<1>4. /\ mem[r].status # "none" /\ fin[r][a].step \in Holding /\ step \in Holding
      /\ ~Settled(r)
  BY <1>1 DEF Unknown, Holding, Locked
<1>5. Framed({r})
  BY <1>3 DEF Framed, Stepped, OthersKept
<1>6. Unknown(r)' /\ Placed(r)'
  BY <1>1, <1>2, <1>3, <1>4 DEF Unknown, Placed
<1>7. Locked(r)'
  BY <1>1, <1>2, <1>4 DEF Locked, Settled, Stepped, Actors, Callers, Holding
<1>8. Asking(r)'
  BY <1>1, <1>2 DEF Asking
<1>9. Quiet(r)'
  <2>1. mem[r].status \notin {"complete", "failed"} /\ mem[r].pending = {}
    BY <1>1, <1>4 DEF Quiet, Settled, Terminal
  <2>2. \A b \in Actors : fin'[r][b].status = fin[r][b].status
    BY DEF Stepped
  <2>3. /\ fin'[r]["exec"].step # "idle" => fin[r]["exec"].step # "idle"
        /\ a # "exec" => fin[r]["exec"].step = "idle" /\ fin'[r]["exec"].step = "idle"
    BY <1>1, <1>4, Finishing DEF Stepped, Holding, Actors
  <2>4. /\ fin'[r]["exec"].step \in {"commit", "govern"} /\ fin'[r]["exec"].status # "cancelled"
             => NoneOpen(r)'
    BY <1>1, <2>2, <2>3 DEF Stepped, Quiet, Actors
  <2> QED  BY <1>1, <1>2, <2>1, <2>2, <2>3, <2>4 DEF Quiet, Actors
<1>10. \A q \in Runs : Good(q)'
  BY <1>1, <1>5, <1>6, <1>7, <1>8, <1>9, OthersGood DEF Good
<1>11. Submitting' /\ Reservations'
  <2>1. proc \notin {"off", "recover"}
    BY <1>1, <1>4, Knows
  <2> QED  BY <1>1, <1>2, <2>1, Steady DEF Open
<1>12. Typed'
  BY <1>1, TypedStays DEF Stepped
<1> QED  BY <1>3, <1>10, <1>11, <1>12 DEF IInv

LEMMA FinExpireKeeps ==
    ASSUME IInv, NEW r \in Runs, NEW a \in Actors, FinExpire(r, a)
    PROVE  IInv'
<1>1. Typed /\ Claims(r) /\ Locked(r)
  BY DEF IInv, Good
<1>2. /\ fin[r][a].step = "expire" /\ expire_run(r) /\ Stepped(r, a, "commit")
      /\ UNCHANGED <<storeVars, gov, procVars, mem, worker, task, stray, user, call>>
  BY <1>1, FinExpireIs DEF Typed
<1>3. LedgerTyped' /\ OthersKept(r) /\ UNCHANGED <<row, token, lease>>
  BY <1>1, <1>2, LedgerRests DEF Typed, OthersKept, Kept
<1>4. TablesTyped' /\ \A q \in Runs : q # r => gate'[q] = gate[q]
  BY <1>1, <1>2, GatesTyped DEF Typed
<1>5. NoneOpen(r)'
  BY <1>1, <1>2 DEF Typed, TablesTyped, expire_run, NoneOpen
<1>6. Claims(r)'
  BY <1>1, <1>2, <1>3 DEF Claims, HasClaim, Completing, Durable, Stepped, Actors
<1> QED  BY <1>2, <1>3, <1>4, <1>5, <1>6, SteppedKeeps

LEMMA FinCommitKeeps ==
    ASSUME IInv, NEW r \in Runs, NEW a \in Actors, FinCommit(r, a)
    PROVE  IInv'
<1>1. Typed /\ Claims(r) /\ Locked(r)
  BY DEF IInv, Good
<1>2. /\ fin[r][a].step = "commit" /\ Stepped(r, a, "govern")
      /\ UNCHANGED <<gov, gate, procVars, mem, worker, task, stray, user, call>>
      /\ LedgerTyped' /\ UNCHANGED token
      /\ \/ /\ row[r] \in Ledger!Active /\ mem[r].handle = token[r] /\ OthersKept(r)
            /\ row'[r] \in {fin[r][a].status, "absent"}
         \/ row[r] = "queued" /\ fin[r][a].status = "cancelled" /\ OthersKept(r)
         \/ ~Holds(r) /\ UNCHANGED <<row, lease>>
  BY <1>1, FinCommitIs DEF Typed
<1>3. OthersKept(r)
  BY <1>2 DEF OthersKept, Kept
<1>4. TablesTyped'
  BY <1>1, <1>2 DEF Typed, TablesTyped
<1>5. ~Settled(r) /\ mem' = mem /\ task' = task
  BY <1>1, <1>2 DEF Locked, Holding
<1>6. Claims(r)'
  <2>1. mem'[r].status # "complete" /\ task[r].pc \notin InTurn
    BY <1>1, <1>2, <1>5, Finishing DEF Settled, Terminal, InTurn
  <2>2. ASSUME Completing(r)'
        PROVE  task[r].pc = "finish" /\ fin'[r]["exec"].step = "govern" /\ Durable(r)'
    <3>1. a = "exec"
      BY <1>1, <1>2, <2>2, Finishing DEF Completing, Stepped, Actors
    <3>2. Completing(r) /\ task[r].pc = "finish" /\ HasClaim(r) /\ fin'[r]["exec"].step = "govern"
      BY <1>1, <1>2, <2>2, <3>1 DEF Claims, Completing, Stepped
    <3>3. lease[r] # "none"
      BY <1>1, <3>2 DEF Typed, LedgerTyped, Ledger!LeaseColumns, HasClaim
    <3>4. lease[r] \in {"held", "expired"}
      BY <1>1, <3>3 DEF Typed, LedgerTyped, Ledger!TypeOK
    <3>5. Durable(r)'
      BY <1>2, <3>1, <3>2, <3>4
         DEF Durable, HasClaim, Completing, Holds, Ledger!RequireActiveLease, Ledger!Active
    <3> QED  BY <3>2, <3>5
  <2> QED  BY <1>5, <2>1, <2>2 DEF Claims
<1> QED  BY <1>2, <1>3, <1>4, <1>6, SteppedKeeps DEF NoneOpen

(* The run settles.                                                         *)
LEMMA FinGovernKeeps ==
    ASSUME IInv, NEW r \in Runs, NEW a \in Actors, FinGovern(r, a)
    PROVE  IInv'
<1>1. /\ Typed /\ Submitting /\ Served /\ Reservations /\ Unknown(r) /\ Placed(r) /\ Locked(r)
      /\ Claims(r) /\ Asking(r) /\ Quiet(r) /\ \A q \in Runs : Good(q)
  BY DEF IInv, Good
<1>2. /\ fin[r][a].step = "govern" /\ GoesOn(r, a) /\ finish_run(r)
      /\ UNCHANGED <<storeVars, gate, procVars, worker, stray, user>>
      /\ mem' \in [Runs -> MemType] /\ \A q \in Runs : q # r => mem'[q] = mem[q]
      /\ mem'[r].status = fin[r][a].status /\ mem'[r].lock = "free"
      /\ mem'[r].pending = mem[r].pending /\ mem'[r].handle = mem[r].handle
  BY <1>1, FinGovernIs DEF Typed
<1>3. /\ LedgerTyped' /\ UNCHANGED <<row, token, lease>> /\ \A q \in Runs : Kept(q)
      /\ stray' = stray /\ user' = user /\ worker' = worker /\ gate' = gate
  BY <1>1, <1>2, LedgerRests DEF Typed, Kept
<1>4. TablesTyped' /\ gov'[r] # "active" /\ \A q \in Runs : q # r => gov'[q] = gov[q]
  BY <1>1, <1>2, Returned DEF Typed
<1>5. Served' /\ \A q \in Runs : Queued(q)' <=> Queued(q)
  BY <1>1, <1>3, ServedStays
<1>6. /\ mem[r].status # "none" /\ fin[r][a].status \in Terminal /\ mem[r].pending = {}
      /\ ~Settled(r) /\ mem[r].lock = a
  BY <1>1, <1>2 DEF Typed, FinTyped, FinType, Unknown, Quiet, Locked, Holding, Actors
<1>7. /\ mem'[r].status # "none" /\ Settled(r)' /\ ~Open(r)'
      /\ Stepped(r, a, "idle")
  BY <1>2, <1>6 DEF Settled, Open, Terminal, GoesOn
<1>8. /\ task' \in [Runs -> TaskType] /\ call' \in [Runs -> [Callers -> CallType]]
      /\ \A q \in Runs : q # r => task'[q] = task[q] /\ call'[q] = call[q]
  BY <1>1, <1>2 DEF GoesOn, Moves, Returns, Typed, TaskTyped, CallTyped
<1>9. Framed({r})
  BY <1>2, <1>3, <1>5, <1>7, <1>8 DEF Framed, Stepped
<1>10. ASSUME a = "exec" PROVE Good(r)'
  <2>1. /\ Moves(r, "unwind") /\ call' = call /\ task[r].pc \in {"finish", "settle"}
        /\ \A c \in Callers : fin[r][c].step = "idle" /\ c # "exec"
    BY <1>1, <1>2, <1>10, Finishing DEF GoesOn, Callers
  <2>2. Unknown(r)' /\ Placed(r)'
    BY <1>1, <1>3, <1>5, <1>7, <2>1 DEF Unknown, Placed, Moves
  <2>3. Locked(r)'
    BY <1>1, <1>2, <1>7, <1>10, <2>1
       DEF Locked, Moves, Stepped, Actors, Callers, Holding, Beating, InTurn
  <2>4. Claims(r)'
    BY <1>1, <1>2, <1>3, <1>7, <1>10, <2>1
       DEF Claims, Completing, Durable, Moves, Stepped, InTurn
  <2>5. Asking(r)'
    BY <1>1, <1>2, <1>3, <2>1 DEF Asking, Moves
  <2>6. Quiet(r)'
    BY <1>1, <1>2, <1>3, <1>6, <1>7, <1>10, <2>1
       DEF Quiet, NoneOpen, Stepped, Actors, Callers, Holding
  <2> QED  BY <2>2, <2>3, <2>4, <2>5, <2>6 DEF Good
<1>11. ASSUME a # "exec" PROVE Good(r)'
  <2>1. /\ a \in Callers /\ Returns(r, a, "idle", call[r][a].target) /\ task' = task
        /\ task[r].pc \in {"none", "new"} /\ fin[r]["exec"].step = "idle"
        /\ fin[r][a].status = "cancelled" /\ ~task[r].beats
    BY <1>1, <1>2, <1>11, Finishing DEF GoesOn
  <2>2. Unknown(r)' /\ Placed(r)'
    BY <1>1, <1>3, <1>5, <1>7, <2>1 DEF Unknown, Placed, Returns
  <2>3. Locked(r)'
    <3>1. fin'[r]["exec"].step = "idle" /\ fin'[r][a].step = "idle" /\ call'[r][a].pc = "idle"
      BY <1>7, <1>11, <2>1 DEF Stepped, Returns, Actors
    <3>2. \A c \in Callers : c # a => /\ fin'[r][c] = fin[r][c] /\ call'[r][c] = call[r][c]
                                      /\ fin[r][c].step \notin Holding
      BY <1>1, <1>6, <1>7, <2>1 DEF Stepped, Returns, Actors, Locked
    <3>3. \A c \in Callers : c # "free" /\ c # "exec"
      BY DEF Callers
    <3> QED  BY <1>1, <1>2, <1>7, <2>1, <3>1, <3>2, <3>3 DEF Locked, Actors, Holding, InTurn
  <2>4. Claims(r)'
    BY <1>1, <1>2, <1>3, <1>7, <1>11, <2>1
       DEF Claims, Completing, Durable, Stepped, InTurn, Actors
  <2>5. Asking(r)'
    BY <1>1, <1>2, <1>3, <2>1 DEF Asking
  <2>6. Quiet(r)'
    BY <1>1, <1>2, <1>3, <1>6, <1>7, <1>11, <2>1
       DEF Quiet, NoneOpen, Stepped, Actors, Callers, Holding
  <2> QED  BY <2>2, <2>3, <2>4, <2>5, <2>6 DEF Good
<1>12. \A q \in Runs : Good(q)'
  BY <1>1, <1>9, <1>10, <1>11, OthersGood
<1>13. Submitting' /\ Reservations'
  <2>1. \A q \in Runs : mem[q].status = "none" => mem'[q].status = "none"
    BY <1>2, <1>6
  <2>2. \A q \in Runs : gov'[q] = "active" => gov[q] = "active" /\ (Open(q) => Open(q)')
    BY <1>2, <1>4 DEF Open
  <2> QED  BY <1>1, <1>2, <1>3, <2>1, <2>2, Steady
<1>14. Typed'
  BY <1>1, <1>2, <1>3, <1>4, <1>7, <1>8, TypedStays DEF Stepped
<1> QED  BY <1>5, <1>12, <1>13, <1>14 DEF IInv

-----------------------------------------------------------------------------
(* The calls that cancel a run.                                             *)
LEMMA EndsCallKeeps ==
    ASSUME IInv, NEW r \in Runs, NEW c \in Callers, task[r].pc = "none",
           call[r][c].pc \in {"idle", "polite", "gather"}, mem[r].status # "none", EndsCall(r, c),
           UNCHANGED <<tableVars, procVars, worker, task, stray, user>>
    PROVE  IInv'
<1>1. /\ Typed /\ Submitting /\ Served /\ Reservations /\ Unknown(r) /\ Placed(r) /\ Locked(r)
      /\ Claims(r) /\ Asking(r) /\ Quiet(r) /\ \A q \in Runs : Good(q)
  BY DEF IInv, Good
<1>2. /\ LedgerTyped' /\ TablesTyped' /\ UNCHANGED <<gov, gate, row, token, lease>>
      /\ stray' = stray /\ user' = user /\ worker' = worker /\ task' = task
      /\ \A q \in Runs : Kept(q)
  BY <1>1, TablesKept
<1>3. Served' /\ \A q \in Runs : Queued(q)' <=> Queued(q)
  BY <1>1, <1>2, ServedStays
<1>4. /\ fin[r]["exec"].step = "idle" /\ fin[r][c].step = "idle" /\ c # "exec" /\ c \in Actors
      /\ mem[r].lock \in {"free"} \cup Callers
  <2>1. mem[r].lock \in {"free", "beat"} \cup Actors
    BY <1>1 DEF Typed, MemTyped, MemType
  <2> QED  BY <1>1, <2>1 DEF Locked, Holding, Beating, InTurn, Actors, Callers
<1>5. CASE Settled(r) /\ Returns(r, c, "idle", NoRun) /\ UNCHANGED <<mem, fin>>
  <2>1. mem' = mem /\ fin' = fin
    BY <1>5
  <2>2. Framed({r})
    BY <1>2, <1>3, <1>5 DEF Framed, Returns
  <2>3. Unknown(r)' /\ Placed(r)'
    BY <1>1, <1>2, <1>3, <1>5, <2>1 DEF Unknown, Placed, Returns
  <2>4. Locked(r)'
    BY <1>1, <1>2, <1>4, <1>5, <2>1 DEF Locked, Settled, Returns
  <2>5. Claims(r)' /\ Asking(r)' /\ Quiet(r)'
    BY <1>1, <1>2, <2>1 DEF Claims, HasClaim, Completing, Durable, Asking, Quiet, NoneOpen
  <2>6. \A q \in Runs : Good(q)'
    BY <1>1, <2>2, <2>3, <2>4, <2>5, OthersGood DEF Good
  <2>7. Submitting' /\ Reservations'
    BY <1>1, <1>2, <2>1, Steady DEF Open
  <2>8. Typed'
    BY <1>1, <1>2, <1>5, TypedStays DEF Returns
  <2> QED  BY <1>3, <2>6, <2>7, <2>8 DEF IInv
<1>6. CASE /\ ~Settled(r) /\ Returns(r, c, "finish", NoRun)
           /\ Called(r, c, "cancelled", mem[r].lock = "free")
  <2>1. Framed({r})
    BY <1>2, <1>3, <1>6 DEF Framed, Returns, Called
  <2>2. Unknown(r)' /\ Placed(r)'
    BY <1>1, <1>2, <1>3, <1>6 DEF Unknown, Placed, Returns, Called
  <2>3. Locked(r)'
    <3>1. /\ ~Settled(r)' /\ fin'[r]["exec"].step = "idle" /\ call'[r][c].pc = "finish"
          /\ fin'[r][c].step = IF mem[r].lock = "free" THEN "expire" ELSE "lock"
          /\ mem'[r].lock = IF mem[r].lock = "free" THEN c ELSE mem[r].lock
          /\ fin'[r][c].status = "cancelled"
      BY <1>4, <1>6 DEF Settled, Called, Returns, Actors
    <3>2. \A d \in Callers : d # c => /\ fin'[r][d] = fin[r][d] /\ call'[r][d] = call[r][d]
      BY <1>6 DEF Called, Returns, Actors
    <3>3. \A d \in Callers : d # "free" /\ d # "exec" /\ d # "beat"
      BY DEF Callers
    <3>4. mem[r].lock # c
      BY <1>1, <1>4 DEF Locked, Holding
    <3>5. ~task[r].beats
      BY <1>1 DEF Locked, Beating, InTurn
    <3> QED  BY <1>1, <1>2, <1>4, <1>6, <3>1, <3>2, <3>3, <3>4, <3>5
                DEF Locked, Actors, Holding, InTurn
  <2>4. Claims(r)' /\ Asking(r)'
    BY <1>1, <1>2, <1>4, <1>6
       DEF Claims, Completing, Durable, Asking, Called, Actors, InTurn
  <2>5. Quiet(r)'
    BY <1>1, <1>2, <1>4, <1>6 DEF Quiet, NoneOpen, Called, Actors, Callers, Holding
  <2>6. \A q \in Runs : Good(q)'
    BY <1>1, <2>1, <2>2, <2>3, <2>4, <2>5, OthersGood DEF Good
  <2>7. Submitting' /\ Reservations'
    <3>1. \A q \in Runs : mem'[q].status = mem[q].status
      BY <1>6 DEF Called
    <3> QED  BY <1>1, <1>2, <3>1, Steady DEF Open
  <2>8. Typed'
    BY <1>1, <1>2, <1>6, TypedStays DEF Returns, Called
  <2> QED  BY <1>3, <2>6, <2>7, <2>8 DEF IInv
<1> QED  BY <1>5, <1>6 DEF EndsCall

LEMMA CancelKeeps ==
    ASSUME IInv, NEW r \in Runs, NEW c \in Callers, Cancel(r, c)
    PROVE  IInv'
<1>1. /\ Typed /\ Submitting /\ Served /\ Reservations /\ Unknown(r) /\ Placed(r) /\ Locked(r)
      /\ Claims(r) /\ Asking(r) /\ Quiet(r) /\ \A q \in Runs : Good(q)
  BY DEF IInv, Good
<1>2. /\ UNCHANGED <<tableVars, procVars, worker, task, stray, user>>
      /\ call[r][c].pc = "idle" /\ Open(r)
      /\ \/ /\ worker[BotOf[r]].active = r /\ UNCHANGED <<mem, fin>>
            /\ Returns(r, c, "polite", call[r][c].target)
         \/ worker[BotOf[r]].active # r /\ EndsCall(r, c)
  BY <1>1, CancelIs DEF Typed
<1>3. mem[r].status # "none"
  BY <1>2 DEF Open
<1>4. CASE worker[BotOf[r]].active # r /\ EndsCall(r, c)
  <2>1. task[r].pc = "none"
    BY <1>1, <1>4 DEF Placed
  <2> QED  BY <1>2, <1>3, <1>4, <2>1, EndsCallKeeps
<1>5. CASE /\ worker[BotOf[r]].active = r /\ UNCHANGED <<mem, fin>>
           /\ Returns(r, c, "polite", call[r][c].target)
  <2>1. /\ LedgerTyped' /\ TablesTyped' /\ UNCHANGED <<gov, gate, row, token, lease>>
        /\ stray' = stray /\ user' = user /\ worker' = worker /\ task' = task
        /\ mem' = mem /\ fin' = fin /\ \A q \in Runs : Kept(q)
    BY <1>1, <1>2, <1>5, TablesKept
  <2>2. Served' /\ \A q \in Runs : Queued(q)' <=> Queued(q)
    BY <1>1, <2>1, ServedStays
  <2>3. Framed({r})
    BY <1>5, <2>1, <2>2 DEF Framed, Returns
  <2>4. Unknown(r)' /\ Placed(r)'
    BY <1>1, <1>3, <1>5, <2>1, <2>2 DEF Unknown, Placed, Returns
  <2>5. Locked(r)'
    BY <1>1, <1>2, <1>5, <2>1 DEF Locked, Settled, Returns
  <2>6. Claims(r)' /\ Asking(r)' /\ Quiet(r)'
    BY <1>1, <2>1 DEF Claims, HasClaim, Completing, Durable, Asking, Quiet, NoneOpen
  <2>7. \A q \in Runs : Good(q)'
    BY <1>1, <2>3, <2>4, <2>5, <2>6, OthersGood DEF Good
  <2>8. Submitting' /\ Reservations'
    BY <1>1, <1>2, <2>1, Steady DEF Open
  <2>9. Typed'
    BY <1>1, <1>2, <1>5, <2>1, TypedStays DEF Returns
  <2> QED  BY <2>2, <2>7, <2>8, <2>9 DEF IInv
<1> QED  BY <1>2, <1>4, <1>5

LEMMA TaskGoneKeeps ==
    ASSUME IInv, NEW r \in Runs, NEW c \in Callers, TaskGone(r, c)
    PROVE  IInv'
<1>1. Typed /\ Unknown(r) /\ Placed(r)
  BY DEF IInv, Good
<1>2. /\ UNCHANGED <<tableVars, procVars, worker, task, stray, user>> /\ EndsCall(r, c)
      /\ call[r][c].pc = "gather" /\ task[call[r][c].target].pc = "none"
  BY <1>1, TaskGoneIs DEF Typed
<1>3. task[r].pc = "none" /\ mem[r].status # "none"
  BY <1>1, <1>2 DEF Placed, Unknown
<1> QED  BY <1>2, <1>3, EndsCallKeeps

(* A task that is cancelled, by its heartbeat or by a call that now waits   *)
(* for its end.                                                             *)
LEMMA KilledGood ==
    ASSUME IInv, NEW r \in Runs, NEW lock, Killed(r, lock), task[r].pc # "none",
           lock = mem[r].lock \/ (mem[r].lock = "beat" /\ lock = "free"),
           user'[r] = user[r], gate'[r] = gate[r], row'[r] = row[r], lease'[r] = lease[r],
           \A c \in Callers :
              \/ call'[r][c] = call[r][c]
              \/ /\ call[r][c].pc = "polite" /\ call'[r][c].pc = "gather"
                 /\ call'[r][c].target = r
    PROVE  Good(r)'
<1>1. /\ Typed /\ Unknown(r) /\ Placed(r) /\ Locked(r)
      /\ Claims(r) /\ Asking(r) /\ Quiet(r)
  BY DEF IInv, Good
<1> DEFINE kept == IF lock = "exec" THEN "free" ELSE lock
<1>2. /\ mem[r].status # "none" /\ ~Queued(r) /\ worker[BotOf[r]].active = r
      /\ mem'[r].status = mem[r].status /\ mem'[r].handle = mem[r].handle
      /\ \A c \in Callers : fin'[r][c] = fin[r][c]
      /\ stray'[r] \subseteq stray[r] \cup Outstanding(r)
      /\ task'[r].beats => task[r].beats
  BY <1>1 DEF Unknown, Placed, Killed
<1>3. \A b \in Bots : worker'[b].fifo = worker[b].fifo
  BY DEF Killed, Idles
<1>4. ~Queued(r)'
  BY <1>2, <1>3, QueueKeeps
<1>5. \A c \in Callers : c # "exec" /\ c # "beat" /\ c # "free" /\ c \in Actors
  BY DEF Callers, Actors
<1>6. mem[r].lock \in {"free", "beat"} \cup Actors
  BY <1>1 DEF Typed, MemTyped, MemType
<1>7. ASSUME task[r].pc \in {"new", "claim", "failover", "reopen", "settle", "unwind"},
             Over(r), Idles(r, "dead"), fin'[r]["exec"].step = "idle",
             mem'[r].lock = IF kept = "beat" THEN "free" ELSE kept,
             mem'[r].pending = mem[r].pending
      PROVE  Good(r)'
  <2>1. \A j \in Outstanding(r) : j.job # "gate"
    BY <1>1, <1>7 DEF Outstanding, Typed, FinTyped, FinType, Actors, Terminal
  <2>2. worker'[BotOf[r]].active # r /\ task'[r].pc = "none"
    BY <1>7, EngineAssumption DEF Idles, Over
  <2>3. Unknown(r)' /\ Placed(r)'
    BY <1>1, <1>2, <1>4, <2>2 DEF Unknown, Placed
  <2>4. Locked(r)'
    <3>1. mem'[r].lock \notin {"exec", "beat"} /\ ~task'[r].beats
      BY <1>7, <1>6, <1>5 DEF Over
    <3>2. \A c \in Callers : mem'[r].lock = c <=> mem[r].lock = c
      BY <1>5, <1>7
    <3>3. \A c \in Callers : fin[r][c].step # "idle" <=> call'[r][c].pc = "finish"
      BY <1>1 DEF Locked
    <3>4. \A c \in Callers : fin[r][c].step # "idle" => mem'[r].lock \in Callers \/ Settled(r)
      BY <1>1, <3>2 DEF Locked
    <3>5. Settled(r)' <=> Settled(r)
      BY <1>2 DEF Settled
    <3> QED  BY <1>1, <1>2, <1>7, <2>2, <3>1, <3>2, <3>3, <3>4, <3>5
                DEF Locked, Actors, Holding, InTurn
  <2>5. Claims(r)' /\ Asking(r)'
    BY <1>1, <1>2, <1>7, <2>2 DEF Claims, Completing, Durable, Asking, Over, InTurn
  <2>6. Quiet(r)'
    BY <1>1, <1>2, <1>7, <2>1 DEF Quiet, NoneOpen, Actors, Holding
  <2> QED  BY <2>3, <2>4, <2>5, <2>6 DEF Good
<1>8. ASSUME task[r].pc \notin {"new", "claim", "failover", "settle", "unwind"},
             UNCHANGED worker, task'[r].asked = task[r].asked, task'[r].answered = task[r].answered,
             ~Settled(r), task'[r].pc = "settle", fin'[r]["exec"].status = "cancelled",
             fin'[r]["exec"].step = IF kept = "free" THEN "expire" ELSE "lock",
             mem'[r].lock = IF kept = "free" THEN "exec" ELSE kept,
             mem'[r].pending = IF kept = "free" THEN {} ELSE mem[r].pending
      PROVE  Good(r)'
  <2>1. worker' = worker /\ ~Settled(r)' /\ \A c \in Callers : fin[r][c].step = "idle"
    BY <1>1, <1>2, <1>8 DEF Settled, Locked
  <2>2. kept \in {"free", "beat"}
    BY <1>1, <1>5, <1>6, <2>1 DEF Locked, Holding, Actors
  <2>3. Unknown(r)' /\ Placed(r)'
    BY <1>1, <1>2, <1>4, <1>8, <2>1 DEF Unknown, Placed
  <2>4. Locked(r)'
    <3>1. \A c \in Callers : mem'[r].lock # c /\ call'[r][c].pc # "finish"
      BY <1>1, <1>5, <1>8, <2>1, <2>2 DEF Locked
    <3> QED  BY <1>2, <1>5, <1>8, <2>1, <2>2, <3>1
                DEF Locked, Actors, Holding, InTurn, Beating
  <2>5. Claims(r)' /\ Asking(r)'
    BY <1>1, <1>2, <1>8 DEF Claims, Completing, Durable, Asking, InTurn
  <2>6. Quiet(r)'
    BY <1>1, <1>2, <1>8, <2>1 DEF Quiet, NoneOpen, Actors, Holding, Settled, Terminal
  <2> QED  BY <2>3, <2>4, <2>5, <2>6 DEF Good
<1>9. ~(Settled(r) /\ task[r].pc \notin {"new", "claim", "failover", "settle", "unwind"})
  <2>1. task[r] \in TaskType
    BY <1>1 DEF Typed, TaskTyped
  <2> QED  BY <1>1, <2>1 DEF Locked, TaskType, InTurn
<1> QED  BY <1>7, <1>8, <1>9 DEF Killed

LEMMA KilledServes ==
    ASSUME IInv, NEW r \in Runs, NEW lock, Killed(r, lock), task[r].pc # "none"
    PROVE  /\ Served' /\ \A q \in Runs : Queued(q)' <=> Queued(q)
           /\ \A q \in Runs : q # r => (worker'[BotOf[q]].active = q <=> worker[BotOf[q]].active = q)
<1>1. Served /\ Placed(r)
  BY DEF IInv, Good
<1>2. CASE UNCHANGED worker
  BY <1>1, <1>2, ServedStays
<1>3. CASE Idles(r, "dead")
  BY <1>1, <1>3, IdlesServes, LoopLeft, QueueKeeps DEF Idles
<1> QED  BY <1>2, <1>3 DEF Killed

LEMMA HeartbeatFailsKeeps ==
    ASSUME IInv, NEW r \in Runs, HeartbeatFails(r)
    PROVE  IInv'
<1>1. /\ Typed /\ Submitting /\ Reservations /\ Locked(r) /\ \A q \in Runs : Good(q)
  BY DEF IInv, Good
<1>2. mem[r].lock = "beat" /\ Killed(r, "free") /\ UNCHANGED <<tableVars, procVars, user, call>>
  BY <1>1, HeartbeatIs DEF Typed
<1>3. task[r].pc # "none"
  BY <1>1, <1>2 DEF Locked, Beating, InTurn
<1>4. /\ LedgerTyped' /\ TablesTyped' /\ UNCHANGED <<gov, gate, row, token, lease>>
      /\ user' = user /\ call' = call /\ \A q \in Runs : Kept(q)
  BY <1>1, <1>2, TablesKept
<1>5. /\ Served' /\ \A q \in Runs : Queued(q)' <=> Queued(q)
      /\ \A q \in Runs : q # r => (worker'[BotOf[q]].active = q <=> worker[BotOf[q]].active = q)
  BY <1>2, <1>3, KilledServes
<1>6. Framed({r})
  BY <1>2, <1>4, <1>5 DEF Framed, Killed
<1>7. Good(r)'
  BY <1>2, <1>3, <1>4, KilledGood
<1>8. \A q \in Runs : Good(q)'
  BY <1>1, <1>6, <1>7, OthersGood
<1>9. Submitting' /\ Reservations'
  <2>1. \A q \in Runs : mem'[q].status = mem[q].status
    BY <1>2 DEF Killed
  <2> QED  BY <1>1, <1>2, <1>4, <2>1, Steady DEF Open
<1>10. Typed'
  BY <1>1, <1>2, <1>4, TypedStays DEF Killed
<1> QED  BY <1>5, <1>8, <1>9, <1>10 DEF IInv

LEMMA CancelTaskKeeps ==
    ASSUME IInv, NEW r \in Runs, NEW c \in Callers, CancelTask(r, c)
    PROVE  IInv'
<1>1. /\ Typed /\ Submitting /\ Reservations /\ Unknown(r) /\ Placed(r) /\ Locked(r)
      /\ Claims(r) /\ Asking(r) /\ Quiet(r) /\ \A q \in Runs : Good(q) /\ Served
  BY DEF IInv, Good
<1>2. /\ UNCHANGED <<tableVars, procVars, user>> /\ call[r][c].pc = "polite"
      /\ \/ /\ worker[BotOf[r]].active = NoRun /\ EndsCall(r, c)
            /\ UNCHANGED <<worker, task, stray>>
         \/ \E target \in Runs :
               /\ worker[BotOf[r]].active = target /\ Killed(target, mem[target].lock)
               /\ Returns(r, c, "gather", target)
  BY <1>1, CancelTaskIs DEF Typed
<1>3. mem[r].status # "none" /\ ~Queued(r)
  BY <1>1, <1>2 DEF Unknown, Placed
<1>4. CASE worker[BotOf[r]].active = NoRun /\ EndsCall(r, c) /\ UNCHANGED <<worker, task, stray>>
  <2>1. task[r].pc = "none"
    BY <1>1, <1>4, EngineAssumption DEF Placed
  <2> QED  BY <1>2, <1>3, <1>4, <2>1, EndsCallKeeps
<1>5. ASSUME NEW target \in Runs, worker[BotOf[r]].active = target,
             Killed(target, mem[target].lock), Returns(r, c, "gather", target)
      PROVE  IInv'
  <2>1. BotOf[target] = BotOf[r] /\ task[target].pc # "none"
    <3>1. BotOf[r] \in Bots
      BY EngineAssumption
    <3>2. BotOf[target] = BotOf[r]
      BY <1>1, <1>5, <3>1, EngineAssumption DEF Served
    <3>3. Placed(target)
      BY <1>1 DEF Good
    <3> QED  BY <1>5, <3>2, <3>3 DEF Placed
  <2>2. /\ LedgerTyped' /\ TablesTyped' /\ UNCHANGED <<gov, gate, row, token, lease>>
        /\ user' = user /\ \A q \in Runs : Kept(q)
    BY <1>1, <1>2, TablesKept
  <2>3. /\ Served' /\ \A q \in Runs : Queued(q)' <=> Queued(q)
        /\ \A q \in Runs : q # target => (worker'[BotOf[q]].active = q <=> worker[BotOf[q]].active = q)
    BY <1>5, <2>1, KilledServes
  <2>4. Framed({r, target})
    BY <1>5, <2>2, <2>3 DEF Framed, Killed, Returns
  <2>5. Good(target)'
    <3>1. \A d \in Callers :
             \/ call'[target][d] = call[target][d]
             \/ /\ call[target][d].pc = "polite" /\ call'[target][d].pc = "gather"
                /\ call'[target][d].target = target
      BY <1>2, <1>5 DEF Returns
    <3> QED  BY <1>5, <2>1, <2>2, <3>1, KilledGood
  <2>6. ASSUME r # target
        PROVE  Good(r)'
    <3>1. /\ mem'[r] = mem[r] /\ task'[r] = task[r] /\ fin'[r] = fin[r] /\ stray'[r] = stray[r]
          /\ ~Queued(r)' /\ (worker'[BotOf[r]].active = r <=> worker[BotOf[r]].active = r)
          /\ task[r].pc = "none"
      BY <1>1, <1>3, <1>5, <2>3, <2>6 DEF Killed, Placed
    <3>2. Unknown(r)' /\ Placed(r)'
      BY <1>1, <1>3, <1>5, <2>2, <3>1 DEF Unknown, Placed, Returns
    <3>3. Locked(r)'
      BY <1>1, <1>2, <1>5, <3>1 DEF Locked, Settled, Returns
    <3>4. Claims(r)' /\ Asking(r)' /\ Quiet(r)'
      BY <1>1, <2>2, <3>1 DEF Claims, HasClaim, Completing, Durable, Asking, Quiet, NoneOpen
    <3> QED  BY <3>2, <3>3, <3>4 DEF Good
  <2>7. \A q \in Runs : Good(q)'
    BY <1>1, <2>4, <2>5, <2>6, OthersGood
  <2>8. Submitting' /\ Reservations'
    <3>1. \A q \in Runs : mem'[q].status = mem[q].status
      BY <1>5 DEF Killed
    <3> QED  BY <1>1, <1>2, <2>2, <3>1, Steady DEF Open
  <2>9. Typed'
    BY <1>1, <1>2, <1>5, <2>2, TypedStays DEF Killed, Returns
  <2> QED  BY <2>3, <2>7, <2>8, <2>9 DEF IInv
<1> QED  BY <1>2, <1>4, <1>5

LEMMA HeartbeatLooksKeeps ==
    ASSUME IInv, NEW r \in Runs, HeartbeatLooks(r)
    PROVE  IInv'
<1>1. /\ Typed /\ Submitting /\ Served /\ Reservations /\ Unknown(r) /\ Placed(r) /\ Locked(r)
      /\ Claims(r) /\ Asking(r) /\ Quiet(r) /\ \A q \in Runs : Good(q)
  BY DEF IInv, Good
<1>2. /\ task[r].beats /\ mem[r].lock = "free"
      /\ Remembers(r, mem[r].status, mem[r].pending, mem[r].handle, "beat")
      /\ UNCHANGED <<tableVars, procVars, taskVars, user, call>>
  BY <1>1, LooksIs DEF Typed
<1>3. /\ LedgerTyped' /\ TablesTyped' /\ UNCHANGED <<gov, gate, row, token, lease>>
      /\ worker' = worker /\ task' = task /\ fin' = fin /\ stray' = stray
      /\ user' = user /\ call' = call /\ \A q \in Runs : Kept(q)
  BY <1>1, <1>2, TablesKept DEF taskVars
<1>4. Served' /\ \A q \in Runs : Queued(q)' <=> Queued(q)
  BY <1>1, <1>3, ServedStays
<1>5. Framed({r})
  BY <1>2, <1>3, <1>4 DEF Framed, Remembers
<1>6. /\ mem'[r].status = mem[r].status /\ mem'[r].pending = mem[r].pending
      /\ mem'[r].handle = mem[r].handle /\ mem'[r].lock = "beat"
  BY <1>2 DEF Remembers
<1>7. Unknown(r)' /\ Placed(r)'
  BY <1>1, <1>3, <1>4, <1>6 DEF Unknown, Placed
<1>8. Locked(r)'
  <2>1. task[r].pc \in Beating /\ \A c \in Callers : c # "beat" /\ c # "exec" /\ c # "free"
    BY <1>1, <1>2 DEF Locked, Callers
  <2>2. \A c \in Callers : fin[r][c].step = "idle"
    BY <1>1, <2>1 DEF Locked, Beating, InTurn
  <2> QED  BY <1>1, <1>2, <1>3, <1>6, <2>1, <2>2 DEF Locked, Settled, Holding, Beating
<1>9. Claims(r)' /\ Asking(r)' /\ Quiet(r)'
  BY <1>1, <1>3, <1>6 DEF Claims, HasClaim, Completing, Durable, Asking, Quiet, NoneOpen
<1>10. \A q \in Runs : Good(q)'
  BY <1>1, <1>5, <1>7, <1>8, <1>9, OthersGood DEF Good
<1>11. Submitting' /\ Reservations'
  <2>1. \A q \in Runs : mem'[q].status = mem[q].status
    BY <1>2 DEF Remembers
  <2> QED  BY <1>1, <1>2, <1>3, <2>1, Steady DEF Open
<1>12. Typed'
  BY <1>1, <1>2, <1>3, TypedStays DEF Remembers
<1> QED  BY <1>4, <1>10, <1>11, <1>12 DEF IInv

-----------------------------------------------------------------------------
(* Late transactions, the operator, lost leases.                            *)
LEMMA StrayKeeps ==
    ASSUME IInv, NEW r \in Runs, StrayCommits(r)
    PROVE  IInv'
<1>1. /\ Typed /\ Submitting /\ Served /\ Reservations /\ Unknown(r) /\ Placed(r) /\ Locked(r)
      /\ Claims(r) /\ Asking(r) /\ Quiet(r) /\ \A q \in Runs : Good(q)
  BY DEF IInv, Good
<1>2. /\ LedgerTyped' /\ OthersKept(r)
      /\ UNCHANGED <<gov, procVars, mem, worker, task, fin, user, call>>
      /\ \/ row'[r] = row[r] /\ UNCHANGED lease
         \/ row[r] = "queued" \/ (row[r] \in Ledger!Active /\ lease[r] = "held")
  BY <1>1, StrayIs DEF Typed
<1>3. PICK j \in stray[r] : /\ stray' = [stray EXCEPT ![r] = @ \ {j}]
                            /\ gate' = gate \/ (j.job = "gate" /\ create_permission(r, j.ask))
  BY <1>1, StrayIs DEF Typed
<1>4. TablesTyped' /\ \A q \in Runs : q # r => gate'[q] = gate[q]
  <2>1. CASE gate' = gate
    BY <1>1, <1>2, <2>1 DEF Typed, TablesTyped
  <2>2. CASE create_permission(r, j.ask)
    BY <1>1, <1>2, <2>2, GatesTyped DEF Typed
  <2> QED  BY <1>3, <2>1, <2>2
<1>5. /\ stray' \in [Runs -> SUBSET Jobs] /\ stray'[r] = stray[r] \ {j}
      /\ \A q \in Runs : q # r => stray'[q] = stray[q]
  BY <1>1, <1>3 DEF Typed, StrayTyped
<1>6. /\ mem' = mem /\ task' = task /\ fin' = fin /\ user' = user /\ call' = call
      /\ worker' = worker
  BY <1>2
<1>7. Served' /\ \A q \in Runs : Queued(q)' <=> Queued(q)
  BY <1>1, <1>6, ServedStays
<1>8. Framed({r})
  BY <1>2, <1>4, <1>5, <1>6, <1>7 DEF Framed, OthersKept
<1>9. stray[r] # {} /\ mem[r].status # "none" /\ task[r].pc \in {"none", "settle", "unwind"}
  BY <1>1, <1>3 DEF Unknown, Placed
<1>10. Unknown(r)' /\ Placed(r)'
  BY <1>1, <1>5, <1>6, <1>7, <1>9 DEF Unknown, Placed
<1>11. Locked(r)' /\ Asking(r)'
  BY <1>1, <1>6 DEF Locked, Settled, Asking
<1>12. Claims(r)'
  <2>1. ASSUME mem[r].status = "complete"
        PROVE  Durable(r)'
    <3>1. Durable(r)
      BY <1>1, <2>1 DEF Claims
    <3>2. row[r] = "queued" => lease[r] = "none"
      BY <1>1 DEF Typed, LedgerTyped, Ledger!LeaseColumns, Ledger!TypeOK, Ledger!Active
    <3> QED  BY <1>2, <3>1, <3>2 DEF Durable, Ledger!Active
  <2> QED  BY <1>1, <1>6, <1>9, <2>1 DEF Claims, Completing, InTurn
<1>13. Quiet(r)'
  <2>1. CASE gate' = gate
    BY <1>1, <1>5, <1>6, <2>1 DEF Quiet, NoneOpen
  <2>2. CASE j.job = "gate"
    BY <1>1, <1>3, <1>5, <1>6, <2>2 DEF Quiet
  <2> QED  BY <1>3, <2>1, <2>2
<1>14. \A q \in Runs : Good(q)'
  BY <1>1, <1>8, <1>10, <1>11, <1>12, <1>13, OthersGood DEF Good
<1>15. Submitting' /\ Reservations'
  <2>1. proc \notin {"off", "recover"}
    BY <1>1, <1>9, Knows
  <2> QED  BY <1>1, <1>2, <1>6, <2>1, Steady DEF Open
<1>16. Typed'
  BY <1>1, <1>2, <1>4, <1>5, TypedStays
<1> QED  BY <1>7, <1>14, <1>15, <1>16 DEF IInv

LEMMA LeaseExpiresKeeps ==
    ASSUME IInv, NEW r \in Runs, LeaseExpires(r)
    PROVE  IInv'
<1>1. /\ Typed /\ Submitting /\ Served /\ Reservations /\ Unknown(r) /\ Placed(r) /\ Locked(r)
      /\ Claims(r) /\ Asking(r) /\ Quiet(r) /\ \A q \in Runs : Good(q)
  BY DEF IInv, Good
<1>2. /\ Ledger!LeaseExpires(r) /\ UNCHANGED <<gov, gate, procVars, mem, taskVars, user, call>>
  BY DEF LeaseExpires
<1>3. LedgerTyped' /\ OthersKept(r) /\ UNCHANGED <<row, token>> /\ lease'[r] = "expired"
  BY <1>1, <1>2, LedgerExpires DEF Typed
<1>4. /\ mem' = mem /\ worker' = worker /\ task' = task /\ fin' = fin /\ stray' = stray
      /\ user' = user /\ call' = call /\ gate' = gate /\ gov' = gov
  BY <1>2 DEF taskVars
<1>5. Served' /\ \A q \in Runs : Queued(q)' <=> Queued(q)
  BY <1>1, <1>4, ServedStays
<1>6. Framed({r})
  BY <1>3, <1>4, <1>5 DEF Framed, OthersKept
<1>7. Good(r)'
  BY <1>1, <1>3, <1>4, <1>5
     DEF Good, Unknown, Placed, Locked, Settled, Claims, HasClaim, Completing, Durable, Asking,
         Quiet, NoneOpen
<1>8. \A q \in Runs : Good(q)'
  BY <1>1, <1>6, <1>7, OthersGood
<1>9. Submitting' /\ Reservations'
  BY <1>1, <1>2, <1>3, <1>4, Steady DEF Open
<1>10. Typed'
  BY <1>1, <1>2, <1>3, <1>4, TypedStays
<1> QED  BY <1>5, <1>8, <1>9, <1>10 DEF IInv

LEMMA OperatorKeeps ==
    ASSUME IInv, NEW r \in Runs,
           (\E q \in Requests : Decide(r, q)) \/ SendFails(r) \/ Resolved(r) \/ Decided(r)
    PROVE  IInv'
<1>1. /\ Typed /\ Submitting /\ Served /\ Reservations /\ Unknown(r) /\ Placed(r) /\ Locked(r)
      /\ Claims(r) /\ Asking(r) /\ Quiet(r) /\ \A q \in Runs : Good(q)
  BY DEF IInv, Good
<1>2. /\ LedgerTyped' /\ OthersKept(r) /\ UNCHANGED <<token, lease>>
      /\ row[r] \in Ledger!Active => row'[r] \in Ledger!Active
      /\ row[r] \notin Ledger!Active => row'[r] = row[r]
      /\ user' \in [Runs -> UserType] /\ \A q \in Runs : q # r => user'[q] = user[q]
      /\ UNCHANGED <<gov, procVars, mem, taskVars, call>>
      /\ \/ /\ user'[r].pc = "send" /\ ~PermissionLocked(r) /\ worker[BotOf[r]].active = r
            /\ user'[r].ask \in mem[r].pending
         \/ user[r].pc \in {"send", "mark"} /\ user'[r].pc = "idle"
         \/ user[r].pc = "resolve" /\ user'[r].pc = "mark"
      /\ gate' = gate \/ (user[r].pc = "resolve" /\ resolve(r, user[r].ask))
  BY <1>1, OperatorIs DEF Typed
<1>3. /\ mem' = mem /\ worker' = worker /\ task' = task /\ fin' = fin /\ stray' = stray
      /\ call' = call
  BY <1>2 DEF taskVars
<1>4. TablesTyped' /\ \A q \in Runs : q # r => gate'[q] = gate[q]
  <2>1. CASE gate' = gate
    BY <1>1, <1>2, <2>1 DEF Typed, TablesTyped
  <2>2. CASE resolve(r, user[r].ask)
    BY <1>1, <1>2, <2>2, GatesTyped DEF Typed
  <2> QED  BY <1>2, <2>1, <2>2
<1>5. NoneOpen(r) => NoneOpen(r)'
  <2>1. gate[r] \in [Requests -> {"none", "pending", "resolved", "expired"}]
    BY <1>1 DEF Typed, TablesTyped
  <2> QED  BY <1>1, <1>2, <2>1 DEF NoneOpen, resolve, Typed, TablesTyped
<1>6. mem[r].status # "none"
  BY <1>1, <1>2 DEF Unknown, Placed
<1>7. Served' /\ \A q \in Runs : Queued(q)' <=> Queued(q)
  BY <1>1, <1>3, ServedStays
<1>8. Framed({r})
  BY <1>2, <1>3, <1>4, <1>7 DEF Framed, OthersKept
<1>9. Unknown(r)' /\ Placed(r)' /\ Locked(r)'
  BY <1>1, <1>3, <1>6, <1>7 DEF Unknown, Placed, Locked, Settled
<1>10. Claims(r)'
  <2>1. (HasClaim(r) => HasClaim(r)') /\ (Durable(r) => Durable(r)')
    BY <1>2, <1>3 DEF HasClaim, Durable, Ledger!Active
  <2> QED  BY <1>1, <1>3, <2>1 DEF Claims, Completing
<1>11. Asking(r)'
  BY <1>1, <1>2, <1>3 DEF Asking, PermissionLocked
<1>12. Quiet(r)'
  BY <1>1, <1>3, <1>5 DEF Quiet
<1>13. \A q \in Runs : Good(q)'
  BY <1>1, <1>8, <1>9, <1>10, <1>11, <1>12, OthersGood DEF Good
<1>14. Submitting' /\ Reservations'
  <2>1. proc \notin {"off", "recover"}
    BY <1>1, <1>6, Knows
  <2> QED  BY <1>1, <1>2, <1>3, <2>1, Steady DEF Open
<1>15. Typed'
  BY <1>1, <1>2, <1>3, <1>4, TypedStays
<1> QED  BY <1>7, <1>13, <1>14, <1>15 DEF IInv

LEMMA SentKeeps ==
    ASSUME IInv, NEW r \in Runs, Sent(r)
    PROVE  IInv'
<1>1. /\ Typed /\ Submitting /\ Served /\ Reservations /\ Unknown(r) /\ Placed(r) /\ Locked(r)
      /\ Claims(r) /\ Asking(r) /\ Quiet(r) /\ \A q \in Runs : Good(q)
  BY DEF IInv, Good
<1>2. PICK s \in {mem[r].status, "running"} :
         /\ user[r].pc = "send"
         /\ Remembers(r, s, mem[r].pending \ {user[r].ask}, mem[r].handle, mem[r].lock)
         /\ Settled(r) => s = mem[r].status
         /\ Acts(r, task[r].pc, task[r].ask, task[r].asked,
                 task[r].answered \cup ({user[r].ask} \cap task[r].asked))
         /\ task'[r].beats <=> task[r].beats
         /\ user' \in [Runs -> UserType] /\ \A q \in Runs : q # r => user'[q] = user[q]
         /\ user'[r].pc = "resolve"
         /\ UNCHANGED <<tableVars, procVars, worker, fin, stray, call>>
  BY <1>1, SentIs DEF Typed
<1>3. /\ LedgerTyped' /\ TablesTyped' /\ UNCHANGED <<gov, gate, row, token, lease>>
      /\ worker' = worker /\ fin' = fin /\ stray' = stray /\ call' = call
      /\ \A q \in Runs : Kept(q)
  BY <1>1, <1>2, TablesKept
<1>4. Served' /\ \A q \in Runs : Queued(q)' <=> Queued(q)
  BY <1>1, <1>3, ServedStays
<1>5. Framed({r})
  BY <1>2, <1>3, <1>4 DEF Framed, Remembers, Acts
<1>6. /\ mem[r].status # "none" /\ mem'[r].status = s /\ s # "none"
      /\ (Settled(r)' <=> Settled(r))
      /\ (Open(r) => Open(r)') /\ mem'[r].handle = mem[r].handle /\ mem'[r].lock = mem[r].lock
      /\ mem'[r].pending = mem[r].pending \ {user[r].ask}
      /\ mem'[r].status \in Terminal => mem'[r].status = mem[r].status
      /\ task'[r].pc = task[r].pc
  BY <1>1, <1>2 DEF Unknown, Settled, Open, Terminal, Remembers, Acts
<1>7. Unknown(r)' /\ Placed(r)'
  BY <1>1, <1>3, <1>4, <1>6 DEF Unknown, Placed
<1>8. Locked(r)'
  BY <1>1, <1>2, <1>3, <1>6 DEF Locked
<1>9. Claims(r)'
  BY <1>1, <1>3, <1>6 DEF Claims, HasClaim, Completing, Durable, Terminal
<1>10. Asking(r)'
  BY <1>1, <1>2, <1>6 DEF Asking, Acts
<1>11. Quiet(r)'
  BY <1>1, <1>3, <1>6 DEF Quiet, NoneOpen, Terminal
<1>12. \A q \in Runs : Good(q)'
  BY <1>1, <1>5, <1>7, <1>8, <1>9, <1>10, <1>11, OthersGood DEF Good
<1>13. Submitting' /\ Reservations'
  <2>1. \A q \in Runs : /\ mem[q].status = "none" => mem'[q].status = "none"
                        /\ Open(q) => Open(q)'
    BY <1>2, <1>6 DEF Open, Remembers
  <2> QED  BY <1>1, <1>2, <1>3, <2>1, Steady
<1>14. Typed'
  BY <1>1, <1>2, <1>3, TypedStays DEF Remembers, Acts
<1> QED  BY <1>4, <1>12, <1>13, <1>14 DEF IInv

-----------------------------------------------------------------------------
(* A process that starts, takes runs in, and ends.                          *)

(* The run that is taken in was unknown, and waits now.                     *)
LEMMA EnqueuedGood ==
    ASSUME IInv, NEW r \in Runs, mem[r].status = "none", Enqueued(r), Reserves(r),
           UNCHANGED <<storeVars, gate, task, fin, stray, user, call>>
    PROVE  /\ Served' /\ LedgerTyped' /\ TablesTyped' /\ \A q \in Runs : Good(q)'
           /\ mem' \in [Runs -> MemType] /\ worker' \in [Bots -> WorkerType]
           /\ \A q \in Runs : q # r => gov'[q] = gov[q] /\ mem'[q] = mem[q]
           /\ mem'[r].status = "queued" /\ UNCHANGED row
<1>1. /\ Typed /\ Unknown(r) /\ Placed(r) /\ Locked(r) /\ Asking(r) /\ \A q \in Runs : Good(q)
  BY DEF IInv, Good
<1>2. /\ Served' /\ mem' \in [Runs -> MemType] /\ worker' \in [Bots -> WorkerType]
      /\ \A q \in Runs : q # r => mem'[q] = mem[q]
      /\ \A b \in Bots : worker'[b].active = worker[b].active
      /\ \A q \in Runs : Queued(q)' <=> Queued(q) \/ q = r
      /\ mem'[r].status = "queued" /\ mem'[r].lock = "free" /\ mem'[r].pending = {}
  BY DEF Enqueued
<1>3. LedgerTyped' /\ UNCHANGED <<row, token, lease>> /\ \A q \in Runs : Kept(q)
  BY <1>1, LedgerRests DEF Typed, Kept
<1>4. TablesTyped' /\ \A q \in Runs : q # r => gov'[q] = gov[q]
  BY <1>1, Reserving DEF Typed
<1>5. Framed({r})
  BY <1>2, <1>3, EngineAssumption DEF Framed
<1>6. /\ task[r].pc = "none" /\ user[r].pc = "idle" /\ stray[r] = {}
      /\ \A a \in Actors : fin[r][a].step = "idle"
      /\ \A c \in Callers : call[r][c].pc = "idle"
  BY <1>1 DEF Unknown
<1>7. Unknown(r)' /\ Placed(r)'
  BY <1>1, <1>2, <1>6, EngineAssumption DEF Unknown, Placed
<1>8. Locked(r)'
  BY <1>1, <1>2, <1>6 DEF Locked, Settled, Terminal, Holding, Beating, InTurn, Actors, Callers
<1>9. Claims(r)' /\ Asking(r)' /\ Quiet(r)'
  BY <1>1, <1>2, <1>6 DEF Claims, Completing, Asking, Quiet, Holding, InTurn, Actors
<1>10. \A q \in Runs : Good(q)'
  BY <1>1, <1>5, <1>7, <1>8, <1>9, OthersGood DEF Good
<1> QED  BY <1>2, <1>3, <1>4, <1>10

(* A run that is not taken in leaves everything as it was.                  *)
LEMMA NotTakenIn ==
    ASSUME IInv, UNCHANGED <<tableVars, mem, worker, task, fin, stray, user, call>>
    PROVE  Served' /\ LedgerTyped' /\ TablesTyped' /\ \A q \in Runs : Good(q)'
<1>1. Typed /\ Served /\ \A q \in Runs : Good(q)
  BY DEF IInv
<1>2. LedgerTyped' /\ TablesTyped' /\ UNCHANGED gate /\ \A q \in Runs : Kept(q)
  BY <1>1, TablesKept
<1>3. Served' /\ \A q \in Runs : Queued(q)' <=> Queued(q)
  BY <1>1, ServedStays
<1>4. Framed({})
  BY <1>2, <1>3 DEF Framed
<1> QED  BY <1>1, <1>2, <1>3, <1>4, OthersGood

LEMMA RestoreKeeps ==
    ASSUME IInv, NEW r \in Runs, Restore(r)
    PROVE  IInv'
<1>1. Typed /\ Served /\ Submitting /\ Reservations /\ Unknown(r)
  BY DEF IInv, Good
<1>2. /\ proc = "restore" /\ mem[r].status = "none" /\ r \in boot
      /\ boot' = boot \ {r} /\ TakesIn(r)
      /\ UNCHANGED <<storeVars, gate, proc, boots, sub, lapsed, task, fin, stray, user, call>>
  BY <1>1, RestoreIs DEF Typed
<1>3. ProcTyped' /\ sub = NoSub /\ sub.run # r
  <2>1. sub = NoSub
    BY <1>1, <1>2 DEF Submitting
  <2> QED  BY <1>1, <1>2, <2>1, EngineAssumption DEF Typed, ProcTyped, NoSub
<1>4. CASE Enqueued(r) /\ Reserves(r)
  <2>1. /\ Served' /\ LedgerTyped' /\ TablesTyped' /\ \A q \in Runs : Good(q)'
        /\ mem' \in [Runs -> MemType] /\ worker' \in [Bots -> WorkerType]
        /\ \A q \in Runs : q # r => gov'[q] = gov[q] /\ mem'[q] = mem[q]
        /\ mem'[r].status = "queued"
    BY <1>2, <1>4, EnqueuedGood
  <2>2. Submitting'
    BY <1>1, <1>2, <1>3, <2>1 DEF Submitting
  <2>3. Reservations'
    BY <1>1, <1>2, <1>3, <2>1 DEF Reservations, Open, NoSub
  <2>4. Typed'
    BY <1>1, <1>2, <1>3, <2>1, TypedStays
  <2> QED  BY <2>1, <2>2, <2>3, <2>4 DEF IInv
<1>5. CASE gov[r] # "active" /\ UNCHANGED <<gov, mem, worker>>
  <2>1. Served' /\ LedgerTyped' /\ TablesTyped' /\ \A q \in Runs : Good(q)'
    BY <1>2, <1>5, NotTakenIn DEF tableVars
  <2>2. Submitting'
    BY <1>1, <1>2, <1>3, <1>5 DEF Submitting
  <2>3. Reservations'
    BY <1>1, <1>2, <1>3, <1>5 DEF Reservations, Open, NoSub
  <2>4. Typed'
    BY <1>1, <1>2, <1>3, <1>5, <2>1, TypedStays
  <2> QED  BY <2>1, <2>2, <2>3, <2>4 DEF IInv
<1> QED  BY <1>2, <1>4, <1>5 DEF TakesIn

LEMMA ResubmitKeeps ==
    ASSUME IInv, NEW r \in Runs, Resubmit(r)
    PROVE  IInv'
<1>1. Typed /\ Served /\ Submitting /\ Reservations /\ Unknown(r)
  BY DEF IInv, Good
<1>2. /\ proc = "up" /\ mem[r].status = "none" /\ sub = NoSub
      /\ lapsed' = lapsed \ {r} /\ TakesIn(r)
      /\ UNCHANGED <<storeVars, gate, proc, boots, boot, sub, task, fin, stray, user, call>>
  BY <1>1, ResubmitIs DEF Typed
<1>3. ProcTyped' /\ sub.run # r /\ boot = {}
  <2>1. boot = {}
    BY <1>1, <1>2 DEF Submitting
  <2> QED  BY <1>1, <1>2, <2>1, EngineAssumption DEF Typed, ProcTyped, NoSub
<1>4. CASE Enqueued(r) /\ Reserves(r)
  <2>1. /\ Served' /\ LedgerTyped' /\ TablesTyped' /\ \A q \in Runs : Good(q)'
        /\ mem' \in [Runs -> MemType] /\ worker' \in [Bots -> WorkerType]
        /\ \A q \in Runs : q # r => gov'[q] = gov[q] /\ mem'[q] = mem[q]
        /\ mem'[r].status = "queued"
    BY <1>2, <1>4, EnqueuedGood
  <2>2. Submitting'
    BY <1>1, <1>2, <1>3, <2>1 DEF Submitting
  <2>3. Reservations'
    BY <1>1, <1>2, <1>3, <2>1 DEF Reservations, Open, NoSub
  <2>4. Typed'
    BY <1>1, <1>2, <1>3, <2>1, TypedStays
  <2> QED  BY <2>1, <2>2, <2>3, <2>4 DEF IInv
<1>5. CASE gov[r] # "active" /\ UNCHANGED <<gov, mem, worker>>
  <2>1. Served' /\ LedgerTyped' /\ TablesTyped' /\ \A q \in Runs : Good(q)'
    BY <1>2, <1>5, NotTakenIn DEF tableVars
  <2>2. Submitting'
    BY <1>1, <1>2, <1>3, <1>5 DEF Submitting
  <2>3. Reservations'
    BY <1>1, <1>2, <1>3, <1>5 DEF Reservations, Open, NoSub
  <2>4. Typed'
    BY <1>1, <1>2, <1>3, <1>5, <2>1, TypedStays
  <2> QED  BY <2>1, <2>2, <2>3, <2>4 DEF IInv
<1> QED  BY <1>2, <1>4, <1>5 DEF TakesIn

LEMMA ReservedKeeps ==
    ASSUME IInv, NEW r \in Runs, Reserved(r)
    PROVE  IInv'
<1>1. Typed /\ Served /\ Submitting /\ Reservations /\ Unknown(r)
  BY DEF IInv, Good
<1>2. /\ sub = [run |-> r, pc |-> "reserve"] /\ sub' = NoSub /\ mem[r].status = "none"
      /\ Enqueued(r) /\ Reserves(r)
      /\ UNCHANGED <<storeVars, gate, proc, boots, boot, lapsed, task, fin, stray, user, call>>
  BY <1>1, ReservedIs DEF Typed
<1>3. proc = "up" /\ boot = {} /\ sub.run = r /\ NoSub.run = NoRun /\ r # NoRun
  <2>1. sub # NoSub
    BY <1>2, EngineAssumption DEF NoSub
  <2> QED  BY <1>1, <1>2, <2>1, EngineAssumption DEF Submitting, NoSub
<1>4. ProcTyped'
  BY <1>1, <1>2 DEF Typed, ProcTyped, NoSub
<1>5. /\ Served' /\ LedgerTyped' /\ TablesTyped' /\ \A q \in Runs : Good(q)'
      /\ mem' \in [Runs -> MemType] /\ worker' \in [Bots -> WorkerType]
      /\ \A q \in Runs : q # r => gov'[q] = gov[q] /\ mem'[q] = mem[q]
      /\ mem'[r].status = "queued"
  BY <1>2, EnqueuedGood
<1>6. Submitting'
  BY <1>1, <1>2, <1>3, <1>5, EngineAssumption DEF Submitting
<1>7. Reservations'
  BY <1>1, <1>2, <1>3, <1>5, EngineAssumption DEF Reservations, Open
<1>8. Typed'
  BY <1>1, <1>2, <1>4, <1>5, TypedStays
<1> QED  BY <1>5, <1>6, <1>7, <1>8 DEF IInv

(* The reservation of a run that is being turned away: it is taken back, or *)
(* the run is remembered as lapsed.                                         *)
LEMMA SubmissionReserves ==
    ASSUME Typed, Submitting, Reservations, NEW r \in Runs,
           \/ Submit(r) \/ QuotaExceeded(r) \/ SubmitDropped(r) \/ Refused(r)
           \/ PrepareFails(r) \/ Withdrawn(r) \/ Released(r) \/ WithdrawalFails(r)
    PROVE  /\ TablesTyped' /\ ProcTyped' /\ proc = "up" /\ (sub.run = r \/ sub = NoSub)
           /\ \A q \in Runs : q # r => gov'[q] = gov[q]
           /\ lapsed \subseteq lapsed'
           /\ gov'[r] = "active" => \/ r \in lapsed'
                                    \/ sub'.run = r /\ sub'.pc \notin {"reserve", "refuse"}
<1>1. /\ TablesTyped /\ ProcTyped /\ NoSub.run = NoRun /\ NoSub.pc = "idle" /\ r # NoRun
  BY EngineAssumption DEF Typed, NoSub
<1>2. ASSUME sub.run = r
      PROVE  proc = "up"
  BY <1>1, <1>2 DEF Submitting
<1>3. CASE Submit(r)
  <2>1. /\ proc = "up" /\ sub = NoSub /\ mem[r].status = "none"
        /\ UNCHANGED <<gov, gate, proc, boots, boot, lapsed>>
          /\ sub' = [run |-> r, pc |-> "reserve"]
    BY <1>3 DEF Submit
  <2>2. gov[r] = "active" => r \in lapsed
    BY <1>1, <2>1 DEF Reservations, Open
  <2> QED  BY <1>1, <2>1, <2>2 DEF TablesTyped, ProcTyped
<1>4. CASE QuotaExceeded(r) \/ Refused(r)
  <2>1. /\ sub.run = r /\ sub.pc \in {"reserve", "refuse"}
        /\ UNCHANGED <<gov, gate, proc, boots, boot, lapsed>>
        /\ sub' \in {NoSub, [run |-> r, pc |-> "refuse"]}
    BY <1>4 DEF QuotaExceeded, Refused, tableVars
  <2>2. gov[r] = "active" => r \in lapsed
    BY <2>1 DEF Reservations
  <2> QED  BY <1>1, <1>2, <2>1, <2>2 DEF TablesTyped, ProcTyped, NoSub
<1>5. CASE SubmitDropped(r)
  <2>1. /\ sub.run = r /\ sub.pc = "reserve" /\ UNCHANGED <<gate, proc, boots, boot>>
        /\ \/ sub' = NoSub /\ UNCHANGED <<gov, lapsed>>
           \/ sub' = [run |-> r, pc |-> "refuse"] /\ Reserves(r) /\ lapsed' = lapsed \cup {r}
    BY <1>5 DEF SubmitDropped, reserve_run, Reserves
  <2>2. gov[r] = "active" => r \in lapsed
    BY <2>1 DEF Reservations
  <2>3. TablesTyped' /\ \A q \in Runs : q # r => gov'[q] = gov[q]
    BY <1>1, <2>1, Reserving DEF TablesTyped
  <2>4. ProcTyped' /\ lapsed \subseteq lapsed'
    BY <1>1, <2>1 DEF ProcTyped, NoSub
  <2> QED  BY <1>2, <2>1, <2>2, <2>3, <2>4
<1>6. CASE PrepareFails(r)
  <2>1. /\ sub.run = r /\ UNCHANGED <<gate, proc, boots, boot, lapsed>> /\ Reserves(r)
        /\ sub' = [run |-> r, pc |-> "withdraw"]
    BY <1>6 DEF PrepareFails, reserve_run, Reserves
  <2>2. TablesTyped' /\ \A q \in Runs : q # r => gov'[q] = gov[q]
    BY <1>1, <2>1, Reserving
  <2> QED  BY <1>1, <1>2, <2>1, <2>2 DEF ProcTyped
<1>7. CASE Withdrawn(r)
  <2>1. /\ sub.run = r /\ UNCHANGED <<gov, gate, proc, boots, boot, lapsed>>
        /\ sub' = [run |-> r, pc |-> "release"]
    BY <1>7 DEF Withdrawn
  <2> QED  BY <1>1, <1>2, <2>1 DEF TablesTyped, ProcTyped
<1>8. CASE Released(r)
  <2>1. /\ sub.run = r /\ UNCHANGED <<gate, proc, boots, boot, lapsed>> /\ finish_run(r)
        /\ sub' = NoSub
    BY <1>8 DEF Released
  <2>2. TablesTyped' /\ gov'[r] # "active" /\ \A q \in Runs : q # r => gov'[q] = gov[q]
    BY <1>1, <2>1, Returned
  <2> QED  BY <1>1, <1>2, <2>1, <2>2 DEF ProcTyped, NoSub
<1>9. CASE WithdrawalFails(r)
  <2>1. /\ sub.run = r /\ UNCHANGED <<gov, gate, proc, boots, boot>> /\ sub' = NoSub
        /\ lapsed' = IF gov[r] = "active" THEN lapsed \cup {r} ELSE lapsed
    BY <1>9 DEF WithdrawalFails, tableVars
  <2> QED  BY <1>1, <1>2, <2>1 DEF TablesTyped, ProcTyped, NoSub
<1> QED  BY <1>3, <1>4, <1>5, <1>6, <1>7, <1>8, <1>9

LEMMA SubmissionKeeps ==
    ASSUME IInv, NEW r \in Runs,
           \/ Submit(r) \/ QuotaExceeded(r) \/ SubmitDropped(r) \/ Refused(r)
           \/ PrepareFails(r) \/ Withdrawn(r) \/ Released(r) \/ WithdrawalFails(r)
    PROVE  IInv'
<1>1. /\ Typed /\ Submitting /\ Served /\ Reservations /\ Unknown(r) /\ Placed(r) /\ Locked(r)
      /\ Claims(r) /\ Asking(r) /\ Quiet(r) /\ \A q \in Runs : Good(q)
  BY DEF IInv, Good
<1>2. /\ LedgerTyped' /\ OthersKept(r)
      /\ UNCHANGED <<gate, proc, boots, boot, mem, taskVars, user, call>>
      /\ \/ mem[r].status = "none" /\ proc = "up" /\ sub = NoSub
         \/ sub.run = r
      /\ sub' = NoSub \/ (sub'.run = r /\ sub'.pc # "idle")
  BY <1>1, SubmissionIs DEF Typed
<1>3. /\ TablesTyped' /\ ProcTyped' /\ proc = "up" /\ (sub.run = r \/ sub = NoSub)
      /\ \A q \in Runs : q # r => gov'[q] = gov[q]
      /\ lapsed \subseteq lapsed'
      /\ gov'[r] = "active" => \/ r \in lapsed'
                               \/ sub'.run = r /\ sub'.pc \notin {"reserve", "refuse"}
  BY <1>1, SubmissionReserves
<1>4. /\ mem' = mem /\ worker' = worker /\ task' = task /\ fin' = fin /\ stray' = stray
      /\ user' = user /\ call' = call /\ gate' = gate /\ proc' = proc /\ boot' = boot
  BY <1>2 DEF taskVars
<1>5. mem[r].status = "none" /\ NoSub.run = NoRun /\ r # NoRun /\ NoRun \notin Runs
  BY <1>1, <1>2, EngineAssumption DEF Submitting, NoSub
<1>6. Served' /\ \A q \in Runs : Queued(q)' <=> Queued(q)
  BY <1>1, <1>4, ServedStays
<1>7. Framed({r})
  BY <1>2, <1>4, <1>6 DEF Framed, OthersKept
<1>8. Unknown(r)' /\ Placed(r)' /\ Locked(r)' /\ Asking(r)' /\ Quiet(r)'
  BY <1>1, <1>4, <1>6 DEF Unknown, Placed, Locked, Settled, Asking, Quiet, NoneOpen
<1>9. Claims(r)'
  BY <1>1, <1>4, <1>5 DEF Claims, Completing, Unknown, InTurn, Actors
<1>10. \A q \in Runs : Good(q)'
  BY <1>1, <1>7, <1>8, <1>9, OthersGood DEF Good
<1>11. Submitting'
  BY <1>1, <1>2, <1>3, <1>4, <1>5 DEF Submitting
<1>12. Reservations'
  <2>1. \A q \in Runs : q # r => sub.run # q /\ sub'.run # q
    BY <1>2, <1>3, <1>5
  <2> QED  BY <1>1, <1>3, <1>4, <2>1 DEF Reservations, Open
<1>13. Typed'
  BY <1>1, <1>2, <1>3, <1>4, TypedStays
<1> QED  BY <1>6, <1>10, <1>11, <1>12, <1>13 DEF IInv

LEMMA StartKeeps ==
    ASSUME IInv, Start \/ Recover \/ Started \/ Close
    PROVE  IInv'
<1>1. Typed /\ Served /\ Submitting /\ Reservations /\ \A q \in Runs : Good(q)
  BY DEF IInv
<1>2. /\ LedgerTyped' /\ UNCHANGED <<gate, sub, lapsed, mem, taskVars, user, call, token>>
      /\ \/ proc = "off" /\ proc' = "recover" /\ UNCHANGED <<row, boot>>
         \/ proc = "recover" /\ proc' = "restore" /\ boot' = {r \in Runs : row'[r] = "queued"}
         \/ /\ proc = "restore" /\ proc' = "up" /\ boot = {} /\ UNCHANGED <<row, boot>>
         \/ /\ proc = "up" /\ proc' = "closing" /\ sub = NoSub /\ UNCHANGED <<row, boot>>
      /\ UNCHANGED lease \/ proc' = "restore"
  BY <1>1, StartIs DEF Typed
<1>3. /\ mem' = mem /\ worker' = worker /\ task' = task /\ fin' = fin /\ stray' = stray
      /\ user' = user /\ call' = call /\ gate' = gate /\ sub' = sub /\ lapsed' = lapsed
  BY <1>2 DEF taskVars
<1>4. /\ gov' \in [Runs -> {"none", "active", "finished"}] /\ boots' \in 0 .. MaxBoots
      /\ \A r \in Runs : gov'[r] = "active" => gov[r] = "active"
  <2>1. CASE Start
    BY <1>1, <2>1, EngineAssumption DEF Start, Typed, TablesTyped, ProcTyped
  <2>2. CASE Recover \/ Started \/ Close
    BY <1>1, <2>2 DEF Recover, Started, Close, tableVars, Typed, TablesTyped, ProcTyped
  <2> QED  BY <2>1, <2>2
<1>5. Served' /\ \A q \in Runs : Queued(q)' <=> Queued(q)
  BY <1>1, <1>3, ServedStays
<1>6. TablesTyped' /\ ProcTyped'
  BY <1>1, <1>2, <1>3, <1>4 DEF Typed, TablesTyped, ProcTyped
<1>7. Typed'
  BY <1>1, <1>2, <1>3, <1>6, TypedStays
<1>8. Submitting'
  BY <1>1, <1>2, <1>3 DEF Submitting
<1>9. Reservations'
  <2>1. CASE Start
    <3>1. /\ \A r \in Runs : gov'[r] = "active" => row[r] \notin Terminal \cup {"absent"}
          /\ proc' = "recover" /\ proc = "off"
      BY <1>1, <2>1 DEF Start, Typed, TablesTyped
    <3>2. UNCHANGED row /\ \A r \in Runs : row[r] \in {"absent", "queued"} \cup Ledger!Active \cup Terminal
      BY <1>1, <1>2, <3>1 DEF Typed, LedgerTyped, Ledger!TypeOK, Ledger!Terminal, Terminal
    <3>3. sub' = NoSub /\ \A r \in Runs : sub'.run # r
      BY <1>1, <1>3, <3>1, EngineAssumption DEF Submitting, NoSub
    <3> QED  BY <3>1, <3>2, <3>3 DEF Reservations
  <2>2. CASE Recover
    <3>1. /\ proc = "recover" /\ proc' = "restore" /\ boot' = {r \in Runs : row'[r] = "queued"}
          /\ \A r \in Runs : row'[r] = IF row[r] \in Ledger!Active THEN "queued" ELSE row[r]
      BY <1>1, <2>2, LedgerRecovers DEF Recover, Typed
    <3>2. sub' = NoSub /\ \A r \in Runs : sub'.run # r
      BY <1>1, <1>3, <3>1, EngineAssumption DEF Submitting, NoSub
    <3> QED  BY <1>1, <1>4, <3>1, <3>2 DEF Reservations
  <2>3. CASE Started
    <3>1. proc = "restore" /\ proc' = "up" /\ boot = {}
      BY <2>3 DEF Started
    <3> QED  BY <1>1, <1>3, <1>4, <3>1 DEF Reservations, Open
  <2>4. CASE Close
    <3>1. proc = "up" /\ proc' = "closing" /\ sub = NoSub
      BY <2>4 DEF Close
    <3> QED  BY <1>1, <1>3, <1>4, <3>1 DEF Reservations, NoSub
  <2> QED  BY <2>1, <2>2, <2>3, <2>4
<1>10. \A r \in Runs : Good(r)'
  <2>1. CASE proc = "recover"
    <3> SUFFICES ASSUME NEW r \in Runs
                 PROVE  Good(r)'
      OBVIOUS
    <3>1. /\ Unknown(r) /\ Placed(r) /\ Locked(r) /\ Claims(r) /\ Asking(r) /\ Quiet(r)
          /\ mem[r].status = "none"
      BY <1>1, <2>1 DEF Good, Submitting
    <3>2. Unknown(r)' /\ Placed(r)' /\ Locked(r)' /\ Asking(r)' /\ Quiet(r)'
      BY <1>3, <1>5, <3>1 DEF Unknown, Placed, Locked, Settled, Asking, Quiet, NoneOpen
    <3>3. Claims(r)'
      BY <1>3, <3>1 DEF Claims, Completing, Unknown, InTurn, Actors
    <3> QED  BY <3>2, <3>3 DEF Good
  <2>2. CASE proc # "recover"
    <3>1. \A q \in Runs : Kept(q)
      BY <1>2, <2>2 DEF Kept
    <3>2. Framed({})
      BY <1>3, <1>5, <3>1 DEF Framed
    <3> QED  BY <1>1, <3>2, OthersGood
  <2> QED  BY <2>1, <2>2
<1> QED  BY <1>5, <1>7, <1>8, <1>9, <1>10 DEF IInv

LEMMA ForgetsKeeps ==
    ASSUME IInv, Closed \/ Crash
    PROVE  IInv'
<1>1. Typed
  BY DEF IInv
<1>2. /\ proc' = "off" /\ UNCHANGED <<tableVars, boots>>
      /\ sub' = NoSub /\ lapsed' = {} /\ boot' = {}
      /\ MemTyped' /\ WorkerTyped' /\ TaskTyped' /\ FinTyped' /\ UserTyped' /\ CallTyped'
      /\ StrayTyped'
  BY Forgets
<1>3. \A r \in Runs :
        /\ mem'[r].status = "none" /\ mem'[r].lock = "free" /\ mem'[r].pending = {}
        /\ task'[r].pc = "none" /\ ~task'[r].beats
        /\ task'[r].asked = {} /\ task'[r].answered = {}
        /\ \A a \in Actors : fin'[r][a].step = "idle" /\ fin'[r][a].status = "complete"
        /\ user'[r].pc = "idle" /\ stray'[r] = {} /\ ~Queued(r)'
        /\ \A c \in Callers : call'[r][c].pc = "idle"
  BY Forgets
<1>4. \A b \in Bots : /\ worker'[b].loop = "none" /\ worker'[b].active = NoRun
                      /\ worker'[b].fifo = <<>>
  BY Forgets
<1>5. LedgerTyped' /\ TablesTyped' /\ UNCHANGED gov
  BY <1>1, <1>2, TablesKept
<1>6. ProcTyped'
  BY <1>1, <1>2 DEF Typed, ProcTyped, NoSub
<1>7. Submitting'
  BY <1>2, <1>3, EngineAssumption DEF Submitting, NoSub
<1>8. Served'
  BY <1>4 DEF Served
<1>9. Reservations'
  BY <1>2, EngineAssumption DEF Reservations, NoSub
<1>10. \A r \in Runs : Good(r)'
  <2> SUFFICES ASSUME NEW r \in Runs
               PROVE  Good(r)'
    OBVIOUS
  <2>1. worker'[BotOf[r]].active # r
    BY <1>4, EngineAssumption
  <2>2. Unknown(r)' /\ Placed(r)'
    BY <1>3, <2>1 DEF Unknown, Placed
  <2>3. Locked(r)'
    BY <1>3 DEF Locked, Holding, InTurn, Actors, Callers
  <2>4. Claims(r)' /\ Asking(r)' /\ Quiet(r)'
    BY <1>3 DEF Claims, Completing, Asking, Quiet, Holding, InTurn, Actors
  <2> QED  BY <2>2, <2>3, <2>4 DEF Good
<1> QED  BY <1>2, <1>5, <1>6, <1>7, <1>8, <1>9, <1>10 DEF IInv, Typed

-----------------------------------------------------------------------------
(* The invariant, and what follows from it.                                 *)
LEMMA InitHolds ==
    ASSUME Init
    PROVE  IInv
<1>1. /\ proc = "off" /\ boots = 0 /\ boot = {} /\ sub = NoSub /\ lapsed = {}
      /\ gov = [r \in Runs |-> "none"]
      /\ gate = [r \in Runs |-> [q \in Requests |-> "none"]]
  BY DEF Init
<1>2. LedgerTyped
  BY EngineAssumption
     DEF Init, Ledger!Init, LedgerTyped, Ledger!TypeOK, Ledger!LeaseColumns, Ledger!Active
<1>3. TablesTyped /\ ProcTyped
  BY <1>1, EngineAssumption DEF TablesTyped, ProcTyped, NoSub
<1>4. MemTyped
  <2>1. ASSUME NEW f \in BOOLEAN
        PROVE  [status |-> "none", finishing |-> f, pending |-> {}, handle |-> 0, lock |-> "free"]
                 \in MemType
    BY EngineAssumption DEF MemType
  <2> QED  BY <2>1 DEF MemTyped, Init, NoState
<1>5. WorkerTyped
  BY DEF WorkerTyped, Init, NoWorker, WorkerType
<1>6. TaskTyped
  <2>1. ASSUME NEW f \in BOOLEAN
        PROVE  [pc |-> "none", ask |-> NoRequest, asked |-> {}, answered |-> {}, beats |-> f]
                 \in TaskType
    BY DEF TaskType
  <2> QED  BY <2>1 DEF TaskTyped, Init, NoTask
<1>7. FinTyped
  BY DEF FinTyped, Init, NoFin, FinType, Terminal
<1>8. UserTyped /\ CallTyped /\ StrayTyped
  BY DEF UserTyped, CallTyped, StrayTyped, Init, NoUser, NoCall, UserType, CallType
<1>9. \A b \in Bots : worker[b].loop = "none" /\ worker[b].active = NoRun /\ worker[b].fifo = <<>>
  BY DEF Init, NoWorker
<1>10. ASSUME NEW r \in Runs
       PROVE  /\ mem[r].status = "none" /\ mem[r].lock = "free" /\ mem[r].pending = {}
              /\ task[r].pc = "none" /\ ~task[r].beats
              /\ task[r].asked = {} /\ task[r].answered = {}
              /\ \A a \in Actors : fin[r][a].step = "idle" /\ fin[r][a].status = "complete"
              /\ user[r].pc = "idle" /\ stray[r] = {}
              /\ \A c \in Callers : call[r][c].pc = "idle"
  BY DEF Init, NoState, NoTask, NoFin, NoUser, NoCall
<1>11. Submitting /\ Reservations
  BY <1>1, <1>10, EngineAssumption DEF Submitting, Reservations, NoSub
<1>12. Served
  BY <1>9 DEF Served
<1>13. \A r \in Runs : Good(r)
  <2> SUFFICES ASSUME NEW r \in Runs
               PROVE  Good(r)
    OBVIOUS
  <2>1. worker[BotOf[r]].active # r /\ ~Queued(r)
    BY <1>9, EngineAssumption DEF Queued
  <2>2. Unknown(r) /\ Placed(r)
    BY <1>10, <2>1 DEF Unknown, Placed
  <2>3. Locked(r)
    BY <1>10 DEF Locked, Holding, InTurn, Actors, Callers
  <2>4. Claims(r) /\ Asking(r) /\ Quiet(r)
    BY <1>10 DEF Claims, Completing, Asking, Quiet, Holding, InTurn, Actors
  <2> QED  BY <2>2, <2>3, <2>4 DEF Good
<1> QED  BY <1>2, <1>3, <1>4, <1>5, <1>6, <1>7, <1>8, <1>11, <1>12, <1>13 DEF IInv, Typed

LEMMA FinishKeeps ==
    ASSUME IInv, NEW r \in Runs, NEW a \in Actors, Finish(r, a)
    PROVE  IInv'
  BY FinLockKeeps, FinExpireKeeps, FinCommitKeeps, FinGovernKeeps DEF Finish

LEMMA TurnStepKeeps ==
    ASSUME IInv, NEW r \in Runs, Turn(r)
    PROVE  IInv'
<1>1. ASSUME NEW q \in Requests, AgentAsks(r, q)
      PROVE  IInv'
  BY <1>1, AgentAsksKeeps
<1>2. CASE Begin(r) \/ Claimed(r) \/ ClaimFails(r) \/ Unwind(r)
  BY <1>2, BeginKeeps, ClaimedKeeps, ClaimFailsKeeps, UnwindKeeps
<1>3. CASE PolicyAnswers(r) \/ PolicySends(r) \/ PolicyAsks(r) \/ GateCreated(r) \/ StillWaiting(r)
  BY <1>3, PolicyKeeps, PolicySendsKeeps, PolicyAsksKeeps, GateCreatedKeeps
<1>4. CASE MarkedWaiting(r) \/ MarkedRunning(r) \/ TurnEnds(r) \/ TurnFails(r)
  BY <1>4, MarkedKeeps, TurnEndsKeeps, TurnFailsKeeps
<1>5. CASE FailsOver(r) \/ Reopened(r) \/ NoFailover(r)
  BY <1>5, FailsOverKeeps, ReopenedKeeps, TurnEndsKeeps
<1>6. CASE Finish(r, "exec")
  BY <1>6, FinishKeeps DEF Actors
<1> QED  BY <1>1, <1>2, <1>3, <1>4, <1>5, <1>6 DEF Turn

LEMMA ServeKeeps ==
    ASSUME IInv, NEW r \in Runs, Serve(r)
    PROVE  IInv'
<1>1. CASE \/ QuotaExceeded(r) \/ SubmitDropped(r) \/ Refused(r)
           \/ PrepareFails(r) \/ Withdrawn(r) \/ Released(r) \/ WithdrawalFails(r)
  BY <1>1, SubmissionKeeps
<1>2. CASE Reserved(r) \/ StrayCommits(r)
  BY <1>2, ReservedKeeps, StrayKeeps
<1>3. CASE Sent(r) \/ SendFails(r) \/ Resolved(r) \/ Decided(r)
  BY <1>3, SentKeeps, OperatorKeeps
<1>4. ASSUME NEW c \in Callers, CancelTask(r, c) \/ TaskGone(r, c) \/ Finish(r, c)
      PROVE  IInv'
  BY <1>4, CancelTaskKeeps, TaskGoneKeeps, FinishKeeps DEF Actors
<1> QED  BY <1>1, <1>2, <1>3, <1>4 DEF Serve

LEMMA NextKeeps ==
    ASSUME IInv, Next
    PROVE  IInv'
<1>1. CASE Boot
  BY <1>1, StartKeeps, RestoreKeeps DEF Boot
<1>2. CASE Close \/ Closed \/ Crash
  BY <1>2, StartKeeps, ForgetsKeeps
<1>3. ASSUME NEW b \in Bots, Take(b)
      PROVE  IInv'
  BY <1>3, TakeKeeps
<1>4. ASSUME NEW r \in Runs,
             \/ Submit(r) \/ Resubmit(r) \/ \E q \in Requests : Decide(r, q)
             \/ Turn(r) \/ Serve(r) \/ \E c \in Callers : Cancel(r, c)
             \/ LeaseExpires(r) \/ HeartbeatLooks(r) \/ HeartbeatFails(r)
      PROVE  IInv'
  <2>1. CASE Submit(r) \/ Resubmit(r)
    BY <2>1, SubmissionKeeps, ResubmitKeeps
  <2>2. CASE \E q \in Requests : Decide(r, q)
    BY <2>2, OperatorKeeps
  <2>3. CASE Turn(r) \/ Serve(r)
    BY <2>3, TurnStepKeeps, ServeKeeps
  <2>4. ASSUME NEW c \in Callers, Cancel(r, c)
        PROVE  IInv'
    BY <2>4, CancelKeeps
  <2>5. CASE LeaseExpires(r) \/ HeartbeatLooks(r) \/ HeartbeatFails(r)
    BY <2>5, LeaseExpiresKeeps, HeartbeatLooksKeeps, HeartbeatFailsKeeps
  <2> QED  BY <1>4, <2>1, <2>2, <2>3, <2>4, <2>5
<1> QED  BY <1>1, <1>2, <1>3, <1>4 DEF Next

LEMMA StutterKeeps ==
    ASSUME IInv, UNCHANGED vars
    PROVE  IInv'
<1>1. /\ UNCHANGED <<tableVars, mem, worker, task, fin, stray, user, call>>
      /\ UNCHANGED procVars
  BY DEF vars, taskVars
<1>2. Served' /\ LedgerTyped' /\ TablesTyped' /\ \A q \in Runs : Good(q)'
  BY <1>1, NotTakenIn
<1>3. Typed /\ Submitting /\ Reservations /\ UNCHANGED <<gov, row>>
  BY <1>1, TablesKept DEF IInv
<1>4. Submitting' /\ Reservations'
  BY <1>1, <1>3, Steady DEF Open
<1>5. Typed'
  BY <1>1, <1>2, <1>3, TypedStays
<1> QED  BY <1>2, <1>4, <1>5 DEF IInv

(* Whatever the operator, the agents, the providers, the database, the      *)
(* clock and a dying process do, in any order, the invariant holds.         *)
THEOREM Invariance == Spec => []IInv
<1>1. Init => IInv
  BY InitHolds
<1>2. IInv /\ [Next]_vars => IInv'
  BY NextKeeps, StutterKeeps
<1> QED  BY <1>1, <1>2, PTL DEF Spec

(* Every variable keeps its type.                                           *)
THEOREM TypeCorrect == Spec => []TypeOK
<1>1. ASSUME IInv
      PROVE  TypeOK
  <2>1. Typed
    BY <1>1 DEF IInv
  <2>2. ASSUME NEW r \in Runs
        PROVE  /\ mem[r] \in MemType /\ task[r] \in TaskType /\ user[r] \in UserType
               /\ \A a \in Actors : fin[r][a] \in FinType
               /\ \A c \in Callers : call[r][c] \in CallType
    BY <2>1 DEF Typed, MemTyped, TaskTyped, UserTyped, FinTyped, CallTyped
  <2>3. ASSUME NEW b \in Bots
        PROVE  worker[b] \in WorkerType
    BY <2>1 DEF Typed, WorkerTyped
  <2>4. TablesTyped /\ ProcTyped
    BY <2>1 DEF Typed
  <2>5. ASSUME NEW r \in Runs
        PROVE  /\ mem[r].status \in {"none", "queued", "running", "waiting"} \cup Terminal
               /\ mem[r].pending \in SUBSET Requests
               /\ mem[r].handle \in 0 .. MaxClaims
               /\ mem[r].lock \in {"free", "beat"} \cup Actors
    BY <2>2 DEF MemType
  <2>6. ASSUME NEW r \in Runs
        PROVE  mem[r].finishing \in BOOLEAN
    BY <2>2, Zenon DEF MemType
  <2>7. ASSUME NEW r \in Runs
        PROVE  /\ task[r].pc \in {"none", "new", "claim", "finish", "settle", "unwind"} \cup InTurn
               /\ task[r].ask \in Requests \cup {NoRequest}
               /\ task[r].asked \in SUBSET Requests
               /\ task[r].answered \in SUBSET Requests
    BY <2>2 DEF TaskType
  <2>8. ASSUME NEW r \in Runs
        PROVE  task[r].beats \in BOOLEAN
    BY <2>2, Zenon DEF TaskType
  <2>9. ASSUME NEW r \in Runs
        PROVE  /\ \A a \in Actors :
                     /\ fin[r][a].step \in {"idle", "lock", "expire", "commit", "govern"}
                     /\ fin[r][a].status \in Terminal
               /\ user[r].pc \in {"idle", "send", "resolve", "mark"}
               /\ user[r].ask \in Requests \cup {NoRequest}
               /\ \A c \in Callers :
                     /\ call[r][c].pc \in {"idle", "polite", "gather", "finish"}
                     /\ call[r][c].target \in Runs \cup {NoRun}
    BY <2>2 DEF FinType, UserType, CallType
  <2>10. ASSUME NEW b \in Bots
         PROVE  /\ worker[b].loop \in {"none", "idle", "busy", "dead"}
                /\ worker[b].fifo \in Seq(Runs)
                /\ worker[b].active \in Runs \cup {NoRun}
    BY <2>3 DEF WorkerType
  <2> QED  BY <2>4, <2>5, <2>6, <2>7, <2>8, <2>9, <2>10, Zenon DEF TypeOK, TablesTyped, ProcTyped
<1> QED  BY <1>1, Invariance, PTL

(* No recovery, restart or late transaction lets a run be executed twice,   *)
(* or executed after its outcome is recorded.                               *)
THEOREM ExecutionsAreClaimed == Spec => []ExecutionHasClaim
<1>1. ASSUME IInv
      PROVE  ExecutionHasClaim
  BY <1>1 DEF IInv, Good, Claims, HasClaim, ExecutionHasClaim
<1> QED  BY <1>1, Invariance, PTL

(* A run shown as complete is complete in the ledger, unless its lease ran  *)
(* out.                                                                     *)
THEOREM CompletedStays == Spec => []CompletedIsDurable
<1>1. ASSUME IInv
      PROVE  CompletedIsDurable
  BY <1>1 DEF IInv, Good, Claims, Durable, CompletedIsDurable
<1> QED  BY <1>1, Invariance, PTL

(* A permission request is answered once, and none outlives its run.        *)
THEOREM RequestsAnsweredOnce == Spec => []GatesConsistent
<1>1. ASSUME IInv
      PROVE  GatesConsistent
  <2>1. \A r \in Runs : Asking(r) /\ Quiet(r)
    BY <1>1 DEF IInv, Good
  <2>2. NoDoubleAnswer
    BY <2>1 DEF Asking, NoDoubleAnswer
  <2>3. SettledRunsAskNothing
    BY <2>1 DEF Quiet, NoneOpen, SettledRunsAskNothing
  <2> QED  BY <2>2, <2>3 DEF GatesConsistent
<1> QED  BY <1>1, Invariance, PTL

(* A reserved slot belongs to a run that is open or being submitted, but    *)
(* for a run that was turned away and could not be withdrawn.               *)
THEOREM NothingLeaks == Spec => []NoLeakedReservation
<1>1. ASSUME IInv
      PROVE  NoLeakedReservation
  BY <1>1 DEF IInv, Reservations, NoLeakedReservation
<1> QED  BY <1>1, Invariance, PTL

(* What a step does to the outcomes of the runs that have settled.          *)
Final == \A r \in Runs : Settled(r) => mem'[r].status = mem[r].status

LEMMA FinishFinal ==
    ASSUME IInv, NEW r \in Runs, NEW a \in Actors, Finish(r, a)
    PROVE  Final
<1>1. Typed /\ Locked(r)
  BY DEF IInv, Good
<1>2. CASE FinLock(r, a)
  <2>1. UNCHANGED mem \/ Called(r, a, fin[r][a].status, TRUE)
    BY <1>1, <1>2, FinLockIs DEF Typed
  <2> QED  BY <2>1 DEF Final, Called
<1>3. CASE FinExpire(r, a) \/ FinCommit(r, a)
  BY <1>3 DEF FinExpire, FinCommit, Final
<1>4. CASE FinGovern(r, a)
  <2>1. fin[r][a].step = "govern" /\ \A q \in Runs : q # r => mem'[q] = mem[q]
    BY <1>1, <1>4, FinGovernIs DEF Typed
  <2>2. ~Settled(r)
    BY <1>1, <2>1 DEF Locked, Holding
  <2> QED  BY <2>1, <2>2 DEF Final
<1> QED  BY <1>2, <1>3, <1>4 DEF Finish

LEMMA TurnFinal ==
    ASSUME IInv, NEW r \in Runs, Turn(r)
    PROVE  Final
<1>1. Typed /\ Locked(r) /\ Asking(r)
  BY DEF IInv, Good
<1>2. ASSUME task[r].pc \in InTurn \cup {"claim"}
      PROVE  ~Settled(r)
  BY <1>1, <1>2 DEF Locked
<1>3. ASSUME NEW q \in Requests, AgentAsks(r, q)
      PROVE  Final
  BY <1>1, <1>3, AgentAsksIs DEF Typed, Remembers, Final
<1>4. CASE Begin(r) \/ Unwind(r)
  <2>1. \A q \in Runs : mem'[q].status = mem[q].status
    BY <1>1, <1>4, BeginIs, UnwindIs DEF Typed
  <2> QED  BY <2>1 DEF Final
<1>5. CASE Claimed(r)
  <2>1. task[r].pc = "claim" /\ \A q \in Runs : q # r => mem'[q] = mem[q]
    BY <1>1, <1>5, ClaimedIs DEF Typed, Remembers
  <2> QED  BY <1>2, <2>1 DEF Final
<1>6. CASE ClaimFails(r)
  BY <1>1, <1>6, ClaimFailsRun DEF Typed, Called, Final
<1>7. CASE PolicySends(r)
  <2>1. task[r].ask \in task[r].asked
    BY <1>1, <1>7 DEF Asking, PolicySends
  <2>2. task[r].pc = "send" /\ \A q \in Runs : q # r => mem'[q] = mem[q]
    BY <1>1, <1>7, <2>1, PolicySendsIs DEF Typed, Remembers
  <2> QED  BY <1>2, <2>2 DEF Final, InTurn
<1>8. CASE PolicyAsks(r)
  <2>1. task[r].pc = "eval" /\ \A q \in Runs : q # r => mem'[q] = mem[q]
    BY <1>1, <1>8, PolicyAsksIs DEF Typed, Remembers
  <2> QED  BY <1>2, <2>1 DEF Final, InTurn
<1>9. CASE FailsOver(r)
  <2>1. ~Settled(r) /\ \A q \in Runs : q # r => mem'[q] = mem[q]
    BY <1>1, <1>9, FailsOverIs DEF Typed, Remembers
  <2> QED  BY <2>1 DEF Final
<1>10. CASE TurnEnds(r) \/ NoFailover(r)
  <2>1. EndsRun(r, "finish", "complete") \/ EndsRun(r, "settle", "failed")
    BY <1>1, <1>10, TurnEndsRun, NoFailoverEndsRun DEF Typed
  <2> QED  BY <2>1 DEF EndsRun, Called, Final
<1>11. CASE \/ PolicyAnswers(r) \/ GateCreated(r) \/ StillWaiting(r) \/ MarkedWaiting(r)
            \/ MarkedRunning(r) \/ TurnFails(r) \/ Reopened(r)
  <2>1. UNCHANGED mem
    BY <1>11 DEF PolicyAnswers, GateCreated, StillWaiting, MarkedWaiting, MarkedRunning,
           TurnFails, Reopened
  <2> QED  BY <2>1 DEF Final
<1>12. CASE Finish(r, "exec")
  BY <1>12, FinishFinal DEF Actors
<1> QED  BY <1>3, <1>4, <1>5, <1>6, <1>7, <1>8, <1>9, <1>10, <1>11, <1>12 DEF Turn

LEMMA EndsCallFinal ==
    ASSUME NEW r \in Runs, NEW c, EndsCall(r, c)
    PROVE  Final
  BY DEF EndsCall, Called, Final

LEMMA ServeFinal ==
    ASSUME IInv, NEW r \in Runs, Serve(r)
    PROVE  Final
<1>1. Typed /\ Served /\ Submitting /\ Unknown(r)
  BY DEF IInv, Good
<1>2. CASE \/ QuotaExceeded(r) \/ SubmitDropped(r) \/ Refused(r)
           \/ PrepareFails(r) \/ Withdrawn(r) \/ Released(r) \/ WithdrawalFails(r)
  BY <1>1, <1>2, SubmissionIs DEF Typed, Final
<1>3. CASE Reserved(r)
  <2>1. mem[r].status = "none" /\ \A q \in Runs : q # r => mem'[q] = mem[q]
    BY <1>1, <1>3, ReservedIs DEF Typed, Enqueued
  <2> QED  BY <2>1 DEF Final, Settled, Terminal
<1>4. CASE StrayCommits(r) \/ SendFails(r) \/ Resolved(r) \/ Decided(r)
  BY <1>4 DEF StrayCommits, SendFails, Resolved, Decided, Final
<1>5. CASE Sent(r)
  BY <1>1, <1>5, SentIs DEF Typed, Remembers, Final
<1>6. ASSUME NEW c \in Callers, CancelTask(r, c) \/ TaskGone(r, c) \/ Finish(r, c)
      PROVE  Final
  <2>1. CASE CancelTask(r, c)
    <3>1. EndsCall(r, c) \/ \E target \in Runs : Killed(target, mem[target].lock)
      BY <1>1, <2>1, CancelTaskIs DEF Typed
    <3> QED  BY <3>1, EndsCallFinal DEF Killed, Final
  <2>2. CASE TaskGone(r, c)
    BY <1>1, <2>2, TaskGoneIs, EndsCallFinal DEF Typed
  <2> QED  BY <1>6, <2>1, <2>2, FinishFinal DEF Actors
<1> QED  BY <1>2, <1>3, <1>4, <1>5, <1>6 DEF Serve

LEMMA NextFinal ==
    ASSUME IInv, Next, proc' # "off"
    PROVE  Final
<1>1. Typed /\ Served /\ Submitting /\ \A r \in Runs : Unknown(r)
  BY DEF IInv, Good
<1>2. ASSUME NEW r \in Runs, Restore(r) \/ Resubmit(r)
      PROVE  Final
  <2>1. mem[r].status = "none" /\ TakesIn(r)
    BY <1>1, <1>2, RestoreIs, ResubmitIs DEF Typed
  <2> QED  BY <2>1 DEF TakesIn, Enqueued, Final, Settled, Terminal
<1>3. CASE Start \/ Recover \/ Started \/ Close
  BY <1>3 DEF Start, Recover, Started, Close, Final
<1>4. ASSUME NEW b \in Bots, Take(b)
      PROVE  Final
  BY <1>4 DEF Take, Final
<1>5. ASSUME NEW r \in Runs, Submit(r) \/ (\E q \in Requests : Decide(r, q)) \/ LeaseExpires(r)
      PROVE  Final
  BY <1>5 DEF Submit, Decide, LeaseExpires, Final
<1>6. ASSUME NEW r \in Runs, NEW c \in Callers, Cancel(r, c)
      PROVE  Final
  BY <1>1, <1>6, CancelIs, EndsCallFinal DEF Typed, Final
<1>7. ASSUME NEW r \in Runs, HeartbeatLooks(r) \/ HeartbeatFails(r)
      PROVE  Final
  BY <1>1, <1>7, LooksIs, HeartbeatIs DEF Typed, Remembers, Killed, Final
<1>8. ~Closed /\ ~Crash
  BY DEF Closed, Crash
<1> QED  BY <1>2, <1>3, <1>4, <1>5, <1>6, <1>7, <1>8, TurnFinal, ServeFinal DEF Next, Boot

(* A settled run is never opened again, nor its outcome replaced, while the *)
(* process lives.                                                           *)
THEOREM OutcomesFinal == Spec => TerminalIsFinal
<1>1. ASSUME IInv, [Next]_vars
      PROVE  [\A r \in Runs : Settled(r) /\ proc' # "off" => mem'[r].status = mem[r].status]_vars
  BY <1>1, NextFinal DEF Final
<1> QED  BY <1>1, Invariance, PTL DEF Spec, TerminalIsFinal

-----------------------------------------------------------------------------
(* The engine keeps to the ledger's own specification.                      *)

(* What is active was claimed.                                              *)
Drawn == \A r \in Runs : row[r] \in Ledger!Active => token[r] # 0

LEMMA DrawnInit == Init => Drawn
  BY DEF Init, Ledger!Init, Drawn, Ledger!Active

LEMMA DrawnStays ==
    ASSUME LedgerTyped, Drawn, [Ledger!Next]_storeVars
    PROVE  Drawn'
<1>1. /\ row \in [Runs -> {"absent", "queued"} \cup Ledger!Active \cup Terminal]
      /\ token \in [Runs -> 0 .. MaxClaims]
  BY DEF LedgerTyped, Ledger!TypeOK, Ledger!Terminal, Terminal
<1>2. ASSUME NEW r \in Runs, Ledger!claim(r)
      PROVE  Drawn'
  <2>1. \A q \in Runs : q # r => row'[q] = row[q] /\ token'[q] = token[q]
    BY <1>1, <1>2 DEF Ledger!claim
  <2>2. token'[r] = token[r] + 1 /\ token[r] \in Nat
    BY <1>1, <1>2, EngineAssumption DEF Ledger!claim
  <2> QED  BY <2>1, <2>2 DEF Drawn
<1>3. ASSUME UNCHANGED token,
             \A q \in Runs : row'[q] \in Ledger!Active => row[q] \in Ledger!Active
      PROVE  Drawn'
  BY <1>3 DEF Drawn
<1>4. ASSUME NEW r \in Runs, NEW s \in Terminal, Ledger!Finished(r, s)
      PROVE  Drawn'
  <2> DEFINE after == [x \in Runs |-> IF x \in {y \in Runs : row[y] \in Terminal}
                                      THEN newer[x] \cup {r} ELSE newer[x]]
             gone == Ledger!Surplus([row EXCEPT ![r] = s], after, MaxTerminal)
  <2>1. /\ row' = [x \in Runs |-> IF x \in gone THEN "absent" ELSE [row EXCEPT ![r] = s][x]]
        /\ UNCHANGED token
    BY <1>4 DEF Ledger!Finished, Ledger!_prune_db, Ledger!Terminal, Terminal
  <2> HIDE DEF gone, after
  <2>2. \A q \in Runs : row'[q] \in {"absent", s, row[q]}
    BY <1>1, <2>1
  <2>3. s \notin Ledger!Active /\ "absent" \notin Ledger!Active
    BY DEF Terminal, Ledger!Active
  <2> QED  BY <1>3, <2>1, <2>2, <2>3
<1>5. ASSUME NEW r \in Runs, Ledger!enqueue(r) \/ Ledger!cancel_queued(r) \/ Ledger!LeaseExpires(r)
      PROVE  Drawn'
  <2>1. CASE Ledger!cancel_queued(r)
    BY <1>4, <2>1 DEF Ledger!cancel_queued, Terminal
  <2>2. CASE Ledger!enqueue(r) \/ Ledger!LeaseExpires(r)
    BY <1>1, <1>3, <2>2 DEF Ledger!enqueue, Ledger!LeaseExpires, Ledger!Active
  <2> QED  BY <1>5, <2>1, <2>2
<1>6. ASSUME NEW bots, Ledger!claim_next(bots)
      PROVE  Drawn'
  BY <1>2, <1>6 DEF Ledger!claim_next
<1>7. ASSUME NEW r \in Runs, NEW t \in 1 .. MaxClaims,
             \/ Ledger!mark_waiting_permission(r, t) \/ Ledger!mark_running(r, t)
             \/ Ledger!record_failover(r, t)
             \/ \E s \in Ledger!Terminal : Ledger!finish(r, t, s)
      PROVE  Drawn'
  <2>1. CASE \/ Ledger!mark_waiting_permission(r, t) \/ Ledger!mark_running(r, t)
             \/ Ledger!record_failover(r, t)
    BY <1>1, <1>3, <2>1 DEF Ledger!mark_waiting_permission, Ledger!mark_running,
         Ledger!record_failover, Ledger!RequireActiveLease
  <2>2. CASE \E s \in Ledger!Terminal : Ledger!finish(r, t, s)
    BY <1>4, <2>2 DEF Ledger!finish, Ledger!Terminal, Terminal
  <2> QED  BY <1>7, <2>1, <2>2
<1>8. CASE Ledger!requeue_stale \/ Ledger!recover_startup
  <2>1. PICK back : Ledger!Requeue(back)
    BY <1>8 DEF Ledger!requeue_stale, Ledger!recover_startup
  <2>2. UNCHANGED token /\ \A q \in Runs : row'[q] \in {"queued", row[q]}
    BY <2>1 DEF Ledger!Requeue
  <2> QED  BY <1>3, <2>2 DEF Ledger!Active
<1>9. ASSUME NEW maximum \in 0 .. MaxTerminal, Ledger!prune(maximum)
      PROVE  Drawn'
  <2>1. UNCHANGED token /\ \A q \in Runs : row'[q] \in {"absent", row[q]}
    BY <1>9 DEF Ledger!prune, Ledger!_prune_db
  <2> QED  BY <1>3, <2>1 DEF Ledger!Active
<1>10. CASE UNCHANGED storeVars
  BY <1>3, <1>10 DEF storeVars
<1> QED  BY <1>2, <1>5, <1>6, <1>7, <1>8, <1>9, <1>10 DEF Ledger!Next

(* What a step of the engine does to the ledger.                            *)
Ledgered == Ledger!Next \/ UNCHANGED storeVars

LEMMA Handles ==
    ASSUME LedgerTyped, Drawn, NEW r \in Runs, NEW t, Ledger!RequireActiveLease(r, t)
    PROVE  t \in 1 .. MaxClaims
<1>1. token[r] \in 0 .. MaxClaims /\ token[r] # 0 /\ t = token[r]
  BY DEF LedgerTyped, Ledger!TypeOK, Drawn, Ledger!RequireActiveLease
<1> QED  BY <1>1, EngineAssumption

LEMMA LeaseUsed ==
    ASSUME LedgerTyped, Drawn, NEW r \in Runs, NEW t,
           \/ Ledger!mark_waiting_permission(r, t) \/ Ledger!mark_running(r, t)
           \/ Ledger!record_failover(r, t) \/ \E s \in Terminal : Ledger!finish(r, t, s)
    PROVE  Ledgered
<1>1. Ledger!RequireActiveLease(r, t)
  BY DEF Ledger!mark_waiting_permission, Ledger!mark_running, Ledger!record_failover,
         Ledger!finish
<1>2. t \in 1 .. MaxClaims
  BY <1>1, Handles
<1> QED  BY <1>2 DEF Ledgered, Ledger!Next, Ledger!Terminal, Terminal

LEMMA RowUsed ==
    ASSUME NEW r \in Runs, \/ Ledger!enqueue(r) \/ Ledger!claim(r)
                           \/ Ledger!cancel_queued(r) \/ Ledger!LeaseExpires(r)
    PROVE  Ledgered
  BY DEF Ledgered, Ledger!Next

LEMMA FinishLedgered ==
    ASSUME IInv, Drawn, NEW r \in Runs, NEW a \in Actors, Finish(r, a)
    PROVE  Ledgered
<1>1. LedgerTyped /\ fin[r][a].status \in Terminal
  BY DEF IInv, Typed, FinTyped, FinType
<1>2. CASE FinLock(r, a) \/ FinExpire(r, a) \/ FinGovern(r, a)
  BY <1>2 DEF FinLock, FinExpire, FinGovern, Ledgered, tableVars
<1>3. CASE FinCommit(r, a)
  <2>1. \/ Ledger!finish(r, mem[r].handle, fin[r][a].status) \/ Ledger!cancel_queued(r)
        \/ UNCHANGED storeVars
    BY <1>3 DEF FinCommit
  <2> QED  BY <1>1, <2>1, LeaseUsed, RowUsed DEF Ledgered
<1> QED  BY <1>2, <1>3 DEF Finish

LEMMA TurnLedgered ==
    ASSUME IInv, Drawn, NEW r \in Runs, Turn(r)
    PROVE  Ledgered
<1>1. LedgerTyped
  BY DEF IInv, Typed
<1>2. CASE \/ Begin(r) \/ ClaimFails(r) \/ Unwind(r)
           \/ PolicyAnswers(r) \/ PolicySends(r) \/ PolicyAsks(r) \/ StillWaiting(r)
           \/ TurnEnds(r) \/ TurnFails(r) \/ Reopened(r) \/ NoFailover(r)
           \/ \E q \in Requests : AgentAsks(r, q)
  <2>1. CASE Begin(r) \/ ClaimFails(r) \/ Unwind(r) \/ \E q \in Requests : AgentAsks(r, q)
    <3>1. UNCHANGED tableVars
      BY <2>1, Zenon DEF Begin, ClaimFails, Unwind, AgentAsks
    <3> QED  BY <3>1 DEF Ledgered, tableVars
  <2>2. CASE PolicyAnswers(r) \/ PolicySends(r) \/ PolicyAsks(r) \/ StillWaiting(r)
    BY <2>2 DEF PolicyAnswers, PolicySends, PolicyAsks, StillWaiting, Ledgered, tableVars
  <2>3. CASE TurnEnds(r) \/ TurnFails(r) \/ Reopened(r) \/ NoFailover(r)
    BY <2>3 DEF TurnEnds, TurnFails, Reopened, NoFailover, Ledgered, tableVars
  <2> QED  BY <1>2, <2>1, <2>2, <2>3
<1>3. CASE Claimed(r)
  BY <1>3, RowUsed DEF Claimed
<1>4. CASE GateCreated(r)
  BY <1>4 DEF GateCreated, Ledgered
<1>5. CASE MarkedWaiting(r) \/ MarkedRunning(r) \/ FailsOver(r)
  BY <1>1, <1>5, LeaseUsed DEF MarkedWaiting, MarkedRunning, FailsOver, Ledgered
<1>6. CASE Finish(r, "exec")
  BY <1>6, FinishLedgered DEF Actors
<1> QED  BY <1>2, <1>3, <1>4, <1>5, <1>6 DEF Turn

LEMMA ServeLedgered ==
    ASSUME IInv, Drawn, NEW r \in Runs, Serve(r)
    PROVE  Ledgered
<1>1. LedgerTyped
  BY DEF IInv, Typed
<1>2. CASE \/ Reserved(r) \/ QuotaExceeded(r) \/ SubmitDropped(r) \/ PrepareFails(r)
           \/ Released(r) \/ WithdrawalFails(r) \/ Sent(r) \/ SendFails(r) \/ Resolved(r)
           \/ \E c \in Callers : CancelTask(r, c) \/ TaskGone(r, c)
  BY <1>2 DEF Reserved, QuotaExceeded, SubmitDropped, PrepareFails, Released, WithdrawalFails,
         Sent, SendFails, Resolved, CancelTask, TaskGone, Ledgered, tableVars
<1>3. CASE Refused(r) \/ Withdrawn(r)
  BY <1>3, RowUsed DEF Refused, Withdrawn
<1>4. CASE Decided(r)
  BY <1>1, <1>4, LeaseUsed DEF Decided, Ledgered
<1>5. CASE StrayCommits(r)
  <2>1. \/ Ledger!claim(r) \/ UNCHANGED storeVars
        \/ Ledger!mark_waiting_permission(r, mem[r].handle)
        \/ Ledger!mark_running(r, mem[r].handle)
        \/ \E s \in Terminal : Ledger!finish(r, mem[r].handle, s)
    BY <1>5 DEF StrayCommits
  <2> QED  BY <1>1, <2>1, LeaseUsed, RowUsed DEF Ledgered
<1>6. ASSUME NEW c \in Callers, Finish(r, c)
      PROVE  Ledgered
  BY <1>6, FinishLedgered DEF Actors
<1> QED  BY <1>2, <1>3, <1>4, <1>5, <1>6 DEF Serve

LEMMA NextLedgered ==
    ASSUME IInv, Drawn, [Next]_vars
    PROVE  [Ledger!Next]_storeVars
<1>1. CASE \/ Start \/ Started \/ Close \/ Closed \/ Crash \/ \E r \in Runs : Restore(r)
  BY <1>1 DEF Start, Started, Close, Closed, Crash, Restore, Ledgered, tableVars
<1>2. CASE Recover
  BY <1>2 DEF Recover, Ledgered, Ledger!Next
<1>3. ASSUME NEW b \in Bots, Take(b)
      PROVE  Ledgered
  BY <1>3 DEF Take, Ledgered, tableVars
<1>4. ASSUME NEW r \in Runs,
             \/ Resubmit(r) \/ \E q \in Requests : Decide(r, q)
             \/ \E c \in Callers : Cancel(r, c)
             \/ HeartbeatLooks(r) \/ HeartbeatFails(r)
      PROVE  Ledgered
  BY <1>4 DEF Resubmit, Decide, Cancel, HeartbeatLooks, HeartbeatFails, Ledgered, tableVars
<1>5. ASSUME NEW r \in Runs, Submit(r) \/ LeaseExpires(r)
      PROVE  Ledgered
  BY <1>5, RowUsed DEF Submit, LeaseExpires
<1>6. CASE UNCHANGED vars
  BY <1>6 DEF vars, tableVars, Ledgered
<1> QED  BY <1>1, <1>2, <1>3, <1>4, <1>5, <1>6, TurnLedgered, ServeLedgered
         DEF Next, Boot, Ledgered

(* Whatever is interleaved, cancelled, lost or late, all that the engine    *)
(* does to the ledger is a run of the repository's transactions, each with  *)
(* a token the ledger has given: what is proved of RunStore holds of it.    *)
THEOREM LedgerIsKeptTo == Spec => Ledger!Spec
<1>1. Init => Ledger!Init
  BY DEF Init
<1>2. ASSUME IInv, Drawn, [Next]_vars
      PROVE  Drawn'
  BY <1>2, NextLedgered, DrawnStays DEF IInv, Typed
<1>3. Spec => []Drawn
  BY <1>2, DrawnInit, Invariance, PTL DEF Spec
<1>4. ASSUME IInv, Drawn, [Next]_vars
      PROVE  [Ledger!Next]_(Ledger!storeVars)
  BY <1>4, NextLedgered DEF storeVars, Ledger!storeVars
<1> QED  BY <1>1, <1>3, <1>4, Invariance, PTL DEF Spec, Ledger!Spec

(* The rows the engine works through, with what is proved of them.          *)
Repository == INSTANCE RunStoreProofs

LEMMA SameCardinality ==
    ASSUME NEW S
    PROVE  Ledger!Cardinality(S) = Repository!Cardinality(S)
  BY DEF Ledger!Cardinality, Repository!Cardinality

LEMMA RepositoryHolds ==
    /\ Repository!IsFiniteSet(Runs) /\ BotOf \in [Runs -> Bots]
    /\ MaxTerminal \in Nat /\ MaxClaims \in Nat /\ MaxFailovers \in Nat
    /\ Ledger!Spec <=> Repository!Spec
<1>1. Repository!IsFiniteSet(Runs)
  BY EngineAssumption DEF IsFiniteSet, Repository!IsFiniteSet
<1>2. Ledger!Init <=> Repository!Init
  BY DEF Ledger!Init, Repository!Init
<1>3. Ledger!Next <=> Repository!Next
  <2>1. ASSUME NEW status, NEW after, NEW maximum
        PROVE  Ledger!_prune_db(status, after, maximum)
                 <=> Repository!_prune_db(status, after, maximum)
    <3>1. Ledger!Surplus(status, after, maximum) = Repository!Surplus(status, after, maximum)
      BY SameCardinality DEF Ledger!Surplus, Repository!Surplus, Ledger!Terminal,
           Repository!Terminal
    <3> QED  BY <3>1 DEF Ledger!_prune_db, Repository!_prune_db
  <2>2. ASSUME NEW r, NEW status
        PROVE  Ledger!Finished(r, status) <=> Repository!Finished(r, status)
    BY <2>1 DEF Ledger!Finished, Repository!Finished, Ledger!Terminal, Repository!Terminal
  <2>3. ASSUME NEW r
        PROVE  /\ Ledger!enqueue(r) <=> Repository!enqueue(r)
               /\ Ledger!claim(r) <=> Repository!claim(r)
               /\ Ledger!cancel_queued(r) <=> Repository!cancel_queued(r)
               /\ Ledger!LeaseExpires(r) <=> Repository!LeaseExpires(r)
    BY <2>2 DEF Ledger!enqueue, Repository!enqueue, Ledger!Rows, Repository!Rows,
         Ledger!claim, Repository!claim, Ledger!cancel_queued, Repository!cancel_queued,
         Ledger!LeaseExpires, Repository!LeaseExpires
  <2>4. ASSUME NEW bots
        PROVE  Ledger!claim_next(bots) <=> Repository!claim_next(bots)
    BY <2>3 DEF Ledger!claim_next, Repository!claim_next
  <2>5. ASSUME NEW r, NEW t
        PROVE  /\ Ledger!mark_waiting_permission(r, t) <=> Repository!mark_waiting_permission(r, t)
               /\ Ledger!mark_running(r, t) <=> Repository!mark_running(r, t)
               /\ Ledger!record_failover(r, t) <=> Repository!record_failover(r, t)
    BY DEF Ledger!mark_waiting_permission, Repository!mark_waiting_permission,
         Ledger!mark_running, Repository!mark_running, Ledger!record_failover,
         Repository!record_failover, Ledger!RequireActiveLease,
         Repository!RequireActiveLease, Ledger!Active, Repository!Active
  <2>6. ASSUME NEW r, NEW t, NEW status
        PROVE  Ledger!finish(r, t, status) <=> Repository!finish(r, t, status)
    BY <2>2 DEF Ledger!finish, Repository!finish, Ledger!RequireActiveLease,
         Repository!RequireActiveLease, Ledger!Active, Repository!Active
  <2>7. /\ Ledger!requeue_stale <=> Repository!requeue_stale
        /\ Ledger!recover_startup <=> Repository!recover_startup
    BY DEF Ledger!requeue_stale, Repository!requeue_stale, Ledger!recover_startup,
         Repository!recover_startup, Ledger!Requeue, Repository!Requeue, Ledger!Active,
         Repository!Active
  <2>8. ASSUME NEW maximum
        PROVE  Ledger!prune(maximum) <=> Repository!prune(maximum)
    BY <2>1 DEF Ledger!prune, Repository!prune
  <2> QED  BY <2>3, <2>4, <2>5, <2>6, <2>7, <2>8 DEF Ledger!Next, Repository!Next,
               Ledger!Terminal, Repository!Terminal
<1>4. [Ledger!Next]_(Ledger!storeVars) <=> [Repository!Next]_(Repository!storeVars)
  BY <1>3 DEF Ledger!storeVars, Repository!storeVars
<1>5. Ledger!Spec <=> Repository!Spec
  BY <1>2, <1>4, PTL DEF Ledger!Spec, Repository!Spec
<1> QED  BY <1>1, <1>5, EngineAssumption

(* Through the repository, the engine implements the abstract job queue,    *)
(* also while it is cancelled, restarted and cut off from its leases.       *)
THEOREM EngineImplementsJobQueue == Spec => Repository!ImplementsJobQueue
  BY RepositoryHolds, LedgerIsKeptTo, Repository!Refinement

(* However runs end, only outcomes are forgotten, and the oldest first.     *)
THEOREM OldOutcomesForgotten == Spec => Repository!OnlyOldOutcomesForgotten
  BY RepositoryHolds, LedgerIsKeptTo, Repository!OldestForgottenFirst

=============================================================================
