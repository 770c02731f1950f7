---------------------------- MODULE ChannelsProofs ----------------------------
(* Proofs about Channels, for any number of hooks, polls, events, updates   *)
(* and failures, and any number of settled events that are retained.        *)
EXTENDS Channels, FiniteSetTheorems, TLAPS

(* Events are numbered as they are accepted.                                *)
Numbered ==
    /\ \A e \in Events : event[e] # None \/ pc[e] # "none" \/ e \in posted => e <= count
    /\ \A d \in Delivery : taken[d] <= count

(* No task is at work while the process is down, and what the next one      *)
(* posts is counted anew.                                                   *)
DownIsIdle == ~up => posted = {} /\ \A e \in Events : pc[e] = "none"

(* A task works on an event that is open, until it writes the outcome down. *)
WorksOnOpen ==
    \A e \in Events :
       pc[e] \in {"submit", "attach", "wait", "deliver", "responded", "stored"} => ~Settled(e)

(* After the reply there is only the outcome to write down.                 *)
PostedIsOver == \A e \in Events : e \in posted => pc[e] \in {"responded", "fail", "none"}

(* What a poll has gone past, and what an offset covers, was handed over.   *)
HandedOver(n) == \A u \in 1 .. n : updates[u] = Message => u \in known

FetchedInOrder ==
    /\ HandedOver(confirmed) /\ HandedOver(offset)
    /\ \A p \in Polls : poll[p].to <= Len(updates) /\ (Polling(p) => HandedOver(poll[p].at - 1))

(* As long as its channel is there, the last event made of a delivery is    *)
(* forgotten only once Keep others have followed.                           *)
Remembered ==
    \A d \in Delivery :
       taken[d] # 0 /\ ChannelOf(d) \in bindings =>
          \/ event[taken[d]] # None /\ event[taken[d]].delivery = d
          \/ count > taken[d] + Keep

IInv ==
    /\ TypeOK /\ Numbered /\ DownIsIdle /\ WorksOnOpen /\ PostedIsOver
    /\ FetchedInOrder /\ Remembered

-----------------------------------------------------------------------------
(* What deleting settled events leaves of a table of which n events were    *)
(* ever settled.                                                            *)
Table == [Events -> Row \cup {None}]

LEMMA PruneKeeps ==
    ASSUME NEW table \in Table
    PROVE  /\ _prune(table) \in Table
           /\ \A e \in Events : \/ _prune(table)[e] = table[e]
                                \/ _prune(table)[e] = None /\ table[e] # None /\ table[e].status \in TERMINAL
  BY DEF _prune, Table

LEMMA PruneForgets ==
    ASSUME NEW table \in Table, NEW n \in Nat,
           \A f \in Events : table[f] # None /\ table[f].status \in TERMINAL => f <= n,
           NEW e \in Events, table[e] # None, _prune(table)[e] = None
    PROVE  n >= e + Keep
<1>1. table[e].status \in TERMINAL /\ Cardinality(Newer(table, e)) >= Keep
  BY DEF _prune
<1>2. e \in Nat /\ e <= n
  BY <1>1, ChannelsAssumption DEF Events
<1>3. Newer(table, e) \subseteq (e + 1) .. n
  BY <1>2, ChannelsAssumption DEF Newer, Events
<1>4. IsFiniteSet((e + 1) .. n) /\ Cardinality((e + 1) .. n) = n - e
  <2>1. IsFiniteSet((e + 1) .. n)
           /\ Cardinality((e + 1) .. n) = IF e + 1 > n THEN 0 ELSE n - (e + 1) + 1
    BY <1>2, FS_Interval
  <2> QED  BY <1>2, <2>1
<1>5. Cardinality(Newer(table, e)) <= n - e
  BY <1>3, <1>4, FS_Subset
<1>6. Cardinality(Newer(table, e)) \in Nat
  BY <1>3, <1>4, FS_Subset, FS_CardinalityType
<1> QED  BY <1>1, <1>2, <1>5, <1>6, ChannelsAssumption

(* An accepted delivery, and one that is not.                               *)
Queued(d) == [delivery |-> d, status |-> "queued", run_id |-> FALSE]

Accepted(d) ==
    /\ ChannelOf(d) \in bindings /\ ~Recognised(d)
    /\ count' = count + 1 /\ count' \in Events
    /\ event' \in Table /\ event'[count'] = Queued(d)
    /\ pc' = [pc EXCEPT ![count'] = "load"]
    /\ taken' = [taken EXCEPT ![d] = count']
    /\ \A e \in Events : e # count' => \/ event'[e] = event[e]
                                       \/ event'[e] = None /\ count >= e + Keep

LEMMA Accepts ==
    ASSUME TypeOK, Numbered, NEW d \in Delivery, accept(d)
    PROVE  Accepted(d)
<1> DEFINE n == count + 1
           table == [event EXCEPT ![n] = Queued(d)]
<1>1. n \in Events /\ count \in Nat /\ event \in Table
  BY ChannelsAssumption DEF accept, TypeOK, Events, Table
<1>2. Queued(d) \in Row /\ Queued(d) # None /\ Queued(d).status \notin TERMINAL
  <2>1. Queued(d) \in Row
    BY DEF Queued, Row, Open
  <2> QED  BY <2>1, NoneIsNoRow DEF Queued, TERMINAL
<1>3. table \in Table
  BY <1>1, <1>2 DEF Table
<1>4. /\ ChannelOf(d) \in bindings /\ ~Recognised(d)
      /\ count' = n /\ event' = _prune(table)
      /\ pc' = [pc EXCEPT ![n] = "load"] /\ taken' = [taken EXCEPT ![d] = n]
  BY DEF accept, Queued
<1>5. \A f \in Events : table[f] # None /\ table[f].status \in TERMINAL => f <= count
  BY <1>1, <1>2 DEF Numbered, Table
<1>6. table[n] = Queued(d) /\ \A e \in Events : e # n => table[e] = event[e]
  BY <1>1 DEF Table
<1> HIDE DEF table
<1>7. event' \in Table
  BY <1>3, <1>4, PruneKeeps
<1>8. event'[n] = Queued(d)
  BY <1>1, <1>2, <1>3, <1>4, <1>6, PruneKeeps
<1>9. ASSUME NEW e \in Events, e # n, event'[e] # event[e]
      PROVE  event'[e] = None /\ count >= e + Keep
  <2>1. event'[e] = None /\ table[e] # None
    BY <1>3, <1>4, <1>6, <1>9, PruneKeeps
  <2> QED  BY <1>1, <1>3, <1>4, <1>5, <2>1, PruneForgets
<1> QED  BY <1>1, <1>4, <1>7, <1>8, <1>9 DEF Accepted

LEMMA Ingests ==
    ASSUME TypeOK, Numbered, NEW d \in Delivery, ingest(d)
    PROVE  /\ Accepted(d) \/ UNCHANGED <<event, count, pc, taken>>
           /\ faults' \in 0 .. MaxFaults /\ known' = known \cup {d}
<1>1. faults' \in 0 .. MaxFaults
  BY ChannelsAssumption DEF ingest, Fault, TypeOK
<1> QED  BY <1>1, Accepts DEF ingest, TurnAway

Stages == {"none", "load", "submit", "attach", "wait", "deliver", "responded", "stored", "fail"}

(* An event whose status changes keeps its delivery and its place.          *)
Rewritten(e) ==
    /\ event' \in Table
    /\ \A f \in Events : f # e => event'[f] = event[f]
    /\ event'[e] # None <=> event[e] # None
    /\ event[e] # None => event'[e].delivery = event[e].delivery

LEMMA Rewrites ==
    ASSUME TypeOK, NEW e \in Events, attach_run(e) \/ Complete(e) \/ Fail(e)
    PROVE  Rewritten(e)
<1>1. event \in [Events -> Row \cup {None}]
  BY DEF TypeOK
<1>2. CASE event' = event
  BY <1>1, <1>2 DEF Rewritten, Table
<1>3. CASE event' # event
  <2>1. event[e] \in Row /\ event[e] # None
    BY <1>1, <1>3 DEF Pending, Moved, attach_run, Complete, Fail
  <2>2. \/ event' = [event EXCEPT ![e].status = "running", ![e].run_id = TRUE]
        \/ \E s \in TERMINAL : event' = [event EXCEPT ![e].status = s]
    BY <1>3 DEF Moved, attach_run, Complete, Fail, TERMINAL
  <2>3. event'[e] \in Row /\ event'[e].delivery = event[e].delivery
    BY <1>1, <2>1, <2>2 DEF Row, Open
  <2>4. event' \in [Events -> Row \cup {None}] /\ \A f \in Events : f # e => event'[f] = event[f]
    BY <1>1, <2>1, <2>2, <2>3
  <2> QED  BY <2>1, <2>3, <2>4, NoneIsNoRow DEF Rewritten, Table
<1> QED  BY <1>2, <1>3

LEMMA TypeOK_Rewrites ==
    ASSUME TypeOK, NEW e \in Events, attach_run(e) \/ Complete(e) \/ Fail(e)
    PROVE  TypeOK'
<1>1. event' \in [Events -> Row \cup {None}]
  BY Rewrites DEF Rewritten, Table
<1>2. pc' \in [Events -> Stages]
  <2>1. pc' = [pc EXCEPT ![e] = "wait"] \/ pc' = [pc EXCEPT ![e] = "none"]
    BY DEF attach_run, Complete, Fail, Goto
  <2> QED  BY <2>1 DEF TypeOK, Stages
<1>3. relay' \subseteq Events
  BY DEF TypeOK, attach_run, Complete, Fail, chat
<1> QED  BY <1>1, <1>2, <1>3 DEF TypeOK, Stages, attach_run, Complete, Fail, engine, chat,
            telegram, process

LEMMA Remembered_Rewrites ==
    ASSUME TypeOK, Remembered, NEW e \in Events, attach_run(e) \/ Complete(e) \/ Fail(e)
    PROVE  Remembered'
<1>1. UNCHANGED <<bindings, taken, count>> /\ taken \in [Delivery -> 0 .. MaxEvents]
  BY DEF TypeOK, attach_run, Complete, Fail
<1> QED  BY <1>1, Rewrites DEF Remembered, Rewritten, Events

LEMMA TypeOK_Stop ==
    ASSUME TypeOK, Stop
    PROVE  TypeOK'
<1>1. text' \in [Events -> BOOLEAN]
  BY DEF TypeOK, Stop
<1>2. gate' \in [Events -> {"none", "open", "stale", "closed"}]
  BY DEF TypeOK, Stop
<1>3. faults' \in 0 .. MaxFaults
  BY ChannelsAssumption DEF TypeOK, Stop, Fault
<1>0. up' \in BOOLEAN
  BY DEF Stop
<1>5. /\ UNCHANGED <<bindings, event, count, run, cards, updates, confirmed, expired, known,
                     taken, stuck>>
      /\ pc' = [e \in Events |-> "none"] /\ reply' = [e \in Events |-> "blank"]
      /\ relay' = {} /\ seen' = {} /\ posted' = {} /\ offset' = 0
  BY DEF Stop, store
<1>4. poll' \in [Polls -> [at : 1 .. MaxUpdates + 1, to : 0 .. MaxUpdates]]
  BY ChannelsAssumption DEF TypeOK, Stop, IdlePoll
<1> QED  BY <1>0, <1>1, <1>2, <1>3, <1>4, <1>5 DEF TypeOK, Texts

LEMMA TypeOK_Relay ==
    ASSUME TypeOK, NEW e \in Events, _relay_interactions(e)
    PROVE  TypeOK'
<1>1. faults' \in 0 .. MaxFaults
  BY ChannelsAssumption DEF TypeOK, _relay_interactions, Fault
<1>2. seen' \subseteq Events /\ relay' \subseteq Events /\ cards' \subseteq Events
  BY DEF TypeOK, _relay_interactions
<1> QED  BY <1>1, <1>2 DEF TypeOK, _relay_interactions, store, engine, telegram

LEMMA TypeOK_Busy ==
    ASSUME TypeOK, NEW e \in Events, Busy(e)
    PROVE  TypeOK'
<1>1. faults' \in 0 .. MaxFaults
  BY ChannelsAssumption DEF TypeOK, Busy, Fault
<1>2. pc' \in [Events -> Stages]
  BY DEF TypeOK, Stages, Busy, Goto
<1>3. stuck' \subseteq Events
  BY DEF TypeOK, Busy
<1> QED  BY <1>1, <1>2, <1>3 DEF TypeOK, Stages, Busy, store, engine, chat, telegram

(* A poll stays within what was sent.                                       *)
Batches == [at : 1 .. MaxUpdates + 1, to : 0 .. MaxUpdates]

LEMMA Advances ==
    ASSUME TypeOK, NEW p \in Polls, Polling(p), poll[p].to <= Len(updates), Advance(p) \/ Abort(p)
    PROVE  poll' \in [Polls -> Batches] /\ offset' \in 0 .. Len(updates)
<1>1. poll[p] \in Batches /\ poll \in [Polls -> Batches] /\ Len(updates) \in Nat
  BY DEF TypeOK, Batches
<1>2. IdlePoll \in Batches
  BY ChannelsAssumption DEF IdlePoll, Batches
<1>3. offset' \in 0 .. Len(updates)
  BY <1>1 DEF TypeOK, Advance, Abort, Batches
<1>4. poll[p].at # poll[p].to => [at |-> poll[p].at + 1, to |-> poll[p].to] \in Batches
  BY <1>1, ChannelsAssumption DEF Polling, Batches
<1>5. \/ poll' = [poll EXCEPT ![p] = IdlePoll]
      \/ /\ poll[p].at # poll[p].to
         /\ poll' = [poll EXCEPT ![p] = [at |-> poll[p].at + 1, to |-> poll[p].to]]
  <2>1. [poll[p] EXCEPT !.at = @ + 1] = [at |-> poll[p].at + 1, to |-> poll[p].to]
    BY <1>1 DEF Batches
  <2> QED  BY <1>1, <2>1 DEF Advance, Abort
<1> QED  BY <1>1, <1>2, <1>3, <1>4, <1>5

LEMMA WorksOnOpen_attach_run ==
    ASSUME TypeOK, WorksOnOpen, NEW e \in Events, attach_run(e)
    PROVE  WorksOnOpen'
<1>1. Rewritten(e) /\ event \in [Events -> Row \cup {None}] /\ pc \in [Events -> Stages]
  BY Rewrites DEF TypeOK, Stages
<1>2. CASE Pending(e)
  <2>1. event'[e].status = "running" /\ pc' = [pc EXCEPT ![e] = "wait"]
    BY <1>1, <1>2 DEF attach_run, Goto, Row, Pending
  <2> QED  BY <1>1, <2>1 DEF WorksOnOpen, Settled, Rewritten, TERMINAL
<1>3. CASE ~Pending(e)
  BY <1>1, <1>3 DEF WorksOnOpen, Settled, attach_run, Goto
<1> QED  BY <1>2, <1>3

(* What the store does with a delivery keeps the invariant.                 *)
LEMMA AcceptedTyped ==
    ASSUME TypeOK, NEW d \in Delivery, Accepted(d)
    PROVE  /\ event' \in [Events -> Row \cup {None}] /\ count' \in 0 .. MaxEvents
           /\ pc' \in [Events -> Stages]
           /\ taken' \in [Delivery -> 0 .. MaxEvents]
<1>1. count' \in 0 .. MaxEvents
  BY ChannelsAssumption DEF Accepted, Events
<1>2. taken' \in [Delivery -> 0 .. MaxEvents]
  BY <1>1 DEF Accepted, TypeOK
<1>3. pc' \in [Events -> Stages]
  BY DEF Accepted, TypeOK, Stages
<1> QED  BY <1>1, <1>2, <1>3 DEF Accepted, Table

LEMMA QueuedIsRow == \A d \in Delivery : Queued(d) # None /\ Queued(d).status \notin TERMINAL
<1>1. \A d \in Delivery : Queued(d) \in Row
  BY DEF Queued, Row, Open
<1> QED  BY <1>1, NoneIsNoRow DEF Queued, TERMINAL

LEMMA AcceptedKeeps ==
    ASSUME TypeOK, Numbered, WorksOnOpen, PostedIsOver, Remembered,
           NEW d \in Delivery, Accepted(d), UNCHANGED <<bindings, posted>>
    PROVE  Numbered' /\ WorksOnOpen' /\ PostedIsOver' /\ Remembered'
<1>1. /\ count \in Nat /\ count' = count + 1 /\ taken \in [Delivery -> 0 .. MaxEvents]
      /\ pc \in [Events -> Stages]
      /\ Events \subseteq Nat
  BY ChannelsAssumption DEF TypeOK, Stages, Accepted, Events
<1>2. Numbered'
  <2>1. \A e \in Events : event'[e] # None \/ pc'[e] # "none" \/ e \in posted' => e <= count'
    BY <1>1 DEF Numbered, Accepted
  <2>2. \A q \in Delivery : taken'[q] <= count'
    BY <1>1 DEF Numbered, Accepted
  <2> QED  BY <2>1, <2>2 DEF Numbered
<1>3. WorksOnOpen'
  BY <1>1 DEF WorksOnOpen, Accepted, Settled
<1>4. PostedIsOver'
  BY <1>1 DEF PostedIsOver, Accepted, Numbered
<1>5. Remembered'
  <2> SUFFICES ASSUME NEW q \in Delivery, taken'[q] # 0, ChannelOf(q) \in bindings
               PROVE  \/ event'[taken'[q]] # None /\ event'[taken'[q]].delivery = q
                      \/ count' > taken'[q] + Keep
    BY DEF Remembered
  <2>1. CASE q = d
    BY <1>1, <2>1, QueuedIsRow DEF Accepted, Queued
  <2>2. CASE q # d
    <3>1. /\ taken'[q] = taken[q] /\ taken[q] \in Events
          /\ taken[q] # count' /\ taken[q] \in Nat
      BY <1>1, <2>2 DEF Accepted, Numbered, Events
    <3>2. \/ event'[taken[q]] = event[taken[q]]
          \/ count >= taken[q] + Keep
      BY <3>1 DEF Accepted
    <3>3. \/ event[taken[q]] # None /\ event[taken[q]].delivery = q
          \/ count > taken[q] + Keep
      BY <3>1 DEF Remembered
    <3> QED  BY <1>1, <3>1, <3>2, <3>3, ChannelsAssumption
  <2> QED  BY <2>1, <2>2
<1> QED  BY <1>2, <1>3, <1>4, <1>5

LEMMA TurnedAwayKeeps ==
    ASSUME Numbered, WorksOnOpen, PostedIsOver, Remembered,
           UNCHANGED <<event, count, pc, taken, bindings, posted>>
    PROVE  Numbered' /\ WorksOnOpen' /\ PostedIsOver' /\ Remembered'
  BY DEF Numbered, WorksOnOpen, PostedIsOver, Remembered, Settled

(* A poll goes on, or over again.                                           *)
LEMMA Fetched ==
    ASSUME TypeOK, FetchedInOrder, NEW p \in Polls, Polling(p), UNCHANGED <<updates, confirmed>>,
           known \subseteq known',
           \/ Abort(p)
           \/ Advance(p) /\ (updates[poll[p].at] = Message => poll[p].at \in known')
    PROVE  FetchedInOrder'
<1>1. /\ poll \in [Polls -> Batches] /\ Len(updates) \in Nat
      /\ confirmed \in Nat /\ offset \in Nat
  BY DEF TypeOK, Batches
<1>2. poll[p].at \in Nat /\ poll[p].to \in Nat /\ poll[p].at <= poll[p].to
  BY <1>1, ChannelsAssumption DEF Batches, Polling
<1>3. \A n : HandedOver(n) => HandedOver(n)'
  BY DEF HandedOver
<1>4. HandedOver(confirmed)'
  BY <1>3 DEF FetchedInOrder, HandedOver
<1>5. CASE Abort(p)
  <2>1. offset' = offset /\ poll' = [poll EXCEPT ![p] = IdlePoll]
    BY <1>5 DEF Abort
  <2>2. \A q \in Polls : q # p => poll'[q] = poll[q]
    BY <1>1, <2>1
  <2>3. poll'[p] = IdlePoll
    BY <1>1, <2>1
  <2> QED  BY <1>1, <1>3, <1>4, <2>1, <2>2, <2>3 DEF FetchedInOrder, HandedOver, IdlePoll, Polling
<1>6. CASE Advance(p) /\ (updates[poll[p].at] = Message => poll[p].at \in known')
  <2>1. \A u \in 1 .. poll[p].at : updates[u] = Message => u \in known'
    BY <1>2, <1>6 DEF FetchedInOrder, HandedOver
  <2>2. HandedOver(offset)' 
    BY <1>2, <1>6, <2>1 DEF FetchedInOrder, HandedOver, Advance
  <2>3. \A q \in Polls : q # p => poll'[q] = poll[q]
    BY <1>1, <1>6 DEF Advance
  <2>4. poll'[p].to <= Len(updates) /\ (Polling(p)' => poll'[p].at = poll[p].at + 1)
    <3>1. CASE poll[p].at = poll[p].to
      BY <1>1, <1>6, <3>1 DEF Advance, IdlePoll, Polling
    <3>2. CASE poll[p].at # poll[p].to
      <4>1. poll'[p].at = poll[p].at + 1 /\ poll'[p].to = poll[p].to
        BY <1>1, <1>6, <3>2 DEF Advance, Batches
      <4> QED  BY <4>1 DEF FetchedInOrder
    <3> QED  BY <3>1, <3>2
  <2> QED  BY <1>1, <1>2, <1>3, <1>4, <2>1, <2>2, <2>3, <2>4 DEF FetchedInOrder, HandedOver,
             Polling
<1> QED  BY <1>5, <1>6

LEMMA IngestTyped ==
    ASSUME TypeOK, Numbered, NEW d \in Delivery, ingest(d)
    PROVE  /\ event' \in [Events -> Row \cup {None}] /\ count' \in 0 .. MaxEvents
           /\ pc' \in [Events -> Stages] /\ taken' \in [Delivery -> 0 .. MaxEvents]
           /\ faults' \in 0 .. MaxFaults /\ known' \subseteq Delivery
<1>1. faults' \in 0 .. MaxFaults /\ known' \subseteq Delivery
  BY Ingests DEF TypeOK
<1>2. CASE Accepted(d)
  BY <1>1, <1>2, AcceptedTyped DEF Stages
<1>3. CASE UNCHANGED <<event, count, pc, taken>>
  BY <1>1, <1>3 DEF TypeOK, Stages
<1> QED  BY <1>2, <1>3, Ingests

(* The update a poll is at was sent.                                        *)
LEMMA PollAt ==
    ASSUME TypeOK, FetchedInOrder, NEW p \in Polls, Polling(p)
    PROVE  poll[p].at \in Delivery /\ poll[p].at \in 1 .. Len(updates) /\ poll[p].to <= Len(updates)
<1>1. poll \in [Polls -> Batches] /\ Len(updates) \in Nat /\ Len(updates) <= MaxUpdates
  BY DEF TypeOK, Batches
<1> QED  BY <1>1, ChannelsAssumption DEF FetchedInOrder, Polling, Batches, Delivery, Updates

LEMMA DecidedTyped ==
    ASSUME TypeOK, NEW u \in 1 .. Len(updates), updates[u] # Message
    PROVE  Decided(u) \in [Events -> {"none", "open", "stale", "closed"}]
<1>1. updates[u] \in Events
  BY DEF TypeOK
<1> QED  BY <1>1 DEF Decided, TypeOK

LEMMA Hook_Keeps ==
    ASSUME IInv, NEW h \in Hooks, Hook(h)
    PROVE  IInv'
<1> USE DEF IInv
<1>1. /\ h \in Delivery /\ up /\ ingest(h)
      /\ UNCHANGED <<bindings, reply, engine, chat, telegram, up, posted, stuck>>
  BY DEF Hook, Delivery
<1>2. TypeOK'
  BY <1>1, IngestTyped DEF TypeOK, Stages, engine, chat, telegram
<1>3. Numbered' /\ WorksOnOpen' /\ PostedIsOver' /\ Remembered'
  BY <1>1, Ingests, AcceptedKeeps, TurnedAwayKeeps
<1>4. DownIsIdle'
  BY <1>1 DEF DownIsIdle
<1>5. FetchedInOrder'
  BY <1>1, Ingests DEF FetchedInOrder, HandedOver, Polling, telegram
<1> QED  BY <1>2, <1>3, <1>4, <1>5

LEMMA UpdateIngested_Keeps ==
    ASSUME IInv, NEW p \in Polls, UpdateIngested(p)
    PROVE  IInv'
<1> DEFINE u == poll[p].at
<1> USE DEF IInv
<1>1. /\ up /\ Polling(p) /\ updates[u] = Message
      /\ \/ ingest(u) /\ Advance(p)
         \/ TurnAway /\ Abort(p) /\ UNCHANGED <<faults, known>>
      /\ UNCHANGED <<bindings, reply, engine, chat, updates, confirmed, expired, up, posted,
                     stuck>>
  BY DEF UpdateIngested
<1>2. u \in Delivery /\ u \in 1 .. Len(updates) /\ poll[p].to <= Len(updates)
  BY <1>1, PollAt
<1>3. poll' \in [Polls -> Batches] /\ offset' \in 0 .. Len(updates)
  BY <1>1, <1>2, Advances
<1>4. TypeOK'
  <2>1. /\ event' \in [Events -> Row \cup {None}] /\ count' \in 0 .. MaxEvents
        /\ pc' \in [Events -> Stages] /\ taken' \in [Delivery -> 0 .. MaxEvents]
        /\ faults' \in 0 .. MaxFaults /\ known' \subseteq Delivery
    <3>1. CASE ingest(u)
      BY <1>2, <3>1, IngestTyped
    <3>2. CASE TurnAway /\ UNCHANGED <<faults, known>>
      BY <3>2 DEF TypeOK, TurnAway, Stages
    <3> QED  BY <1>1, <3>1, <3>2
  <2> QED  BY <1>1, <1>3, <2>1 DEF TypeOK, Batches, Stages, engine, chat
<1>5. Numbered' /\ WorksOnOpen' /\ PostedIsOver' /\ Remembered'
  BY <1>1, <1>2, Ingests, AcceptedKeeps, TurnedAwayKeeps DEF TurnAway
<1>6. DownIsIdle'
  BY <1>1 DEF DownIsIdle
<1>7. FetchedInOrder'
  <2>1. \/ known' = known \cup {u} /\ Advance(p)
        \/ known' = known /\ Abort(p)
    BY <1>1, <1>2, Ingests
  <2> QED  BY <1>1, <2>1, Fetched
<1> QED  BY <1>4, <1>5, <1>6, <1>7

LEMMA TypeOK_Poll ==
    ASSUME TypeOK, NEW p \in Polls, Poll(p)
    PROVE  TypeOK'
<1> DEFINE first == IF offset > confirmed THEN offset ELSE confirmed
           batch == IF first < Len(updates) THEN [at |-> first + 1, to |-> Len(updates)] ELSE IdlePoll
<1>1. /\ confirmed' = first /\ poll' = [poll EXCEPT ![p] = batch]
      /\ UNCHANGED <<store, pc, reply, engine, chat, updates, expired, offset, process, known,
                     taken,
                     posted, stuck>>
  BY DEF Poll
<1>2. Len(updates) \in 0 .. MaxUpdates /\ first \in 0 .. Len(updates)
  BY DEF TypeOK
<1>3. batch \in Batches
  BY <1>2, ChannelsAssumption DEF IdlePoll, Batches
<1>4. confirmed' \in 0 .. Len(updates) /\ poll' \in [Polls -> Batches]
  <2> HIDE DEF first, batch
  <2> QED  BY <1>1, <1>2, <1>3 DEF TypeOK, Batches
<1> QED  BY <1>1, <1>4 DEF TypeOK, Batches, store, engine, chat, process

LEMMA Callback_Keeps ==
    ASSUME TypeOK, FetchedInOrder, NEW p \in Polls, CallbackHandled(p) \/ CallbackFails(p)
    PROVE  TypeOK' /\ FetchedInOrder'
<1> DEFINE u == poll[p].at
<1>1. /\ Polling(p) /\ updates[u] # Message /\ gate' = Decided(u) /\ (Advance(p) \/ Abort(p))
      /\ UNCHANGED <<store, pc, reply, run, text, chat, updates, confirmed, up, known, taken,
                     posted,
                     stuck>>
  BY DEF CallbackHandled, CallbackFails, process
<1>2. u \in 1 .. Len(updates) /\ poll[p].to <= Len(updates)
  BY <1>1, PollAt
<1>3. poll' \in [Polls -> Batches] /\ offset' \in 0 .. Len(updates)
  BY <1>1, <1>2, Advances
<1>4. gate' \in [Events -> {"none", "open", "stale", "closed"}]
  BY <1>1, <1>2, DecidedTyped
<1>5. faults' \in 0 .. MaxFaults
  BY ChannelsAssumption DEF CallbackHandled, CallbackFails, Fault, process, TypeOK
<1>6. expired' \subseteq 1 .. Len(updates)
  BY <1>2 DEF CallbackHandled, CallbackFails, TypeOK
<1>7. TypeOK'
  BY <1>1, <1>3, <1>4, <1>5, <1>6 DEF TypeOK, Batches, store, chat
<1> QED  BY <1>1, <1>7, Fetched

-----------------------------------------------------------------------------
(* The parts of the invariant, under the steps that bring no delivery.      *)
Inner ==
    \/ SendMessage
    \/ \E e \in Events : PushButton(e) \/ _process(e) \/ _relay_interactions(e)
    \/ \E e \in Events : Asks(e) \/ AnsweredInApp(e) \/ RunEnds(e)
    \/ \E p \in Polls : Poll(p) \/ UpdateFails(p) \/ CallbackHandled(p) \/ CallbackFails(p)
    \/ \E b \in Channel : delete_binding(b)
    \/ Stop \/ start

LEMMA TypeOKStep ==
    ASSUME TypeOK, FetchedInOrder, Inner
    PROVE  TypeOK'
<1>1. CASE SendMessage
  BY <1>1, ChannelsAssumption DEF SendMessage, Sent, store, engine, chat, process, TypeOK
<1>2. ASSUME NEW e \in Events, PushButton(e) PROVE TypeOK'
  BY <1>2, ChannelsAssumption DEF PushButton, Sent, store, engine, chat, process, TypeOK
<1>3. ASSUME NEW p \in Polls, Poll(p) PROVE TypeOK'
  BY <1>3, TypeOK_Poll
<1>4. ASSUME NEW p \in Polls, UpdateFails(p) PROVE TypeOK'
  BY <1>4, ChannelsAssumption DEF UpdateFails, Polling, Message, Fault, Abort, store, engine,
       chat, IdlePoll, TypeOK, Channel, Events, Row, Texts, Delivery, Open, TERMINAL, Updates
<1>5. ASSUME NEW p \in Polls, CallbackHandled(p) \/ CallbackFails(p) PROVE TypeOK'
  BY <1>5, Callback_Keeps
<1>6. ASSUME NEW e \in Events, Load(e) PROVE TypeOK'
  BY <1>6, ChannelsAssumption DEF Load, Goto, store, engine, telegram, process, TypeOK
<1>7. ASSUME NEW e \in Events, Submit(e) PROVE TypeOK'
  BY <1>7, ChannelsAssumption DEF Submit, Goto, store, chat, telegram, process, TypeOK
<1>8. ASSUME NEW e \in Events, SubmitRefused(e) PROVE TypeOK'
  BY <1>8, ChannelsAssumption DEF SubmitRefused, Fault, Goto, store, engine, chat, telegram,
       TypeOK
<1>9. ASSUME NEW e \in Events, attach_run(e) \/ Complete(e) \/ Fail(e) PROVE TypeOK'
  BY <1>9, TypeOK_Rewrites
<1>10. ASSUME NEW e \in Events, Waited(e) PROVE TypeOK'
  BY <1>10, ChannelsAssumption DEF Waited, Outcome, Goto, store, engine, telegram, process,
       TypeOK, Texts
<1>11. ASSUME NEW e \in Events, Delivered(e) PROVE TypeOK'
  BY <1>11, ChannelsAssumption DEF Delivered, Goto, store, engine, chat, telegram, process,
       TypeOK, Texts
<1>12. ASSUME NEW e \in Events, DeliveryFails(e) PROVE TypeOK'
  BY <1>12, ChannelsAssumption DEF DeliveryFails, Chats, Fault, Goto, store, engine, chat,
       telegram, Updates, TypeOK, Channel, Events, Row, Texts, Message, Delivery, Open,
       TERMINAL
<1>13. ASSUME NEW e \in Events, Busy(e) PROVE TypeOK'
  BY <1>13, TypeOK_Busy
<1>14. ASSUME NEW e \in Events, _relay_interactions(e) PROVE TypeOK'
  BY <1>14, TypeOK_Relay
<1>15. ASSUME NEW e \in Events, Asks(e) PROVE TypeOK'
  BY <1>15, ChannelsAssumption DEF Asks, store, chat, telegram, process, TypeOK
<1>16. ASSUME NEW e \in Events, AnsweredInApp(e) PROVE TypeOK'
  BY <1>16, ChannelsAssumption DEF AnsweredInApp, store, chat, telegram, process, TypeOK
<1>17. ASSUME NEW e \in Events, RunEnds(e) PROVE TypeOK'
  BY <1>17, ChannelsAssumption DEF RunEnds, Fault, store, chat, telegram, TypeOK, Events, Row,
       TERMINAL
<1>18. ASSUME NEW b \in Channel, delete_binding(b) PROVE TypeOK'
  BY <1>18, ChannelsAssumption DEF delete_binding, Fault, engine, chat, telegram, TypeOK
<1>19. CASE Stop
  BY <1>19, TypeOK_Stop
<1>20. CASE start
  BY <1>20, ChannelsAssumption DEF start, store, engine, chat, telegram, TypeOK
<1> QED  BY <1>1, <1>2, <1>3, <1>4, <1>5, <1>6, <1>7, <1>8, <1>9, <1>10, <1>11, <1>12, <1>13,
            <1>14, <1>15, <1>16, <1>17, <1>18, <1>19, <1>20 DEF Inner, _process

LEMMA NumberedStep ==
    ASSUME TypeOK, Numbered, Inner
    PROVE  Numbered'
<1>1. CASE SendMessage \/ Stop \/ start
  BY <1>1, ChannelsAssumption DEF SendMessage, Sent, store, Numbered, Stop, start, Pending
<1>2. ASSUME NEW e \in Events,
               PushButton(e) \/ _relay_interactions(e) \/ Asks(e) \/ AnsweredInApp(e)
               \/ RunEnds(e) \/ Busy(e) \/ SubmitRefused(e) \/ attach_run(e)
      PROVE  Numbered'
  BY <1>2, ChannelsAssumption DEF PushButton, Sent, store, Numbered, _relay_interactions,
       Asks, AnsweredInApp, RunEnds, Busy, Goto, TypeOK, SubmitRefused, attach_run
<1>3. ASSUME NEW p \in Polls,
               Poll(p) \/ UpdateFails(p) \/ CallbackHandled(p) \/ CallbackFails(p)
      PROVE  Numbered'
  BY <1>3, ChannelsAssumption DEF Poll, store, Numbered, UpdateFails, CallbackHandled,
       CallbackFails
<1>4. ASSUME NEW e \in Events, Delivered(e) \/ Waited(e) \/ Load(e) PROVE Numbered'
  BY <1>4, ChannelsAssumption DEF Delivered, Goto, store, Numbered, Waited, TypeOK, Load
<1>5. ASSUME NEW e \in Events, Submit(e) PROVE Numbered'
  BY <1>5, ChannelsAssumption DEF Submit, Goto, store, Numbered
<1>6. ASSUME NEW e \in Events, DeliveryFails(e) PROVE Numbered'
  BY <1>6, ChannelsAssumption DEF DeliveryFails, Goto, store, Numbered
<1>7. ASSUME NEW e \in Events, Complete(e) PROVE Numbered'
  BY <1>7, ChannelsAssumption DEF Complete, Moved, Goto, Numbered
<1>8. ASSUME NEW e \in Events, Fail(e) PROVE Numbered'
  BY <1>8, ChannelsAssumption DEF Fail, Moved, Goto, Numbered
<1>9. ASSUME NEW b \in Channel, delete_binding(b) PROVE Numbered'
  BY <1>9, ChannelsAssumption DEF delete_binding, Numbered
<1> QED  BY <1>1, <1>2, <1>3, <1>4, <1>5, <1>6, <1>7, <1>8, <1>9 DEF Inner, _process

LEMMA DownIsIdleStep ==
    ASSUME DownIsIdle, Inner
    PROVE  DownIsIdle'
<1>1. CASE SendMessage
  BY <1>1, ChannelsAssumption DEF SendMessage, Sent, process, DownIsIdle
<1>2. ASSUME NEW e \in Events, PushButton(e) PROVE DownIsIdle'
  BY <1>2, ChannelsAssumption DEF PushButton, Sent, process, DownIsIdle
<1>3. ASSUME NEW p \in Polls,
               Poll(p) \/ UpdateFails(p) \/ CallbackHandled(p) \/ CallbackFails(p)
      PROVE  DownIsIdle'
  BY <1>3, ChannelsAssumption DEF Poll, UpdateFails, CallbackHandled, CallbackFails, process,
       DownIsIdle
<1>4. ASSUME NEW e \in Events,
               Load(e) \/ Submit(e) \/ SubmitRefused(e) \/ attach_run(e) \/ Waited(e)
               \/ Delivered(e) \/ DeliveryFails(e) \/ Complete(e) \/ Fail(e) \/ Busy(e)
      PROVE  DownIsIdle'
  BY <1>4, ChannelsAssumption DEF Load, Submit, SubmitRefused, attach_run, Waited, Delivered,
       DeliveryFails, Complete, Fail, Busy, process, DownIsIdle
<1>5. ASSUME NEW e \in Events,
               _relay_interactions(e) \/ Asks(e) \/ AnsweredInApp(e) \/ RunEnds(e)
      PROVE  DownIsIdle'
  BY <1>5, ChannelsAssumption DEF _relay_interactions, Asks, AnsweredInApp, RunEnds, process,
       DownIsIdle
<1>6. ASSUME NEW b \in Channel, delete_binding(b) PROVE DownIsIdle'
  BY <1>6, ChannelsAssumption DEF delete_binding, DownIsIdle
<1>7. CASE Stop \/ start
  BY <1>7, ChannelsAssumption DEF Stop, start, DownIsIdle
<1> QED  BY <1>1, <1>2, <1>3, <1>4, <1>5, <1>6, <1>7 DEF Inner, _process

LEMMA WorksOnOpenStep ==
    ASSUME TypeOK, WorksOnOpen, Inner
    PROVE  WorksOnOpen'
<1>1. CASE SendMessage \/ Stop \/ start
  BY <1>1, ChannelsAssumption DEF SendMessage, Sent, store, WorksOnOpen, Settled, Stop, start
<1>2. ASSUME NEW e \in Events,
               PushButton(e) \/ _relay_interactions(e) \/ Asks(e) \/ AnsweredInApp(e)
               \/ RunEnds(e) \/ Busy(e) \/ SubmitRefused(e) \/ Waited(e)
      PROVE  WorksOnOpen'
  BY <1>2, ChannelsAssumption DEF PushButton, Sent, store, WorksOnOpen, Settled,
       _relay_interactions, Asks, AnsweredInApp, RunEnds, Busy, Goto, TypeOK, SubmitRefused,
       Waited
<1>3. ASSUME NEW p \in Polls,
               Poll(p) \/ UpdateFails(p) \/ CallbackHandled(p) \/ CallbackFails(p)
      PROVE  WorksOnOpen'
  BY <1>3, ChannelsAssumption DEF Poll, UpdateFails, CallbackHandled, CallbackFails, store,
       WorksOnOpen, Settled
<1>4. ASSUME NEW e \in Events, Load(e) \/ Submit(e) PROVE WorksOnOpen'
  BY <1>4, ChannelsAssumption DEF Load, Submit, Goto, Pending, store, Open, WorksOnOpen,
       TypeOK, Settled, TERMINAL
<1>5. ASSUME NEW e \in Events, attach_run(e) PROVE WorksOnOpen'
  BY <1>5, WorksOnOpen_attach_run
<1>6. ASSUME NEW e \in Events, Delivered(e) PROVE WorksOnOpen'
  BY <1>6, ChannelsAssumption DEF Delivered, Goto, store, WorksOnOpen, Settled
<1>7. ASSUME NEW e \in Events, DeliveryFails(e) PROVE WorksOnOpen'
  BY <1>7, ChannelsAssumption DEF DeliveryFails, Goto, store, WorksOnOpen, Settled
<1>8. ASSUME NEW e \in Events, Complete(e) \/ Fail(e) PROVE WorksOnOpen'
  BY <1>8, ChannelsAssumption DEF Complete, Moved, Goto, WorksOnOpen, TypeOK, Settled, Fail
<1>9. ASSUME NEW b \in Channel, delete_binding(b) PROVE WorksOnOpen'
  BY <1>9, ChannelsAssumption DEF delete_binding, WorksOnOpen, Settled
<1> QED  BY <1>1, <1>2, <1>3, <1>4, <1>5, <1>6, <1>7, <1>8, <1>9 DEF Inner, _process

LEMMA PostedIsOverStep ==
    ASSUME TypeOK, DownIsIdle, PostedIsOver, Inner
    PROVE  PostedIsOver'
<1>1. CASE SendMessage \/ Stop \/ start
  BY <1>1, ChannelsAssumption DEF SendMessage, Sent, PostedIsOver, Stop, start, DownIsIdle
<1>2. ASSUME NEW e \in Events,
               PushButton(e) \/ _relay_interactions(e) \/ Asks(e) \/ AnsweredInApp(e)
               \/ RunEnds(e) \/ Delivered(e) \/ DeliveryFails(e)
      PROVE  PostedIsOver'
  BY <1>2, ChannelsAssumption DEF PushButton, Sent, PostedIsOver, _relay_interactions, Asks,
       AnsweredInApp, RunEnds, Delivered, DeliveryFails, Chats, Goto, TypeOK
<1>3. ASSUME NEW p \in Polls,
               Poll(p) \/ UpdateFails(p) \/ CallbackHandled(p) \/ CallbackFails(p)
      PROVE  PostedIsOver'
  BY <1>3, ChannelsAssumption DEF Poll, UpdateFails, CallbackHandled, CallbackFails, PostedIsOver
<1>4. ASSUME NEW e \in Events,
               Load(e) \/ Submit(e) \/ SubmitRefused(e) \/ attach_run(e) \/ Waited(e)
      PROVE  PostedIsOver'
  BY <1>4, ChannelsAssumption DEF Load, Submit, SubmitRefused, attach_run, Waited, Goto,
       PostedIsOver, TypeOK
<1>5. ASSUME NEW e \in Events, Complete(e) \/ Fail(e) \/ Busy(e) PROVE PostedIsOver'
  BY <1>5, ChannelsAssumption DEF Complete, Fail, Busy, Goto, PostedIsOver, TypeOK
<1>6. ASSUME NEW b \in Channel, delete_binding(b) PROVE PostedIsOver'
  BY <1>6, ChannelsAssumption DEF delete_binding, PostedIsOver
<1> QED  BY <1>1, <1>2, <1>3, <1>4, <1>5, <1>6 DEF Inner, _process

LEMMA FetchedInOrderStep ==
    ASSUME TypeOK, FetchedInOrder, Inner
    PROVE  FetchedInOrder'
<1>1. CASE SendMessage
  BY <1>1, ChannelsAssumption DEF SendMessage, Sent, FetchedInOrder, TypeOK, HandedOver, Polling
<1>2. ASSUME NEW e \in Events, PushButton(e) PROVE FetchedInOrder'
  BY <1>2, ChannelsAssumption DEF PushButton, Sent, FetchedInOrder, TypeOK, HandedOver, Polling
<1>3. ASSUME NEW p \in Polls, Poll(p) PROVE FetchedInOrder'
  BY <1>3, ChannelsAssumption DEF Poll, Polling, IdlePoll, FetchedInOrder, TypeOK, HandedOver
<1>4. ASSUME NEW p \in Polls, UpdateFails(p) PROVE FetchedInOrder'
  BY <1>4, ChannelsAssumption DEF UpdateFails, Polling, Abort, IdlePoll, FetchedInOrder,
       HandedOver
<1>5. ASSUME NEW p \in Polls, CallbackHandled(p) \/ CallbackFails(p) PROVE FetchedInOrder'
  BY <1>5, Callback_Keeps
<1>6. ASSUME NEW e \in Events,
               Load(e) \/ Submit(e) \/ SubmitRefused(e) \/ attach_run(e) \/ Waited(e)
               \/ Delivered(e) \/ DeliveryFails(e) \/ Complete(e) \/ Fail(e) \/ Busy(e)
      PROVE  FetchedInOrder'
  BY <1>6, ChannelsAssumption DEF Load, Submit, SubmitRefused, attach_run, Waited, Delivered,
       DeliveryFails, Complete, Fail, Busy, telegram, FetchedInOrder, HandedOver, Polling
<1>7. ASSUME NEW e \in Events,
               _relay_interactions(e) \/ Asks(e) \/ AnsweredInApp(e) \/ RunEnds(e)
      PROVE  FetchedInOrder'
  BY <1>7, ChannelsAssumption DEF _relay_interactions, Asks, AnsweredInApp, RunEnds, telegram,
       FetchedInOrder, HandedOver, Polling
<1>8. ASSUME NEW b \in Channel, delete_binding(b) PROVE FetchedInOrder'
  BY <1>8, ChannelsAssumption DEF delete_binding, telegram, FetchedInOrder, HandedOver, Polling
<1>9. CASE Stop \/ start
  BY <1>9, ChannelsAssumption DEF Stop, IdlePoll, FetchedInOrder, HandedOver, start, telegram,
       Polling
<1> QED  BY <1>1, <1>2, <1>3, <1>4, <1>5, <1>6, <1>7, <1>8, <1>9 DEF Inner, _process

LEMMA RememberedStep ==
    ASSUME TypeOK, Remembered, Inner
    PROVE  Remembered'
<1>1. CASE SendMessage \/ Stop \/ start
  BY <1>1, ChannelsAssumption DEF SendMessage, Sent, store, Remembered, Stop, start
<1>2. ASSUME NEW e \in Events,
               PushButton(e) \/ _relay_interactions(e) \/ Asks(e) \/ AnsweredInApp(e)
               \/ RunEnds(e) \/ Delivered(e) \/ DeliveryFails(e) \/ Load(e)
      PROVE  Remembered'
  BY <1>2, ChannelsAssumption DEF PushButton, Sent, store, Remembered, _relay_interactions,
       Asks, AnsweredInApp, RunEnds, Delivered, DeliveryFails, Load
<1>3. ASSUME NEW p \in Polls,
               Poll(p) \/ UpdateFails(p) \/ CallbackHandled(p) \/ CallbackFails(p)
      PROVE  Remembered'
  BY <1>3, ChannelsAssumption DEF Poll, UpdateFails, store, Remembered, CallbackHandled,
       CallbackFails
<1>4. ASSUME NEW e \in Events, Submit(e) PROVE Remembered'
  BY <1>4, ChannelsAssumption DEF Submit, store, Remembered
<1>5. ASSUME NEW e \in Events, SubmitRefused(e) \/ Waited(e) \/ Busy(e) PROVE Remembered'
  BY <1>5, ChannelsAssumption DEF SubmitRefused, store, Remembered, Waited, Busy
<1>6. ASSUME NEW e \in Events, attach_run(e) \/ Complete(e) \/ Fail(e) PROVE Remembered'
  BY <1>6, Remembered_Rewrites
<1>7. ASSUME NEW b \in Channel, delete_binding(b) PROVE Remembered'
  BY <1>7, ChannelsAssumption DEF delete_binding, Events, Remembered, TypeOK
<1> QED  BY <1>1, <1>2, <1>3, <1>4, <1>5, <1>6, <1>7 DEF Inner, _process

-----------------------------------------------------------------------------
(* The invariant, and the properties.                                       *)
LEMMA Invariant_Init == Init => IInv
<1> SUFFICES ASSUME Init PROVE IInv
  OBVIOUS
<1>1. TypeOK
  BY ChannelsAssumption DEF Init, TypeOK, Texts, IdlePoll, Message
<1>2. Numbered /\ DownIsIdle /\ WorksOnOpen /\ PostedIsOver
  BY DEF Init, Numbered, DownIsIdle, WorksOnOpen, PostedIsOver, Delivery, Settled
<1>3. FetchedInOrder
  BY DEF Init, FetchedInOrder, HandedOver, Polling, IdlePoll
<1>4. Remembered
  BY DEF Init, Remembered
<1> QED  BY <1>1, <1>2, <1>3, <1>4 DEF IInv

LEMMA Invariant_Next == ASSUME IInv, [Next]_vars PROVE IInv'
<1>1. ASSUME NEW h \in Hooks, Hook(h) PROVE IInv'
  BY <1>1, Hook_Keeps
<1>2. ASSUME NEW p \in Polls, UpdateIngested(p) PROVE IInv'
  BY <1>2, UpdateIngested_Keeps
<1>3. CASE Inner
  BY <1>3, TypeOKStep, NumberedStep, DownIsIdleStep, WorksOnOpenStep, PostedIsOverStep,
       FetchedInOrderStep, RememberedStep DEF IInv
<1>4. CASE UNCHANGED vars
  BY <1>4 DEF vars, IInv, TypeOK, Numbered, DownIsIdle, WorksOnOpen, Settled, PostedIsOver,
       FetchedInOrder, HandedOver, Polling, Remembered
<1> QED  BY <1>1, <1>2, <1>3, <1>4 DEF Next, Inner, Handle

(* channels.py: the invariant that the properties below follow from.        *)
THEOREM Invariance == Spec => []IInv
<1> QED  BY Invariant_Init, Invariant_Next, PTL DEF Spec

(* channels.py: the tables, the tasks, the polls and what Telegram keeps    *)
(* have their types.                                                        *)
THEOREM TypeCorrect == Spec => []TypeOK
<1>1. IInv => TypeOK
  BY DEF IInv
<1> QED  BY <1>1, Invariance, PTL

(* _process: a task that is about to deliver a reply has posted none before *)
(* in this process, and its event has no outcome yet, whatever was repeated,*)
(* refused, deleted or recovered.                                           *)
THEOREM RepliesAreNotRepeated == Spec => []NoSecondReply
<1>1. IInv => NoSecondReply
  BY DEF IInv, WorksOnOpen, PostedIsOver, NoSecondReply
<1> QED  BY <1>1, Invariance, PTL

(* _poll: what Telegram is told to forget was handed to the store, however  *)
(* polls overlap, fail and start over.                                      *)
THEOREM MessagesAreNotSkipped == Spec => []NoMessageSkipped
<1>1. IInv => NoMessageSkipped
  BY DEF IInv, FetchedInOrder, HandedOver, NoMessageSkipped
<1> QED  BY <1>1, Invariance, PTL

(* accept and _prune: a repeated delivery is not worked on again before     *)
(* more than max_events others were.                                        *)
LEMMA ForgottenIsOld ==
    ASSUME IInv, NEW d \in Delivery, Accepted(d), NEW q \in Delivery, taken'[q] # taken[q],
           taken[q] # 0
    PROVE  taken'[q] > taken[q] + Keep + 1
<1>1. q = d /\ taken'[d] = count + 1 /\ count \in Nat /\ taken[d] \in Nat
  BY DEF IInv, TypeOK, Accepted
<1>2. count > taken[d] + Keep
  <2>1. taken[d] \in Events /\ ChannelOf(d) \in bindings /\ ~Recognised(d)
    BY <1>1 DEF IInv, TypeOK, Accepted, Events
  <2>2. \/ event[taken[d]] # None /\ event[taken[d]].delivery = d
        \/ count > taken[d] + Keep
    BY <1>1, <2>1 DEF IInv, Remembered
  <2> QED  BY <2>1, <2>2 DEF Recognised, Rows
<1> QED  BY <1>1, <1>2, ChannelsAssumption

THEOREM RetriesAreNotRepeated == Spec => RetriesAreRecognised
<1>1. ASSUME IInv, Next, NEW q \in Delivery, taken'[q] # taken[q], taken[q] # 0
      PROVE  taken'[q] > taken[q] + Keep + 1
  <2>1. ASSUME NEW d \in Delivery, ingest(d) PROVE taken'[q] > taken[q] + Keep + 1
    BY <1>1, <2>1, Ingests, ForgottenIsOld DEF IInv
  <2>2. ASSUME NEW h \in Hooks, Hook(h) PROVE taken'[q] > taken[q] + Keep + 1
    BY <2>1, <2>2 DEF Hook, Delivery
  <2>3. ASSUME NEW p \in Polls, UpdateIngested(p) PROVE taken'[q] > taken[q] + Keep + 1
    <3>1. ingest(poll[p].at)
      BY <1>1, <2>3 DEF UpdateIngested, TurnAway
    <3>2. poll[p].at \in Delivery
      BY <1>1, <2>3, PollAt DEF IInv, UpdateIngested
    <3> QED  BY <2>1, <3>1, <3>2
  <2>4. ~Inner
    <3>1. ASSUME NEW e \in Events, _process(e) PROVE UNCHANGED taken
      BY <3>1 DEF _process, Load, Submit, SubmitRefused, attach_run, Waited, Delivered,
           DeliveryFails, Complete, Fail, Busy
    <3>2. ASSUME NEW e \in Events, PushButton(e) \/ _relay_interactions(e) PROVE UNCHANGED taken
      BY <3>2 DEF PushButton, Sent, _relay_interactions
    <3>3. ASSUME NEW e \in Events, Asks(e) \/ AnsweredInApp(e) \/ RunEnds(e) PROVE UNCHANGED taken
      BY <3>3 DEF Asks, AnsweredInApp, RunEnds
    <3>4. ASSUME NEW p \in Polls,
                 Poll(p) \/ UpdateFails(p) \/ CallbackHandled(p) \/ CallbackFails(p)
          PROVE  UNCHANGED taken
      BY <3>4 DEF Poll, UpdateFails, CallbackHandled, CallbackFails
    <3>5. ASSUME NEW b \in Channel, delete_binding(b) PROVE UNCHANGED taken
      BY <3>5 DEF delete_binding
    <3>6. SendMessage \/ Stop \/ start => UNCHANGED taken
      BY DEF SendMessage, Sent, Stop, start
    <3> QED  BY <1>1, <3>1, <3>2, <3>3, <3>4, <3>5, <3>6 DEF Inner
  <2> QED  BY <1>1, <2>2, <2>3, <2>4 DEF Next, Inner, Handle
<1>2. ASSUME IInv, [Next]_vars
      PROVE  [\A d \in Delivery : taken'[d] # taken[d] /\ taken[d] # 0 => taken'[d] > taken[d] + Keep + 1]_vars
  BY <1>1, <1>2
<1> QED  BY <1>2, Invariance, PTL DEF Spec, RetriesAreRecognised
=============================================================================
