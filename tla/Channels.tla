------------------------------- MODULE Channels -------------------------------
(***************************************************************************)
(* External channels (channels.py, wired up in server.py).                 *)
(*                                                                         *)
(* A provider delivers a message, by a webhook it may repeat or as an      *)
(* update that the Telegram poller fetches.  The store accepts it once as  *)
(* an event, and a task of the gateway takes the event through the engine  *)
(* and back: submit a run named after the event, write its id down, wait   *)
(* for it, deliver the reply, write the outcome down.  While it waits, a   *)
(* relay posts the run's questions to the chat, whose buttons come back as *)
(* updates.                                                                *)
(*                                                                         *)
(* The tables survive the process; tasks, polls and the poller's offset do *)
(* not.  Of the engine it is assumed that a run survives a restart         *)
(* (RunEngine), and kept that its text does not.                           *)
(***************************************************************************)
EXTENDS Integers, FiniteSets, Sequences

CONSTANTS
    Hooks,          \* delivery ids of webhooks
    Polls,          \* polls of the Telegram binding that may overlap
    Keep,           \* max_events: settled events that are retained
    MaxEvents,      \* bound: events ever accepted
    MaxOpen,        \* bound: messages unread or open, the new one among them
    Asking,         \* bound: events whose run may ask the operator
    MaxUpdates,     \* bound: Telegram updates ever sent
    MaxFaults,      \* bound: crashes, refusals, failed calls and deletions, together
    None            \* a row that is not there

ASSUME ChannelsAssumption ==
    /\ IsFiniteSet(Hooks) /\ Hooks \cap Nat = {}
    /\ Keep \in Nat /\ MaxEvents \in Nat /\ MaxUpdates \in Nat
    /\ MaxOpen \in Nat /\ MaxFaults \in Nat

VARIABLES
    bindings,       \* the configured channels
    event,          \* the table of events, by order of creation
    count,          \* events ever created
    pc,             \* the task of each event
    reply,          \* what the task is about to deliver
    run,            \* the engine's run channel-<event>
    text,           \* the engine still has the text of the run in memory
    gate,           \* the run's permission request
    seen,           \* requests the task's relay has posted
    relay,          \* events whose relay is at work
    cards,          \* requests whose buttons are in the chat
    updates,        \* what was sent to the Telegram bot
    confirmed,      \* how many of them Telegram has been told to forget
    expired,        \* updates whose callback Telegram no longer lets anyone answer
    offset,         \* the poller's offset, as a number of updates
    poll,           \* what each poll is working through
    up, faults,
    known,          \* history: deliveries the store has taken or turned away
    taken,          \* history: the last event made of a delivery, 0 if none
    posted,         \* history: replies posted by the current process
    stuck           \* history: events whose failure could not be written down

vars == <<bindings, event, count, pc, reply, run, text, gate, seen, relay, cards, updates,
          confirmed, expired, offset, poll, up, faults, known, taken, posted, stuck>>
store == <<bindings, event, count>>
engine == <<run, text, gate>>
chat == <<seen, relay, cards>>
telegram == <<updates, confirmed, expired, offset, poll>>
process == <<up, faults>>

Events == 1 .. MaxEvents
Updates == 1 .. MaxUpdates
Delivery == Hooks \cup Updates
Channel == {"webhook", "telegram"}
ChannelOf(d) == IF d \in Hooks THEN "webhook" ELSE "telegram"

Open == {"queued", "running"}
TERMINAL == {"responded", "stored", "failed"}
Row == [delivery : Delivery, status : Open \cup TERMINAL, run_id : BOOLEAN]

ASSUME NoneIsNoRow == None \notin Row

Rows == {e \in Events : event[e] # None}
Pending(e) == event[e] # None /\ event[e].status \in Open
Settled(e) == event[e] # None /\ event[e].status \in TERMINAL
Texts == {"answer", "blank"}
Message == 0     \* an update that is not a button of an event's card
IdlePoll == [at |-> 1, to |-> 0]
Polling(p) == poll[p].at <= poll[p].to

Init ==
    /\ bindings = Channel
    /\ event = [e \in Events |-> None] /\ count = 0
    /\ pc = [e \in Events |-> "none"] /\ reply = [e \in Events |-> "blank"]
    /\ run = [e \in Events |-> "none"] /\ text = [e \in Events |-> FALSE]
    /\ gate = [e \in Events |-> "none"]
    /\ seen = {} /\ relay = {} /\ cards = {}
    /\ updates = <<>> /\ confirmed = 0 /\ expired = {}
    /\ offset = 0 /\ poll = [p \in Polls |-> IdlePoll]
    /\ up = TRUE /\ faults = 0
    /\ known = {} /\ taken = [d \in Delivery |-> 0] /\ posted = {} /\ stuck = {}

-----------------------------------------------------------------------------
(* The store.                                                               *)

Recognised(d) == \E e \in Rows : event[e].delivery = d

(* _prune, over a table: the newest Keep settled events stay.               *)
Newer(table, e) ==
    {f \in Events : f > e /\ table[f] # None /\ table[f].status \in TERMINAL}

_pruneOpenToo(table) ==
    [e \in Events |-> IF Cardinality(Newer(table, e)) >= Keep THEN None ELSE table[e]]

_prune(table) ==
    [e \in Events |->
        IF table[e] # None /\ table[e].status \in TERMINAL /\ Cardinality(Newer(table, e)) >= Keep
        THEN None ELSE table[e]]

(* A delivery that no row remembers becomes an event, and its task starts.  *)
accept(d) ==
    /\ ChannelOf(d) \in bindings
    /\ ~Recognised(d)
    /\ count < MaxEvents
    /\ count' = count + 1
    /\ event' = _prune([event EXCEPT ![count + 1] =
                          [delivery |-> d, status |-> "queued", run_id |-> FALSE]])
    /\ pc' = [pc EXCEPT ![count + 1] = "load"]
    /\ taken' = [taken EXCEPT ![d] = count + 1]

Fault == faults < MaxFaults /\ faults' = faults + 1

(* What the signature, the normaliser of the provider, the lists of senders *)
(* and sources or a disabled channel refuse: nothing is written.            *)
TurnAway == UNCHANGED <<event, count, pc, taken>>

ingest(d) ==
    /\ \/ accept(d) /\ UNCHANGED faults
       \/ Recognised(d) /\ TurnAway /\ UNCHANGED faults
       \/ Fault /\ TurnAway
    /\ known' = known \cup {d}

(* _transition: only an open event changes its status.                      *)
Moved(e, status) ==
    IF Pending(e) THEN [event EXCEPT ![e].status = status] ELSE event

Goto(e, step) == pc' = [pc EXCEPT ![e] = step]

-----------------------------------------------------------------------------
(* Arrivals.                                                                *)

Unread == {u \in 1 .. Len(updates) : updates[u] = Message /\ u \notin known}

Quiet == Cardinality({e \in Events : Pending(e)}) + Cardinality(Unread) < MaxOpen

(* A provider sends a webhook, perhaps once more.                           *)
Hook(h) ==
    /\ up /\ "webhook" \in bindings /\ Quiet
    /\ ingest(h)
    /\ UNCHANGED <<bindings, reply, engine, chat, telegram, up, posted, stuck>>

Sent(update) ==
    /\ Len(updates) < MaxUpdates
    /\ updates' = Append(updates, update)
    /\ UNCHANGED <<store, pc, reply, engine, chat, confirmed, expired, offset, poll, process,
                   known, taken, posted, stuck>>

SendMessage == Quiet /\ Sent(Message)
PushButton(e) == e \in cards /\ Sent(e)

PollWhenIdle(p) ==
    /\ up /\ "telegram" \in bindings
    /\ ~Polling(p) /\ \A e \in Events : pc[e] = "none"
    /\ confirmed' = IF offset > confirmed THEN offset ELSE confirmed
    /\ poll' = [poll EXCEPT ![p] =
          IF confirmed' < Len(updates) THEN [at |-> confirmed' + 1, to |-> Len(updates)] ELSE IdlePoll]
    /\ UNCHANGED <<store, pc, reply, engine, chat, updates, expired, offset, process,
                   known, taken, posted, stuck>>

(* getUpdates tells Telegram to forget what is below the offset and returns *)
(* the rest.  Polls overlap when one of another binding has failed: _run    *)
(* starts over while its siblings go on.                                    *)
Poll(p) ==
    /\ up /\ "telegram" \in bindings
    /\ ~Polling(p)
    /\ LET first == IF offset > confirmed THEN offset ELSE confirmed
       IN /\ confirmed' = first
          /\ poll' = [poll EXCEPT ![p] =
                IF first < Len(updates) THEN [at |-> first + 1, to |-> Len(updates)] ELSE IdlePoll]
    /\ UNCHANGED <<store, pc, reply, engine, chat, updates, expired, offset, process,
                   known, taken, posted, stuck>>

AdvanceTooFar(p) ==
    IF poll[p].at = poll[p].to
    THEN offset' = poll[p].to + 1 /\ poll' = [poll EXCEPT ![p] = IdlePoll]
    ELSE offset' = offset /\ poll' = [poll EXCEPT ![p].at = @ + 1]

(* The next update of the batch; after the last one the offset moves.       *)
Advance(p) ==
    IF poll[p].at = poll[p].to
    THEN offset' = poll[p].to /\ poll' = [poll EXCEPT ![p] = IdlePoll]
    ELSE offset' = offset /\ poll' = [poll EXCEPT ![p].at = @ + 1]

AbortForward(p) == offset' = poll[p].to /\ poll' = [poll EXCEPT ![p] = IdlePoll]

(* An exception leaves the whole batch to be fetched again.                 *)
Abort(p) == offset' = offset /\ poll' = [poll EXCEPT ![p] = IdlePoll]

UpdateIngested(p) ==
    LET u == poll[p].at
    IN /\ up /\ Polling(p) /\ updates[u] = Message
       /\ IF "telegram" \in bindings
          THEN ingest(u) /\ Advance(p)
          ELSE TurnAway /\ Abort(p) /\ UNCHANGED <<faults, known>>
       /\ UNCHANGED <<bindings, reply, engine, chat, updates, confirmed, expired, up,
                      posted, stuck>>

(* The database is locked.                                                  *)
UpdateFails(p) ==
    /\ up /\ Polling(p) /\ updates[poll[p].at] = Message
    /\ Fault
    /\ Abort(p)
    /\ UNCHANGED <<store, pc, reply, engine, chat, updates, confirmed, expired, up,
                   known, taken, posted, stuck>>

(* A button decides a request that is still open, and Telegram is told so.  *)
Decided(u) == IF gate[updates[u]] = "open" THEN [gate EXCEPT ![updates[u]] = "closed"] ELSE gate

CallbackHandled(p) ==
    LET u == poll[p].at
    IN /\ up /\ Polling(p) /\ updates[u] # Message /\ u \notin expired
       /\ gate' = Decided(u)
       /\ Advance(p)
       /\ UNCHANGED <<store, pc, reply, run, text, chat, updates, confirmed, expired, process,
                      known, taken, posted, stuck>>

(* answerCallbackQuery fails, for now or (a query too old) for good.        *)
CallbackFails(p) ==
    LET u == poll[p].at
    IN /\ up /\ Polling(p) /\ updates[u] # Message
       /\ gate' = Decided(u)
       /\ Abort(p)
       /\ IF u \in expired
          THEN UNCHANGED <<expired, faults>>
          ELSE Fault /\ expired' \in {expired, expired \cup {u}}
       /\ UNCHANGED <<store, pc, reply, run, text, chat, updates, confirmed, up,
                      known, taken, posted, stuck>>

-----------------------------------------------------------------------------
(* _process: the task of an event.                                          *)

(* An event that was already submitted goes on where it was.                *)
Load(e) ==
    /\ pc[e] = "load"
    /\ Goto(e, IF ~Pending(e) THEN "none" ELSE IF event[e].run_id THEN "wait" ELSE "submit")
    /\ relay' = IF Pending(e) /\ event[e].run_id THEN relay \cup {e} ELSE relay
    /\ UNCHANGED <<store, reply, engine, seen, cards, telegram, process, known, taken, posted,
                   stuck>>

(* Engine.submit knows the run already, or takes it.                        *)
Submit(e) ==
    /\ pc[e] = "submit"
    /\ run' = [run EXCEPT ![e] = IF @ = "none" THEN "active" ELSE @]
    /\ text' = [text EXCEPT ![e] = IF run[e] = "none" THEN TRUE ELSE @]
    /\ Goto(e, "attach")
    /\ UNCHANGED <<store, reply, gate, chat, telegram, process, known, taken, posted, stuck>>

(* It raises: a quota; or the event was submitted before a restart, and the *)
(* prompt built for it now, from the thread and the shared memory, is       *)
(* "different work".                                                        *)
SubmitRefused(e) ==
    /\ pc[e] = "submit"
    /\ IF run[e] # "none" THEN UNCHANGED faults ELSE Fault
    /\ Goto(e, "fail")
    /\ UNCHANGED <<store, reply, engine, chat, telegram, up, known, taken, posted, stuck>>

attach_run(e) ==
    /\ pc[e] = "attach"
    /\ IF Pending(e)
       THEN /\ event' = [event EXCEPT ![e].status = "running", ![e].run_id = TRUE]
            /\ relay' = relay \cup {e} /\ Goto(e, "wait")
       ELSE UNCHANGED <<event, relay>> /\ Goto(e, "none")
    /\ UNCHANGED <<bindings, count, reply, engine, seen, cards, telegram, process, known, taken,
                   posted, stuck>>

(* delegated_wait: of a run that is no longer in the engine's memory only   *)
(* the status is known, and the reply will say that there was no text.      *)
Outcome(e) == IF text[e] THEN "answer" ELSE "blank"

Waited(e) ==
    /\ pc[e] = "wait"
    /\ run[e] \in {"complete", "failed"}
    /\ IF run[e] = "complete"
       THEN /\ reply' = [reply EXCEPT ![e] = Outcome(e)]
            /\ Goto(e, "deliver")
       ELSE UNCHANGED reply /\ Goto(e, "fail")
    /\ relay' = relay \ {e}
    /\ seen' = seen \ {e}
    /\ UNCHANGED <<store, engine, cards, telegram, process, known, taken, posted, stuck>>

(* deliver: a Telegram chat gets the reply; a generic webhook has no way    *)
(* back, and the reply is only kept.                                        *)
Chats(e) == \E u \in Updates : taken[u] = e

Delivered(e) ==
    /\ pc[e] = "deliver"
    /\ posted' = IF Chats(e) THEN posted \cup {e} ELSE posted
    /\ Goto(e, IF Chats(e) THEN "responded" ELSE "stored")
    /\ reply' = [reply EXCEPT ![e] = "blank"]
    /\ UNCHANGED <<store, engine, chat, telegram, process, known, taken, stuck>>

DeliveryRetried(e) ==
    /\ pc[e] = "deliver" /\ Chats(e)
    /\ posted' \in {posted, posted \cup {e}}
    /\ Fault
    /\ UNCHANGED <<store, pc, reply, engine, chat, telegram, up, known, taken, stuck>>

(* The call to Telegram fails, perhaps with the reply in the chat.          *)
DeliveryFails(e) ==
    /\ pc[e] = "deliver" /\ Chats(e)
    /\ posted' \in {posted, posted \cup {e}}
    /\ Fault
    /\ Goto(e, "fail")
    /\ reply' = [reply EXCEPT ![e] = "blank"]
    /\ UNCHANGED <<store, engine, chat, telegram, up, known, taken, stuck>>

(* complete, or fail, and the task is over.                                 *)
Complete(e) ==
    /\ pc[e] \in {"responded", "stored"}
    /\ event' = Moved(e, pc[e])
    /\ Goto(e, "none")
    /\ UNCHANGED <<bindings, count, reply, engine, chat, telegram, process, known, taken, posted,
                   stuck>>

Fail(e) ==
    /\ pc[e] = "fail"
    /\ event' = Moved(e, "failed")
    /\ Goto(e, "none")
    /\ UNCHANGED <<bindings, count, reply, engine, chat, telegram, process, known, taken, posted,
                   stuck>>

(* A database call of the task raises.  Even the failure may not be written *)
(* down: the exception handler passes.                                      *)
Busy(e) ==
    /\ Fault
    /\ pc[e] \notin {"none", "wait", "deliver"}
    /\ IF pc[e] = "fail"
       THEN Goto(e, "none") /\ stuck' = IF Pending(e) THEN stuck \cup {e} ELSE stuck
       ELSE Goto(e, "fail") /\ UNCHANGED stuck
    /\ UNCHANGED <<store, reply, engine, chat, telegram, up, known, taken, posted>>

-----------------------------------------------------------------------------
(* The relay of questions, and the engine's runs.                           *)

(* deliver_interaction: only a Telegram chat gets buttons.                  *)
Buttons(e) == gate[e] \in {"open", "stale"} /\ Chats(e)

_relay_interactions(e) ==
    /\ e \in relay \ seen /\ Buttons(e)
    /\ \/ seen' = seen \cup {e} /\ cards' = cards \cup {e} /\ UNCHANGED <<relay, faults>>
       \/ Fault /\ relay' = relay \ {e} /\ UNCHANGED <<seen, cards>>     \* a refused card ends it
    /\ UNCHANGED <<store, pc, reply, engine, telegram, up, known, taken, posted, stuck>>

Asks(e) ==
    /\ e \in Asking
    /\ up /\ run[e] = "active" /\ gate[e] \in {"none", "stale"}
    /\ gate' = [gate EXCEPT ![e] = "open"]
    /\ UNCHANGED <<store, pc, reply, run, text, chat, telegram, process, known, taken, posted,
                   stuck>>

(* The control room answers.                                                *)
AnsweredInApp(e) ==
    /\ up /\ gate[e] = "open"
    /\ gate' = [gate EXCEPT ![e] = "closed"]
    /\ UNCHANGED <<store, pc, reply, run, text, chat, telegram, process, known, taken, posted,
                   stuck>>

RunEnds(e) ==
    /\ up /\ run[e] = "active" /\ gate[e] # "open"
    /\ \/ run' = [run EXCEPT ![e] = "complete"] /\ UNCHANGED faults
       \/ run' = [run EXCEPT ![e] = "failed"] /\ Fault
    /\ gate' = [gate EXCEPT ![e] = "closed"]       \* expire_run
    /\ UNCHANGED <<store, pc, reply, text, chat, telegram, up, known, taken, posted,
                   stuck>>

-----------------------------------------------------------------------------
(* The operator deletes a channel, and its rows with it.                    *)
delete_binding(b) ==
    /\ Fault
    /\ up /\ b \in bindings
    /\ bindings' = bindings \ {b}
    /\ event' = [e \in Events |->
                   IF event[e] # None /\ ChannelOf(event[e].delivery) = b THEN None ELSE event[e]]
    /\ UNCHANGED <<count, pc, reply, engine, chat, telegram, up, known, taken, posted,
                   stuck>>

(* The process ends, by a crash or by close(): tasks, polls and texts are   *)
(* gone, runs that were not over are restored and ask again.                *)
Stop ==
    /\ up /\ up' = FALSE
    /\ Fault
    /\ pc' = [e \in Events |-> "none"]
    /\ reply' = [e \in Events |-> "blank"]
    /\ relay' = {} /\ seen' = {} /\ posted' = {}
    /\ poll' = [p \in Polls |-> IdlePoll] /\ offset' = 0
    /\ text' = [e \in Events |-> text[e] /\ run[e] = "active"]
    /\ gate' = [e \in Events |-> IF gate[e] = "open" THEN "stale" ELSE gate[e]]
    /\ UNCHANGED <<store, run, cards, updates, confirmed, expired, known, taken, stuck>>

startQueued ==
    /\ ~up
    /\ up' = TRUE
    /\ pc' = [e \in Events |-> IF Pending(e) /\ ~event[e].run_id THEN "load" ELSE "none"]
    /\ stuck' = {}
    /\ UNCHANGED <<store, reply, engine, chat, telegram, faults, known, taken, posted>>

(* start: every open event gets its task back.                              *)
start ==
    /\ ~up
    /\ up' = TRUE
    /\ pc' = [e \in Events |-> IF Pending(e) THEN "load" ELSE "none"]
    /\ stuck' = {}
    /\ UNCHANGED <<store, reply, engine, chat, telegram, faults, known, taken, posted>>

_process(e) ==
    \/ Load(e) \/ Submit(e) \/ SubmitRefused(e) \/ attach_run(e) \/ Waited(e)
    \/ Delivered(e) \/ DeliveryFails(e) \/ Complete(e) \/ Fail(e) \/ Busy(e)

Handle(p) == UpdateIngested(p) \/ UpdateFails(p) \/ CallbackHandled(p) \/ CallbackFails(p)

Next ==
    \/ \E h \in Hooks : Hook(h)
    \/ SendMessage
    \/ \E e \in Events : PushButton(e) \/ _process(e) \/ _relay_interactions(e)
    \/ \E e \in Events : Asks(e) \/ AnsweredInApp(e) \/ RunEnds(e)
    \/ \E p \in Polls : Poll(p) \/ Handle(p)
    \/ \E b \in Channel : delete_binding(b)
    \/ Stop \/ start

Spec == Init /\ [][Next]_vars

(* The engine, the gateway's tasks and the poller go on.                    *)
Fairness ==
    /\ \A e \in Events : WF_vars(_process(e) \/ RunEnds(e))
    /\ \A p \in Polls : WF_vars(Handle(p))
    /\ WF_vars(\E p \in Polls : Poll(p))
    /\ WF_vars(start)

LiveSpec == Spec /\ Fairness

-----------------------------------------------------------------------------
(* Properties.                                                              *)

TypeOK ==
    /\ bindings \subseteq Channel
    /\ event \in [Events -> Row \cup {None}] /\ count \in 0 .. MaxEvents
    /\ pc \in [Events -> {"none", "load", "submit", "attach", "wait", "deliver", "responded",
                           "stored", "fail"}]
    /\ reply \in [Events -> Texts]
    /\ run \in [Events -> {"none", "active", "complete", "failed"}]
    /\ text \in [Events -> BOOLEAN]
    /\ gate \in [Events -> {"none", "open", "stale", "closed"}]
    /\ seen \subseteq Events /\ relay \subseteq Events /\ cards \subseteq Events
    /\ updates \in Seq(Events \cup {Message}) /\ Len(updates) <= MaxUpdates
    /\ confirmed \in 0 .. Len(updates) /\ expired \subseteq 1 .. Len(updates)
    /\ offset \in 0 .. Len(updates)
    /\ poll \in [Polls -> [at : 1 .. MaxUpdates + 1, to : 0 .. MaxUpdates]]
    /\ up \in BOOLEAN /\ faults \in 0 .. MaxFaults
    /\ known \subseteq Delivery /\ taken \in [Delivery -> 0 .. MaxEvents]
    /\ posted \subseteq Events /\ stuck \subseteq Events

(* A delivery that a provider or a restarted poller repeats is not worked   *)
(* on again before more than max_events others have been accepted in between,    *)
(* whatever the state of the first and whichever channels were deleted.     *)
RetriesAreRecognised ==
    [][\A d \in Delivery : taken'[d] # taken[d] /\ taken[d] # 0 => taken'[d] > taken[d] + Keep + 1]_vars

(* One process never has a second reply to deliver for an event it has      *)
(* replied to, nor one for an event whose outcome is recorded: only a crash *)
(* between the two makes a chat see a reply twice.                          *)
NoSecondReply ==
    \A e \in Events : pc[e] = "deliver" => e \notin posted /\ ~Settled(e)

(* Telegram is told to forget a message only after the store has taken it,  *)
(* recognised it or turned it away: through restarts, failed batches and    *)
(* polls that overlap.                                                      *)
NoMessageSkipped ==
    \A u \in 1 .. confirmed : updates[u] = Message => u \in known

(* An accepted event reaches an outcome while the process runs, unless the  *)
(* operator owes its run an answer, its channel is deleted, or the failure  *)
(* of its task could not be written down.                                   *)
AcceptedIsSettled ==
    \A e \in Events :
        Pending(e) /\ up ~> ~Pending(e) \/ ~up \/ gate[e] = "open" \/ e \in stuck

(* A message sent to the Telegram bot is fetched and handed to the store,   *)
(* unless a callback sent before it can never be answered.                  *)
MessagesArrive ==
    \A u \in Updates :
        u <= Len(updates) /\ updates[u] = Message /\ up /\ "telegram" \in bindings
        ~> \/ u \in known \/ ~up \/ "telegram" \notin bindings \/ \E c \in expired : c < u
           \/ count = MaxEvents                                        \* the bound

(* The reply that reaches a chat is what the bot answered, also when the    *)
(* event was recovered: test_channels.py:553 has the wait for a recovered   *)
(* run return its text, "recovered".                                        *)
RecoveredReplyIsTheAnswer == \A e \in Events : pc[e] = "deliver" => reply[e] = "answer"
=============================================================================
