-------------------------------- MODULE Groups --------------------------------
(***************************************************************************)
(* A group chat (groups.py): a durable row and transcript, and one loop    *)
(* that prompts the members in turn, or all at once in a parallel round,   *)
(* until the aim is met, the rounds run out, the turn budget is spent or   *)
(* the operator stops it.  Meanwhile the operator posts, mentions members, *)
(* switches the mode, stops and deletes, each in a request of its own.     *)
(*                                                                         *)
(* The loop gives up control only while a turn's run is submitted, while   *)
(* it is awaited, and after a parallel round; everything between two such  *)
(* points is one step.  Groups share nothing, so one is modelled; a        *)
(* message is counted, not kept.                                           *)
(***************************************************************************)
EXTENDS Integers, FiniteSets, Sequences

CONSTANTS
    Roster,         \* the members, in the order in which they speak
    TurnBudget,     \* messages after which no turn is begun
    MaxRounds,      \* bound: rounds asked of a loop
    Callers,        \* requests that stop or delete the group
    MaxStarts,      \* bound: loops ever started
    MaxPosts,       \* bound: messages ever posted by the operator
    MaxRestarts,    \* bound: restarts of the process
    None            \* no member, no mention, no post

(* A roster holds each member once.                                        *)
Members == {Roster[i] : i \in DOMAIN Roster}

ASSUME GroupsAssumption ==
    /\ Roster \in Seq(Members) /\ Roster # <<>>
    /\ \A i, j \in DOMAIN Roster : Roster[i] = Roster[j] => i = j
    /\ TurnBudget \in Nat \ {0} /\ MaxRounds \in Nat \ {0}
    /\ MaxStarts \in Nat /\ MaxPosts \in Nat /\ MaxRestarts \in Nat
    /\ None \notin Members \cup Nat

VARIABLES
    row,            \* the group: status, reply mode, and who is slated to speak
    log,            \* its messages: posted, written for turns, notices of the loop
    mention,        \* _speakers: whom the operator mentioned, in which post
    stops,          \* the group is in _stops
    loop,           \* the task of the turn loop
    turn,           \* what the loop waits for on behalf of a member
    speaking,       \* _speaking: members whose run a stop would cancel
    cancelled,      \* members whose run has been told to stop
    call,           \* the requests that stop or delete the group
    starts, restarts,
    answered,       \* history: posts whose mention was given a turn
    missed          \* history: members whose run no stop in progress knows of

vars == <<row, log, mention, stops, loop, turn, speaking, cancelled, call,
          starts, restarts, answered, missed>>

Rounds == 1..MaxRounds                       \* what _require_rounds lets through
Mentioned == Members \cup {None}             \* the first member a post mentions
Statuses == {"idle", "running", "done", "stopped", "error"}
Modes == {"sequential", "parallel"}
Live == {"created", "turn", "round"}        \* the task of the loop is not done

NoLoop == [pc |-> "none", of |-> 0, round |-> 0, pos |-> 0, how |-> "rotation",
           about |-> None, met |-> FALSE, mode |-> "sequential", overlap |-> FALSE]
NoCall == [pc |-> "idle", kind |-> "stop", left |-> {}]

TypeOK ==
    /\ row \in [exists : BOOLEAN, status : Statuses, mode : Modes, speaker : Members \cup {None}]
    /\ log \in [posts : 0..MaxPosts, turns : Nat, notes : Nat]
    /\ mention \in [who : Members, post : 1..MaxPosts] \cup {None}
    /\ stops \in BOOLEAN
    /\ loop \in [pc : Live \cup {"none", "lost"}, of : 0..MaxRounds, round : Nat, pos : Nat,
                 how : {"rotation", "override", "directed", "adopted", "parallel"},
                 about : 1..MaxPosts \cup {None}, met : BOOLEAN, mode : Modes,
                 overlap : BOOLEAN]
    /\ turn \in [Members -> {"none", "submit", "wait"}]
    /\ speaking \subseteq Members /\ cancelled \subseteq Members /\ missed \subseteq Members
    /\ call \in [Callers -> [pc : {"idle", "cancel", "gather", "write"},
                             kind : {"stop", "delete"}, left : SUBSET Members]]
    /\ starts \in 0..MaxStarts /\ restarts \in 0..MaxRestarts
    /\ answered \subseteq 1..MaxPosts

Init ==
    /\ row \in [exists : {TRUE}, status : {"idle"}, mode : Modes, speaker : {None}]
    /\ log = [posts |-> 0, turns |-> 0, notes |-> 0]
    /\ mention = None /\ stops = FALSE
    /\ loop = NoLoop
    /\ turn = [m \in Members |-> "none"]
    /\ speaking = {} /\ cancelled = {} /\ missed = {}
    /\ call = [c \in Callers |-> NoCall]
    /\ starts = 0 /\ restarts = 0 /\ answered = {}

-------------------------------------------------------------------------------
(* A step of the loop or of a stop is a chain of statements, each a        *)
(* function on the state below; Become makes the result the next state.    *)

Now == [row |-> row, log |-> log, mention |-> mention, stops |-> stops, loop |-> loop,
        turn |-> turn, speaking |-> speaking, cancelled |-> cancelled, call |-> call,
        answered |-> answered, missed |-> missed]

Become(s) ==
    /\ row' = s.row /\ log' = s.log /\ mention' = s.mention /\ stops' = s.stops
    /\ loop' = s.loop /\ turn' = s.turn /\ speaking' = s.speaking
    /\ cancelled' = s.cancelled /\ call' = s.call
    /\ answered' = s.answered /\ missed' = s.missed

Running(s) == s.loop.pc \in Live
Stopping == \E c \in Callers : call[c].pc # "idle"

(* The messages go with their group.                                       *)
CountMessages(s) == IF s.row.exists THEN s.log.posts + s.log.turns + s.log.notes ELSE 0

(* Writing to a deleted group raises; each of these but the message of a   *)
(* turn comes last in its chain, so that nothing else tells the difference *)
Status(s, to) == IF s.row.exists THEN [s EXCEPT !.row.status = to] ELSE s
Speaker(s, who) == IF s.row.exists THEN [s EXCEPT !.row.speaker = who] ELSE s
Notice(s) == IF s.row.exists THEN [s EXCEPT !.log.notes = @ + 1] ELSE s

ReplyMode(s) == IF s.row.exists THEN s.row.mode ELSE s.loop.mode

(* The loop's task ends and wakes the stops that wait for it.              *)
Over(s) ==
    [s EXCEPT !.loop = NoLoop, !.speaking = {},
              !.call = [c \in Callers |-> IF @[c].pc = "gather" THEN [@[c] EXCEPT !.pc = "write"]
                                                                ELSE @[c]]]

OutOfBudget(s) == Over(Notice(s))
AimMet(s) == [Over(Status(Notice(s), "done")) EXCEPT !.stops = FALSE]

(* The turns of the members in who are begun, on account of a post or of none. *)
Speak(s, who, how, post) ==
    [s EXCEPT !.loop.pc = "turn", !.loop.how = how, !.loop.about = post, !.loop.met = FALSE,
              !.turn = [m \in Members |-> IF m \in who THEN "submit" ELSE @[m]],
              !.answered = IF post = None THEN @ ELSE @ \cup {post}]

(* A mention that a round finds is taken out before its turn is begun.     *)
Remember(s) == s
Forget(s) == [s EXCEPT !.mention = None]
Override(s, how) ==
    Speak(Speaker(Forget(s), s.mention.who), {s.mention.who}, how, s.mention.post)

ParallelRoundUnmetered(s) ==
    IF s.mention # None THEN Override(s, "adopted") ELSE Speak(s, Members, "parallel", None)
ParallelRound(s) ==
    CASE s.mention # None -> Override(s, "adopted")
      [] s.mention = None /\ CountMessages(s) >= TurnBudget -> OutOfBudget(s)
      [] OTHER -> Speak(s, Members, "parallel", None)

RotationTurn(s) ==
    CASE CountMessages(s) >= TurnBudget -> OutOfBudget(s)
      [] CountMessages(s) < TurnBudget /\ s.mention # None -> Override(s, "override")
      [] OTHER -> Speak(s, {Roster[s.loop.pos]}, "rotation", None)

Proceed(s) ==
    CASE s.loop.round > s.loop.of -> Over(Speaker(Status(s, "idle"), None))
      [] s.loop.round <= s.loop.of /\ s.stops -> Over(s)
      [] OTHER -> IF s.loop.pos = 1 /\ ReplyMode(s) = "parallel" THEN ParallelRound(s)
                                                                 ELSE RotationTurn(s)

NextRound(s) == Proceed([s EXCEPT !.loop.round = @ + 1, !.loop.pos = 1])
NextTurn(s) ==
    IF s.loop.pos < Len(Roster) THEN Proceed([s EXCEPT !.loop.pos = @ + 1]) ELSE NextRound(s)

(* A mention found by a new loop is only looked up: it is forgotten, with  *)
(* any posted since, when the one turn it buys has ended.                  *)
DirectedTurn(s) ==
    CASE s.stops -> Over(s)
      [] ~s.stops /\ CountMessages(s) >= TurnBudget -> OutOfBudget(s)
      [] OTHER -> Speak(s, {s.mention.who}, "directed", s.mention.post)

Run(s) ==
    IF s.mention = None THEN Proceed(s)
                        ELSE DirectedTurn(Speaker(s, s.mention.who))

(* What the loop does about a member's message.                            *)
TurnOver(s, m, met) ==
    CASE s.loop.how = "parallel" ->
           [s EXCEPT !.loop.met = @ \/ met,
                     !.loop.pc = IF \A o \in Members : s.turn[o] = "none" THEN "round" ELSE @]
      [] s.loop.how = "rotation" -> IF met THEN AimMet(s) ELSE NextTurn(s)
      [] s.loop.how = "override" ->
           IF met THEN AimMet(Speaker(s, None)) ELSE NextTurn(Speaker(s, None))
      [] s.loop.how = "adopted" ->
           IF met THEN AimMet(Speaker(s, None)) ELSE Over(Status(Speaker(s, None), "idle"))
      [] s.loop.how = "directed" ->
           LET t == Speaker(Forget(s), None)
           IN  IF met THEN AimMet(t) ELSE Over(Status(t, "idle"))

(* The member's run is out of the loop's hands.                            *)
Unlisted(s, m) ==
    [s EXCEPT !.turn[m] = "none", !.speaking = @ \ {m},
              !.cancelled = @ \ {m}, !.missed = @ \ {m},
              !.call = [c \in Callers |-> [s.call[c] EXCEPT !.left = @ \ {m}]]]

-------------------------------------------------------------------------------
(* Requests                                                                *)

Launched(s, rounds) ==
    [s EXCEPT !.stops = FALSE, !.row.status = "running",
              !.loop = [NoLoop EXCEPT !.pc = "created", !.of = rounds, !.round = 1, !.pos = 1,
                                      !.mode = s.row.mode, !.overlap = Stopping]]

Start(rounds) ==
    /\ row.exists /\ ~Running(Now) /\ starts < MaxStarts
    /\ Become(Launched(Now, rounds)) /\ starts' = starts + 1
    /\ UNCHANGED restarts

(* A parsed mention is kept for the loop, over one it has not taken yet.   *)
MentioningAnyone(s, who) == [s EXCEPT !.mention = [who |-> who, post |-> s.log.posts]]
Mentioning(s, who) ==
    IF who = None THEN s ELSE [s EXCEPT !.mention = [who |-> who, post |-> s.log.posts]]

(* A post to a group at rest starts one round, unless respond is off.      *)
PostMessage(who, respond) ==
    /\ row.exists /\ log.posts < MaxPosts
    /\ LET posted == [Now EXCEPT !.log.posts = @ + 1]
           noted  == Mentioning(posted, who)
       IN  \/ /\ ~Running(Now) /\ respond /\ starts < MaxStarts
              /\ Become(Launched(noted, 1)) /\ starts' = starts + 1
           \/ /\ ~Running(Now) /\ ~respond
              /\ Become(posted) /\ UNCHANGED starts
           \/ /\ Running(Now) /\ respond
              /\ Become(noted) /\ UNCHANGED starts
    /\ UNCHANGED restarts

SetReplyMode(mode) ==
    /\ row.exists /\ row.mode # mode
    /\ row' = [row EXCEPT !.mode = mode]
    /\ UNCHANGED <<log, mention, stops, loop, turn, speaking, cancelled, call,
                   starts, restarts, answered, missed>>

(* The end of a stop: it forgets whoever is speaking by now.               *)
Stopped(s, c) ==
    LET t == Status([s EXCEPT !.speaking = {}, !.call[c] = NoCall,
                              !.missed = @ \cup {m \in Members : s.turn[m] = "wait"}], "stopped")
    IN  IF s.call[c].kind = "delete" THEN [t EXCEPT !.row.exists = FALSE] ELSE t

AwaitNothing(s, c) == Stopped(s, c)
AwaitLoop(s, c) ==
    IF Running(s) THEN [s EXCEPT !.call[c].pc = "gather"] ELSE Stopped(s, c)

Stop(c, kind) ==
    /\ call[c].pc = "idle" /\ row.exists
    /\ kind = "delete" => Running(Now)
    /\ LET s == [Now EXCEPT !.stops = TRUE,
                            !.call[c] = [pc |-> "cancel", kind |-> kind, left |-> speaking]]
       IN  Become(IF speaking = {} THEN AwaitLoop(s, c) ELSE s)
    /\ UNCHANGED <<starts, restarts>>

DeleteAtRest ==
    /\ row.exists /\ ~Running(Now)
    /\ row' = [row EXCEPT !.exists = FALSE]
    /\ UNCHANGED <<log, mention, stops, loop, turn, speaking, cancelled, call,
                   starts, restarts, answered, missed>>

CancelNobody(c, m) ==
    /\ call[c].pc = "cancel" /\ m \in call[c].left
    /\ call' = [call EXCEPT ![c].left = @ \ {m}]
    /\ UNCHANGED <<row, log, mention, stops, loop, turn, speaking, cancelled,
                   starts, restarts, answered, missed>>
CancelRun(c, m) ==
    /\ call[c].pc = "cancel" /\ m \in call[c].left
    /\ call' = [call EXCEPT ![c].left = @ \ {m}]
    /\ cancelled' = cancelled \cup {m}
    /\ UNCHANGED <<row, log, mention, stops, loop, turn, speaking,
                   starts, restarts, answered, missed>>

RunsCancelled(c) ==
    /\ call[c].pc = "cancel" /\ call[c].left = {}
    /\ Become(AwaitLoop(Now, c))
    /\ UNCHANGED <<starts, restarts>>

LoopAwaited(c) ==
    /\ call[c].pc = "write"
    /\ Become(Stopped(Now, c))
    /\ UNCHANGED <<starts, restarts>>

-------------------------------------------------------------------------------
(* The loop                                                                *)

Begin ==
    /\ loop.pc = "created"
    /\ Become(Run(Now))
    /\ UNCHANGED <<starts, restarts>>

Submitted(m) ==
    /\ turn[m] = "submit"
    /\ turn' = [turn EXCEPT ![m] = "wait"]
    /\ speaking' = speaking \cup {m}
    /\ missed' = IF Stopping THEN missed \cup {m} ELSE missed
    /\ UNCHANGED <<row, log, mention, stops, loop, cancelled, call, starts, restarts, answered>>

(* The run of a turn has ended, or was refused: every way out of _speak    *)
(* writes one message.  That raises in a deleted group and ends the loop,  *)
(* leaving the other runs of a parallel round to themselves.               *)
EndTurn(m, met) ==
    LET s == Unlisted(Now, m)
    IN  /\ Become(CASE ~Running(s) -> s
                    [] Running(s) /\ ~row.exists -> Over(s)
                    [] OTHER -> TurnOver([s EXCEPT !.log.turns = @ + 1], m, met))
        /\ UNCHANGED <<starts, restarts>>

SubmitFails(m) == turn[m] = "submit" /\ EndTurn(m, FALSE)
RunEnds(m, met) == turn[m] = "wait" /\ EndTurn(m, met)

RoundGathered ==
    /\ loop.pc = "round"
    /\ Become(IF loop.met THEN AimMet(Now) ELSE NextRound(Now))
    /\ UNCHANGED <<starts, restarts>>

(* The process ends, by close(), which cancels the loop's task and so has  *)
(* it write "stopped" if it has begun, or by a crash, which writes         *)
(* nothing.  At rest a restart would only forget a mention, and is left    *)
(* out.                                                                    *)
Restart(graceful) ==
    /\ restarts < MaxRestarts /\ (Running(Now) \/ Stopping)
    /\ restarts' = restarts + 1
    /\ row' = IF graceful /\ loop.pc \in {"turn", "round"} THEN Status(Now, "stopped").row ELSE row
    /\ loop' = [NoLoop EXCEPT !.pc = IF Running(Now) \/ Stopping \/ loop.pc = "lost"
                                     THEN "lost" ELSE "none"]
    /\ mention' = None /\ stops' = FALSE
    /\ turn' = [m \in Members |-> "none"]
    /\ speaking' = {} /\ cancelled' = {} /\ missed' = {}
    /\ call' = [c \in Callers |-> NoCall]
    /\ UNCHANGED <<log, starts, answered>>

-------------------------------------------------------------------------------

StopStep(c) == RunsCancelled(c) \/ LoopAwaited(c) \/ \E m \in Members : CancelRun(c, m)

(* What the operator asks for, each in an HTTP request.                    *)
Request ==
    \/ DeleteAtRest
    \/ \E rounds \in Rounds : Start(rounds)
    \/ \E who \in Mentioned, respond \in BOOLEAN : PostMessage(who, respond)
    \/ \E mode \in Modes : SetReplyMode(mode)
    \/ \E c \in Callers, kind \in {"stop", "delete"} : Stop(c, kind)

(* A submission comes back, one way or the other.                          *)
SubmitReturns(m) == Submitted(m) \/ SubmitFails(m)
RunReturns(m) == \E met \in BOOLEAN : RunEnds(m, met)

LoopStep ==
    Begin \/ RoundGathered \/ \E m \in Members : SubmitReturns(m) \/ RunReturns(m)

Next ==
    \/ Request \/ LoopStep
    \/ \E c \in Callers : StopStep(c)
    \/ \E graceful \in BOOLEAN : Restart(graceful)

Spec == Init /\ [][Next]_vars

(* The event loop gets round to every task, so that the loop goes on ...   *)
LoopIsScheduled == WF_vars(Begin) /\ WF_vars(RoundGathered)

(* ... and so do the requests, whose calls to cancel come back.            *)
StopsAreScheduled == \A c \in Callers : WF_vars(StopStep(c))

(* A submission comes back, and a run that was told to stop ends.  No      *)
(* other run need.                                                         *)
EngineAnswers ==
    \A m \in Members :
        WF_vars(SubmitReturns(m)) /\ WF_vars(m \in cancelled /\ RunReturns(m))

LiveSpec == LoopIsScheduled /\ StopsAreScheduled /\ EngineAnswers /\ Spec

-------------------------------------------------------------------------------
(* Properties                                                              *)

(* Turns cost the group little more than its budget, whatever is posted,   *)
(* mentioned, switched and restarted: only the last parallel round, which  *)
(* is checked once for all its members, and one mention that the round     *)
(* after it adopts unchecked can overrun it.                               *)
BudgetBounds == log.turns <= TurnBudget + Len(Roster)

(* What the row says of the loop.  A loop that no stop was in progress to  *)
(* misreport shows as running while it runs and lists the runs that a stop *)
(* would have to cancel; and a group that shows as running with no loop    *)
(* and nobody stopping it has spent its budget, or a restart cut its loop  *)
(* or a stop short.                                                        *)
StatusTellsTheLoop ==
    row.exists =>
      /\ Running(Now) /\ ~loop.overlap =>
           /\ row.status = "running"
           /\ \A m \in Members : turn[m] = "wait" <=> m \in speaking
      /\ ~Running(Now) /\ row.status = "running" =>
           \/ Stopping
           \/ loop.pc = "lost"
           \/ CountMessages(Now) > TurnBudget

(* The mention of one post buys at most one directed turn: no step begins  *)
(* a turn on account of a post that was given one.                         *)
MentionAnsweredOnce ==
    [][\A post \in answered : loop'.about = post => loop.about = post /\ loop'.round = loop.round
                                                    /\ loop'.pos = loop.pos]_vars

(* A stop returns, unless a run it cannot know of keeps the loop: one that *)
(* was being submitted when the stop looked, or that an earlier stop wiped *)
(* from the list.                                                          *)
StopReturns ==
    \A c \in Callers :
      <>[](call[c].pc # "idle") => \E m \in Members : <>[](m \in missed)

===============================================================================
