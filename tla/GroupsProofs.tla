----------------------------- MODULE GroupsProofs -----------------------------
(* Proofs about Groups, for any roster, budget and number of rounds, loops, *)
(* posts, stops and restarts.                                               *)
EXTENDS Groups, FiniteSetTheorems, TLAPS

RowType == [exists : BOOLEAN, status : Statuses, mode : Modes, speaker : Members \cup {None}]
LogType == [posts : 0 .. MaxPosts, turns : Nat, notes : Nat]
MentionType == [who : Members, post : 1 .. MaxPosts]
LoopType == [pc : Live \cup {"none", "lost"}, of : 0 .. MaxRounds, round : Nat, pos : Nat,
             how : {"rotation", "override", "directed", "adopted", "parallel"},
             about : 1 .. MaxPosts \cup {None}, met : BOOLEAN, mode : Modes, overlap : BOOLEAN]
CallType == [pc : {"idle", "cancel", "gather", "write"}, kind : {"stop", "delete"},
             left : SUBSET Members]

(* What Now is, and the functions on the state.                             *)
State == [row : RowType, log : LogType, mention : MentionType \cup {None}, stops : BOOLEAN,
          loop : LoopType, turn : [Members -> {"none", "submit", "wait"}],
          speaking : SUBSET Members, cancelled : SUBSET Members, call : [Callers -> CallType],
          answered : SUBSET (1 .. MaxPosts), missed : SUBSET Members]

N == Len(Roster)
Pending(s) == {m \in Members : s.turn[m] # "none"}
Called(s) == \E c \in Callers : s.call[c].pc # "idle"

(* The loop has a turn under way while it waits for one, and nothing is     *)
(* under way between two turns.  Runs outlive the loop only in a group that *)
(* was deleted.                                                             *)
Orderly(s) ==
    /\ \A m \in s.speaking : s.turn[m] = "wait"
    /\ s.loop.pc \in {"created", "round"} => Pending(s) = {}
    /\ s.loop.pc = "turn" => \/ s.loop.how = "parallel"
                             \/ \E m \in Members : Pending(s) = {m}
    /\ s.row.exists /\ ~Running(s) => Pending(s) = {}
    /\ Running(s) => s.loop.pos \in 1 .. N

(* What the turns under way may still cost.                                 *)
Funded(s) ==
    /\ s.log.turns <= TurnBudget + N
    /\ s.row.exists /\ s.loop.pc = "round" => s.log.turns < TurnBudget + N
    /\ s.row.exists /\ s.loop.pc = "turn" =>
         /\ s.loop.how = "parallel" => s.log.turns + Cardinality(Pending(s)) < TurnBudget + N
         /\ s.loop.how = "adopted" => s.log.turns < TurnBudget + N
         /\ s.loop.how \notin {"parallel", "adopted"} => s.log.turns < TurnBudget

(* A loop that no stop was in progress to misreport is shown, and no stop   *)
(* is about to say otherwise; one that is told to stop has a request that   *)
(* waits for it.                                                            *)
Told(s) ==
    /\ s.row.exists /\ Running(s) /\ ~s.loop.overlap =>
         /\ s.row.status = "running"
         /\ \A m \in Members : s.turn[m] = "wait" => m \in s.speaking
         /\ \A c \in Callers : s.call[c].pc # "write"
    /\ Running(s) /\ s.stops => \E c \in Callers : s.call[c].pc \in {"cancel", "gather"}
    /\ s.row.exists /\ ~Running(s) /\ s.row.status = "running" =>
         Called(s) \/ s.loop.pc = "lost" \/ CountMessages(s) > TurnBudget

(* A mention that was given a turn is only kept while that turn goes on, or *)
(* in a group that was deleted.                                             *)
Fresh(s) ==
    /\ s.answered \subseteq 1 .. s.log.posts
    /\ s.mention # None => s.mention.post <= s.log.posts
    /\ s.mention # None /\ s.mention.post \in s.answered =>
         \/ s.loop.pc = "turn" /\ s.loop.how = "directed"
         \/ ~s.row.exists /\ ~Running(s)

Good(s) == s \in State /\ Orderly(s) /\ Funded(s) /\ Told(s) /\ Fresh(s)

IInv == TypeOK /\ Good(Now)
-----------------------------------------------------------------------------
(* The statements of the chains, field by field.                            *)

(* All that a step on the row, or a notice, leaves alone.                   *)
SameTask(s, r) ==
    /\ r.loop = s.loop /\ r.turn = s.turn /\ r.speaking = s.speaking /\ r.call = s.call
    /\ r.stops = s.stops /\ r.answered = s.answered /\ r.cancelled = s.cancelled
    /\ r.missed = s.missed
SameLog(s, r) == r.log = s.log /\ r.mention = s.mention

LEMMA StatusIs ==
    ASSUME NEW s \in State, NEW to \in Statuses, NEW r, r = Status(s, to)
    PROVE  /\ r \in State /\ SameTask(s, r) /\ SameLog(s, r)
           /\ r.row.exists = s.row.exists
           /\ s.row.exists => r.row.status = to
  BY DEF Status, State, RowType, SameTask, SameLog

LEMMA SpeakerIs ==
    ASSUME NEW s \in State, NEW who \in Members \cup {None}, NEW r, r = Speaker(s, who)
    PROVE  /\ r \in State /\ SameTask(s, r) /\ SameLog(s, r)
           /\ r.row.exists = s.row.exists /\ r.row.status = s.row.status
           /\ r.row.mode = s.row.mode
  BY DEF Speaker, State, RowType, SameTask, SameLog

LEMMA NoticeIs ==
    ASSUME NEW s \in State, NEW r, r = Notice(s)
    PROVE  /\ r \in State /\ SameTask(s, r) /\ r.row = s.row /\ r.mention = s.mention
           /\ r.log.turns = s.log.turns /\ r.log.posts = s.log.posts
           /\ CountMessages(r) >= CountMessages(s)
           /\ s.row.exists => CountMessages(r) > CountMessages(s)
  BY DEF Notice, State, LogType, SameTask, CountMessages

LEMMA ForgetIs ==
    ASSUME NEW s \in State, NEW r, r = Forget(s)
    PROVE  r \in State /\ SameTask(s, r) /\ r.row = s.row /\ r.log = s.log /\ r.mention = None
  BY DEF Forget, State, SameTask

LEMMA NoLoopTyped == NoLoop \in LoopType
  BY GroupsAssumption DEF NoLoop, LoopType, Modes, Live

LEMMA OverIs ==
    ASSUME NEW s \in State, NEW r, r = Over(s)
    PROVE  /\ r \in State
           /\ r.loop = NoLoop /\ r.speaking = {} /\ r.turn = s.turn /\ SameLog(s, r)
           /\ r.row = s.row /\ r.stops = s.stops /\ r.answered = s.answered
           /\ \A c \in Callers : r.call[c].pc = (IF s.call[c].pc = "gather" THEN "write"
                                                                          ELSE s.call[c].pc)
<1> DEFINE woken == [c \in Callers |-> IF s.call[c].pc = "gather"
                                       THEN [s.call[c] EXCEPT !.pc = "write"] ELSE s.call[c]]
<1>1. woken \in [Callers -> CallType]
  BY DEF State, CallType
<1>2. r = [s EXCEPT !.loop = NoLoop, !.speaking = {}, !.call = woken]
  BY DEF Over
<1>3. \A c \in Callers : woken[c].pc = (IF s.call[c].pc = "gather" THEN "write" ELSE s.call[c].pc)
  BY DEF State, CallType
<1> HIDE DEF woken
<1> QED  BY <1>1, <1>2, <1>3, NoLoopTyped DEF State, SameLog

(* What is left of s when turns are begun.                                  *)
Spoken(s, r, who, how, post) ==
    /\ r \in State
    /\ r.row = s.row /\ r.stops = s.stops /\ r.call = s.call /\ SameLog(s, r)
    /\ r.speaking = s.speaking
    /\ r.loop.pc = "turn" /\ r.loop.how = how /\ r.loop.about = post
    /\ r.loop.overlap = s.loop.overlap /\ r.loop.pos = s.loop.pos
    /\ \A m \in Members : r.turn[m] = IF m \in who THEN "submit" ELSE s.turn[m]
    /\ r.answered = IF post = None THEN s.answered ELSE s.answered \cup {post}

Hows == {"rotation", "override", "directed", "adopted", "parallel"}
Posts == 1 .. MaxPosts \cup {None}

LEMMA SpeakIs ==
    ASSUME NEW s \in State, NEW who \in SUBSET Members, NEW how \in Hows, NEW post \in Posts
    PROVE  Spoken(s, Speak(s, who, how, post), who, how, post)
<1> DEFINE r == Speak(s, who, how, post)
<1> USE DEF Hows, Posts
<1> DEFINE begun == [m \in Members |-> IF m \in who THEN "submit" ELSE s.turn[m]]
           told  == IF post = None THEN s.answered ELSE s.answered \cup {post}
           task  == [s.loop EXCEPT !.pc = "turn", !.how = how, !.about = post, !.met = FALSE]
<1>1. begun \in [Members -> {"none", "submit", "wait"}] /\ told \in SUBSET (1 .. MaxPosts)
  BY DEF State
<1>2. task \in LoopType
  BY DEF State, LoopType, Live
<1>3. /\ task.pc = "turn" /\ task.how = how /\ task.about = post /\ task.overlap = s.loop.overlap
      /\ task.pos = s.loop.pos
  BY DEF State, LoopType
<1>4. r = [s EXCEPT !.loop = task, !.turn = begun, !.answered = told]
  BY DEF Speak, State, LoopType
<1> HIDE DEF begun, told, task, r
<1>5. /\ r \in State
      /\ r.row = s.row /\ r.stops = s.stops /\ r.call = s.call /\ SameLog(s, r)
      /\ r.speaking = s.speaking /\ r.loop = task /\ r.turn = begun /\ r.answered = told
  BY <1>1, <1>2, <1>4 DEF State, SameLog
<1>6. Spoken(s, r, who, how, post)
  BY <1>3, <1>5 DEF begun, told, Spoken
<1> QED  BY <1>6 DEF r
-----------------------------------------------------------------------------
(* What a chain comes to: the loop is over, or the turns of the members in  *)
(* who are begun.                                                           *)
Woken(s, r) ==
    \A c \in Callers : r.call[c].pc = (IF s.call[c].pc = "gather" THEN "write" ELSE s.call[c].pc)

Ended(s, r) ==
    /\ r \in State
    /\ r.loop = NoLoop /\ r.speaking = {} /\ r.turn = s.turn /\ Woken(s, r)
    /\ r.row.exists = s.row.exists
    /\ r.log.turns = s.log.turns /\ r.log.posts = s.log.posts
    /\ r.answered = s.answered /\ r.mention = s.mention
    /\ r.row.exists /\ r.row.status = "running" => s.stops \/ CountMessages(r) > TurnBudget

Begun(s, r, who, how, post) ==
    /\ r \in State
    /\ r.row.exists = s.row.exists /\ r.row.status = s.row.status
    /\ r.stops = s.stops /\ r.call = s.call /\ r.log = s.log /\ r.speaking = s.speaking
    /\ r.loop.pc = "turn" /\ r.loop.how = how /\ r.loop.about = post
    /\ r.loop.overlap = s.loop.overlap /\ r.loop.pos \in 1 .. N
    /\ \A m \in Members : r.turn[m] = IF m \in who THEN "submit" ELSE s.turn[m]
    /\ r.answered = IF post = None THEN s.answered ELSE s.answered \cup {post}
    /\ post # None => s.mention # None /\ post = s.mention.post
    /\ r.mention = IF how = "directed" THEN s.mention ELSE None
    /\ how = "parallel" \/ \E m \in Members : who = {m}
    /\ IF how = "adopted" THEN post # None ELSE s.row.exists => s.log.turns < TurnBudget

GoesBy(s, r, hows) ==
    \/ Ended(s, r)
    \/ \E who \in SUBSET Members, how \in hows, post \in Posts : Begun(s, r, who, how, post)

Goes(s, r) == GoesBy(s, r, Hows)
Metered == Hows \ {"adopted"}

LEMMA OutOfBudgetEnds ==
    ASSUME NEW s \in State, CountMessages(s) >= TurnBudget
    PROVE  Ended(s, OutOfBudget(s))
<1> DEFINE t == Notice(s)
<1>1. /\ t \in State /\ SameTask(s, t) /\ t.row = s.row /\ t.mention = s.mention
      /\ t.log.turns = s.log.turns /\ t.log.posts = s.log.posts
      /\ s.row.exists => CountMessages(t) > CountMessages(s)
  BY NoticeIs
<1>2. CountMessages(t) \in Nat /\ CountMessages(s) \in Nat
  BY <1>1 DEF State, LogType, CountMessages
<1> HIDE DEF t
<1>3. OutOfBudget(s) = Over(t)
  BY DEF OutOfBudget, t
<1>4. CountMessages(Over(t)) = CountMessages(t)
  BY <1>1, OverIs DEF CountMessages, SameLog
<1> QED  BY <1>1, <1>2, <1>3, <1>4, OverIs, GroupsAssumption DEF Ended, SameTask, SameLog, Woken

LEMMA ResultEnds ==
    ASSUME NEW s \in State, NEW to \in Statuses, to # "running", NEW t \in State,
           SameTask(s, t), t.row.exists = s.row.exists, t.mention = s.mention,
           t.log.turns = s.log.turns, t.log.posts = s.log.posts,
           s.row.exists => t.row.status = to
    PROVE  Ended(s, Over(t))
  BY OverIs DEF Ended, SameTask, SameLog, Woken

LEMMA AimMetEnds ==
    ASSUME NEW s \in State
    PROVE  Ended(s, AimMet(s))
<1> DEFINE t == Notice(s)
           u == Status(t, "done")
<1>1. /\ t \in State /\ SameTask(s, t) /\ t.row = s.row /\ t.mention = s.mention
      /\ t.log.turns = s.log.turns /\ t.log.posts = s.log.posts
  BY NoticeIs
<1>2. "done" \in Statuses /\ "done" # "running"
  BY DEF Statuses
<1>3. /\ u \in State /\ SameTask(t, u) /\ SameLog(t, u) /\ u.row.exists = t.row.exists
      /\ t.row.exists => u.row.status = "done"
  BY <1>1, <1>2, StatusIs
<1> HIDE DEF t, u
<1>4. Ended(s, Over(u))
  BY <1>1, <1>2, <1>3, ResultEnds DEF SameTask, SameLog
<1>5. AimMet(s) = [Over(u) EXCEPT !.stops = FALSE]
  BY DEF AimMet, t, u
<1> QED  BY <1>4, <1>5 DEF Ended, State, Woken, CountMessages

LEMMA RestsEnds ==
    ASSUME NEW s \in State
    PROVE  Ended(s, Over(Status(s, "idle"))) /\ Ended(s, Over(Speaker(Status(s, "idle"), None)))
<1>1. "idle" \in Statuses /\ "idle" # "running"
  BY DEF Statuses
<1> DEFINE t == Status(s, "idle")
           u == Speaker(t, None)
<1>2. /\ t \in State /\ SameTask(s, t) /\ SameLog(s, t) /\ t.row.exists = s.row.exists
      /\ s.row.exists => t.row.status = "idle"
  BY <1>1, StatusIs
<1>3. /\ u \in State /\ SameTask(t, u) /\ SameLog(t, u) /\ u.row.exists = t.row.exists
      /\ u.row.status = t.row.status
  BY <1>2, SpeakerIs
<1> HIDE DEF t, u
<1>4. Ended(s, Over(t))
  BY <1>1, <1>2, ResultEnds DEF SameLog
<1>5. Ended(s, Over(u))
  BY <1>1, <1>2, <1>3, ResultEnds DEF SameTask, SameLog
<1> QED  BY <1>4, <1>5 DEF t, u

LEMMA StopsEnds ==
    ASSUME NEW s \in State, s.stops
    PROVE  Ended(s, Over(s))
  BY OverIs DEF Ended, SameLog, Woken

LEMMA CountBounds ==
    ASSUME NEW s \in State
    PROVE  /\ CountMessages(s) \in Nat /\ s.log.turns \in Nat
           /\ s.row.exists => s.log.turns <= CountMessages(s)
  BY DEF State, LogType, CountMessages

LEMMA SpeakGoes ==
    ASSUME NEW s \in State, s.loop.pos \in 1 .. N, s.mention = None,
           NEW who \in SUBSET Members, NEW how \in {"rotation", "parallel"},
           how = "parallel" \/ \E m \in Members : who = {m},
           s.row.exists => s.log.turns < TurnBudget
    PROVE  Goes(s, Speak(s, who, how, None))
<1> DEFINE r == Speak(s, who, how, None)
<1>1. who \in SUBSET Members /\ how \in Hows /\ None \in Posts
  BY DEF Hows, Posts
<1>2. Spoken(s, r, who, how, None)
  BY <1>1, SpeakIs
<1> HIDE DEF r
<1>3. Begun(s, r, who, how, None)
  BY <1>2 DEF Begun, SameLog, Spoken
<1> QED  BY <1>1, <1>3 DEF Goes, GoesBy, r, Posts, Hows

LEMMA OverrideGoes ==
    ASSUME NEW s \in State, s.loop.pos \in 1 .. N, s.mention # None,
           NEW how \in {"override", "adopted"},
           how = "override" /\ s.row.exists => s.log.turns < TurnBudget
    PROVE  Goes(s, Override(s, how))
<1> DEFINE t == Forget(s)
           u == Speaker(t, s.mention.who)
           who == {s.mention.who}
           post == s.mention.post
           r == Speak(u, who, how, post)
<1>1. s.mention.who \in Members /\ post \in 1 .. MaxPosts
  BY DEF State, MentionType
<1>2. t \in State /\ SameTask(s, t) /\ t.row = s.row /\ t.log = s.log /\ t.mention = None
  BY ForgetIs
<1>3. /\ u \in State /\ SameTask(t, u) /\ SameLog(t, u)
      /\ u.row.exists = t.row.exists /\ u.row.status = t.row.status
  BY <1>1, <1>2, SpeakerIs
<1> HIDE DEF t, u
<1>4. Spoken(u, r, who, how, post)
  <2>1. who \in SUBSET Members /\ how \in Hows /\ post \in Posts
    BY <1>1 DEF Hows, Posts
  <2> QED  BY <1>3, <2>1, SpeakIs
<1>5. r = Override(s, how) /\ post # None
  BY <1>1, GroupsAssumption DEF Override, t, u
<1> HIDE DEF r
<1>6. Begun(s, r, who, how, post)
  BY <1>1, <1>2, <1>3, <1>4, <1>5 DEF Begun, SameTask, SameLog, Spoken
<1> QED  BY <1>1, <1>5, <1>6 DEF Goes, GoesBy, Hows, Posts

LEMMA ProceedGoes ==
    ASSUME NEW s \in State, s.loop.pos \in 1 .. N
    PROVE  Goes(s, Proceed(s))
<1>1. CASE s.loop.round > s.loop.of
  <2>1. ~(s.loop.round <= s.loop.of)
    BY <1>1, GroupsAssumption DEF State, LoopType
  <2>2. Proceed(s) = Over(Speaker(Status(s, "idle"), None))
    BY <1>1, <2>1 DEF Proceed
  <2> QED  BY <2>2, RestsEnds DEF Goes, GoesBy
<1>2. CASE ~(s.loop.round > s.loop.of) /\ s.stops
  <2>1. s.loop.round <= s.loop.of
    BY <1>2, GroupsAssumption DEF State, LoopType
  <2> QED  BY <1>2, <2>1, StopsEnds DEF Proceed, Goes, GoesBy
<1>3. CASE ~(s.loop.round > s.loop.of) /\ ~s.stops
  <2>1. Proceed(s) \in {ParallelRound(s), RotationTurn(s)}
    BY <1>3 DEF Proceed
  <2>2. CASE CountMessages(s) >= TurnBudget /\ s.mention = None
    <3>1. ParallelRound(s) = OutOfBudget(s) /\ RotationTurn(s) = OutOfBudget(s)
      BY <2>2, CountBounds, GroupsAssumption DEF ParallelRound, RotationTurn
    <3> QED  BY <2>1, <2>2, <3>1, OutOfBudgetEnds DEF Goes, GoesBy
  <2>3. CASE CountMessages(s) >= TurnBudget /\ s.mention # None
    <3>1. ParallelRound(s) = Override(s, "adopted") /\ RotationTurn(s) = OutOfBudget(s)
      BY <2>3, CountBounds, GroupsAssumption DEF ParallelRound, RotationTurn
    <3> QED  BY <2>1, <2>3, <3>1, OutOfBudgetEnds, OverrideGoes DEF Goes, GoesBy
  <2>4. CASE ~(CountMessages(s) >= TurnBudget) /\ s.mention # None
    <3>1. CountMessages(s) < TurnBudget /\ (s.row.exists => s.log.turns < TurnBudget)
      BY <2>4, CountBounds, GroupsAssumption
    <3>2. ParallelRound(s) = Override(s, "adopted") /\ RotationTurn(s) = Override(s, "override")
      BY <2>4, <3>1 DEF ParallelRound, RotationTurn
    <3> QED  BY <2>1, <2>4, <3>1, <3>2, OverrideGoes
  <2>5. CASE ~(CountMessages(s) >= TurnBudget) /\ s.mention = None
    <3>1. s.row.exists => s.log.turns < TurnBudget
      BY <2>5, CountBounds, GroupsAssumption
    <3>2. /\ ParallelRound(s) = Speak(s, Members, "parallel", None)
          /\ RotationTurn(s) = Speak(s, {Roster[s.loop.pos]}, "rotation", None)
      BY <2>5 DEF ParallelRound, RotationTurn
    <3>3. Roster[s.loop.pos] \in Members
      BY GroupsAssumption DEF Members, N
    <3> QED  BY <2>1, <2>5, <3>1, <3>2, <3>3, SpeakGoes
  <2> QED  BY <2>2, <2>3, <2>4, <2>5
<1> QED  BY <1>1, <1>2, <1>3

(* The loop moves on to another turn or round.                              *)
LEMMA MoveGoes ==
    ASSUME NEW s \in State, NEW round \in Nat, NEW pos \in 1 .. N, NEW t,
           t = [s EXCEPT !.loop = [s.loop EXCEPT !.round = round, !.pos = pos]]
    PROVE  Goes(s, Proceed(t))
<1> DEFINE task == [s.loop EXCEPT !.round = round, !.pos = pos]
<1>1. task \in LoopType /\ task.pos = pos /\ task.overlap = s.loop.overlap
  <2>1. pos \in Nat /\ s.loop \in LoopType
    BY GroupsAssumption DEF State, N
  <2> QED  BY <2>1 DEF LoopType
<1> HIDE DEF task
<1>2. /\ t \in State /\ t.loop = task /\ SameLog(s, t) /\ t.row = s.row /\ t.turn = s.turn
      /\ t.speaking = s.speaking /\ t.call = s.call /\ t.stops = s.stops /\ t.answered = s.answered
  BY <1>1 DEF State, SameLog, task
<1>3. Goes(t, Proceed(t))
  BY <1>1, <1>2, ProceedGoes
<1>4. ASSUME NEW r, Ended(t, r) PROVE Ended(s, r)
  BY <1>2, <1>4 DEF Ended, SameLog, Woken
<1>5. ASSUME NEW r, NEW who, NEW how, NEW post, Begun(t, r, who, how, post)
      PROVE  Begun(s, r, who, how, post)
  BY <1>1, <1>2, <1>5 DEF Begun, SameLog
<1> QED  BY <1>3, <1>4, <1>5 DEF Goes, GoesBy

LEMMA NextRoundGoes == ASSUME NEW s \in State PROVE Goes(s, NextRound(s))
<1>1. s.loop.round + 1 \in Nat /\ 1 \in 1 .. N
  BY GroupsAssumption DEF State, LoopType, N
<1>2. [s EXCEPT !.loop.round = @ + 1, !.loop.pos = 1]
         = [s EXCEPT !.loop = [s.loop EXCEPT !.round = s.loop.round + 1, !.pos = 1]]
  BY DEF State, LoopType
<1> QED  BY <1>1, <1>2, MoveGoes DEF NextRound

LEMMA NextTurnGoes == ASSUME NEW s \in State, s.loop.pos \in 1 .. N PROVE Goes(s, NextTurn(s))
<1>1. CASE ~(s.loop.pos < Len(Roster))
  BY <1>1, NextRoundGoes DEF NextTurn
<1>2. CASE s.loop.pos < Len(Roster)
  <2>1. s.loop.round \in Nat /\ s.loop.pos + 1 \in 1 .. N
    BY <1>2, GroupsAssumption DEF State, LoopType, N
  <2>2. [s EXCEPT !.loop.pos = @ + 1]
           = [s EXCEPT !.loop = [s.loop EXCEPT !.round = s.loop.round, !.pos = s.loop.pos + 1]]
    BY DEF State, LoopType
  <2> QED  BY <1>2, <2>1, <2>2, MoveGoes DEF NextTurn
<1> QED  BY <1>1, <1>2

LEMMA DirectedGoes ==
    ASSUME NEW s \in State, s.loop.pos \in 1 .. N, s.mention # None
    PROVE  GoesBy(s, DirectedTurn(s), Metered)
<1>1. CASE s.stops
  BY <1>1, StopsEnds DEF DirectedTurn, GoesBy
<1>2. CASE ~s.stops /\ CountMessages(s) >= TurnBudget
  BY <1>2, OutOfBudgetEnds DEF DirectedTurn, GoesBy
<1>3. CASE ~s.stops /\ ~(CountMessages(s) >= TurnBudget)
  <2> DEFINE who == {s.mention.who}
             post == s.mention.post
             r == Speak(s, who, "directed", post)
  <2>1. r = DirectedTurn(s)
    BY <1>3 DEF DirectedTurn
  <2>2. s.mention.who \in Members /\ post \in 1 .. MaxPosts /\ post # None
    BY GroupsAssumption DEF State, MentionType
  <2>3. Spoken(s, r, who, "directed", post)
    <3>1. who \in SUBSET Members /\ "directed" \in Hows /\ post \in Posts
      BY <2>2 DEF Hows, Posts
    <3> QED  BY <3>1, SpeakIs
  <2>4. s.row.exists => s.log.turns < TurnBudget
    BY <1>3, CountBounds, GroupsAssumption
  <2> HIDE DEF r
  <2>5. Begun(s, r, who, "directed", post)
    BY <2>2, <2>3, <2>4 DEF Begun, SameLog, Spoken
  <2> QED  BY <2>1, <2>2, <2>5 DEF GoesBy, Metered, Hows, Posts
<1> QED  BY <1>1, <1>2, <1>3

LEMMA RunGoes == ASSUME NEW s \in State, s.loop.pos \in 1 .. N PROVE GoesBy(s, Run(s), Metered)
<1>1. CASE s.mention = None
  <2>1. GoesBy(s, Run(s), Hows)
    BY <1>1, ProceedGoes DEF Run, Goes
  <2>2. \A r, who, post : ~Begun(s, r, who, "adopted", post)
    BY <1>1 DEF Begun
  <2> QED  BY <2>1, <2>2 DEF GoesBy, Metered
<1>2. CASE s.mention # None
  <2> DEFINE t == Speaker(s, s.mention.who)
  <2>1. s.mention.who \in Members
    BY <1>2 DEF State, MentionType
  <2>2. /\ t \in State /\ SameTask(s, t) /\ SameLog(s, t)
        /\ t.row.exists = s.row.exists /\ t.row.status = s.row.status
    BY <2>1, SpeakerIs
  <2>3. Run(s) = DirectedTurn(t)
    BY <1>2 DEF Run
  <2> HIDE DEF t
  <2>4. GoesBy(t, Run(s), Metered)
    BY <1>2, <2>2, <2>3, DirectedGoes DEF SameTask, SameLog
  <2>5. ASSUME NEW r, Ended(t, r) PROVE Ended(s, r)
    BY <2>2, <2>5 DEF Ended, SameTask, SameLog, Woken
  <2>6. ASSUME NEW r, NEW who, NEW how, NEW post, Begun(t, r, who, how, post)
        PROVE  Begun(s, r, who, how, post)
    BY <2>2, <2>6 DEF Begun, SameTask, SameLog
  <2> QED  BY <2>4, <2>5, <2>6 DEF GoesBy
<1> QED  BY <1>1, <1>2
-----------------------------------------------------------------------------
(* Between two turns, a chain keeps the invariant.                          *)
Between(s) ==
    /\ s \in State /\ Pending(s) = {} /\ s.speaking = {} /\ s.loop.pos \in 1 .. N
    /\ s.log.turns <= TurnBudget + N
    /\ s.stops => \E c \in Callers : s.call[c].pc \in {"cancel", "gather"}
    /\ s.row.exists /\ ~s.loop.overlap =>
         s.row.status = "running" /\ \A c \in Callers : s.call[c].pc # "write"
    /\ s.answered \subseteq 1 .. s.log.posts
    /\ s.mention # None => s.mention.post <= s.log.posts /\ s.mention.post \notin s.answered

LEMMA RosterIsFinite == /\ IsFiniteSet(Members) /\ Cardinality(Members) \in Nat
                        /\ Cardinality(Members) <= N /\ N \in Nat \ {0}
<1>1. N \in Nat \ {0} /\ Roster \in [1 .. N -> Members]
  BY GroupsAssumption DEF N
<1>2. IsFiniteSet(1 .. N) /\ Cardinality(1 .. N) = N
  BY <1>1, FS_Interval
<1>3. Roster \in Surjection(1 .. N, Members)
  BY <1>1 DEF Surjection, Members, N
<1>4. IsFiniteSet(Members) /\ Cardinality(Members) <= Cardinality(1 .. N)
  BY <1>2, <1>3, FS_Surjection
<1> QED  BY <1>1, <1>2, <1>4, FS_CardinalityType

LEMMA PendingIsFinite ==
    ASSUME NEW s \in State
    PROVE  /\ IsFiniteSet(Pending(s)) /\ Cardinality(Pending(s)) \in Nat
           /\ Cardinality(Pending(s)) <= N
<1>1. Pending(s) \subseteq Members
  BY DEF Pending
<1>2. IsFiniteSet(Pending(s)) /\ Cardinality(Pending(s)) <= Cardinality(Members)
  BY <1>1, RosterIsFinite, FS_Subset
<1> QED  BY <1>2, RosterIsFinite, FS_CardinalityType

(* No turn is begun on account of a post that was given one.                *)
Once(s, r) == \A post \in s.answered : r.loop.about # post

LEMMA EndedIsGood ==
    ASSUME NEW s, Between(s), NEW r, Ended(s, r)
    PROVE  Good(r) /\ Once(s, r)
<1>1. r.loop.pc = "none" /\ ~Running(r) /\ r \in State
  BY DEF Ended, NoLoop, Running, Live
<1>2. Pending(r) = Pending(s)
  BY DEF Ended, Pending
<1>3. Orderly(r)
  BY <1>1, <1>2 DEF Orderly, Ended, Between
<1>4. Funded(r)
  BY <1>1 DEF Funded, Ended, Between
<1>5. Told(r)
  <2>1. s.stops => Called(r)
    BY DEF Between, Ended, Woken, Called
  <2> QED  BY <1>1, <2>1 DEF Told, Ended
<1>6. Fresh(r)
  BY <1>1 DEF Fresh, Ended, Between
<1>7. Once(s, r)
  <2>1. r.loop.about = None /\ s.answered \subseteq Nat
    BY DEF Ended, NoLoop, Between, State
  <2> QED  BY <2>1, GroupsAssumption DEF Once
<1> QED  BY <1>1, <1>3, <1>4, <1>5, <1>6, <1>7 DEF Good

LEMMA BegunIsGood ==
    ASSUME NEW s, Between(s), NEW r, NEW who \in SUBSET Members, NEW how \in Hows,
           NEW post \in Posts,
           Begun(s, r, who, how, post),
           how = "adopted" /\ s.row.exists => s.log.turns < TurnBudget + N
    PROVE  Good(r)
<1>1. r.loop.pc = "turn" /\ Running(r) /\ r \in State /\ s \in State
  BY DEF Begun, Between, Running, Live
<1>2. Pending(r) = who
  BY DEF Begun, Between, Pending
<1>3. Orderly(r)
  BY <1>1, <1>2 DEF Orderly, Begun, Between
<1>4. Funded(r)
  <2>1. r.log.turns = s.log.turns /\ r.log.turns \in Nat /\ r.loop.how = how
    BY <1>1 DEF Begun, State, LogType
  <2>2. Cardinality(Pending(r)) \in Nat /\ Cardinality(Pending(r)) <= N
    BY <1>1, PendingIsFinite
  <2> QED  BY <1>1, <2>1, <2>2, RosterIsFinite, GroupsAssumption DEF Funded, Begun, Between
<1>5. Told(r)
  <2>1. \A m \in Members : r.turn[m] # "wait"
    BY DEF Begun, Between, Pending
  <2> QED  BY <1>1, <2>1 DEF Told, Begun, Between
<1>6. Fresh(r)
  <2>1. r.answered \subseteq 1 .. r.log.posts
    BY <1>1 DEF Begun, Between, State, MentionType, Posts
  <2> QED  BY <1>1, <2>1 DEF Fresh, Begun, Between
<1> QED  BY <1>1, <1>3, <1>4, <1>5, <1>6 DEF Good

LEMMA GoesIsGood ==
    ASSUME NEW s, Between(s), NEW r, NEW hows \in SUBSET Hows, GoesBy(s, r, hows),
           s.row.exists /\ "adopted" \in hows => s.log.turns < TurnBudget + N
    PROVE  Good(r) /\ Once(s, r)
<1>1. CASE Ended(s, r)
  BY <1>1, EndedIsGood
<1>2. ASSUME NEW who \in SUBSET Members, NEW how \in hows, NEW post \in Posts,
             Begun(s, r, who, how, post)
      PROVE  Good(r) /\ Once(s, r)
  <2>1. Good(r)
    BY <1>2, BegunIsGood
  <2>2. r.loop.about = post /\ s.answered \subseteq Nat /\ post \notin s.answered
    BY <1>2, GroupsAssumption DEF Begun, Between, State
  <2> QED  BY <2>1, <2>2 DEF Once
<1> QED  BY <1>1, <1>2 DEF GoesBy
-----------------------------------------------------------------------------
(* The steps.                                                               *)
LEMMA NowTyped == TypeOK <=> /\ Now \in State
                             /\ starts \in 0 .. MaxStarts /\ restarts \in 0 .. MaxRestarts
  BY DEF TypeOK, Now, State, RowType, LogType, MentionType, LoopType, CallType

LEMMA NowTypedNext == TypeOK' <=> /\ Now' \in State
                                  /\ starts' \in 0 .. MaxStarts /\ restarts' \in 0 .. MaxRestarts
  BY DEF TypeOK, Now, State, RowType, LogType, MentionType, LoopType, CallType

LEMMA Becomes == ASSUME NEW r \in State, Become(r) PROVE Now' = r
  BY DEF Become, Now, State

LEMMA Lands ==
    ASSUME IInv, NEW r, Good(r), Become(r), starts' \in 0 .. MaxStarts,
           restarts' \in 0 .. MaxRestarts
    PROVE  IInv' /\ Now' = r
<1>1. Now' = r
  BY Becomes DEF Good
<1>2. TypeOK'
  BY <1>1, NowTypedNext DEF Good
<1> QED  BY <1>1, <1>2 DEF IInv

(* A step that leaves the loop, the turns and the lists alone, and brings   *)
(* no group back, keeps them in order.                                      *)
LEMMA OrderlyStays ==
    ASSUME NEW s, Orderly(s), NEW r, r.loop = s.loop, r.turn = s.turn,
           r.speaking \subseteq s.speaking, r.row.exists => s.row.exists
    PROVE  Orderly(r) /\ Running(r) = Running(s) /\ Pending(r) = Pending(s)
<1>1. Running(r) = Running(s) /\ Pending(r) = Pending(s)
  BY DEF Running, Pending
<1>2. \A m \in r.speaking : r.turn[m] = "wait"
  BY DEF Orderly
<1> QED  BY <1>1, <1>2 DEF Orderly

(* A member's run is out of the loop's hands.                               *)
LEMMA UnlistedIs ==
    ASSUME NEW s \in State, NEW m \in Members, NEW u, u = Unlisted(s, m)
    PROVE  /\ u \in State /\ u.row = s.row /\ SameLog(s, u) /\ u.stops = s.stops
           /\ u.loop = s.loop /\ u.answered = s.answered
           /\ u.turn = [s.turn EXCEPT ![m] = "none"] /\ u.speaking = s.speaking \ {m}
           /\ \A c \in Callers : u.call[c].pc = s.call[c].pc
           /\ Pending(u) = Pending(s) \ {m}
<1> DEFINE left == [c \in Callers |-> [s.call[c] EXCEPT !.left = @ \ {m}]]
           out  == [s.turn EXCEPT ![m] = "none"]
<1>1. left \in [Callers -> CallType] /\ \A c \in Callers : left[c].pc = s.call[c].pc
  BY DEF State, CallType
<1>2. out \in [Members -> {"none", "submit", "wait"}]
  BY DEF State
<1>3. u = [s EXCEPT !.turn = out, !.speaking = s.speaking \ {m},
                    !.cancelled = s.cancelled \ {m}, !.missed = s.missed \ {m}, !.call = left]
  BY DEF Unlisted, State
<1> HIDE DEF left
<1>4. /\ u \in State /\ u.row = s.row /\ SameLog(s, u) /\ u.stops = s.stops
      /\ u.loop = s.loop /\ u.answered = s.answered
      /\ u.turn = out /\ u.speaking = s.speaking \ {m} /\ u.call = left
  <2>1. s.speaking \ {m} \in SUBSET Members /\ s.cancelled \ {m} \in SUBSET Members
           /\ s.missed \ {m} \in SUBSET Members
    BY DEF State
  <2>2. u \in State
    <3> HIDE DEF out
    <3> QED  BY <1>1, <1>2, <1>3, <2>1 DEF State
  <2>3. /\ u.row = s.row /\ SameLog(s, u) /\ u.stops = s.stops
        /\ u.loop = s.loop /\ u.answered = s.answered
        /\ u.turn = out /\ u.speaking = s.speaking \ {m} /\ u.call = left
    BY <1>3 DEF State, SameLog
  <2> QED  BY <2>2, <2>3
<1>5. Pending(u) = Pending(s) \ {m}
  BY <1>4 DEF Pending, State
<1> QED  BY <1>1, <1>4, <1>5

(* The end of a stop.                                                       *)
LEMMA StoppedIsGood ==
    ASSUME NEW s, Good(s), NEW c \in Callers, ~Running(s) \/ s.call[c].pc = "write",
           NEW r, r = Stopped(s, c)
    PROVE  Good(r) /\ r.loop = s.loop /\ r.answered = s.answered
<1> DEFINE calls == [s.call EXCEPT ![c] = NoCall]
           t == [s EXCEPT !.speaking = {}, !.call = calls,
                          !.missed = s.missed \cup {m \in Members : s.turn[m] = "wait"}]
           u == Status(t, "stopped")
<1>1. s \in State /\ "stopped" \in Statuses
  BY DEF Good, Statuses
<1>2. /\ calls \in [Callers -> CallType] /\ calls[c].pc = "idle"
      /\ \A d \in Callers : d # c => calls[d] = s.call[d]
  BY <1>1 DEF State, CallType, NoCall
<1> HIDE DEF calls
<1>3. /\ t \in State /\ t.row = s.row /\ SameLog(s, t) /\ t.stops = s.stops /\ t.turn = s.turn
      /\ t.loop = s.loop /\ t.answered = s.answered /\ t.speaking = {} /\ t.call = calls
  BY <1>1, <1>2 DEF State, SameLog
<1>4. r = IF s.call[c].kind = "delete" THEN [u EXCEPT !.row.exists = FALSE] ELSE u
  BY <1>1 DEF Stopped, State, calls
<1> HIDE DEF t
<1>5. /\ u \in State /\ SameTask(t, u) /\ SameLog(t, u) /\ u.row.exists = t.row.exists
      /\ t.row.exists => u.row.status = "stopped"
  BY <1>1, <1>3, StatusIs
<1> HIDE DEF u
<1>6. /\ r \in State /\ SameTask(u, r) /\ SameLog(u, r)
      /\ r.row.exists => u.row.exists /\ r.row.status = u.row.status
  <2>1. CASE r = u
    BY <1>5, <2>1 DEF SameTask, SameLog
  <2>2. CASE r = [u EXCEPT !.row.exists = FALSE]
    <3>1. [u.row EXCEPT !.exists = FALSE] \in RowType
      BY <1>5 DEF State, RowType
    <3>2. r = [u EXCEPT !.row = [u.row EXCEPT !.exists = FALSE]]
      BY <1>5, <2>2 DEF State
    <3>3. r \in State /\ SameTask(u, r) /\ SameLog(u, r)
      BY <1>5, <3>1, <3>2 DEF State, SameTask, SameLog
    <3>4. ~r.row.exists
      BY <1>5, <2>2 DEF State, RowType
    <3> QED  BY <3>3, <3>4
  <2> QED  BY <1>4, <2>1, <2>2
<1>7. /\ r.loop = s.loop /\ r.turn = s.turn /\ r.speaking = {} /\ r.call = calls /\ r.log = s.log
      /\ r.mention = s.mention /\ r.stops = s.stops /\ r.answered = s.answered
      /\ r.row.exists => s.row.exists /\ r.row.status = "stopped"
  BY <1>3, <1>5, <1>6 DEF SameTask, SameLog
<1>8. Running(r) = Running(s) /\ Pending(r) = Pending(s)
  BY <1>7 DEF Running, Pending
<1>9. Orderly(r)
  BY <1>7, OrderlyStays DEF Good
<1>10. Funded(r)
  BY <1>7, <1>8 DEF Good, Funded
<1>11. Told(r)
  BY <1>2, <1>7, <1>8 DEF Good, Told
<1>12. Fresh(r)
  BY <1>7, <1>8 DEF Good, Fresh
<1> QED  BY <1>6, <1>7, <1>9, <1>10, <1>11, <1>12 DEF Good

(* A loop that is begun over a group at rest.                               *)
LEMMA LaunchedIsGood ==
    ASSUME NEW s, Good(s), s.row.exists, ~Running(s), s.call = call, NEW rounds \in Rounds,
           NEW r, r = Launched(s, rounds)
    PROVE  Good(r) /\ r.loop.about = None
<1> DEFINE task == [NoLoop EXCEPT !.pc = "created", !.of = rounds, !.round = 1, !.pos = 1,
                                  !.mode = s.row.mode, !.overlap = Stopping]
           shown == [s.row EXCEPT !.status = "running"]
<1>1. s \in State /\ Pending(s) = {}
  BY DEF Good, Orderly
<1>2. /\ task.pc = "created" /\ task.pos = 1 /\ task.about = None /\ task.overlap = Stopping
  BY DEF NoLoop
<1>3. task \in LoopType
  <2>1. Stopping \in BOOLEAN /\ s.row.mode \in Modes /\ rounds \in 0 .. MaxRounds
    BY <1>1, GroupsAssumption DEF Stopping, State, RowType, Rounds
  <2>2. "created" \in Live
    BY DEF Live
  <2> QED  BY <2>1, <2>2, NoLoopTyped DEF LoopType
<1>4. shown \in RowType /\ shown.status = "running" /\ shown.exists
  BY <1>1 DEF State, RowType, Statuses
<1>5. r = [s EXCEPT !.stops = FALSE, !.row = shown, !.loop = task]
  BY <1>1 DEF Launched, State
<1> HIDE DEF task, shown
<1>6. /\ r \in State /\ r.row = shown /\ r.loop = task /\ ~r.stops /\ SameLog(s, r)
      /\ r.turn = s.turn /\ r.speaking = s.speaking /\ r.call = s.call /\ r.answered = s.answered
  BY <1>1, <1>3, <1>4, <1>5 DEF State, SameLog
<1>7. Running(r) /\ r.loop.pc = "created" /\ Pending(r) = {}
  BY <1>1, <1>2, <1>6 DEF Running, Live, Pending
<1>8. Orderly(r)
  BY <1>2, <1>6, <1>7, RosterIsFinite DEF Good, Orderly
<1>9. Funded(r)
  BY <1>6, <1>7 DEF Good, Funded, SameLog
<1>10. Told(r)
  <2>1. ~Stopping => \A c \in Callers : r.call[c].pc = "idle"
    BY <1>6 DEF Stopping
  <2>2. \A m \in Members : r.turn[m] # "wait"
    BY <1>7 DEF Pending
  <2> QED  BY <1>2, <1>4, <1>6, <1>7, <2>1, <2>2 DEF Told
<1>11. Fresh(r)
  <2>1. s.mention # None => s.mention.post \notin s.answered
    BY DEF Good, Fresh, Running, Live
  <2> QED  BY <1>6, <2>1 DEF Good, Fresh, SameLog
<1> QED  BY <1>2, <1>6, <1>8, <1>9, <1>10, <1>11 DEF Good

(* A post, with or without a mention.                                       *)
LEMMA NotedIsGood ==
    ASSUME NEW s, Good(s), s.row.exists, s.log.posts < MaxPosts, NEW who \in Mentioned,
           NEW t, t = Mentioning([s EXCEPT !.log.posts = @ + 1], who)
    PROVE  Good(t) /\ SameTask(s, t) /\ t.row = s.row
<1> DEFINE u == [s EXCEPT !.log.posts = @ + 1]
           new == s.log.posts + 1
<1>1. s \in State /\ s.log.posts \in Nat /\ new \in 1 .. MaxPosts
  BY GroupsAssumption DEF Good, State, LogType
<1>2. /\ u \in State /\ SameTask(s, u) /\ u.row = s.row /\ u.mention = s.mention
      /\ u.log.posts = new /\ u.log.turns = s.log.turns /\ u.log.notes = s.log.notes
  BY <1>1 DEF State, LogType, SameTask
<1> HIDE DEF u
<1>3. \/ t = u
      \/ who \in Members /\ t = [u EXCEPT !.mention = [who |-> who, post |-> new]]
  BY <1>2 DEF Mentioning, Mentioned, u
<1>4. /\ t \in State /\ SameTask(s, t) /\ t.row = s.row /\ t.log = u.log
      /\ t.mention = s.mention \/ t.mention.post = new
  BY <1>1, <1>2, <1>3 DEF State, MentionType, SameTask
<1>5. Running(t) = Running(s) /\ Pending(t) = Pending(s)
  BY <1>4 DEF Running, Pending, SameTask
<1>6. Orderly(t)
  BY <1>4, OrderlyStays DEF Good, SameTask
<1>7. Funded(t)
  BY <1>2, <1>4, <1>5 DEF Good, Funded, SameTask
<1>8. Told(t)
  <2>1. CountMessages(t) >= CountMessages(s) /\ CountMessages(s) \in Nat /\ CountMessages(t) \in Nat
    <3>1. t.log.posts = s.log.posts + 1 /\ t.log.turns = s.log.turns /\ t.log.notes = s.log.notes
      BY <1>2, <1>4
    <3>2. s.log.posts \in Nat /\ s.log.turns \in Nat /\ s.log.notes \in Nat
      BY <1>1 DEF State, LogType
    <3>3. t.row.exists /\ s.row.exists
      BY <1>4
    <3> QED  BY <3>1, <3>2, <3>3 DEF CountMessages
  <2>2. CountMessages(s) > TurnBudget => CountMessages(t) > TurnBudget
    BY <2>1, GroupsAssumption
  <2>3. /\ t.row = s.row /\ t.loop = s.loop /\ t.turn = s.turn /\ t.speaking = s.speaking
        /\ t.call = s.call /\ t.stops = s.stops
    BY <1>4 DEF SameTask
  <2> QED  BY <1>5, <2>2, <2>3 DEF Good, Told, Called
<1>9. Fresh(t)
  <2>1. /\ t.log.posts = new /\ t.answered = s.answered /\ t.loop = s.loop /\ t.row = s.row
        /\ t.mention = s.mention \/ t.mention.post = new
    BY <1>2, <1>4 DEF SameTask
  <2>2. s.answered \subseteq 1 .. s.log.posts /\ new \notin s.answered
    BY <1>1 DEF Good, Fresh
  <2>3. CASE t.mention = s.mention
    <3>1. s.mention # None => s.mention.post \in 1 .. MaxPosts
      BY <1>1 DEF State, MentionType
    <3>2. t.mention # None => t.mention.post <= t.log.posts
      BY <1>1, <2>1, <2>3, <3>1 DEF Good, Fresh
    <3>3. t.answered \subseteq 1 .. t.log.posts
      BY <1>1, <2>1, <2>2
    <3> QED  BY <1>5, <2>1, <2>3, <3>2, <3>3 DEF Good, Fresh
  <2>4. CASE t.mention.post = new
    <3>1. t.answered \subseteq 1 .. t.log.posts
      BY <1>1, <2>1, <2>2
    <3> QED  BY <1>1, <2>1, <2>2, <2>4, <3>1 DEF Fresh
  <2> QED  BY <2>1, <2>3, <2>4
<1> QED  BY <1>4, <1>6, <1>7, <1>8, <1>9 DEF Good

(* What a step does to the mentions that were answered.                     *)
AnsweredOnce ==
    \A post \in answered :
       loop'.about = post => loop.about = post /\ loop'.round = loop.round /\ loop'.pos = loop.pos

LEMMA OnceAnswered ==
    ASSUME NEW r, Now' = r, loop' = loop \/ Once(Now, r)
    PROVE  AnsweredOnce
  BY DEF AnsweredOnce, Once, Now

LEMMA AboutNone ==
    ASSUME NEW s \in State, NEW r, r.loop.about = None
    PROVE  Once(s, r)
  BY GroupsAssumption DEF Once, State

LEMMA Start_Keeps ==
    ASSUME IInv, NEW rounds \in Rounds, Start(rounds)
    PROVE  IInv' /\ AnsweredOnce
<1> DEFINE r == Launched(Now, rounds)
<1>1. /\ Good(Now) /\ Now.row.exists /\ ~Running(Now) /\ Now.call = call /\ Now \in State
      /\ Become(r) /\ starts' \in 0 .. MaxStarts /\ restarts' \in 0 .. MaxRestarts
  BY GroupsAssumption DEF IInv, Start, Now, TypeOK, Good
<1>2. Good(r) /\ r.loop.about = None
  BY <1>1, LaunchedIsGood
<1> HIDE DEF r
<1>3. IInv' /\ Now' = r
  BY <1>1, <1>2, Lands
<1> QED  BY <1>1, <1>2, <1>3, OnceAnswered, AboutNone

LEMMA PostMessage_Keeps ==
    ASSUME IInv, NEW who \in Mentioned, NEW respond \in BOOLEAN, PostMessage(who, respond)
    PROVE  IInv' /\ AnsweredOnce
<1> DEFINE posted == [Now EXCEPT !.log.posts = @ + 1]
           noted  == Mentioning(posted, who)
<1>1. /\ Good(Now) /\ Now.row.exists /\ Now.log.posts < MaxPosts /\ Now.call = call /\ Now \in State
      /\ Now.loop = loop /\ starts \in 0 .. MaxStarts /\ restarts' \in 0 .. MaxRestarts
  BY DEF IInv, PostMessage, Now, TypeOK, Good
<1>2. /\ Good(noted) /\ SameTask(Now, noted) /\ noted.row = Now.row
  BY <1>1, NotedIsGood
<1>3. Good(posted) /\ SameTask(Now, posted)
  <2>1. posted = Mentioning(posted, None) /\ None \in Mentioned
    BY DEF Mentioning, Mentioned
  <2> QED  BY <1>1, <2>1, NotedIsGood
<1>4. \/ /\ ~Running(Now) /\ starts < MaxStarts
         /\ Become(Launched(noted, 1)) /\ starts' = starts + 1
      \/ Become(posted) /\ starts' = starts
      \/ Become(noted) /\ starts' = starts
  BY DEF PostMessage
<1> HIDE DEF posted, noted
<1>5. CASE ~Running(Now) /\ starts < MaxStarts /\ Become(Launched(noted, 1)) /\ starts' = starts + 1
  <2>1. ~Running(noted) /\ noted.call = call /\ 1 \in Rounds
    BY <1>1, <1>2, <1>5, GroupsAssumption DEF Running, SameTask, Rounds
  <2> DEFINE r == Launched(noted, 1)
  <2>2. Good(r) /\ r.loop.about = None
    BY <1>1, <1>2, <2>1, LaunchedIsGood
  <2>3. starts' \in 0 .. MaxStarts
    BY <1>1, <1>5, GroupsAssumption
  <2>4. Become(r)
    BY <1>5
  <2> HIDE DEF r
  <2>5. IInv' /\ Now' = r
    BY <1>1, <2>2, <2>3, <2>4, Lands
  <2> QED  BY <1>1, <2>2, <2>5, OnceAnswered, AboutNone
<1>6. ASSUME NEW r, Become(r), starts' = starts, Good(r), SameTask(Now, r)
      PROVE  IInv' /\ AnsweredOnce
  <2>1. IInv' /\ Now' = r
    BY <1>1, <1>6, Lands
  <2>2. loop' = loop
    BY <1>1, <1>6 DEF Become, SameTask
  <2> QED  BY <2>1, <2>2, OnceAnswered
<1> QED  BY <1>2, <1>3, <1>4, <1>5, <1>6

(* Steps that leave the loop to itself.                                     *)
LEMMA Settles ==
    ASSUME IInv, Orderly(Now'), Funded(Now'), Told(Now'), Fresh(Now'), TypeOK', UNCHANGED loop
    PROVE  IInv' /\ AnsweredOnce
<1>1. IInv'
  BY NowTypedNext DEF IInv, Good
<1>2. AnsweredOnce
  BY DEF AnsweredOnce
<1> QED  BY <1>1, <1>2

LEMMA SetReplyMode_Keeps ==
    ASSUME IInv, NEW mode \in Modes, SetReplyMode(mode)
    PROVE  IInv' /\ AnsweredOnce
<1>1. /\ row.exists /\ row' = [row EXCEPT !.mode = mode]
      /\ UNCHANGED <<log, mention, stops, loop, turn, speaking, cancelled, call,
                     starts, restarts, answered, missed>>
  BY DEF SetReplyMode
<1>2. row'.exists = row.exists /\ row'.status = row.status /\ row' \in RowType
  BY <1>1 DEF IInv, TypeOK, RowType
<1>3. TypeOK'
  BY <1>1, <1>2 DEF IInv, TypeOK, RowType
<1>4. Running(Now') = Running(Now) /\ Pending(Now') = Pending(Now)
  BY <1>1 DEF Running, Pending, Now
<1>5. Orderly(Now')
  <2>1. /\ Now'.loop = Now.loop /\ Now'.turn = Now.turn /\ Now'.speaking = Now.speaking
        /\ Now'.row.exists => Now.row.exists
    BY <1>1, <1>2 DEF Now
  <2> QED  BY <2>1, OrderlyStays DEF IInv, Good
<1>6. Funded(Now')
  BY <1>1, <1>2, <1>4 DEF IInv, Good, Funded, Now
<1>7. Told(Now')
  BY <1>1, <1>2, <1>4 DEF IInv, Good, Told, Now, Called, CountMessages
<1>8. Fresh(Now')
  BY <1>1, <1>2, <1>4 DEF IInv, Good, Fresh, Now
<1> QED  BY <1>1, <1>3, <1>5, <1>6, <1>7, <1>8, Settles

LEMMA DeleteAtRest_Keeps ==
    ASSUME IInv, DeleteAtRest
    PROVE  IInv' /\ AnsweredOnce
<1>1. /\ ~Running(Now) /\ row' = [row EXCEPT !.exists = FALSE]
      /\ UNCHANGED <<log, mention, stops, loop, turn, speaking, cancelled, call,
                     starts, restarts, answered, missed>>
  BY DEF DeleteAtRest
<1>2. ~row'.exists /\ row' \in RowType
  BY <1>1 DEF IInv, TypeOK, RowType
<1>3. TypeOK'
  BY <1>1, <1>2 DEF IInv, TypeOK, RowType
<1>4. Running(Now') = Running(Now) /\ Pending(Now') = Pending(Now)
  BY <1>1 DEF Running, Pending, Now
<1>5. Orderly(Now')
  <2>1. /\ Now'.loop = Now.loop /\ Now'.turn = Now.turn /\ Now'.speaking = Now.speaking
        /\ Now'.row.exists => Now.row.exists
    BY <1>1, <1>2 DEF Now
  <2> QED  BY <2>1, OrderlyStays DEF IInv, Good
<1>6. Funded(Now')
  BY <1>1, <1>2, <1>4 DEF IInv, Good, Funded, Now
<1>7. Told(Now')
  BY <1>1, <1>2, <1>4 DEF IInv, Good, Told, Now
<1>8. Fresh(Now')
  BY <1>1, <1>2, <1>4 DEF IInv, Good, Fresh, Now
<1> QED  BY <1>1, <1>3, <1>5, <1>6, <1>7, <1>8, Settles

LEMMA CancelRun_Keeps ==
    ASSUME IInv, NEW c \in Callers, NEW m \in Members, CancelRun(c, m)
    PROVE  IInv' /\ AnsweredOnce
<1>1. /\ call' = [call EXCEPT ![c] = [call[c] EXCEPT !.left = @ \ {m}]]
      /\ cancelled' = cancelled \cup {m}
      /\ UNCHANGED <<row, log, mention, stops, loop, turn, speaking,
                     starts, restarts, answered, missed>>
  BY DEF CancelRun
<1>2. call' \in [Callers -> CallType] /\ \A d \in Callers : call'[d].pc = call[d].pc
  BY <1>1 DEF IInv, TypeOK, CallType
<1>3. TypeOK'
  BY <1>1, <1>2 DEF IInv, TypeOK, CallType
<1>4. Running(Now') = Running(Now) /\ Pending(Now') = Pending(Now)
  BY <1>1 DEF Running, Pending, Now
<1>5. Orderly(Now')
  <2>1. /\ Now'.loop = Now.loop /\ Now'.turn = Now.turn /\ Now'.speaking = Now.speaking
        /\ Now'.row.exists => Now.row.exists
    BY <1>1, <1>2 DEF Now
  <2> QED  BY <2>1, OrderlyStays DEF IInv, Good
<1>6. Funded(Now')
  BY <1>1, <1>4 DEF IInv, Good, Funded, Now
<1>7. Told(Now')
  BY <1>1, <1>2, <1>4 DEF IInv, Good, Told, Now, Called, CountMessages
<1>8. Fresh(Now')
  BY <1>1, <1>4 DEF IInv, Good, Fresh, Now
<1> QED  BY <1>1, <1>3, <1>5, <1>6, <1>7, <1>8, Settles

LEMMA Submitted_Keeps ==
    ASSUME IInv, NEW m \in Members, Submitted(m)
    PROVE  IInv' /\ AnsweredOnce
<1>1. /\ turn[m] = "submit" /\ turn' = [turn EXCEPT ![m] = "wait"]
      /\ speaking' = speaking \cup {m} /\ missed' \in {missed, missed \cup {m}}
      /\ UNCHANGED <<row, log, mention, stops, loop, cancelled, call, starts, restarts, answered>>
  BY DEF Submitted
<1>2. TypeOK'
  BY <1>1 DEF IInv, TypeOK
<1>3. /\ \A o \in Members : turn'[o] = IF o = m THEN "wait" ELSE turn[o]
  BY <1>1 DEF IInv, TypeOK
<1>4. Running(Now') = Running(Now) /\ Pending(Now') = Pending(Now)
  BY <1>1, <1>3 DEF Running, Pending, Now
<1>5. Orderly(Now')
  <2>1. \A o \in speaking : turn[o] = "wait"
    BY DEF IInv, Good, Orderly, Now
  <2>2. \A o \in speaking' : turn'[o] = "wait"
    BY <1>1, <1>3, <2>1 DEF IInv, TypeOK
  <2>3. loop' = loop /\ row' = row
    BY <1>1
  <2> QED  BY <1>4, <2>2, <2>3 DEF IInv, Good, Orderly, Now
<1>6. Funded(Now')
  BY <1>1, <1>4 DEF IInv, Good, Funded, Now
<1>7. Told(Now')
  BY <1>1, <1>3, <1>4 DEF IInv, Good, Told, Now, Called, CountMessages
<1>8. Fresh(Now')
  BY <1>1, <1>4 DEF IInv, Good, Fresh, Now
<1> QED  BY <1>1, <1>2, <1>5, <1>6, <1>7, <1>8, Settles

(* A request to stop, from the first look at the loop to the last.          *)
LEMMA AwaitsLoop ==
    ASSUME NEW s, Good(s), NEW c \in Callers, s.call[c].pc = "cancel", NEW r, r = AwaitLoop(s, c)
    PROVE  Good(r) /\ r.loop = s.loop /\ r.answered = s.answered
<1>1. s \in State
  BY DEF Good
<1>2. CASE ~Running(s)
  BY <1>2, StoppedIsGood DEF AwaitLoop
<1>3. CASE Running(s)
  <2> DEFINE calls == [s.call EXCEPT ![c] = [s.call[c] EXCEPT !.pc = "gather"]]
  <2>1. /\ calls \in [Callers -> CallType] /\ calls[c].pc = "gather"
        /\ \A d \in Callers : d # c => calls[d] = s.call[d]
    BY <1>1 DEF State, CallType
  <2>2. r = [s EXCEPT !.call = calls]
    BY <1>1, <1>3 DEF AwaitLoop, State
  <2> HIDE DEF calls
  <2>3. /\ r \in State /\ r.row = s.row /\ SameLog(s, r) /\ r.stops = s.stops /\ r.turn = s.turn
        /\ r.loop = s.loop /\ r.answered = s.answered /\ r.speaking = s.speaking /\ r.call = calls
    BY <1>1, <2>1, <2>2 DEF State, SameLog
  <2>4. Running(r) /\ Pending(r) = Pending(s)
    BY <1>3, <2>3 DEF Running, Pending
  <2>5. Orderly(r)
    BY <2>3, OrderlyStays DEF Good
  <2>6. Funded(r)
    BY <2>3, <2>4 DEF Good, Funded, SameLog
  <2>7. Told(r)
    BY <1>3, <2>1, <2>3, <2>4 DEF Good, Told
  <2>8. Fresh(r)
    BY <1>3, <2>3, <2>4 DEF Good, Fresh, SameLog
  <2> QED  BY <2>3, <2>5, <2>6, <2>7, <2>8 DEF Good
<1> QED  BY <1>2, <1>3

LEMMA StopKeeps ==
    ASSUME IInv, NEW r, Good(r), Become(r), r.loop = loop, UNCHANGED <<starts, restarts>>
    PROVE  IInv' /\ AnsweredOnce
<1>1. starts' \in 0 .. MaxStarts /\ restarts' \in 0 .. MaxRestarts
  BY DEF IInv, TypeOK
<1>2. loop' = loop
  BY DEF Become
<1> QED  BY <1>1, <1>2, Lands, OnceAnswered

LEMMA Stop_Keeps ==
    ASSUME IInv, NEW c \in Callers, NEW kind \in {"stop", "delete"}, Stop(c, kind)
    PROVE  IInv' /\ AnsweredOnce
<1> DEFINE told == [pc |-> "cancel", kind |-> kind, left |-> speaking]
           calls == [call EXCEPT ![c] = told]
           s == [Now EXCEPT !.stops = TRUE, !.call = calls]
<1>1. /\ Now \in State /\ call[c].pc = "idle" /\ UNCHANGED <<starts, restarts>>
  BY DEF IInv, Good, Stop
<1>2. /\ calls \in [Callers -> CallType] /\ calls[c].pc = "cancel"
      /\ \A d \in Callers : d # c => calls[d] = call[d]
  BY <1>1 DEF State, CallType, Now
<1>3. s = [Now EXCEPT !.stops = TRUE, !.call[c] = told]
  BY DEF Now
<1>4. Become(IF speaking = {} THEN AwaitLoop(s, c) ELSE s)
  BY <1>3 DEF Stop
<1> HIDE DEF calls
<1>5. /\ s \in State /\ s.row = row /\ s.log = log /\ s.mention = mention /\ s.turn = turn
      /\ s.loop = loop /\ s.answered = answered /\ s.speaking = speaking /\ s.call = calls
  BY <1>1, <1>2 DEF State, Now
<1> HIDE DEF s
<1>6. Running(s) = Running(Now) /\ Pending(s) = Pending(Now)
  BY <1>5 DEF Running, Pending, Now
<1>7. Orderly(s)
  <2>1. /\ s.loop = Now.loop /\ s.turn = Now.turn /\ s.speaking = Now.speaking /\ s.row = Now.row
    BY <1>5 DEF Now
  <2> QED  BY <2>1, OrderlyStays DEF IInv, Good
<1>8. Funded(s)
  BY <1>5, <1>6 DEF IInv, Good, Funded, Now
<1>9. Told(s)
  BY <1>1, <1>2, <1>5, <1>6 DEF IInv, Good, Told, Now, Called
<1>10. Fresh(s)
  BY <1>5, <1>6 DEF IInv, Good, Fresh, Now
<1>11. Good(s)
  BY <1>5, <1>7, <1>8, <1>9, <1>10 DEF Good
<1>12. CASE speaking = {}
  BY <1>1, <1>2, <1>4, <1>5, <1>11, <1>12, AwaitsLoop, StopKeeps
<1>13. CASE speaking # {}
  BY <1>1, <1>4, <1>5, <1>11, <1>13, StopKeeps
<1> QED  BY <1>12, <1>13

LEMMA StopGoesOn ==
    ASSUME IInv, NEW c \in Callers, RunsCancelled(c) \/ LoopAwaited(c)
    PROVE  IInv' /\ AnsweredOnce
<1>1. Good(Now) /\ Now.call = call /\ Now.loop = loop /\ UNCHANGED <<starts, restarts>>
  BY DEF IInv, Now, RunsCancelled, LoopAwaited
<1>2. \/ call[c].pc = "cancel" /\ Become(AwaitLoop(Now, c))
      \/ call[c].pc = "write" /\ Become(Stopped(Now, c))
  BY DEF RunsCancelled, LoopAwaited
<1> QED  BY <1>1, <1>2, AwaitsLoop, StoppedIsGood, StopKeeps

(* The loop goes on.                                                        *)
LEMMA NowBetween ==
    ASSUME IInv, loop.pc \in {"created", "round"}
    PROVE  Between(Now)
<1>1. Running(Now) /\ Now \in State /\ Pending(Now) = {} /\ Now.loop.pc \in {"created", "round"}
  BY DEF IInv, Good, Orderly, Running, Live, Now
<1>2. Now.speaking = {}
  BY <1>1 DEF IInv, Good, Orderly, Pending, State
<1>3. Now.row.exists /\ ~Now.loop.overlap =>
         Now.row.status = "running" /\ \A c \in Callers : Now.call[c].pc # "write"
  BY <1>1 DEF IInv, Good, Told
<1>4. Now.stops => \E c \in Callers : Now.call[c].pc \in {"cancel", "gather"}
  BY <1>1 DEF IInv, Good, Told
<1>5. /\ Now.answered \subseteq 1 .. Now.log.posts
      /\ Now.mention # None => /\ Now.mention.post <= Now.log.posts
                               /\ Now.mention.post \notin Now.answered
  BY <1>1 DEF IInv, Good, Fresh
<1>6. Now.loop.pos \in 1 .. N /\ Now.log.turns <= TurnBudget + N
  BY <1>1 DEF IInv, Good, Orderly, Funded
<1> QED  BY <1>1, <1>2, <1>3, <1>4, <1>5, <1>6 DEF Between

LEMMA LoopGoesOn ==
    ASSUME IInv, NEW r, Good(r), Once(Now, r), Become(r), UNCHANGED <<starts, restarts>>
    PROVE  IInv' /\ AnsweredOnce
<1>1. starts' \in 0 .. MaxStarts /\ restarts' \in 0 .. MaxRestarts
  BY DEF IInv, TypeOK
<1> QED  BY <1>1, Lands, OnceAnswered

LEMMA Begin_Keeps ==
    ASSUME IInv, Begin
    PROVE  IInv' /\ AnsweredOnce
<1>1. loop.pc = "created" /\ Now \in State /\ Become(Run(Now)) /\ UNCHANGED <<starts, restarts>>
  BY DEF Begin, IInv, Good
<1>2. Between(Now)
  BY <1>1, NowBetween
<1>3. GoesBy(Now, Run(Now), Metered)
  BY <1>1, <1>2, RunGoes DEF Between
<1>4. Good(Run(Now)) /\ Once(Now, Run(Now))
  BY <1>2, <1>3, GoesIsGood DEF Metered
<1> QED  BY <1>1, <1>4, LoopGoesOn

LEMMA RoundGathered_Keeps ==
    ASSUME IInv, RoundGathered
    PROVE  IInv' /\ AnsweredOnce
<1>1. loop.pc = "round" /\ Now \in State /\ UNCHANGED <<starts, restarts>>
  BY DEF RoundGathered, IInv, Good
<1>2. Between(Now)
  BY <1>1, NowBetween
<1>3. Now.row.exists => Now.log.turns < TurnBudget + N
  BY <1>1 DEF IInv, Good, Funded, Now
<1>4. Goes(Now, AimMet(Now)) /\ Goes(Now, NextRound(Now))
  BY <1>1, AimMetEnds, NextRoundGoes DEF Goes, GoesBy
<1>5. Become(AimMet(Now)) \/ Become(NextRound(Now))
  BY DEF RoundGathered
<1>6. ASSUME NEW r, Goes(Now, r), Become(r) PROVE IInv' /\ AnsweredOnce
  <2>1. Good(r) /\ Once(Now, r)
    BY <1>2, <1>3, <1>6, GoesIsGood DEF Goes
  <2> QED  BY <1>1, <1>6, <2>1, LoopGoesOn
<1> QED  BY <1>4, <1>5, <1>6
-----------------------------------------------------------------------------
(* A run that was begun is over, or was refused: what the statements come   *)
(* to that count it out and write its message.                              *)
Written(s, m, v) ==
    /\ v \in State
    /\ v.row = s.row /\ v.loop = s.loop /\ v.stops = s.stops /\ v.answered = s.answered
    /\ v.mention = s.mention /\ v.log.posts = s.log.posts /\ v.log.turns = s.log.turns + 1
    /\ v.turn = [s.turn EXCEPT ![m] = "none"] /\ v.speaking = s.speaking \ {m}
    /\ \A c \in Callers : v.call[c].pc = s.call[c].pc
    /\ Pending(v) = Pending(s) \ {m}

LEMMA WrittenIs ==
    ASSUME NEW s \in State, NEW m \in Members
    PROVE  Written(s, m, [Unlisted(s, m) EXCEPT !.log.turns = @ + 1])
<1> DEFINE u == Unlisted(s, m)
           v == [u EXCEPT !.log.turns = @ + 1]
<1>1. /\ u \in State /\ u.row = s.row /\ SameLog(s, u) /\ u.stops = s.stops
      /\ u.loop = s.loop /\ u.answered = s.answered
      /\ u.turn = [s.turn EXCEPT ![m] = "none"] /\ u.speaking = s.speaking \ {m}
      /\ \A c \in Callers : u.call[c].pc = s.call[c].pc
      /\ Pending(u) = Pending(s) \ {m}
  BY UnlistedIs
<1> HIDE DEF u
<1>2. /\ v \in State /\ SameTask(u, v) /\ v.row = u.row /\ v.mention = u.mention
      /\ v.log.posts = u.log.posts /\ v.log.turns = u.log.turns + 1
  <2> DEFINE grown == [u.log EXCEPT !.turns = @ + 1]
  <2>1. grown \in LogType /\ grown.posts = u.log.posts /\ grown.turns = u.log.turns + 1
    BY <1>1 DEF State, LogType
  <2>2. v = [u EXCEPT !.log = grown]
    BY <1>1 DEF State
  <2> HIDE DEF grown, v
  <2>3. /\ v \in State /\ SameTask(u, v) /\ v.row = u.row /\ v.mention = u.mention
        /\ v.log = grown
    BY <1>1, <2>1, <2>2 DEF State, SameTask
  <2> QED  BY <2>1, <2>3
<1> HIDE DEF v
<1>3. Pending(v) = Pending(u)
  BY <1>2 DEF Pending, SameTask
<1>4. Written(s, m, v)
  BY <1>1, <1>2, <1>3 DEF Written, SameTask, SameLog
<1> QED  BY <1>4 DEF u, v

(* The loop is gone: the run was an orphan of a group that was deleted.     *)
LEMMA OrphanIsGood ==
    ASSUME NEW s, Good(s), ~Running(s), NEW m \in Members, s.turn[m] # "none"
    PROVE  Good(Unlisted(s, m)) /\ Unlisted(s, m).loop = s.loop
<1> DEFINE u == Unlisted(s, m)
<1>1. s \in State /\ ~s.row.exists /\ s.loop.pc \in {"none", "lost"}
  BY DEF Good, Orderly, Pending, Running, State, LoopType
<1>2. /\ u \in State /\ u.row = s.row /\ SameLog(s, u)
      /\ u.loop = s.loop /\ u.answered = s.answered
      /\ u.turn = [s.turn EXCEPT ![m] = "none"] /\ u.speaking = s.speaking \ {m}
  <2> HIDE DEF u
  <2>1. u = Unlisted(s, m)
    BY DEF u
  <2> QED  BY <1>1, <2>1, UnlistedIs
<1> HIDE DEF u
<1>3. ~Running(u) /\ ~u.row.exists /\ u.loop.pc \in {"none", "lost"}
  BY <1>1, <1>2 DEF Running
<1>4. Orderly(u)
  BY <1>1, <1>2, <1>3 DEF Good, Orderly, State
<1>5. Funded(u)
  BY <1>2, <1>3 DEF Good, Funded, SameLog
<1>6. Told(u)
  BY <1>3 DEF Told
<1>7. Fresh(u)
  BY <1>2, <1>3 DEF Good, Fresh, SameLog
<1>8. Good(u) /\ u.loop = s.loop
  BY <1>2, <1>4, <1>5, <1>6, <1>7 DEF Good
<1> QED  BY <1>8 DEF u

(* The group is gone: writing the message raises, which ends the loop.      *)
LEMMA RaisedIsGood ==
    ASSUME NEW s, Good(s), ~s.row.exists, NEW m \in Members
    PROVE  Good(Over(Unlisted(s, m))) /\ Over(Unlisted(s, m)).loop = NoLoop
<1> DEFINE u == Unlisted(s, m)
           r == Over(u)
<1>1. s \in State
  BY DEF Good
<1>2. u \in State /\ u.row = s.row /\ SameLog(s, u) /\ u.answered = s.answered
  <2> HIDE DEF u
  <2>1. u = Unlisted(s, m)
    BY DEF u
  <2>2. /\ u \in State /\ u.row = s.row /\ SameLog(s, u) /\ u.stops = s.stops
        /\ u.loop = s.loop /\ u.answered = s.answered
        /\ u.turn = [s.turn EXCEPT ![m] = "none"] /\ u.speaking = s.speaking \ {m}
    BY <1>1, <2>1, UnlistedIs
  <2> QED  BY <2>2
<1> HIDE DEF u
<1>3. /\ r \in State /\ r.loop = NoLoop /\ r.speaking = {} /\ SameLog(u, r)
      /\ r.row = u.row /\ r.answered = u.answered
  BY <1>2, OverIs
<1> HIDE DEF r
<1>4. ~Running(r) /\ ~r.row.exists /\ r.loop.pc = "none"
  BY <1>2, <1>3 DEF Running, NoLoop, Live
<1>5. Orderly(r) /\ Told(r)
  BY <1>3, <1>4 DEF Orderly, Told
<1>6. Funded(r)
  BY <1>2, <1>3, <1>4 DEF Good, Funded, SameLog
<1>7. Fresh(r)
  BY <1>2, <1>3, <1>4 DEF Good, Fresh, SameLog
<1>8. Good(r) /\ r.loop = NoLoop
  BY <1>3, <1>5, <1>6, <1>7 DEF Good
<1> QED  BY <1>8 DEF u, r

(* A parallel round waits for the others, or is gathered when m was last.   *)
LEMMA WaitsForOthers ==
    ASSUME NEW s, Good(s), Running(s), s.row.exists, s.loop.how = "parallel",
           NEW m \in Members, s.turn[m] # "none", NEW v, Written(s, m, v),
           NEW met \in BOOLEAN
    PROVE  LET r == TurnOver(v, m, met)
           IN  /\ Good(r) /\ r.loop.about = s.loop.about
               /\ r.loop.round = s.loop.round /\ r.loop.pos = s.loop.pos
<1> DEFINE r == TurnOver(v, m, met)
           pc == IF \A o \in Members : v.turn[o] = "none" THEN "round" ELSE v.loop.pc
           task == [v.loop EXCEPT !.met = @ \/ met, !.pc = pc]
<1>1. s \in State /\ v \in State /\ s.loop.pc = "turn" /\ v.loop = s.loop
  BY DEF Good, Orderly, Pending, Running, Live, Written
<1>2. pc = (IF Pending(v) = {} THEN "round" ELSE "turn")
  BY <1>1 DEF Pending
<1>3. r = [v EXCEPT !.loop = task]
  BY <1>1 DEF TurnOver, State, LoopType
<1> HIDE DEF pc, r
<1>4. task \in LoopType
  <2>1. v.loop \in LoopType /\ (v.loop.met \/ met) \in BOOLEAN /\ pc \in Live \cup {"none", "lost"}
    BY <1>1, <1>2 DEF State, Live
  <2> QED  BY <2>1 DEF LoopType
<1>5. /\ task.pc = pc /\ task.how = "parallel" /\ task.about = s.loop.about
      /\ task.round = s.loop.round /\ task.pos = s.loop.pos /\ task.overlap = s.loop.overlap
  BY <1>1 DEF State, LoopType
<1> HIDE DEF task
<1>6. /\ r \in State /\ r.loop = task /\ r.row = v.row /\ SameLog(v, r) /\ r.turn = v.turn
      /\ r.speaking = v.speaking /\ r.call = v.call /\ r.stops = v.stops /\ r.answered = v.answered
  BY <1>1, <1>3, <1>4 DEF State, SameLog
<1>7. Running(r) /\ Pending(r) = Pending(s) \ {m}
  BY <1>2, <1>5, <1>6 DEF Running, Live, Pending, Written
<1>8. Orderly(r)
  BY <1>1, <1>2, <1>5, <1>6, <1>7 DEF Good, Orderly, Written, Pending, State
<1>9. Funded(r)
  <2>1. IsFiniteSet(Pending(s)) /\ Cardinality(Pending(s)) \in Nat /\ m \in Pending(s)
    BY <1>1, PendingIsFinite DEF Pending
  <2>2. Cardinality(Pending(s) \ {m}) = Cardinality(Pending(s)) - 1
    BY <2>1, FS_RemoveElement
  <2>3. s.log.turns + Cardinality(Pending(s)) < TurnBudget + N /\ s.log.turns \in Nat
    BY <1>1 DEF Good, Funded, State, LogType
  <2>4. r.log.turns = s.log.turns + 1
    BY <1>6 DEF Written, SameLog
  <2>5. Pending(s) = {m} => Cardinality(Pending(s)) = 1
    BY FS_Singleton
  <2>6. Pending(v) = Pending(s) \ {m} /\ r.loop.pc = pc /\ r.loop.how = "parallel"
    BY <1>5, <1>6 DEF Written
  <2>7. CASE Pending(s) = {m}
    <3>1. r.loop.pc = "round" /\ s.log.turns + 1 < TurnBudget + N
      BY <1>2, <2>3, <2>5, <2>6, <2>7
    <3> QED  BY <2>3, <2>4, <3>1, RosterIsFinite, GroupsAssumption DEF Funded
  <2>8. CASE Pending(s) # {m}
    <3>1. r.loop.pc = "turn"
      BY <1>2, <2>1, <2>6, <2>8
    <3>2. r.log.turns + Cardinality(Pending(r)) < TurnBudget + N
      BY <1>7, <2>1, <2>2, <2>3, <2>4, RosterIsFinite, GroupsAssumption
    <3>3. r.log.turns <= TurnBudget + N
      BY <1>6, <2>3, <2>4, <3>2, PendingIsFinite, RosterIsFinite, GroupsAssumption
    <3> QED  BY <2>6, <3>1, <3>2, <3>3 DEF Funded
  <2> QED  BY <2>7, <2>8
<1>10. Told(r)
  BY <1>1, <1>5, <1>6, <1>7 DEF Good, Told, Written, State
<1>11. Fresh(r)
  BY <1>1, <1>6, <1>7 DEF Good, Fresh, Written, SameLog
<1>12. /\ Good(r) /\ r.loop.about = s.loop.about
       /\ r.loop.round = s.loop.round /\ r.loop.pos = s.loop.pos
  BY <1>5, <1>6, <1>8, <1>9, <1>10, <1>11 DEF Good
<1> QED  BY <1>12 DEF r

(* The one turn under way is over.                                          *)
LEMMA AfterTurn ==
    ASSUME NEW s, Good(s), Running(s), s.row.exists, s.loop.how # "parallel",
           NEW m \in Members, s.turn[m] # "none", NEW v, Written(s, m, v),
           NEW t \in State, SameTask(v, t), t.row.exists = v.row.exists,
           t.row.status = v.row.status, t.log = v.log,
           \/ t.mention = None
           \/ t.mention = v.mention /\ s.loop.how # "directed"
    PROVE  Between(t)
<1>1. s \in State /\ s.loop.pc = "turn" /\ Pending(s) = {m} /\ v.loop = s.loop /\ v.row = s.row
  BY DEF Good, Orderly, Pending, Running, Live, Written
<1>2. Pending(t) = {}
  BY <1>1 DEF Pending, SameTask, Written
<1>3. t.speaking = {}
  BY <1>1, <1>2 DEF Good, Orderly, Pending, SameTask, Written, State
<1>4. t.loop = s.loop /\ t.loop.pos \in 1 .. N
  BY <1>1 DEF Good, Orderly, SameTask
<1>5. t.log.turns <= TurnBudget + N
  <2>1. s.log.turns \in Nat /\ t.log.turns = s.log.turns + 1
    BY <1>1 DEF State, LogType, Written
  <2> QED  BY <1>1, <2>1, RosterIsFinite, GroupsAssumption DEF Good, Funded
<1>6. t.stops => \E c \in Callers : t.call[c].pc \in {"cancel", "gather"}
  BY DEF Good, Told, SameTask, Written
<1>7. t.row.exists /\ ~t.loop.overlap =>
         t.row.status = "running" /\ \A c \in Callers : t.call[c].pc # "write"
  BY <1>1, <1>4 DEF Good, Told, SameTask, Written
<1>8. /\ t.answered = s.answered /\ t.log.posts = s.log.posts
      /\ \/ t.mention = None
         \/ t.mention = s.mention /\ s.loop.how # "directed"
  BY DEF SameTask, Written
<1>9. /\ t.answered \subseteq 1 .. t.log.posts
      /\ t.mention # None => t.mention.post <= t.log.posts /\ t.mention.post \notin t.answered
  BY <1>1, <1>8 DEF Good, Fresh
<1> QED  BY <1>2, <1>3, <1>4, <1>5, <1>6, <1>7, <1>9 DEF Between

LEMMA TurnOverIsGood ==
    ASSUME NEW s, Good(s), Running(s), s.row.exists, s.loop.how # "parallel",
           NEW m \in Members, s.turn[m] # "none", NEW v, Written(s, m, v),
           NEW met \in BOOLEAN
    PROVE  Good(TurnOver(v, m, met)) /\ Once(s, TurnOver(v, m, met))
<1> DEFINE r == TurnOver(v, m, met)
           w == Speaker(v, None)
           f == Forget(v)
           t == Speaker(f, None)
<1>1. /\ s \in State /\ v \in State /\ s.loop.pc = "turn" /\ v.loop = s.loop
      /\ v.answered = s.answered
  BY DEF Good, Orderly, Pending, Running, Live, Written
<1>2. s.loop.how \in {"rotation", "override", "directed", "adopted"}
  BY <1>1 DEF State, LoopType
<1>3. /\ w \in State /\ SameTask(v, w) /\ SameLog(v, w)
      /\ w.row.exists = v.row.exists /\ w.row.status = v.row.status
  BY <1>1, SpeakerIs
<1>4. f \in State /\ SameTask(v, f) /\ f.row = v.row /\ f.log = v.log /\ f.mention = None
  BY <1>1, ForgetIs
<1>5. r = CASE s.loop.how = "rotation" -> IF met THEN AimMet(v) ELSE NextTurn(v)
            [] s.loop.how = "override" -> IF met THEN AimMet(w) ELSE NextTurn(w)
            [] s.loop.how = "adopted" -> IF met THEN AimMet(w) ELSE Over(Status(w, "idle"))
            [] s.loop.how = "directed" -> IF met THEN AimMet(t) ELSE Over(Status(t, "idle"))
  BY <1>1, <1>2 DEF TurnOver
<1> SUFFICES Good(r) /\ Once(s, r)
  OBVIOUS
<1> HIDE DEF r, w, f
<1>6. /\ t \in State /\ SameTask(f, t) /\ SameLog(f, t)
      /\ t.row.exists = f.row.exists /\ t.row.status = f.row.status
  BY <1>4, SpeakerIs
<1> HIDE DEF t
<1>7. SameTask(v, v) /\ SameTask(v, t)
  BY <1>4, <1>6 DEF SameTask
(* From each of the three the chain goes on between two turns.              *)
<1>8. ASSUME NEW x \in State, Between(x), x.answered = s.answered,
             r = AimMet(x) \/ r = Over(Status(x, "idle"))
      PROVE  Good(r) /\ Once(s, r)
  <2>1. Ended(x, r)
    BY <1>8, AimMetEnds, RestsEnds
  <2> QED  BY <1>8, <2>1, EndedIsGood DEF Once
<1>9. ASSUME NEW x \in State, Between(x), x.answered = s.answered, x.log.turns = s.log.turns + 1,
             s.loop.how \in {"rotation", "override"}, r = NextTurn(x)
      PROVE  Good(r) /\ Once(s, r)
  <2>1. s.log.turns < TurnBudget /\ s.log.turns \in Nat
    BY <1>1, <1>9 DEF Good, Funded, State, LogType
  <2>2. x.log.turns < TurnBudget + N
    BY <1>9, <2>1, RosterIsFinite, GroupsAssumption
  <2>3. GoesBy(x, r, Hows)
    BY <1>9, NextTurnGoes DEF Between, Goes
  <2> QED  BY <1>9, <2>2, <2>3, GoesIsGood DEF Once
<1>10. CASE s.loop.how = "rotation"
  <2>1. Between(v) /\ v.log.turns = s.log.turns + 1
    BY <1>1, <1>7, <1>10, AfterTurn DEF Written
  <2>2. r = AimMet(v) \/ r = NextTurn(v)
    BY <1>5, <1>10
  <2>3. CASE r = AimMet(v)
    BY <1>1, <1>8, <2>1, <2>3
  <2>4. CASE r = NextTurn(v)
    BY <1>1, <1>9, <1>10, <2>1, <2>4
  <2> QED  BY <2>2, <2>3, <2>4
<1>11. CASE s.loop.how \in {"override", "adopted"}
  <2>1. Between(w) /\ w.log.turns = s.log.turns + 1 /\ w.answered = s.answered
    <3>1. w.log = v.log /\ w.mention = v.mention /\ w.answered = v.answered
      BY <1>3 DEF SameLog, SameTask
    <3>2. s.loop.how # "parallel" /\ s.loop.how # "directed"
      BY <1>11
    <3> QED  BY <1>1, <1>3, <3>1, <3>2, AfterTurn DEF Written
  <2>2. \/ r = AimMet(w) \/ r = Over(Status(w, "idle"))
        \/ s.loop.how = "override" /\ r = NextTurn(w)
    BY <1>5, <1>11
  <2>3. CASE r = AimMet(w) \/ r = Over(Status(w, "idle"))
    BY <1>3, <1>8, <2>1, <2>3
  <2>4. CASE s.loop.how = "override" /\ r = NextTurn(w)
    BY <1>3, <1>9, <2>1, <2>4
  <2> QED  BY <2>2, <2>3, <2>4
<1>12. CASE s.loop.how = "directed"
  <2>1. Between(t) /\ t.answered = s.answered
    <3>1. /\ t \in State /\ SameTask(v, t) /\ s.loop.how # "parallel"
          /\ t.log = v.log /\ t.answered = v.answered
          /\ \/ t.mention = None
             \/ t.mention = v.mention /\ s.loop.how # "directed"
          /\ t.row.exists = v.row.exists /\ t.row.status = v.row.status
      BY <1>4, <1>6, <1>7 DEF SameLog, SameTask
    <3>2. Between(t)
      BY <3>1, AfterTurn
    <3> QED  BY <1>1, <3>1, <3>2
  <2>2. r = AimMet(t) \/ r = Over(Status(t, "idle"))
    BY <1>5, <1>12
  <2> QED  BY <1>6, <1>8, <2>1, <2>2
<1> QED  BY <1>2, <1>10, <1>11, <1>12

LEMMA EndTurn_Keeps ==
    ASSUME IInv, NEW m \in Members, turn[m] # "none", NEW met \in BOOLEAN, EndTurn(m, met)
    PROVE  IInv' /\ AnsweredOnce
<1> DEFINE u == Unlisted(Now, m)
           v == [u EXCEPT !.log.turns = @ + 1]
<1>1. /\ Good(Now) /\ Now \in State /\ Now.turn[m] # "none" /\ UNCHANGED <<starts, restarts>>
      /\ Now.loop = loop /\ Now.row = row
      /\ starts' \in 0 .. MaxStarts /\ restarts' \in 0 .. MaxRestarts
  BY DEF IInv, Good, EndTurn, Now, TypeOK
<1>2. Written(Now, m, v) /\ u.loop = loop
  <2>1. u.loop = Now.loop
    BY DEF Unlisted, Now
  <2> QED  BY <1>1, <2>1, WrittenIs
<1>3. /\ ~Running(u) => Become(u)
      /\ Running(u) /\ ~row.exists => Become(Over(u))
      /\ Running(u) /\ row.exists => Become(TurnOver(v, m, met))
  BY DEF EndTurn
<1> HIDE DEF u, v
<1>4. Running(u) = Running(Now)
  BY <1>1, <1>2 DEF Running
<1>5. CASE ~Running(Now)
  <2>1. Good(u) /\ u.loop = loop
    BY <1>1, <1>5, OrphanIsGood DEF u
  <2> QED  BY <1>1, <1>3, <1>4, <1>5, <2>1, StopKeeps
<1>6. CASE Running(Now) /\ ~row.exists
  <2> DEFINE r == Over(u)
  <2>1. Good(r) /\ r.loop = NoLoop
    BY <1>1, <1>6, RaisedIsGood DEF u
  <2>2. Become(r)
    BY <1>3, <1>4, <1>6
  <2> HIDE DEF r
  <2>3. Once(Now, r)
    BY <1>1, <2>1, AboutNone DEF NoLoop
  <2> QED  BY <1>1, <2>1, <2>2, <2>3, LoopGoesOn
<1>7. CASE Running(Now) /\ row.exists
  <2> DEFINE r == TurnOver(v, m, met)
  <2>1. Become(r)
    BY <1>3, <1>4, <1>7
  <2>2. CASE Now.loop.how = "parallel"
    <3>1. /\ Good(r) /\ r.loop.about = loop.about /\ r.loop.round = loop.round
          /\ r.loop.pos = loop.pos
      BY <1>1, <1>2, <1>7, <2>2, WaitsForOthers
    <3> HIDE DEF r
    <3>2. IInv'
      BY <1>1, <2>1, <3>1, Lands
    <3>3. loop' = r.loop
      BY <2>1 DEF Become
    <3> QED  BY <3>1, <3>2, <3>3 DEF AnsweredOnce
  <2>3. CASE Now.loop.how # "parallel"
    <3>1. Good(r) /\ Once(Now, r)
      BY <1>1, <1>2, <1>7, <2>3, TurnOverIsGood
    <3> HIDE DEF r
    <3> QED  BY <1>1, <2>1, <3>1, LoopGoesOn
  <2> QED  BY <2>2, <2>3
<1> QED  BY <1>5, <1>6, <1>7

(* A restart leaves neither a loop nor a run, and says that it lost one.    *)
LEMMA Restart_Keeps ==
    ASSUME IInv, NEW graceful \in BOOLEAN, Restart(graceful)
    PROVE  IInv' /\ AnsweredOnce
<1>1. /\ loop' = [NoLoop EXCEPT !.pc = "lost"] /\ mention' = None /\ stops' = FALSE
      /\ turn' = [m \in Members |-> "none"]
      /\ speaking' = {} /\ cancelled' = {} /\ missed' = {}
      /\ call' = [c \in Callers |-> NoCall]
      /\ UNCHANGED <<log, starts, answered>>
      /\ restarts < MaxRestarts /\ restarts' = restarts + 1
  BY DEF Restart
<1>2. row' = Status(Now, "stopped").row \/ row' = row
  BY DEF Restart
<1>3. Now \in State /\ starts' \in 0 .. MaxStarts /\ restarts' \in 0 .. MaxRestarts
  BY <1>1, GroupsAssumption DEF IInv, Good, TypeOK
<1>4. row' \in RowType
  <2>1. Status(Now, "stopped") \in State /\ "stopped" \in Statuses
    BY <1>3, StatusIs DEF Statuses
  <2> QED  BY <1>2, <1>3, <2>1 DEF State, Now
<1>5. loop' \in LoopType /\ loop'.pc = "lost" /\ loop'.about = None
  <2>1. "lost" \in Live \cup {"none", "lost"}
    OBVIOUS
  <2> QED  BY <1>1, <2>1, NoLoopTyped DEF LoopType, NoLoop
<1>6. call' \in [Callers -> CallType]
  BY <1>1 DEF NoCall, CallType
<1>7. Now' \in State
  BY <1>1, <1>3, <1>4, <1>5, <1>6 DEF State, Now
<1>8. ~Running(Now') /\ Pending(Now') = {}
  BY <1>1, <1>5 DEF Running, Live, Now, Pending
<1>9. Orderly(Now')
  BY <1>1, <1>5, <1>8 DEF Orderly, Now
<1>10. Funded(Now')
  BY <1>1, <1>5 DEF IInv, Good, Funded, Now
<1>11. Told(Now')
  BY <1>5, <1>8 DEF Told, Now
<1>12. Fresh(Now')
  BY <1>1 DEF IInv, Good, Fresh, Now
<1>13. IInv'
  BY <1>3, <1>7, <1>9, <1>10, <1>11, <1>12, NowTypedNext DEF IInv, Good
<1>14. AnsweredOnce
  BY <1>3, <1>5, GroupsAssumption DEF AnsweredOnce, State, Now
<1> QED  BY <1>13, <1>14
-----------------------------------------------------------------------------
LEMMA Invariant_Init == Init => IInv
<1> SUFFICES ASSUME Init PROVE IInv
  OBVIOUS
<1>1. /\ row \in RowType /\ row.status = "idle" /\ row.exists
  BY DEF Init, RowType, Statuses
<1>2. log \in LogType /\ log.posts = 0 /\ log.turns = 0
  BY GroupsAssumption DEF Init, LogType
<1>3. loop \in LoopType /\ loop.pc = "none"
  BY NoLoopTyped DEF Init, NoLoop
<1>4. call \in [Callers -> CallType]
  BY DEF Init, NoCall, CallType
<1>5. Now \in State
  BY <1>1, <1>2, <1>3, <1>4 DEF Init, State, Now
<1>6. TypeOK
  BY <1>5, NowTyped, GroupsAssumption DEF Init
<1>7. ~Running(Now) /\ Pending(Now) = {}
  BY <1>3 DEF Running, Live, Now, Pending, Init
<1>8. Orderly(Now)
  BY <1>3, <1>7 DEF Orderly, Now, Init
<1>9. Funded(Now)
  BY <1>2, <1>3, RosterIsFinite, GroupsAssumption DEF Funded, Now
<1>10. Told(Now)
  BY <1>1, <1>7 DEF Told, Now
<1>11. Fresh(Now)
  BY DEF Fresh, Now, Init
<1> QED  BY <1>5, <1>6, <1>8, <1>9, <1>10, <1>11 DEF IInv, Good

LEMMA Next_Keeps == IInv /\ Next => IInv' /\ AnsweredOnce
<1> SUFFICES ASSUME IInv, Next PROVE IInv' /\ AnsweredOnce
  OBVIOUS
<1>1. ASSUME NEW rounds \in Rounds, Start(rounds) PROVE IInv' /\ AnsweredOnce
  BY <1>1, Start_Keeps
<1>2. ASSUME NEW who \in Mentioned, NEW respond \in BOOLEAN, PostMessage(who, respond)
      PROVE  IInv' /\ AnsweredOnce
  BY <1>2, PostMessage_Keeps
<1>3. ASSUME NEW mode \in Modes, SetReplyMode(mode) PROVE IInv' /\ AnsweredOnce
  BY <1>3, SetReplyMode_Keeps
<1>4. ASSUME NEW c \in Callers, NEW kind \in {"stop", "delete"}, Stop(c, kind)
      PROVE  IInv' /\ AnsweredOnce
  BY <1>4, Stop_Keeps
<1>5. ASSUME NEW c \in Callers, StopStep(c) PROVE IInv' /\ AnsweredOnce
  BY <1>5, StopGoesOn, CancelRun_Keeps DEF StopStep
<1>6. CASE DeleteAtRest
  BY <1>6, DeleteAtRest_Keeps
<1>7. CASE Begin
  BY <1>7, Begin_Keeps
<1>8. CASE RoundGathered
  BY <1>8, RoundGathered_Keeps
<1>9. ASSUME NEW m \in Members, Submitted(m) PROVE IInv' /\ AnsweredOnce
  BY <1>9, Submitted_Keeps
<1>10. ASSUME NEW m \in Members, SubmitFails(m) PROVE IInv' /\ AnsweredOnce
  <2>1. turn[m] # "none" /\ EndTurn(m, FALSE)
    BY <1>10 DEF SubmitFails
  <2> QED  BY <2>1, EndTurn_Keeps
<1>11. ASSUME NEW m \in Members, NEW met \in BOOLEAN, RunEnds(m, met) PROVE IInv' /\ AnsweredOnce
  <2>1. turn[m] # "none" /\ EndTurn(m, met)
    BY <1>11 DEF RunEnds
  <2> QED  BY <2>1, EndTurn_Keeps
<1>12. ASSUME NEW graceful \in BOOLEAN, Restart(graceful) PROVE IInv' /\ AnsweredOnce
  BY <1>12, Restart_Keeps
<1>13. CASE Request
  BY <1>1, <1>2, <1>3, <1>4, <1>6, <1>13 DEF Request
<1>14. CASE LoopStep
  BY <1>7, <1>8, <1>9, <1>10, <1>11, <1>14 DEF LoopStep, SubmitReturns, RunReturns
<1> QED  BY <1>5, <1>12, <1>13, <1>14 DEF Next

LEMMA Stutter_Keeps == IInv /\ UNCHANGED vars => IInv' /\ AnsweredOnce
<1> SUFFICES ASSUME IInv, UNCHANGED vars PROVE IInv' /\ AnsweredOnce
  OBVIOUS
<1>1. Now' = Now /\ starts' = starts /\ restarts' = restarts /\ loop' = loop
  BY DEF vars, Now
<1>2. IInv'
  BY <1>1, NowTyped, NowTypedNext DEF IInv
<1> QED  BY <1>1, <1>2 DEF AnsweredOnce

(* The inductive invariant.  It says what is under way at each point of the *)
(* loop, what that may still cost, what the row and the lists must show of  *)
(* it, and which mentions it has answered.                                  *)
THEOREM Invariance == Spec => []IInv
<1>1. Init => IInv
  BY Invariant_Init
<1>2. IInv /\ [Next]_vars => IInv'
  BY Next_Keeps, Stutter_Keeps
<1> QED  BY <1>1, <1>2, PTL DEF Spec

(* Every variable keeps its type, whatever the roster and the bounds.       *)
THEOREM TypeCorrect == Spec => []TypeOK
<1>1. IInv => TypeOK
  BY DEF IInv
<1> QED  BY <1>1, Invariance, PTL

(* A group never writes more messages for turns than its budget and one for *)
(* each of its members, whatever is posted, mentioned, stopped, switched to *)
(* the parallel mode and restarted.                                         *)
THEOREM BudgetIsBounded == Spec => []BudgetBounds
<1>1. IInv => BudgetBounds
  BY DEF IInv, Good, Funded, BudgetBounds, Now, N
<1> QED  BY <1>1, Invariance, PTL

(* What the row says of the loop is so: a loop begun while no stop was in   *)
(* progress shows as running and lists exactly the runs it waits for, and a *)
(* group that shows as running without one is being stopped, was cut short  *)
(* by a restart, or has spent its budget.                                   *)
THEOREM StatusIsTold == Spec => []StatusTellsTheLoop
<1>1. IInv => StatusTellsTheLoop
  <2> SUFFICES ASSUME IInv, row.exists PROVE
        /\ Running(Now) /\ ~loop.overlap =>
             row.status = "running" /\ \A m \in Members : turn[m] = "wait" <=> m \in speaking
        /\ ~Running(Now) /\ row.status = "running" =>
             Stopping \/ loop.pc = "lost" \/ CountMessages(Now) > TurnBudget
    BY DEF StatusTellsTheLoop
  <2>1. \A m \in speaking : turn[m] = "wait"
    BY DEF IInv, Good, Orderly, Now
  <2>2. Running(Now) /\ ~loop.overlap =>
           row.status = "running" /\ \A m \in Members : turn[m] = "wait" => m \in speaking
    BY DEF IInv, Good, Told, Now
  <2>3. ~Running(Now) /\ row.status = "running" =>
           Stopping \/ loop.pc = "lost" \/ CountMessages(Now) > TurnBudget
    BY DEF IInv, Good, Told, Called, Stopping, Now
  <2> QED  BY <2>1, <2>2, <2>3
<1> QED  BY <1>1, Invariance, PTL

(* No step begins a turn on account of a post that was given one, however   *)
(* the mention is kept, looked up and forgotten meanwhile.                  *)
THEOREM MentionsAreAnsweredOnce == Spec => MentionAnsweredOnce
<1>1. IInv /\ [Next]_vars =>
        [\A post \in answered : loop'.about = post =>
            loop.about = post /\ loop'.round = loop.round /\ loop'.pos = loop.pos]_vars
  BY Next_Keeps, Stutter_Keeps DEF AnsweredOnce
<1> QED  BY <1>1, Invariance, PTL DEF Spec, MentionAnsweredOnce
===============================================================================
