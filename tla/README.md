# Ari (`kyn`): a verification project in TLA+

Ari is a local daemon that runs AI coding agents on behalf of an operator: bots, durable runs,
permission gates, scheduled routines, chat channels, delegated plans and coding workflows. Its code is
`src/src/kyn/*.py` (about 19,400 lines of Python on one asyncio event loop, with SQLite files under it).
This directory models the part of it that must survive concurrency, restarts and failures, checks the
models with TLC on small instances and proves the most important results with TLAPS for every size.

File names below are relative to `src/src/kyn/`.

## 1. Inventory

All components live in one process. Everything that has to survive it is in SQLite: each repository
opens its own connection in a thread (`asyncio.to_thread`), and its methods are single transactions
(`BEGIN IMMEDIATE`). The interleavings that matter are therefore those of asyncio tasks between their
`await`s, of one transaction with those of *other* repositories, and of the process's death with all
of them. A file lock (`controller.lock`) keeps a second daemon away from the same store.

| component | code | state | operations | what is hard |
|---|---|---|---|---|
| Run ledger | `run_store.py` | table `durable_runs`: status, lease, token, failovers | enqueue, claim, claim_next, mark_*, record_failover, finish, cancel_queued, requeue_stale, recover_startup, prune | at-least-once recovery beside holders that still have a token; retention |
| Engine, workers | `engine.py` | per run a `_RunState`; per bot a worker: loop, FIFO, active run; lifecycle, state and permission locks | start, submit, cancel, decide_permission, set_bot_model, subscribe, close; the worker's loop, one task per run, heartbeat, failover | a cancellation at any `await`; three repositories without a common transaction; restart |
| Governance | `governance.py` | a reservation per run, policies, audit | reserve_run, finish_run, reconcile_run_leases, evaluate | reservations that outlive their run |
| Interactions | `interactions.py` | the operator's queue of gates | create_permission, resolve, expire_run | gates of dead sessions, two parties answering one gate |
| Delegation plans | `delegation.py` | plan, nodes, edges, claims | create, start, cancel, claim_ready, mark_running, renew, succeed, fail, release; the coordinator's loop and tasks | a claim that is taken over, a failure in the middle of a graph, cancellation during a submission |
| Routines | `routines.py` | table of routines: due time, lease | create, update, delete, claim_due, mark_success, mark_failure; the scheduler's loop | an edit while the routine is being submitted, a mark that is lost, a loop that dies |
| Channels | `channels.py` | bindings, events (pending/queued/running/terminal), Telegram offset in memory | accept, process, attach_run, relay, deliver, complete, recover; poll | redelivery, recovery between submission and delivery, retention of the ids that recognise a redelivery |
| Coding lifecycle | `coding_lifecycle.py` | durable executions, one controller task each | launch, cancel, approve, finish, recover | cancel against finish, a restart over a changed worktree |
| Coding workflow | `coding_workflow.py` | repair budget, deadline, cancellation token | build, checks, repair, review, artifact | a late callback, a reviewer that edits |
| Workspaces, tasks | `workspaces.py`, `tasks.py` | manifests with lease token and state; git branches and merge commits | create, reacquire, finalize, recover_stale, cleanup; merge, abandon | a lease lost while artifacts are enumerated; several git commands per operation |
| Groups | `groups.py` | a turn loop per group, stop flags, mention overrides | start, stop, post, parallel rounds | stop against the end of the loop, a turn budget that parallel rounds exceed |
| Sessions | `session.py`, `runtime.py`, `protocol.py` | one agent process, routing tables for its JSON-RPC frames, one prompt at a time | prompt, cancel, answer a permission, close | frames left over from a cancelled turn, the death of the agent |
| Live updates | `live.py`, `engine.subscribe` | bounded queues and event buffers | publish, subscribe | slow subscribers |
| Plugins, memory | `plugins.py`, `memory.py` | registry with a generation; facts | enable, disable, configure; remember, supersede, pin, prune | a session opened with yesterday's configuration; pinned facts under pruning |
| API, stores, prompts, CLI, UI | `server.py`, `store.py`, `control_mcp.py`, ... | rows and requests | translate requests into calls of the above | no state of their own that a decision depends on |

How they interact: the API, the scheduler, the delegation coordinator, the channel gateway and the
coding controller all reach agents through `Engine.submit`, which is idempotent in the run id that the
caller derives from a node or an event (a routine's run gets a fresh one). The engine writes the ledger, the
governance database and the interactions one after the other. A run's worker opens an agent session
through the orchestrator and streams its frames; the operator's decisions come in through the API.
`server.py` starts the engine, then coding, channels and the scheduler, then relaunches the unfinished
plans, and closes them in the opposite order.

What makes each component correct, modelled or not:

- ledger: a row has a lease exactly while it is active; only the holder of the *last* token settles
  it; a settled run stays settled until it is forgotten, and the oldest are forgotten first.
- engine: nothing is executed without the current claim; every accepted run settles; no party
  answers a gate twice; what is shown as complete is complete on disk; no slot leaks.
- delegation: dependency order, exact blocking, a status that agrees with the nodes, a verdict in
  the end whichever service dies.
- routines: runs are spaced as the routine says, edits win over marks, an armed routine is submitted.
- channels: every accepted event reaches an outcome and is answered once unless the process dies between
  delivery and its record; no message is skipped; a redelivered event is not a new one while its row is kept.
- coding: a patch is offered once and taken or dropped once; what is handed off and merged is what was
  checked and reviewed; nobody works in the worktree of a settled execution; every execution settles.
- groups: the budget holds up to one parallel round, a mention buys one turn, the row tells whether the
  loop runs, a stop returns.
- sessions: one prompt at a time, frames reach their own turn, every caller is woken when the agent dies.
- live updates: what a subscriber gets is in order, and it is told of what it misses.

## 2. Modules

| module | models | extends / instantiates |
|---|---|---|
| `Dag` | reachability and acyclicity of a set of edges, without recursion | |
| `TaskGraph` | *abstract*: what a delegation plan promises, without leases, owners or runs | `Dag` |
| `Delegation` | `DelegationStore` and `DelegationCoordinator`, several services, engine runs | `Dag`; `TaskGraph` by refinement |
| `DelegationProofs` | theorems | `Delegation`, `TLAPS` |
| `JobQueue` | *abstract*: an at-least-once queue whose executed jobs are settled under their last ticket | |
| `RunStore` | `RunRepository`, one action per transaction | `JobQueue` by refinement |
| `RunStoreProofs` | theorems | `RunStore`, `TLAPS` |
| `RunEngine` | `Engine`, `BotWorker`, reservations and gates | `RunStore` (`Ledger == INSTANCE RunStore`) |
| `EngineProofs` | theorems | `RunEngine`, `TLAPS`; `RunStoreProofs` (`Repository`) |
| `Routines` | `RoutineStore` and `Scheduler` | |
| `RoutinesProofs` | theorems | `Routines`, `TLAPS` |
| `Channels` | `ChannelStore`, `ChannelGateway`, the relay of questions, the Telegram poller | |
| `ChannelsProofs` | theorems | `Channels`, `TLAPS` |
| `Handoff` | *abstract*: one patch is offered, stays as it was, and is taken or dropped once | |
| `Workspaces` | the manifest and the worktree of an execution | |
| `Coding` | `CodingLifecycleController` over `CodingWorkflow`, agent runs in the worktree | `Workspaces`; `Handoff` by refinement |
| `Tasks` | branch, execution, merge and abandonment of a reviewable task | `Coding` |
| `TasksProofs` | theorems on executions and tasks | `Tasks`, `TLAPS` |
| `Groups` | `GroupStore` and `GroupCoordinator` for one group | |
| `GroupsProofs` | theorems | `Groups`, `TLAPS` |
| `MCDelegation`, `MCRunStore`, `MCRunEngine`, `MCRoutines`, `MCChannels`, `MCTasks`, `MCGroups` | small instances for TLC | |

Definitions keep the names of the functions they model (`claim_next`, `mark_running`, `_finish_node`,
`_restore`, `attach_run`, `recover_stale_leases`, ...); capitalised names are the steps between two
awaits of a longer function.

**Delegation.** The variables `plan, dispatch, edges, node, runId, owner, lease` are the columns of the
plan's tables; `run` is the engine's view of each node's run; `phase` is each service's loop and
`pc, job` its tasks (one per slot); `cancelling` is the run ids a cancel call has still to cancel. A
claim, a submission, its recording by `mark_running` and the wait are separate steps, so a coordinator
may go on long after its claim was taken over. One plan is modelled; several plans meet only in the
slots of a coordinator.

**RunStore.** `row, token, lease, failovers` are columns; `older, newer` are the orders by creation and
by finishing time, which `claim_next` and retention sort by. The clock appears only as a lease that
is `held` or `expired`. Callers present *any* token that was ever issued. A row that is settled keeps no
token, so the history `settler` remembers the one that was presented with its outcome; `JobQueue`
requires it to be the job's last ticket, which is what a stale token after a second claim would break.

**RunEngine.** An action is the code between two points where the event loop may run something else. A
database call is committed by the action that resumes after it; if the awaiting task is cancelled,
the transaction is either withdrawn or a member of `stray`, to commit later. `mem` is `_RunState`
with its lifecycle lock, `worker` the loop and FIFO of each bot, `task` the position of `_execute`,
`fin` the `_finish` calls in progress (a run may have several), `user` and `call` the operator's
`decide_permission` and `cancel` calls, `gov` and `gate` the other two databases, changed by
`reserve_run`, `finish_run`, `create_permission`, `resolve` and `expire_run`. A crash clears
everything but the tables. The agent is nondeterministic: it asks, ends or fails at any time.

**Routines.** A row keeps its instants relative to now: `next_run_at` and `lease_until` count down and
`Clock` moves them together. `inflight` are the `_submit` coroutines of a tick, `accepted` those whose
run the engine has already taken although `_submit` has not returned. `age, edited, lost, excused` are
history: how long ago a run was accepted, who was edited under way, whose mark nobody will write
any more, and for whom an early next run is therefore no surprise.

**Channels.** `bindings, event` are the tables; `pc` is the `_process` task of each event, one step per
await (load, submit, attach, wait, deliver, complete), each of which may fail into the handler that
marks the event failed, which may fail too. `run, text, gate` are the engine: a run survives a
restart, its text does not. `updates, confirmed, offset, poll` are Telegram's queue, what it was told
to forget, the offset in memory and the batch a poll works through. `known, taken, posted, stuck` are
history. A callback that Telegram does not let anyone answer any more (`expired`) makes its batch fail
every time it is fetched, as in the code: messages behind it arrive only while they share no batch
with it, and `MessagesArrive` says so.

**Workspaces, Coding, Tasks.** The content of a worktree is a number that every edit increases, so that
"what was checked", "what was approved", "what is listed" and "what was merged" can be compared.
`manifest, expired, artifacts, tree, removed` are the worktree and its row; the lease token is not a
variable, because nobody but the execution that made the row ever has it. `status, active` are the
row of the execution; `pc, phase, turn, before, repairs, outcome, cancelled` its task; `run` the agent
runs it submits, which outlive a callback that timed out and are restored by `Engine.start`; `caller`
a call of `cancel`; `creating, merging, abandoning` the routes of a task, one step per git command or
database call; `tip, head, merged` the branch, the last commit and the base. The deadline may pass
at any step (`TimesOut`). A lease runs out freely while the process is down, and as a fault while it is up
and no run renews it. `checked, approved, stray, neglected` are history: the last are runs that a restart
brought back and nobody awaits, and what a failure kept the task from writing down. `CreateLost` is
the process dying between the two calls of `create_task`.

**Groups.** `row` and `log` are the group and counts of its messages (posted, spoken, notices of the
loop); `mention, stops, speaking` are the coordinator's dictionaries for it, `loop` its task, `turn`
what the loop waits for on behalf of each member, `call` the requests that stop or delete it. The loop
gives up control only while a run is submitted, while it is awaited and after a parallel round, so
everything from one such point to the next is computed by an operator on a record of the state
(`NextTurn`, `AimMet`, ...) and assigned by `Become` in one step. `answered, missed` are history.

## 3. Runs

Every run of TLC below is exhaustive for its bounds.

| run | question | instance |
|---|---|---|
| `delegation` | safety, action properties and liveness of plans, and the refinement of `TaskGraph` | 3 nodes, all shapes, 2 services of which one may stop, 1 slot each; leases expire at any moment; 350,000 states |
| `delegation_cancel` | *violated*: does cancelling a plan stop its runs? | 3 nodes, 1 service, 2 slots |
| `ledger` | the ledger's invariants and the refinement of `JobQueue` | 3 runs of 2 bots, 1 outcome retained, 2 claims each, any token |
| `engine_faults` | one run through everything at once: crash, shutdown, stalls, busy database, cancel, decisions | 1 run, 2 requests, 1 failover, 2 claims, 2 boots; 2,000,000 states |
| `engine_live` | do accepted runs settle once and for all, and do cancel calls return? | 2 runs of one bot, 1 request, failed claims and submissions, one run cancelled anywhere |
| `engine_worker_dies` | *violated*: "must never kill the sole FIFO worker" | 2 runs, one cancelled |
| `routines` | spacing, leases, edits and liveness of routines | 2 routines, 1 or 2 at a time, 2 boots, 1 edit |
| `channels` | is what was accepted settled, answered once, recognised when repeated, and is no update skipped? | a webhook that is repeated, 2 updates, 3 events, 2 faults anywhere, nothing retained; 220,000 states |
| `channels_lost_reply` | *violated*: a recovered event delivers what the bot answered | 2 messages, 1 crash |
| `tasks` | is what is handed off and merged what was checked and reviewed, and does every execution settle? | 1 repair, 4 agent runs, 2 edits, 1 fault anywhere, with merges, abandonments and cancels; 1,300,000 states |
| `tasks_retry` | *violated*: "is there anything to merge?" | 2 runs, 1 edit, 1 fault |
| `groups` | budget, mentions, the reported status and stops of a group | 2 members, budget 3, 2 rounds, 2 loops, 2 posts, 1 stop or deletion at a time, 1 restart; 310,000 states |

What the properties say is written over each of them. In short:

- `TableConsistent` (`DependencyOrder`, `BlockedExactly`, `PlanStatusCurrent`, `LeaseDiscipline`),
  `RunsFollowDependencies`, `StoreFollowsEngine`, `OutcomesKept` (an outcome is final, and only the
  owner of a claim decides it), `ImplementsTaskGraph`, `StartedPlanSettles`: a plan behaves as its
  graph says whichever coordinator acts, however late.
- `LeaseColumns`, `OnlyOldOutcomesForgotten`, `ImplementsJobQueue` (what was executed is settled once,
  and under the last ticket that was drawn for it): the ledger.
- `ExecutionHasClaim`, `GatesConsistent` (no party answers a gate twice, a settled run asks nothing),
  `NoLeakedReservation`, `CompletedIsDurable`, `TerminalIsFinal`, `RunsSettle` (every accepted run, and
  every cancelled one): the engine.
- `LeaseTracksSubmission`, `Spaced`, `OperatorWins`, `ArmedIsSubmitted`: the scheduler.
- `NoSecondReply`, `NoMessageSkipped`, `RetriesAreRecognised`, `AcceptedIsSettled`, `MessagesArrive`: channels.
- `HandoffIsSealed`, `MergedIsReviewed`, `ClosedTaskStaysClosed`, `ImplementsHandoff`, `ExecutionSettles`: coding.
- `BudgetBounds`, `StatusTellsTheLoop`, `MentionAnsweredOnce`, `StopReturns`: groups.

**Bounds and why they are enough.** Three nodes hold every relation the store distinguishes (chain,
fork, join, unrelated) and two services every takeover. In the ledger two runs compete and a third
makes the retention choose; two tokens per run make one stale. In the engine the second boot is the
only one that can meet what the first left behind, a third meets the same tables; one failover and
two requests let an id be reused by a new session; the second run of a bot is the one behind the
first (a shutdown with two runs is left to `engine_faults`, which has one). In `Routines`, delays are 0
and 1 units, an interval may then be shorter than the lease (2) or a one-shot due at once; two
routines compete for one slot or share a tick; `MaxAge` is the longest interval, beyond which two
ages are not told apart; `MaxLate` bounds how long the loop is allowed to leave a due routine alone
(it polls every second, intervals are at least a minute). In `Channels` three events are a first
delivery, its repetition and a message between them; two faults are a crash and a failure in what
it left; one poll is checked, although the module allows overlapping ones. In `Tasks` four runs are a
build, a repair, a review and one more after a restart; two edits tell before from after; one fault is
a crash, a failure or an expiry at any place. In `Groups` a budget of three is met in the middle of a
sequential round and overrun by a parallel one, a second loop meets what the first and a stop left,
and a second post meets the mention of the first; `BudgetBounds` is reached, not just kept. With a second
caller the safety properties were checked too. A restart of an idle group only forgets a mention and
is left out. The caps (`MaxClaims`, `MaxFailovers`, `MaxBoots`, `MaxEdits`, `MaxFaults`, `MaxEvents`,
`MaxOpen`, `MaxUpdates`, `MaxRuns`, `MaxStarts`, `MaxPosts`, `MaxRestarts`) appear as guards of the
actions they bound.

**Fairness and why the code justifies it.**

- Delegation: a service that stays up runs its loop and its tasks (weak fairness: nothing
  disables them for good); the engine ends every run; the clock passes the leases of a service that
  is gone. `HeartbeatsKeepUp` says that from some point on no *live* holder loses its lease, because
  it renews three times per lease; without it a stalled loop could lose every lease for ever.
- Engine: strong fairness of a run's own steps, because an `asyncio.Lock` is first come, first served
  and a task that waits for the lifecycle lock gets it although others take it in between; weak
  fairness of operator calls in progress, of the worker's loop and of a heartbeat that found the
  lease lost. The agent's turn ends (`session.prompt` gives up when no
  frame comes for two hours). Nothing is assumed of the operator.
- Routines: weak fairness of the tick, of each submission and of time. `Clock` waits while a routine
  is overdue by `MaxLate` and the loop is alive, which says that the loop polls more often than
  that; it is not blocked when the loop is dead, so nothing hangs on this assumption for safety.
- Channels: weak fairness of each event's task together with the engine that ends its run, of the poller
  and of each poll's batch, and of the next start. The operator need not answer, and nobody need write.
- Coding: weak fairness of the controller's task and of the next start. Nothing is assumed of agents:
  a run that never ends is overtaken by the deadline that the task shares among its callbacks.
- Groups: the event loop gets round to every task, a submission and a request to cancel come back, and
  a run that was cancelled ends. No other run need end, so a stop must not depend on one.

**Disagreements between the code and what is said of it** (each a run whose property TLC refutes):

1. `delegation_cancel`: cancelling a plan while a node is being submitted leaves the new run active;
   the tool's description says it cancels the plan "and its active child runs".
2. `engine_worker_dies`: a cancellation that lands before a task's first step, or while it claims,
   escapes `_execute` and ends the bot's worker, against the comment at `engine.py:254`.
3. `channels_lost_reply`: a run that completed before a restart has no text after it, and the recovered
   event tells the chat that the bot produced none; `tests/test_channels.py:553` has it return the text.
4. `tasks_retry`: a merge commits the worktree first; once it was refused, every retry finds nothing to
   commit and answers "no changes to merge", against `server.py:1983` and the advice of `tasks.py:240`.

**What the code does and the models follow**, worth knowing and stated by no run:

- While `cancel_run` waits for `session/cancel`, the worker may take its next run, whose task is then
  cancelled instead (`engine.py:214`).
- After a failover the old session's request stays pending, where no decision reaches it (`engine.py:622`).
- A run that lost its lease is settled and its reservation finished while its row stays active; the
  row is queued after a restart and nothing can reserve it again (`engine.py:1577`).
- A submission whose caller is cancelled while a thread reserves its slot is turned away, and the slot
  stays reserved until the daemon is started again; one whose row cannot be withdrawn because the
  database is busy stays queued, and is executed after a restart (`engine.py:871`, `engine.py:884`).
- An edit of any field of a routine that is being submitted has it submitted twice (`routines.py:118`).
- A coding execution whose process dies between sealing the workspace and recording the handoff fails
  when it is recovered, since a sealed worktree takes no turn; one that dies while the worktree is made
  meets a conflict on every later attempt. `timeout_seconds` above 86100 fails at once (`coding_lifecycle.py:501`).
- A callback that times out leaves its engine run at work, and the run may edit until the seal.
- A task may be merged while its execution awaits approval. `find_merge_commit` looks at the commits of
  the branch that is checked out, and a message that reaches 500 characters loses the marker it looks for
  (`tasks.py:248`).
- A group that has spent its budget says "Send a message to continue", but counts every message it ever
  had, so no later one gets a turn. A mention posted during a directed turn is dropped with the one that
  directed it; one that no turn took directs a later loop (the comment at `groups.py:544` expects
  otherwise). After a restart the row may say "running" without a loop.

## 4. Proofs

All theorems are proved by TLAPS from the named assumptions on the constants that the modules
declare (finite sets, natural-number bounds, special values outside the types), which TLC evaluates
in the runs. They hold for any number of nodes, coordinators, runs, routines, and any delays.

**`DelegationProofs`.** `IInv` is `TypeOK`, the safety invariants of the run, and what they lack to be
inductive: every *task* at work has a node whose parents have succeeded
(`TasksFollowDependencies`), so that a submission by a coordinator that lost its claim still comes
after the runs it depends on (`RunsAfterParents`); and nodes are cancelled only with their plan
(`CancelledTogether`), so that a failure never meets a cancelled descendant. From it: `Typing`,
`TableAlwaysConsistent` (with its parts `DependenciesFirst`, `FailuresBlockDependents`, `PlanNeverStale`,
`LeasesDisciplined`), `StoreNeverAhead`, `RunsInOrder`, `OutcomesAlwaysKept` (with `OutcomesFinal` and
`OwnersDecide`), and `Refinement` (every step of the store is a step or a stutter of `TaskGraph`). Facts
about graphs (`DescendantsIn`) are proved from the closure definition of reachability in `Dag`.

**`RunStoreProofs`.** `IInv` is `TypeOK`, `LeaseColumns` and `FinishOrder`: finishing times order the
terminal rows strictly, totally and transitively. That order is what makes `OldestForgottenFirst`
true: of two terminal rows the older has strictly more newer ones (`OlderHasMoreNewer`), so a count
selects a suffix. `Typing`, `LeasesMatchStatus`, `OldestForgottenFirst` and `Refinement` (of `JobQueue`: the
outcome of an execution carries the last token, because `RequireActiveLease` compares it with the row's
and the row's is the last one issued).

**`RoutinesProofs`.** `IInv` is `TypeOK`, `LeaseTracksSubmission`, `Bookkeeping` (what histories and
scheduler say of each other) and `Rested`: a routine that has run, whose mark was neither lost nor
overruled, either has waited its interval, or is not in flight and will have waited when it is due;
a one-shot is over. Time preserves the sum of the two. `Typing` also bounds the submissions of a tick,
which needs that the rank by `(next_run_at, id)` is an injection of the claimed rows into
`0 .. max_concurrency - 1` (`FewClaimed`). `Leases`, `Spacing` (`Spaced`) and `EditsStay` (`OperatorWins`).

**`TasksProofs`** (for `Workspaces`, `Coding` and `Tasks`). What is merged is what was reviewed because of
a chain of facts, each of which makes up one part of `IInv`: a worktree belongs to an execution that
accepted it (`RowsAreAccepted`); nothing runs while the process is down (`DownIsIdle`); at most one
agent run is at work in the worktree and it is the last one submitted (`OneAtATime`, `TurnIsLast`,
`RunsInOrder`); agents rest whenever the loop looks at the tree (`AgentsRest`), so what is reviewed is
what was checked (`ReviewsChecked`), what is sealed is what was approved (`SealsApproved`), what is
listed is the sealed artifact (`DeliveredIsReviewed`, `OutcomeIsTrue`, `EndsSealed`), and what is committed
and merged is the listed one (`MergesReviewed`). `TypeCorrect`, `HandoffsAreSealed`, `MergesAreReviewed`,
`ClosedTasksStayClosed`, and `ExecutionImplementsHandoff` (a step is a step or a stutter of `Handoff`).

**`ChannelsProofs`.** `IInv` is `TypeOK`; the numbering of events, messages and posts (`Numbered`); that
nothing is at work while the process is down (`DownIsIdle`) and otherwise only what the tables call open
(`WorksOnOpen`); that only an event that is over has been posted with nothing left to deliver
(`PostedIsOver`); that the poller works through its batch from the confirmed message on
(`FetchedInOrder`); and what pruning keeps (`Remembered`), which follows newer settled events by
cardinality (`PruneKeeps`, `PruneForgets`). `TypeCorrect`, `RepliesAreNotRepeated`,
`MessagesAreNotSkipped`, `RetriesAreNotRepeated`. They assume that `None` is not a row of the table.

**`GroupsProofs`.** Everything the loop does between two awaits is one operator on a record of the state, and
so is the proof: `Good` holds of the record before and after each statement. It is a typed record,
what is under way at each point of the loop (`Orderly`), what the turns under way may still cost (`Funded`:
the budget never falls behind the cardinality of the turns pending), what row and lists show of a loop
that was told to stop (`Told`), and where an answered mention is still kept (`Fresh`). A chain of
statements ends in `Ended` or `Begun`; each is proved once and cited by the actions that reach it.
`TypeCorrect`, `BudgetIsBounded`, `StatusIsTold`, `MentionsAreAnsweredOnce`, for any number of members, any
budget and any turn limits.

**`EngineProofs`.** The lifecycle lock of a run is what the engine relies on, and it can be held by the
worker's task, its heartbeat, and any `cancel` call. `IInv` says of each run (`Good`): nothing is at work for a
run this process does not know (`Unknown`); a run waits in the queue, has the worker's loop, or is
over (`Placed`); the lock belongs to exactly the `_finish` that has passed it, or to the claim or heartbeat
under way, and whoever holds it may rely on the run not being settled (`Locked`, the mutual exclusion);
what is executed has the last claim, and a completion that was committed is in the ledger unless the
lease ran out (`Claims`); a request is pending until it is answered once (`Asking`); and from the commit
on a `_finish` leaves nothing to ask (`Quiet`), also for the late transactions of a cancelled task. Three more
parts are about all runs: what is being restored or submitted is not known yet (`Submitting`), a worker
serves the runs of its bot, each once (`Served`), and where a reservation comes from at each stage of
the process (`Reservations`). What an action does is stated once, as a lemma about its effects (`Called`,
`Acts`, `Killed`, `Returns`, `EndsCall`, and one lemma for each transaction of `RunStore`), so that the
preservation proofs never expand the records; a step about one run leaves the others `Good` because it is
`Framed` (`OthersGood`). TLC found `IInv` to hold on every reachable state of two instances (2.0 and 0.16 million
states) before it was proved. `TypeCorrect`, `ExecutionsAreClaimed`, `CompletedStays`,
`RequestsAnsweredOnce`, `NothingLeaks`, `OutcomesFinal`, for any number of runs, bots, requests, claims, failovers
and restarts and any mixture of the faults; the bounds are only assumed to be naturals
(`EngineAssumption`).

The module also composes the two. `LedgerIsKeptTo` says that every behaviour of the engine is, on the
variables of the ledger, a behaviour of `RunStore`: it needs that what is active was claimed (`Drawn`), so
that a token the engine presents is one the ledger gave. The theorems of `RunStoreProofs` then hold of
the engine (`Repository == INSTANCE RunStoreProofs`): `EngineImplementsJobQueue` and `OldOutcomesForgotten`.
The definitions of the two instances of `RunStore` are shown equal in `RepositoryHolds`.

**Only model-checked.** Liveness under fairness is outside the prover's reach and stays with TLC
(`StartedPlanSettles`, `RunsSettle`, `ArmedIsSubmitted`, `AcceptedIsSettled`, `MessagesArrive`,
`ExecutionSettles`, `StopReturns`). That retention keeps exactly as many
outcomes as it is told is neither stated nor proved (it would follow a cardinality through deletions).

## 5. What is abstracted, and what is not modelled

- Texts, prompts, models, titles, timestamps as such, and the contents of agents' work.
- The database fails only where a component's paragraph in section 2 or this list says so. In particular
  `mark_running`, `mark_success` and `mark_failure` of a plan never raise in `Delegation`: `StartedPlanSettles`
  assumes it. In the code an error of `mark_running` (`delegation.py:940`) or `mark_success` marks the node failed
  while its run goes on, and an error of `mark_failure` (`delegation.py:980-987`) ends the task with the
  node still claimed or running, to be taken over when its lease has run out.
- In the engine: workspaces (but for a preparation that fails) and memory records of a run, the event
  stream, `set_bot_model`, and database errors outside submissions, claims and lost leases. Quotas and
  the tool policy are nondeterministic.
- In delegation: `delete_plan` (called nowhere) and the stored aggregation.
- In routines: bots, names and prompts; `put` appears as the end of `update`, its only caller. A submission
  fails before the engine accepted the run, never after: `Engine.submit` may also raise with the row still queued
  (a reservation that fails and whose withdrawal fails too, `engine.py:871`), the routine is then retried after
  its backoff with a new run, and the first one is executed after a restart. `Spaced` does not count it.
- In channels: the creation of a binding, its rotation and disabling, memory records and prompts, and a wait
  that raises while the agent run is active (`channels.py:687`, into the handler at 710). `NoSecondReply` is
  about one process: a crash between the delivery and its record makes the recovered event deliver again.
- In workspaces: `reacquire_stale`, which no part of the program calls, `cleanup_workspace`, which only
  the HTTP API offers, workspaces of runs that are not coding executions, and the validation of paths. The
  row becoming active and the binding of the execution (`workspaces.py:247-278`) are one step; a crash between
  them leaves an active row without a binding, which the next `prepare_execution` finds and binds.
- In coding: the copy of the history into shared memory, and the output of checks beyond their verdict.
- In tasks: why a merge is refused (base not checked out, not clean, conflicts) is one choice, and
  `merge_task_branch` is one step (`tasks.py:229-256`): no crash, abandonment or failure falls between
  `git merge` and `git branch -d`. One that does leaves a merged branch, whose next merge merges nothing.
- In groups: the texts a turn is given, and all messages beyond their number. The loop's
  `except Exception` (`groups.py:575-576`, after a database error) never fires, so the status "error" and the
  members of a failed parallel round that go on without their loop are not explored. A cancel that the
  engine refuses is swallowed in the code (`groups.py:458`, `groups.py:911`); in the model a cancel always succeeds, which
  `StopReturns` relies on.
- Sessions, live updates, plugins and memory are not modelled yet; the API, the stores of bots and
  conversations, the MCP servers, prompts, command line and user interfaces keep no state a modelled
  decision depends on, and stay outside.

## 6. Plan

In this order, the most consequential first:

1. `AgentSession` (frames, futures and the agent's death), `LiveStream` (bounded buffers and cursors),
   then `Plugins` and `Memory`.
2. `Delegation` composed with `RunStore`: a plan over recovered runs, in place of the engine runs it
   abstracts now.
