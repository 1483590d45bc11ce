# Verification of imputio

TLA+ models of the imputio workspace, the TLC runs that check them and the TLAPS
proofs about them. imputio is a small async runtime for Linux: executors that poll
futures by priority, one epoll poller per executor, a global handle through which any
thread spawns tasks, and, in `imputio-utils`, an event bus.

Paths below are relative to the root of the repository (`src/` in `PROJECT.json`).
`PROJECT.json` maps every definition that models code to its lines, and lists the runs,
the mutants, the hazards, the findings and the theorems.

## 1. The system

| Component | Code | State | Operations | Modelled by |
|---|---|---|---|---|
| Coordinator and handles | `imputio/src/executor/handle.rs` | the round-robin `index`; one unbounded channel per executor; the `shutdown` flag | `spawn`, `poll`, `submit_io_op`, `shutdown` | `Scheduler` |
| Executor | same file, `Executor` | five task queues, the receiver of its channel | `run`: receive one transaction, handle it, look at the flag; `get_task`, `poll_task` | `Scheduler` |
| Tasks, handles, wakers | `imputio/src/task/` | a raw pointer to the future; a result channel | poll, drop, `blocking_await`, awaiting the handle | `Scheduler` (ownership, result), wakers not |
| Runtime | `imputio/src/runtime.rs`, `lib.rs` | `state`, the notice channel, the global `EXECUTOR`, the driver thread | `run`, `block_on`, `shutdown`, `Drop`, the driver's loop | `Runtime` |
| I/O poller actor | `imputio/src/io/mod.rs` | the receiver of I/O operations | `run`: submission, `Poll`, shutdown | `Poller`; `Scheduler` has what a submitter sees |
| epoll | `imputio/src/io/epoll.rs` | `event_src_ids` by descriptor number, the slab of tokens, the events of one wait | register a descriptor or a listener, modify, delete, poll and notify | `Poller` |
| Event bus | `imputio-utils/src/event_bus.rs` | a queue per subscription, free ids, ids to clean up, the mailbox | subscribe, unsubscribe, publish, poll, batch poll, clean up, drop, matchers | `EventBus` |
| Blocking calls | `imputio/src/executor/mod.rs` | a thread-local flag | `spawn_blocking!` | not modelled |
| Builders, macros | `executor/mod.rs`, `runtime.rs`, `macros.rs` | plain configuration | setters | not modelled |
| Benches, examples | `benches/`, `examples/` | | clients of the library | only how they use it |

How they interact. A client thread, or a future while it is polled, calls the
coordinator it finds in `EXECUTOR`. The call loads `index`, stores it one higher and
sends a transaction to the executor it chose: three separate steps, without a lock. The
driver thread, one per runtime, does the same with `Poll` transactions, and an executor
polls a task only when it receives one. A submission travels on to the poller of the
executor chosen; the submitter blocks until the executor has passed it on, not until the
poller has handled it. A `Poll` travels on to the poller too, which then waits for events
once and sends each to the notifier of its token. A notice, a call of `shutdown` or the
drop of the runtime makes the driver and the owner stop *the coordinator that is
published at that moment* and publish an inert one. The bus is an actor on a thread of
its own; its clients hold the sending end of its mailbox and one reply channel per call.

What is hard about it, and what makes each part correct:

- *Scheduler.* The shared index is read and written in two steps, so that calls collide
  and skip executors; a task travels through a call, a channel, a queue and a poll as a
  raw pointer that each holder turns into `&mut`, so it must have one holder; futures
  panic and take the executor with them, pollers panic and leave the executor; blocking
  calls run on executor threads; tasks are dropped without a result at shutdown.
  Correct: `OneOwner`, `NothingLost`, `ReplyOwed`, `RepliedOnce`, `MostUrgent`,
  `Served`, `Completes`, `IoReturns`, `ShutdownStops`, and the abstract `TaskPool`.
- *Poller.* Tokens are found by the *number* of a descriptor, while the poller itself
  closes the numbers of the listeners it registers; a registration is acknowledged
  before it is made; a failing clone leaves an id without its token; a send to a bounded
  notifier blocks the thread; `todo!()` ends it. Correct: `IdsApart`, `Accounted`,
  `OwnEvents`, `NothingMissed`, `Accepted`, `ShutdownStops`.
- *Runtime.* One global coordinator, several runtimes, each with an owner and a driver
  that both stop it in three steps; a bounded notice channel with several readers.
  Correct: `StoppedIsReplaced`, `DroppedUnreachable`, `NothingLeftBehind`, `NoticesKept`,
  `Released`, `ShutdownReturns`.
- *Event bus.* Ids are given out again while old handles still exist; handles clone and
  unsubscribe on drop; calls are given up half-way; cleanup is delayed or not. Correct:
  `IdsApart`, `IdForLife`, `Delivered`, `NoneForgotten`, `AnswerOwed`, `Answered`,
  `Matches`, `Reclaimed`, and the abstract `PubSub`.

`PROJECT.json` lists these as hazards, each at its line.

## 2. The modules

- `TaskPool`: what a scheduler promises its users, without channels, indices or
  priorities. A task is handed in once, polled by one worker at a time, never after it
  was Ready, and lost only when a worker stopped, which happens only after a shutdown or
  a panic of a future it polled.
- `Scheduler`: the coordinator, its handles, the executors and the driver's polls.
  `index` is the shared index; `step`, `job` and `slot` are the place and the locals of a
  thread in a call (`Begin` loads the index, `StoreIndex` stores it, `SendPoll`,
  `SendSpawn` and `SendSubmit` send, `Return` ends the wait of `submit_io_op`); `chan[h]`
  is a handle's channel; `tasks[h]`, `pc[h]` and `running[h]` are an executor's queues,
  its place in the loop of `Executor::run` and the task in `poll_task`. One action per
  transaction received (`RecvSpawn`, `RecvSubmit`, `RecvPoll`, `RecvIdlePoll`, or
  `RecvNothing` for an empty channel), one per outcome of a poll (`PollReady`,
  `PollPending`, `PollPanic`), and `CheckShutdown` for the end of an iteration. `phase[t]`
  records who owns the task object. Futures are given by constants: which tasks a task
  spawns and awaits, which operations it submits, whether it blocks its thread, never
  ends or panics. `Breaking` names the executors whose poller may panic: `Poller` says
  when a poller does, `Scheduler` that it may at any time.
- `Poller`: one poller thread, the kernel and the clients that register with it. `chan`
  is the channel of `PollHandle`; `event_src_ids`, `tokens` and `events` are the fields
  of `Poller`; `pc` is the place in `PollerActor::run`. One action per operation received
  (`RecvFdAdd`, `RecvTcpAdd`, `RecvTcpFails` when `try_clone` fails, `RecvModify`,
  `RecvPoll`, `RecvPanics` for a `todo!()` or an index without a token), `Deliver` and
  `DeliverPanics` for each event of a wait, `PollDone`, `RecvNothing` and `Check`. `files`
  is the descriptor table of the process: an open takes the lowest free number, and a
  registration lasts as long as any descriptor of its source. `epoll` and `fresh` are the
  registrations and those with an edge not yet reported. Clients behave in one of three
  manners: *prepared* ones open everything they register before they register any of it;
  those of the *example* open, clone and register one listener after another, as
  `examples/exec-config/sockets` does; *careless* ones open, close, register, modify and
  delete at will.
- `Runtime`: `executor` is `EXECUTOR`; `Run`, `Publish` and `Launch` are the steps of
  `ImputioRuntime::run`; `BlockOn`/`Unblock` those of `block_on`; `BeginShutdown`,
  `BeginDrop`, `OwnerSend` and the three steps `StopLoad`, `StopFlag`, `StopStore` are
  `shutdown` and `Drop`; the driver receives a notice and takes the same three steps.
  `ThreadsEnd` is the end of the executors, which `Scheduler!ShutdownStops` checks.
- `EventBus`: `receiver`, `event_queues`, `ids` and `recycle` are the fields of the
  actor, with one action per message (`HandleSubscribe`, `HandlePush`, ...). Clients send
  messages, wait for replies, clone and drop handles, run matchers and give up calls.
  Both builds (`delay-delete` on or off) are behaviours of the one specification.
  `SubHandle::unsubscribe` takes any id, and `id()` tells them, so `Unsubscribe(s, i)` may
  name the caller's own id, another subscriber's or one that nobody has yet.
  `got`, `told`, `guessed`, `gaveUp`, `log` and `start` are history: `told` has the
  subscribers that the bus was told to remove, by a drop or by whoever named their id,
  and `guessed` the ids that were named when nobody had them. Only the
  properties and the bounds on clones and calls given up read them.
- `PubSub`: what the bus promises its subscribers, without ids, messages, handles or
  clean-up. What is published goes to the end of what is `pending` for each member; a
  member takes from the front of it into its `hand` and receives that before it takes
  more; only who gave up a call may lose what the call took. A member may leave at any
  time, since anyone may unsubscribe anyone's id.
- `MCScheduler`, `MCPoller`, `MCRuntime`, `MCEventBus`: the instances that TLC checks.
- `SchedulerProofs`, `SchedulerReplyProofs`, `PollerProofs`, `PollerEventProofs`,
  `RuntimeProofs`, `EventBusProofs`, `EventBusDeliveryProofs`,
  `EventBusRefinementProofs`: the theorems.

`Scheduler` implements `TaskPool` (`ImplementsTaskPool`): a task is waiting while it is
in a call, a channel or a queue, polled while an executor runs it, settled once its
handle saw a result or a disconnect by a panic, lost when it was dropped or leaked.
`EventBus` implements `PubSub` (`ImplementsPubSub`): a member is a subscriber that has an
id, in a handle or in a reply on its way, for which nobody sent an `Unsubscribe`, before
or after it was given out; the queue of that id is what is pending for it, the reply of
its poll is its hand.

The state a real object keeps beyond this is left out where no property reads it: names,
thread affinities, tracing, the values of futures, the contents of events.

## 3. The runs

Runs that pass:

| Run | Instance | What it shows |
|---|---|---|
| `sched_safety` | 2 executors, 1 client, `parent` (Medium) that spawns and awaits `child` (High, may panic) and submits an operation, one more operation of the client, a shutdown at any moment | `TypeOK`, `OneOwner`, `NothingLost`, `ReplyOwed`, `RepliedOnce`, `MostUrgent`, `ImplementsTaskPool` |
| `sched_live` | 2 executors with the feature `fairness`, a High task without end, a High child that may panic, a Medium parent that awaits it | `Served`: each is polled again and again while its executor lives, the High ones although the coin of `get_task` wastes Polls, the Medium one although High ones are always queued; `Completes` |
| `sched_stop` | 2 executors whose pollers may panic, an endless task, an operation, a shutdown | `IoReturns`, `ShutdownStops` |
| `poll_any` | 2 sources, 3 descriptor numbers, careless clients, `try_clone` may fail | `TypeOK`, `IdsApart`, `Accounted` |
| `poll_own` | 2 sources, 4 numbers, prepared clients, a bounded notifier whose client may stop receiving | `OwnEvents`, `NothingMissed`, `Accepted`, `ShutdownStops` |
| `rt_life` | 2 runtimes, each with an owner, a driver and users | `TypeOK`, `StoppedIsReplaced`, `DroppedUnreachable`, `NothingLeftBehind`, `NoticesKept`, `Released`, `ShutdownReturns` |
| `bus_safety` | 2 subscribers, 2 ids, 2 events, both builds; one clones, one gives up a call, each may unsubscribe its own id or the other's | `IdsApart`, `Delivered`, `IdForLife`, `NoneForgotten`, `ImplementsPubSub` |
| `bus_live` | 2 subscribers, 1 id, 2 events, both builds, matchers, one gives up a call | `TypeOK`, `AnswerOwed`, `Answered`, `Matches`, `Reclaimed` |

Runs that TLC finds violated, each a disagreement of the code with what the repository
says of it (`PROJECT.json`, "findings", quotes the lines):

| Run | Property | What happens |
|---|---|---|
| `sched_bench` | `BlockingCompletes` | A task that blocks its thread on the handle of a task it spawned, as `benches/simple.rs` does, waits for a poll that only its own thread could make when there is one executor, the default. |
| `rt_two` | `ShutdownEndsThreads` | With two runtimes, the drop of one stops the coordinator that is published, which is not its own, and its own threads stay. |
| `bus_twice` | `Delivered` | Without `delay-delete`, `unsubscribe` followed by the drop of the handle gives one id back twice; a subscriber that got the id in between loses its queue. |
| `poll_tcp` | `Own` | See below. |

`poll_tcp`, step by step. Listener *a* is opened as number 1, cloned as 2 and registered:
the poller stores token 1 under number 1, with a clone of its own as number 3, and
closes number 1. Listener *b* is opened and gets number 1, is cloned as 4 and registered
at the same poller. Number 1 is a key of `event_src_ids`, so *b* takes token 1 and the
notifier of *a* in place of its own (and the poller's clone of *a* is dropped). A
connection to *b* is then announced to the client of *a*, who calls `accept` on a
non-blocking listener that has no connection, and `expect`s one. The example has one
socket per executor, and a registration goes to the executor the shared index says, which
the driver advances all the time; two registrations that reach one poller are enough.

Two more behaviours came up and are in the models without a run of their own. With the
feature `fairness`, `get_task` skips `tasks[0..2]` half of the time and returns nothing,
or a less urgent task, while an urgent one is queued, so that `MostUrgent` holds only
without it; `sched_live` shows that with a fair coin neither side starves. And a *task*
that submits an operation which is routed to its own executor waits for itself.

A third is not in the models: a program that keeps a receiver of the notice channel it
passed to the runtime, as `examples/exec-config/sockets/main.rs:36,88` does, competes with
the driver for each notice. In `Runtime` nobody but the driver receives from the channel,
so that `NoticesKept` and `Released` hold of the channel that `run` makes, and of one whose
user kept the sender only.

### Bounds

- `NHandles = 2`: collisions of the index, a dead executor beside a live one and tasks
  spread over executors all need two; a third behaves as one of them. The proofs hold
  for every number.
- `MaxPending`: how often a future is Pending of its own. Once is enough to return to a
  queue behind another task; awaiting tasks and endless ones are Pending without bound.
- `MaxPolls`: undelivered `Poll` transactions per channel; one more is not kept. The
  driver of the code sends them without bound and only their arrival matters: a `Poll`
  that waits already causes a poll of the same executor. The proofs do not depend on it.
- `NFds`: numbers must run out and come round. Three for careless clients with two
  sources and a clone of the poller (four wanted at once, so that `try_clone` also fails
  for want of a number); four and five where none may fail.
- `MaxNumbers`, `MaxAsks`, `MaxArrivals`, one or two per source: a source has a clone, is
  registered twice (a known number; another number of a source the kernel has), and
  something arrives before, between and after registrations.
- `MaxNotices = 1`: notices by users and by calls of `shutdown` per runtime; the drop
  sends another one. Together they exceed `Capacity = 1`, so that a full channel, a
  blocked send and a notice without a reader happen.
- `MaxId`: one id makes subscriptions run out and ids come round; two let subscribers
  live side by side. The code has 65534.
- `MaxMail` and `MaxCleanups`: messages the bus has not received. A client that would
  send another waits; in the code it does not, but the bus sees no other order of
  messages with respect to those before.
- `GiveUps` and `Cloners`: who may give up one call, and clone its handle once, before
  the bus is told of it. A subscriber waits for one call at a time.
- `Named`: the ids that are passed to `unsubscribe`, one of the two in `bus_safety`. Ids are
  given out in any order, so it is the caller's own in one behaviour, the other's in the
  next, nobody's in a third. The proofs hold for any set of ids. A number that the bus
  never gives out, `NULL_SUBID` among them, is left out: the bus finds no queue for it.
- The calls of threads other than the driver: each task is spawned once and each operation
  submitted once, so that the index is overwritten finitely often, at any moment of the
  driver's own calls. After the last of them the Polls must go round from wherever they
  left it.
- `Matching` is empty in `bus_safety`: to the bus a matcher is a subscriber that polls
  again and again, which every subscriber may do anyway; `bus_live` runs matchers.
- `Reckless` is FALSE in the passing runs: where ids are given out again at once
  (without `delay-delete`), clients tell the bus of a subscription once, by the drop of
  its only handle, and call neither `unsubscribe` nor `clone`. `bus_twice` shows what
  happens otherwise. With `delay-delete` they do all of that, with the ids of others too.

No run uses symmetry. Deadlock is not checked: when every client has made its calls and
the threads have ended, the system rightly stops, and the runtime's owners need not act.

### Fairness

Weak fairness of each thread's own steps: the operating system runs every thread that
can go on. For `Scheduler`: each thread inside a call, each executor's loop, each
poller once there is a shutdown (nothing makes a poller panic), and the driver's polls,
as long as nobody has shut the coordinator down (then the driver turns to another). For
`Poller`: the poller's thread, the Polls of its executor until the shutdown (which
`Scheduler!Served` rests on too), and the clients that are not deaf, which receive what is
in their notifier; nobody need open, register or send anything, and nothing need arrive.
For `Runtime`: the steps of an owner inside an operation, the driver, and the end of the
threads; an owner or a user need not begin anything. For `EventBus`: the bus, the
clean-up thread of the delayed build, and a subscriber inside a call or a matcher, whose
future an executor polls again and again (`Served`). Nothing is assumed of the order in
which threads run.

Strong fairness is assumed in one place, of the coin of `get_task` (the feature
`fairness`): when, again and again, a Poll finds tasks on one side of the coin, the coin
falls on that side again and again. `rng.random()` draws anew for each Poll, so it does
with probability one. Without this a High task starves, for the coin could fall on
`tasks[2..]` each time.

`Served` and `Completes` speak of the tasks that no endless or awaiting task outranks:
the wakers do nothing, so a task that awaits a less urgent one on its executor is polled
for ever before it, and starves it. With the feature, a task of `tasks[0..2]` does not
outrank one of `tasks[2..]`, which the coin gives Polls of its own. Both properties speak
of what comes after the last call of the other threads: a thread that spawned without
end, in lockstep with the driver, could make the driver choose the same executor each
time. `Scheduler!ShutdownStops` takes it that a poller
ends after a shutdown; `Poller!ShutdownStops` says when it does: unless it is blocked in
a send to a full notifier whose client does not receive (`Blocked`).

## 4. The proofs

TLAPS checks these theorems for every value of the constants that meets the named
assumptions of the modules (`HandlesAssumption`, `IdAssumption`, ...: at least one
executor, one id and so on; TLC evaluates them in every run). None of them mentions a
bound of section 3 as a fixed number.

| Module | Theorem | Property | Argument |
|---|---|---|---|
| `SchedulerProofs` | `TypeCorrect` | `TypeOK` | inductive as `TypeInv`: with what the place of a thread in its call, and of an executor in its loop, says of their locals |
| | `SingleOwner` | `OneOwner` | `Coherent`: `phase[t]` says who owns the task object of `t`. Whoever has it agrees with its phase and nobody else has it (`OneOwner`), and a phase that names a holder is a task that a holder has (`NothingLost`). Each action hands a task from one holder to the next |
| | `NoTaskLost` | `NothingLost` | the other half of `Coherent` |
| | `Refinement` | `ImplementsTaskPool` | initial states map to initial states; under `TypeInv` and `Coherent` each action is one of `TaskPool` or a stutter |
| `SchedulerReplyProofs` | `ReplyAlwaysOwed` | `ReplyOwed` | a channel loses an operation only at its front, when the executor takes and answers it, or with its executor |
| | `OneReply` | `RepliedOnce` | `Unanswered`: an operation on its way is in one call, or in one place of one channel, and nobody has answered it |
| | `MostUrgentFirst` | `MostUrgent` | the feature `fairness` is assumed off; a queued task is in the queue of its own priority (`QueueOwner`), so the first non-empty queue holds a most urgent one |
| `PollerProofs` | `PollerTypeCorrect` | `TypeOK` | inductive as it stands |
| | `TokensApart` | `IdsApart` | inductive with the types: a new id is the next place of the slab, and a known number keeps its id |
| | `DescriptorsAccounted` | `Accounted` | inductive with the types: an open, a clone, a submission and a registration each hand a number from one holder to another |
| | `OwnNotifier` | `OwnEvents` | `Prepared`, for prepared clients: the number in an operation on its way still refers to the source that was meant, is unknown to the poller and is in no other operation; so no token is given away, and the token of every registration has the notifier of its source |
| `PollerEventProofs` | `NoEventLost` | `NothingMissed` | `EventInv`, for prepared clients; see below |
| `RuntimeProofs` | `RuntimeTypes` | `TypeOK` | inductive as it stands |
| | `StoppedReplaced` | `StoppedIsReplaced` | `Inv`: a coordinator that is not published yet is known to no thread and not stopped, and a driver exists only once it is published; what a thread has stopped, it is about to replace |
| | `DroppedForGood` | `DroppedUnreachable` | the same `Inv` |
| | `LeavesNothing` | `NothingLeftBehind` | `Left`: a runtime nobody started or sent to stops nothing; once a lone one is published, `EXECUTOR` is it, or is inert because it was told to stop |
| | `NoticesAreKept` | `NoticesKept` | `Counted`: each notice ever sent is in the channel, or is the one the driver took |
| `EventBusProofs` | `IdsNeverShared` | `IdsApart` | inductive with: nothing waits for cleanup in the build that gives ids back at once. Nothing about clients is needed, reckless ones included |
| | `BusTypes` | `TypeOK` | inductive with: a subscriber has one message or one answer of its call under way, and none when it waits for none; it has handles only with an id |
| | `AnswerAlwaysOwed` | `AnswerOwed` | what `BusTypes` needs makes the message and the answer those of this call; `Owing` says that one of them is there |
| | `QueuesClaimed` | `NoneForgotten` | `AllTraced`: a subscriber that gave up its subscribe call accounts for one message nobody waits for, which one receive turns into one queue |
| `EventBusDeliveryProofs` | `EveryEventOnce` | `Delivered` | `DeliverInv`, for clients that are not `Reckless` in a build that gives ids out again; see below |
| | `OneOwnerPerId` | `IdForLife` | `NeverAgain`, which needs nothing of the clients |
| `EventBusRefinementProofs` | `BusRefinement` | `ImplementsPubSub` | under `DeliverInv`, and for the same builds and clients, each action is one of `PubSub` or a stutter: who waits for the reply of a poll has the queue it polls, and a member with that queue who does not wait gave the poll up |

The invariants alone are rarely inductive. `OneOwner`, for instance, would not say that a
task whose phase is "queue" is in a queue, so that `NothingLost` and `TaskPool` need both
halves of `Coherent`; `OwnEvents` speaks of what has reached a notifier, and a step can
keep it only if the tokens, the kernel's registrations and the operations still on their
way agree. Each proof that a step preserves an invariant has one lemma or step per action.

`Delivered` needs most. The bus knows subscribers by their ids alone, so a message can
harm one for whom it was never meant. `Delivered` speaks of a subscriber until a handle of
it is dropped or its id is passed to `unsubscribe`, by whomever and be it before the id was
given out (`told`, `guessed`); `DeliverInv` says that nothing else harms it. Every
`Unsubscribe` and poll in the mailbox has an id that is not free, or one that was guessed,
and none of them means a subscriber other than the one it was sent for, unless that one
counts as disturbed (`AllHarmless`, `OutOfPlay`; `Recycled` says so of what waits for
cleanup). With `delay-delete` that holds of all clients, because an id that is taken is
one subscriber's for ever (`NeverAgain`), at the price that ids run out. Without it, it
holds since an `Unsubscribe` is the last message of its id (`LastWord`), which takes a
client with one handle that speaks of its own id, once (`ToldOnce`; `bus_twice` shows a
client that does not). `Newcomers` says that a subscriber which has no handle yet is among
`told` only if its id was named while on its way to it. What a subscriber has got, the
answer on its way and its queue are then, in this order, the log since it subscribed
(`Complete`). `Complete` is silent of a subscriber that gave up a poll, whose reply is
lost; `PubSub` is not: its queue too is touched by its own polls only, from the front.

`EveryEventOnce` and `BusRefinement` assume of the constants that a build that gives ids
out again at once has no reckless clients (`FALSE \in Builds => Reckless = FALSE`). The
clients of the build with `delay-delete` may clone, drop and unsubscribe as they like, any
id at any time, within the model's one clone and one call given up per subscriber. What
they cannot be promised is in the properties: an id that somebody names is no longer its
subscriber's. The other theorems about the bus assume nothing beyond the named assumptions
of the module.

`NothingMissed` is the safety half of `Accepted`: registrations are edge-triggered, so
that an arrival the poller forgets once is never reported again. It is not inductive:
that an event is on its way says nothing of the source at which the next one will
arrive. `EventInv` adds that every source that was asked for has its operation in the
channel or its registration in the kernel (`Reached`), that a registered number is known,
so that no registration of an unknown one is refused (`KnownOpen`), that events are held
during a wait only (`Quiet`), and that who is not deaf still listens (`Listening`). It
rests on `Prepared`, for a number that meant another source would hide an arrival.

`AnswerOwed` and `NoneForgotten` are the safety halves of `Answered` and `Reclaimed`, and
`NoticesKept` and `NothingLeftBehind` those of `ShutdownReturns` and `Released`: TLC finds
that what is owed comes in the end on the small instances, and the theorems say for every
size that it is still owed. `NothingLeftBehind` speaks of a runtime that is alone: an owner
that stops what it finds in `EXECUTOR` may stop, or replace without stopping, the
coordinator of another (`rt_two`). `NoneForgotten` counts: the queues that nothing will
take away are at most the subscribe calls that were given up. The function `leak`, which
names one queue for each of these, stands for the count, so that the proof never reasons
about cardinalities.

What is proved and what is only model-checked. Every invariant of the passing runs, their
action properties and both refinements are theorems. The liveness properties (`Served`, `Completes`, `IoReturns`,
both `ShutdownStops`, `Accepted`, `Released`, `ShutdownReturns`, `Answered`, `Matches`,
`Reclaimed`) are checked by TLC on the instances of section 3 only: TLAPS reasons about
neither `ENABLED` nor fairness. No theorem says that a bound of an instance is enough for
them.

## 5. Not modelled

- *Blocking calls* (`spawn_blocking!`, `ImputioTask::run`). The flag is thread-local and
  only the calls of its own thread read or write it; the call polls one future in a loop
  and nothing interleaves with it. A panic in that future leaves the flag set, and later
  blocking calls of that thread are then refused: a hazard listed without a property. The
  future of `block_on` is in `Runtime` as a step that begins it and one that ends it.
- *Wakers.* No executor looks at them: a task is polled because a `Poll` arrives.
- *Builders, macros, thread affinities, priorities given by macro*: plain configuration.
  A configuration without executors, which divides by zero in
  `ExecHandleCoordinator::spawn`, is excluded by `HandlesAssumption`.
- *A second run of one runtime*, and a notice that is sent after its driver has ended.
- *Receivers of the notice channel other than the driver*, which a program that passes
  its own channel may keep (section 3).
- *The bus*: `unsubscribe` of a number the bus never gives out, the end of its thread when every handle is dropped, and events whose `Clone`
  panics.
- *The poller*: one poller is modelled. The others have tables of their own, and share
  only the descriptor numbers, which clients of the model open and close at will. Left
  out are the limit of 256 events per wait (the rest come with the next wait), waits that
  fail, parking between waits, and the interest argument, which the code ignores in favour
  of `RW_INTERESTS`. `push_token_entry` is one step: only the poller's thread touches what
  it writes. An error of the registration is reported to nobody, as in the code.
- *Scheduler and Poller together.* They meet at the channel of `PollHandle`. `Scheduler`
  takes a panic of a poller as something that may happen at any time, which includes what
  `Poller` does; `Poller` takes submissions and Polls in any order, which includes what an
  executor sends. They are not composed in one module, whose states would be the product.
- *Benches and examples* are clients: what they may call is in the models, their own work
  is not.

## 6. What could come next

- An abstract specification of the poller, a map from sources to notifiers without numbers,
  tokens or a descriptor table, that prepared clients cannot tell from `Poller`; `OwnEvents`
  and `NothingMissed` are what the proof of such a refinement would rest on.
- The lines of `spawn_blocking!`, as a small sequential model with the panic.
- Several pollers with one descriptor table, where the registration of one closes a number
  that a client is about to register with another.
