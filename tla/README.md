# Rxns: models, checks and proofs

Rxns is a .NET framework for event-driven apps: reactors that pass events
(`IRxn`) over backing channels, clusters of workers that work is fanned out to,
routed commands over SignalR or Redis streams, and hosting, update and
reliability services around them. This directory holds TLA+ models of its
concurrent core, the TLC configurations that check them, and TLAPS proofs.
Paths below are relative to `src/` of the library (`src/src/` of the checkout)
unless they say otherwise.

## 1. Inventory

State, operations and correctness of the parts, most critical first.

| Component | State | Operations | What makes it correct | What is hard |
|---|---|---|---|---|
| `PullFanout` (Rxns/Cloud/Intelligence) | a FIFO and a semaphore per queue key, Workers and token sources by name, one read loop per registration | Fanout, RegisterWorker, Dispose, read loop (TryTakeWork, RunDispatch) | an item runs once, on a subscribed worker; permits match items; Dispose stops the right loop | waits on several semaphores with compensation, cancellation, names registered twice |
| `CompeteFanout` | Workers, IsReserved flags, an Overflow stack, dispatch chains | Fanout, RegisterWorker, Dispose, DoWorkUntilDrained | no worker is given two dispatches; reservations are cleared; while a dispatch goes on, the top of Overflow is popped | lock taken on one path only, late IsBusy, retry by `Until` |
| `ElasticQueue` | worker name -> registration | WorkerDiscovered, WorkerDisconnected, WorkerInfoUpdated, KillWorker | a worker in the pool can be disconnected | check-then-act on a concurrent dictionary, half-done registration |
| `RoundRobinFanOut` | index, overflow | Fanout | every item reaches a worker | overflow that nothing drains |
| `RoutableAppCmdManager` (Rxns/Hosting/Updates) | originators, pending queue per route, channels | Add, FlushCommands, TrackOriginator, ResolveAndForgetOriginator | a command is sent once or is pending under a key somebody flushes | flush against enqueue, several channels, order |
| `RedisEventHub` (Rxns.Redis) | routes, last heartbeats | heartbeat, route removed, sweep, PublishFromClient, Send | a live worker has a route, to its current client id | three threads update two maps |
| `RedisRoutedCmdConsumer` | ids seen, own route and client id | ShouldDispatch, Dispatch | one of the consumers of a route dispatches | reconnect gap |
| `RedisStreamBackingChannel` | consumer group position, pending entries | Publish, PollStream, acknowledge | no entry is lost over a restart | crash between read and acknowledge |
| `EventsHub` (Rxns.WebApiNET5) | routes, connections | hub methods, flush on connect | as RedisEventHub | reconnects |
| `RxnManager`, backing channels | active flag, local and remote channels | Activate, Publish, CreateSubscription | an event reaches the subscribers | publish before activation |
| `Reactor`, `ReactorManager` | molecules, reactors by name, connections | Connect, Chain, Start, Stop | a stopped reactor gets nothing | resubscription |
| `TaskPoolSchedulerWithLimiter` | list of tasks, count of delegates, a thread-static flag | QueueTask, delegate loop, inline execution, TryDequeue | at most N delegates; every task runs | inlining, waiting tasks, a flag shared by all schedulers |
| AI bubble of the portal (Rxns.AppSatus/Web) | engines, models, tool settings, conversation, `sending` | load, select, send, answer, clear | a request names a model of its engine; Send and the spinner follow the requests | answers in any order, state read before a wait and used after it |
| `ShardingQueueProcessingService`, `EventSourcingSyncBroker` | queue per shard | enqueue, process | order within a shard | shards that appear late |
| Reliability | failure counts, breaker state | execute, trip, half-open | bounded retries, one trial when half-open | concurrent trials |
| Collections | expiring and retrying entries | add, expire, retry | no entry lost or kept for ever | timers against callers |
| Scheduling | groups, conditions, tasks | schedule, run, cancel | a group runs once a tick | overlapping runs |
| Cluster hosting, app updates | processes, files | spawn, restart, upload, collect | an update in use is not collected | crash, I/O |
| Commanding, health, metrics, playback, hosts, portal | messages, projections, wiring | - | - | little control state |

Components meet as follows. `ElasticQueue` turns events into calls of a
`IClusterFanout` (RegisterWorker, Fanout) and keeps the disposables it returns;
a fanout calls workers (`IClusterWorker.DoWork`), which may be remote: their
commands go through `RoutableAppCmdManager`, which asks each channel
(`EventsHub`, `RedisEventHub`) whether it has the route, and the results come
back through `PublishFromClient`. `RedisEventHub` writes to a
`RedisStreamBackingChannel`; `RedisRoutedCmdConsumer` reads from one. Everything
publishes on `RxnManager`.

`PROJECT.json` lists every component with its status, and the hazards with
their lines and the properties that cover them.

## 2. Modules

| Module | What it is |
|---|---|
| `WorkDistribution` | what a fanout promises, with no queue, lock or thread in it: an item is submitted, taken by one eligible holder, settled once; given up only by a holder that was stopped |
| `PullFanout`, `PullFanoutProofs` | `PullFanout.cs`, every operation |
| `CompeteFanout`, `CompeteFanoutProofs` | `CompeteFanout.cs`, with what `Until` of `RxnExtensions.cs` does to it |
| `GroupDelivery` | what a consumer group promises: entries are handed out in order and once, and delivered at most once or given up |
| `RedisStream`, `RedisStreamProofs` | `RedisStreamBackingChannel.cs` and how `RedisRoutedCmdConsumer` subscribes to it |
| `TaskPool`, `TaskPoolProofs` | `TaskPoolSchedulerWithLimiter.cs` |
| `Mailboxes` | what a command manager promises: a command is sent at once or put at the end of a box of commands that go the same way, only the first one of a box is sent, and a result is given back once |
| `CmdRouting`, `CmdRoutingProofs`, `CmdRoutingOrderProofs` | `RoutableAppCmdManager.cs`, composed with its callers: `AppCommandService`, the hubs, the status poll |
| `RedisRoutes`, `RedisRoutesProofs` | the routes of `RedisEventHub.cs` and their workers, `RedisRoutedCmdConsumer.cs` |
| `AiBubble`, `AiBubbleProofs` | the chat of the portal: `aiBubbleService.js` and `aiBubble.js` |
| `MC...` | the instances TLC checks |

`PROJECT.json` maps every definition to the lines it stands for. Operators that
are only named as mutants of an action (`AcquireUnchecked`, `RegisterDrop`, ...)
are not part of any specification: each is the action with a plausible bug, and
shows that a property would notice.

### PullFanout

| Variable | Code |
|---|---|
| `queue`, `sem` | `_queues`, and the `CurrentCount` of `_signals`, by key |
| `workers`, `workerCts` | `Workers`, `_workerCts`, by worker name |
| `reg`, `cancelled` | progress of RegisterWorker and of the Dispose it returns; tokens that are cancelled |
| `pc`, `granted`, `uncollected`, `winner`, `item` | the read loop: where it is, which of its WaitAsync calls hold a permit, which siblings it has yet to await, the key WhenAny returned, the item it runs |
| `fanout`, `outcome` | progress of a call of Fanout; how an item ended (history) |

A step is one access to shared state: Enqueue and Release are two steps, as are
`Workers.Add` and the store of the token source, and the two parts of Dispose.
`SemaphoreSlim` is external: any waiter may take an available permit, at any
moment until its wait has been awaited, so also after `iterCts.Cancel()`.

### CompeteFanout

| Variable | Code |
|---|---|
| `workers`, `overflow`, `reserved` | `Workers`, `Overflow` (top first), the connections with `IsReserved` |
| `fanout`, `reg`, `popped` | progress of Fanout and RegisterWorker, and the item the latter popped |
| `conn`, `running`, `competing`, `errors`, `finals` | a dispatch (one subscription of DoWorkUntilDrained and, after an error, its second): its connection, the item it runs, whether it is about to pop, its failures, its Finally actions to come |
| `busy` | the workers whose `IsBusy` is true: it follows what the worker does with any delay |
| `outcome` | how an item first ended (history) |

The lock is held from the choice of a connection to the mark (`LockFree`); the
scan that leads to the choice, or to no choice, is one step. RegisterWorker and
Finally do not take the lock and interleave with it. `Until` returns the failed
observable from its `Catch`, so a dispatch that fails is subscribed once more:
it starts over with its first item, whichever item failed, and the first
subscription's Finally is still to come (`DoWorkFailsFirst`).

### RedisStream

| Variable | Code |
|---|---|
| `log`, `made`, `cursor`, `reader`, `pending` | the stream and its consumer group, which Redis keeps: external, as `XADD`, `XGROUP`, `XREADGROUP` and `XACK` use it |
| `life`, `heard` | an instance of the channel, and whether anybody is subscribed to `_incoming` |
| `stage`, `at`, `upto` | `PollStream`: where it is, and the rest of its batch |
| `inbox`, `unheard`, `dropped` | history: what a subscriber was given, what was emitted to nobody, what went with XGROUP DELCONSUMER |

A process that restarts is another instance. An instance has an id (`IdOf`), its
machine's name and a fresh GUID cut to 20 characters (line 76): where the names are
long, two instances have one id, skip each other's entries as their own, and are
one consumer to XGROUP DELCONSUMER. `IdOf` is any assignment; the run has two
instances with one id. Redis calls are steps of their own and may fail before or
after they took effect (`ReadNothing`, `ReadLost`, `AcknowledgeFails`); a crash
may come between any two steps. `ReconnectIfDead` replaces a connection and
changes nothing else.

### TaskPool

| Variable | Code |
|---|---|
| `tasks`, `delegates` | `_tasks` and `_delegatesQueuedOrRunning`, both used under the lock, so each locked section is one step |
| `notified`, `pool` | work items given to the thread pool, and the delegate each of its threads runs: external |
| `stack`, `waits`, `status` | the tasks that a thread executes, one inlined into the other, and the one it waits for: .NET's `Task.Wait`, external |

`_currentThreadIsProcessingItems` is `pool[d] # None`: the flag is true on every
thread that runs a delegate, of whichever scheduler. A task can be inlined in two
ways: off its scheduler's list, by a task that waits for it (`Inline`), or never
queued, by RunSynchronously (`InlineUnqueued`); the second touches no list and no
count. A continuation that is to run synchronously takes the second way as well.

### CmdRouting

| Variable | Code |
|---|---|
| `originators`, `pending` | `_originators`, and the queue object that `_pending` holds for a destination as it is spelled |
| `queue` | the contents of queue objects; an object is named after the command whose Add made it, because it outlives its entry in `_pending` |
| `routes` | the root routes of the two channels, SignalR first |
| `stage`, `held` | a thread in SendClientCommand and Add, and the queue it got from GetOrAdd |
| `flush`, `key`, `taken`, `drained` | a thread in FlushCommands, or sending what it returned |
| `sent`, `heard`, `replied`, `raced`, `joined`, `announced` | history |

Every call of a concurrent dictionary or queue is a step. FlushCommands is called
by Add, by the registration of a route on the SignalR hub, and by a worker's
status poll; the Redis hub registers routes and flushes nothing. `Matches` is
`IsFor`: a route matches a destination that contains its name, and every route
matches an empty one.

A route has spellings (`Names`). A hub stores `Root[n]`, the AsRootRoute of the name
n that a worker registers with, and the SignalR hub flushes n itself; a command
waits under its destination as it is spelled, or under `Blank` when it has none,
and FlushCommands returns nothing for `Blank`. A `Serialise` that throws in the
middle of a flush, and loses the rest of it, is not modelled, and neither is the
Redis hub that forgets an originator without an echo to itself (RedisEventHub.cs:270).

### RedisRoutes

| Variable | Code |
|---|---|
| `used`, `up`, `stopping` | instances of the worker; one that is disposed announces its removal before its timer stops |
| `beats`, `removals` | events on the hub's two subscriptions, each with a scheduler of its own |
| `last`, `routes` | `_lastHeartbeat` (none, fresh or stale) and `_routes` (a client id) for the one route |
| `beatAt`, `beatOf`, `remover` | the three handlers: heartbeat, removal, sweep |
| `cmd`, `cmdClient`, `cmdRoute` | a command from Add's snapshot of the routes through SendToClientAsync to ShouldDispatch |
| `crossed`, `moved`, `reader` | history: an entry went while a heartbeat was handled; the route changed while a command was sent; the instance that ignored it |

The envelope carries the route as the hub stores it, in lower case and without
spaces; ShouldDispatch compares it with the instance's own spelling ignoring case
only. `Plain` are the instances for which the two agree. The others take a command
only by the client id (`IdOf`, a GUID after the host's name, cut to 24 characters: any
assignment, and that of other routes' workers is taken to be different).

### AiBubble

| Variable | Code |
|---|---|
| `selected`, `modelOf` | `selectedEngineId`, `selectedModelByEngine` |
| `listing`, `offered` | `modelsByEngine`: how far an entry is, and its `list` |
| `conversation`, `sending` | the fields of those names |
| `ask` | a call of sendMessage: whether its context was asked for, posted or answered |
| `forced`, `cleared` | history: what the operator did in between |

A step is one callback of the page. sendMessage is two: up to the request for its
context, and from there to the POST, or to the error handler if the context rejects.
What the server may answer is a constant, and says little: a list of models that may
be empty, a default that may be missing or not in the list, engines that may be none.

## 3. Runs

| Run | Instance | Shows |
|---|---|---|
| `pull_fanout` | 2 loops of one name, on {a} and {a, b}; 3 items, 2 of key a | all of PullFanout's invariants, the refinement of WorkDistribution, and that each of the three items is taken |
| `pull_fanout_dispose` | the same | a violation: see 6 |
| `compete_fanout` | 2 workers, 3 items, one item only for worker n, DoWork of w1 may fail | CompeteFanout's invariants, the refinement of WorkDistribution, and that the top of Overflow is popped unless it is covered |
| `compete_fanout_double_pick` | the same, nothing fails | a violation: see 6 |
| `compete_fanout_retry` | the same | a violation: see 6 |
| `redis_stream` | 2 consumers of a group with one id, 2 entries, batches of 2, entries of others, of its own and broken ones | order, at most once, nothing forgotten, the refinement of GroupDelivery, and that every entry is settled |
| `redis_stream_unheard` | the same, each with an id of its own | a violation: see 6 |
| `task_pool` | 2 schedulers with limits 2 and 1, 5 tasks of which one waits for a task of either scheduler and one runs a task that was never queued, 3 threads | how far the limits go, that lists are served, that a task is in one place, that tasks end |
| `cmd_routing` | 2 commands for W1, one without a destination; a SignalR worker that registers and polls as W1 and is stored as w1, and a Redis worker w10 | the invariants of CmdRouting, the refinement of Mailboxes, and that polled commands go out |
| `cmd_routing_orphan` | the same | a violation: see 6 |
| `redis_routes` | 2 instances of the worker, the first with a space in its spelling of the route, 1 restart of the hub, 2 queued events | the invariants of RedisRoutes, self-healing and eviction |
| `ai_bubble` | 2 engines, 6 possible answers between them (a default in the list, outside of it, or missing; an empty list), a remembered model that is gone, 3 messages | the invariants of AiBubble, and that Send comes back |

**Bounds.** PullFanout: two loops that share a key, one of which waits on a
second key, are the least that make a wait be won late, given back, and raced
for; with two items on the shared key and one on the other, both loops can hold
permits of it and a loop can hold permits of both. Both loops have one name, so
that registrations and disposals overlap in every order. The proofs cover every
larger instance. CompeteFanout: two workers and three items are the least for
one item on each worker and one on Overflow, so that RegisterWorker, Fanout and
a draining dispatch meet there; a worker that does not match w2 makes the item
peeked at differ from the item popped; the item that may fail is w1, which can
be first or popped in any position. Nothing else is bounded: items are given to
Fanout once, and every connection is registered and disposed at most once. So neither
run of a fanout has arrivals without end: that WhenAny prefers its first key while
items keep coming, or that an item stays at the bottom of Overflow while others are
pushed, cannot happen there.
RedisStream (317,668 states): `MaxEntries` = 2 with batches of 2, so that a batch
holds one entry or two and the second is handled after a crash, a failure or a
disposal at the first; two consumers are two pods, or a process and its restart.
TaskPool (93,243): a limit of 2 with waits for either scheduler, so that a thread
inlines while another blocks, next to a limit of 1, which is exceeded in the run;
three threads are as many as the two limits allow delegates. CmdRouting (239,244):
two commands for one route are the least for an order and for an Add that races a
flush; the third goes to whichever route is found first, or waits for ever. Each command is added once; `Paths` = 2 is the
code's number of paths for a result. RedisRoutes (1,230,665): one route suffices, since the
maps keep routes apart; `MaxLives` = 2 gives a worker and its successor,
`MaxQueue` = 2 a heartbeat that waits behind another, `MaxRestarts` = 1 a hub that forgets
everything. AiBubble (194,565): three messages, so that one overlaps another and one
follows; the answers are the cases that ModelsArrive tells apart.
PullFanout, CompeteFanout, RedisStream, TaskPool and RedisRoutes may stop when everything is
done or bounded, so deadlock is not checked there; it is for CmdRouting and
AiBubble, where polls and the choice of an engine go on for ever.

**Fairness.** PullFanout: a call of Fanout that has enqueued releases, every read
loop goes on (Task.Run on the thread pool), and every DoWork ends; that workers
register, or that items are fanned out, is not assumed. CompeteFanout: every
dispatch goes on (DoWork ends, and its callback pops). A DoWork that never ends
holds up both fanouts, and nothing in the code bounds it. RedisStream: a poll
loop goes on until it is cancelled (it catches everything that its calls throw);
a read is strongly fair, because the loop reconnects and tries again, so a
connection is assumed not to fail at every read for ever. TaskPool: the pool starts what it
was given and its threads go on. CmdRouting: threads in Add and FlushCommands go
on, and a worker that polls keeps polling (a timer); registrations, new commands
and results are not assumed. RedisRoutes: the heartbeat timer of a worker that
runs fires, a Dispose ends, handlers handle what they are given, and time
passes; starts, deaths, removals and restarts are not assumed. AiBubble: every
request is answered or fails (`$http` has both callbacks); one that hangs without a
timeout is outside of it.

### The properties

* `PermitConservation`: for every key, permits in the semaphore, permits in the
  hands of loops and items about to be released add up to the length of the
  queue. It is what the compensation code is for.
* `WinnerFindsWork`: a loop that won a permit finds an item.
* `UnsharedNameDispose`: for a name that one registration has, its loop is
  cancelled exactly when it was disposed.
* `EveryItemTaken`: an item leaves its queue as long as a live loop subscribes to
  its key, although loops also take permits that they do not use.
* `ReservedWhileActive`: a connection that only Fanout gave work to, and on which
  nothing failed, has one dispatch at most and is reserved while it has one.
* `NoLeakedReservation`: in every case, a reserved connection has a dispatch that
  is still to clear the flag, so no worker is shut out for good.
* `FirstItemMatches`: a dispatch never starts with an item whose tags the worker
  does not match.
* `PoppedUnlessCovered`: while a dispatch goes on, the item on top of Overflow is
  popped, or another one is pushed above it, unless a dispatch gives up after a
  second failure. Overflow is a stack: an item below others starves while items
  keep being pushed, and one that is pushed just after the last dispatch found
  Overflow empty waits for the next event. Neither is promised anywhere.
* `DistributesWork`: each fanout implements `WorkDistribution`. For PullFanout a
  holder is a read loop, holds one item, and must subscribe to its key. For
  CompeteFanout a holder is a connection, which may hold several items of any
  tags (see `ReservedWhileActive` for when it holds one), and only the first end
  of an item counts: the second run of an item by a dispatch that starts over is
  outside of what the abstraction sees.

* `DeliveredOnceInOrder`, `NothingForgotten` (RedisStream): over crashes, lost
  replies, failed acknowledgements and two consumers, no entry is delivered twice
  or out of order, and none leaves the pending list but for a reason that the
  property names. One of the reasons is that its publisher and its reader are two
  instances with one id (see 6).
* `ImplementsGroupDelivery`: RedisStream implements `GroupDelivery`. An entry is
  taken while a live loop has it and has not emitted it, delivered when it is in
  an inbox, and abandoned otherwise: entries that a crash left pending are never
  read again, because the loop reads new entries only.
* `EveryEntrySettled`: as long as one consumer goes on running, no entry waits for
  ever. An entry that a crash left pending counts as settled, although the class
  comment (line 20) says that messages survive a consumer's restart: they do, in
  the pending list, and nobody reads them.
* `ConcurrencyLimited` (TaskPool): at most `Limit[s]` tasks of a scheduler execute,
  and as many more as there are threads of schedulers whose tasks wait for, or run,
  tasks of s, directly or by way of others. Where there are none this is the limit;
  where there are, the limit is exceeded: the thread-static flag does not say whose
  delegate a thread runs.
* `ListIsServed`, `OnePlace`: a non-empty list has a delegate, and a task is taken
  off it once, by a delegate, an inlining or a cancellation.
* `EveryTaskEnds`: what was started ends, unless a thread waits for a task that
  was not started yet. Such a wait deadlocks a limit of one, and the property does
  not cover it.
* `OnePlace` (CmdRouting): a command whose Add has ended is in exactly one place: on a queue, in the
  hands of a flush, or sent.
* `FlushedWhenAnnounced`: a command that no registration or flush of its destination
  overtook while it was added is on the queue `_pending` has under its destination,
  as that is spelled, or is being drained; and once the SignalR hub was given a route in
  that spelling and has flushed it, the command no longer waits. See 6 for the race
  and for other spellings.
* `ImplementsMailboxes`: CmdRouting implements `Mailboxes`. A box is a queue object:
  what its flush has drained and not sent yet, followed by what is still on it. So
  commands on one queue go out first in, first out, although a flush empties a queue
  step by step while an Add may still be enqueuing on it. A command that is added
  may overtake what waits for its route; the code sends it first.
* `RepliedOnce`: a result heard on both paths goes to its originator once.
* `PolledCommandsGoOut`: a command that waits for a polling worker is sent, if the
  worker's status spells the route as the command does.
* `WatchedUnlessCrossed` (RedisRoutes): a route has an entry that the sweep finds,
  or is being removed, unless its entry went while a heartbeat was handled.
* `IgnoredOnlyIfMoved`: an instance whose spelling of the route is the hub's but for
  the case ignores a command only if the route changed while the command was sent.
  See 6 for the others.
* `SelfHealing`, `EvictedUnlessCrossed`: the route leads to a worker that stays
  up again and again (a sweep or a late removal may take it away in between), and a
  worker that is gone is evicted.
* `SpinnerMeansWaiting`, `OneAtATime`, `AnswerFollowsQuestion`, `SendComesBack`
  (AiBubble): the conversation and the Send button under overlapping and late
  answers. Overlapping takes a Send while sending (`ForceSend`), which the template
  hardly allows (aiBubble.html:195-198 disables the button). The answer to a message that
  was under way when the conversation was cleared stands there without its question:
  `AnswerFollowsQuestion` exempts it.
* `RequestNamesOfferedModel`: a request to an engine whose list is there names a model
  of that list, or none if the list is empty, whatever was selected and whatever lists
  arrived while the context was awaited. Of an engine whose list failed it says nothing:
  a model that was remembered is posted unchecked.

## 4. Proofs

`PullFanoutProofs` holds for every set of items, keys, names and registrations
(items and registrations finite), every `KeyOf`, and every `Subscribed` that is
not empty; that is `PullFanoutAssumption`.

* `TypeCorrect`, one lemma per group of actions.
* `PermitsConserved`. `PermitConservation` is not inductive: that a given-back
  permit is one the loop holds depends on where the loop is. `TakeInv` says so
  (a collecting loop holds the winner's permit and at most those of siblings it
  has yet to await; outside a take it holds none), and `PermitInv` joins the two
  with the types. Each action changes one count by one; the lemmas
  `Conservation...` say which.
* `WinnerAlwaysFindsWork` follows: a loop that holds a permit of k makes the sum
  positive, so the queue of k is not empty.
* `UnsharedDisposeIsOwn`, by an invariant on the slots of `_workerCts`: a slot
  holds a started registration of its own name, and a registration that no other
  one shares its name with is in its slot from start to Dispose.
* `ImplementsDistribution`: `Spec => DistributesWork`. `PlaceInv` says where an
  item is: in the queue of its key once, in the hands of one loop that
  subscribes to the key, or settled. With it every step maps to a step of
  `WorkDistribution` or to none: FanoutEnqueue to Submit, TakeItem to Take, the
  end of RunDispatch to Settle, the cancellation to Stop.

`CompeteFanoutProofs` holds for every set of items, names and connections, finite
or not, every `NameOf` and `Eligible`, and any items that may fail
(`CompeteFanoutAssumption`).

* The inductive invariant `IInv` joins the types with where items are
  (`OverflowInv`, `PoppedInv`: an item on Overflow, or popped by RegisterWorker,
  waits in that one place and was never dispatched) and with what a dispatch has
  been through (`DispatchOf`: while it goes on, every one of its subscriptions
  that ended has failed, and it ends at the second failure). Without the first,
  a dispatch could start twice; without the second, the number of Finally actions
  to come has no bound. It was checked with TLC before it was proved. `TypeStep`,
  `ItemStep` and `DispatchStep` prove its parts, by groups of actions.
* `TypeCorrect` and `NoReservationLeaks` follow, the latter with `LeakStep`: a
  step that takes a dispatch off a connection puts a Finally in its place, and a
  Finally clears the flag of its own connection.
* `FirstItemAlwaysMatches`: `PoppedInv` keeps that the item RegisterWorker is
  about to start matches its worker, although `busy` may have changed since.
* `FanoutNeverDoublePicks` is `ReservedWhileActive`. It adds `MarkInv`: the lock
  lets one call mark at a time, and the connection it is about to mark is not
  reserved, unless it is in trouble; and `TroubleLasts`: a connection that
  RegisterWorker drained Overflow to, or whose DoWork failed, stays so.

* `ImplementsDistribution`: `Spec => DistributesWork`. `PlaceInv` adds to `IInv`
  where every item is: an item popped by a dispatch is nowhere else, what has not
  ended is somewhere, and a dispatch that is past its first item has ended it (so
  that its second subscription, which runs that item again, starts nothing that
  WorkDistribution would see). `StageIs` derives the stage and the holder of each
  item, and `MapMove` the abstract step from the one item a step moves.

`RedisStreamProofs` holds for every set of consumers, every assignment of ids to them,
every mail, every number of entries and every batch size.

* `TypeCorrect`, `NothingIsForgotten` and `OnceInOrder` come from one inductive
  invariant. Its core: the batch and the inbox of a consumer hold only entries below
  the cursor that `reader` says are its own, the inbox is sorted and ends where the
  batch stands, and an entry about to be acknowledged was dealt with. Without
  `reader` nothing keeps a second consumer from delivering what the first one has.
* `Implements`: `Spec => ImplementsGroupDelivery`, step by step: a read is a
  HandOut of an interval, an emission a Deliver, and a crash, a throw or a skip a GiveUp.

`TaskPoolProofs` holds for every set of schedulers and tasks, all limits, any
waits and synchronous runs, and every finite set of threads.

* `TypeCorrect`, `ListServed` (with the count of delegates as the pool's
  notified and running ones), and `TaskInOnePlace`, by an invariant that ties a
  task's status to the list or the one stack it is on.
* `LimitKept`: a thread that executes a task of s runs a delegate of some scheduler
  of H, if no task of another scheduler waits for or runs one of H. Those that run a
  delegate of s are at most `Limit[s]`; the others are the threads the property adds.
  The cardinality lemmas carry the count over.

`RedisRoutesProofs` holds for every bound, every assignment of client ids, and any
instances whose spelling is not the hub's.

* `TypeCorrect`; `Watched`, because while a heartbeat is handled there is an entry
  or it was crossed; `IgnoredOnlyWhenMoved`, because unless the route moved, a
  command that was picked has the client id of the route, and one on the stream
  names the route, which an instance of `Plain` takes for its own.

`AiBubbleProofs` holds for every set of engines and models, whatever the server may
answer, and every number of messages.

* `OfferedModelNamed`: the model that is selected for an engine whose list is there is
  in the list, or there is none and the list is empty. `NoOverlap`: while
  nothing was forced, `sending` is true exactly if one message is under way.
* `NothingLeftWaiting` and `AnswersBelowQuestions` (that is `SpinnerMeansWaiting` and
  `AnswerFollowsQuestion`), with `TypeCorrect`, come from `ConversationInvariant`. It adds
  `AskedInv`: the question of a message that is under way stands in the conversation
  unless it was cleared; without it an answer could come in with nothing above it.
* They need to know what `RemoveThinking` leaves: no spinner, every other entry,
  in its order (`RemoveThinkingKeeps`). The function is recursive, and the library's
  induction theorems cannot be used on an operator. So the set of the lengths up to which
  the claim holds is shown to be `Nat`: a least number outside of it exists, since < is well
  founded (`Induction`), and that the function exists at all is shown the same
  way (`LeftExists`).

`CmdRoutingProofs` holds for every set of commands, names and root routes, every
matching, and any names registered on either channel or polled.

* `IInv` joins the types with: a command is on a queue, drained or sent only if
  its Add is over (`DoneInv`, `AddInv`); an originator stays from before Add to the
  first result (`ReplyInv`); queues are named after a command that is past GetOrAdd,
  hold commands of one destination, and are in `_pending` under that destination
  (`QueueInv`); and a command that was not overtaken enqueues on the queue that
  `_pending` has (`RacedInv`) and does not wait under a name that was announced and
  flushed (`CaughtInv`).
* `TypeCorrect`, `ResultGivenOnce` and `AnnouncedIsFlushed` follow from it.

`CmdRoutingOrderProofs` adds, under the same assumptions, where commands are and in
which order.

* `PlaceInv`: no sequence holds a command twice (`OnceInv`), no two places hold the
  same one (`Apart`), and one whose Add has ended is somewhere (`Somewhere`). With `DoneInv`
  this is `NeitherLostNorDoubled`, that is `OnePlace`; the lemmas on `Found` turn it into
  the cardinality.
* `SentInOrder`, that is `FlushedInOrder`, is not inductive: it speaks of the two ends
  only. `InOrder` says where the later command d is while the earlier one c is
  on the queue (behind it), in a flush (behind it, or still on the queue of that flush)
  or sent. That rests on `TakerInv` (a queue is taken by one flush and never again in
  `_pending`, since queues are named after commands that are past GetOrAdd) and
  `JoinedInv` (what a flush holds was put on the queue it took).
* The steps that move a command are put in terms of `Pushed` and `Popped`, which say what
  Append and Tail do to membership, to repetition and to order; the case analysis needs nothing else about
  sequences.

* `Implements`: `Spec => ImplementsMailboxes`. `TakerInv` makes the flush that took a
  queue unique, so that a box is well defined (`BoxTaken`, `BoxFree`), and `DrainedInv`
  adds that a flush holds commands that go where the maker of its queue goes. With it
  Dispatch maps to SendNow, Enqueue to Put, FlushSend to SendFirst,
  ResolveAndForgetOriginator to Reply or, when nobody is left to reply to, to none;
  GetOrAdd, the steps of a flush that take and drain a queue, and the rest
  leave the boxes as they are (one lemma `Map...` per kind of step of Mailboxes).

Model-checked only: liveness under fairness, which is out of the prover's reach.
These are `EveryItemTaken`, `PoppedUnlessCovered`, `EveryEntrySettled`, `EveryTaskEnds`,
`PolledCommandsGoOut`, `SelfHealing`, `EvictedUnlessCrossed` and `SendComesBack`.
Every other property of the passing runs is proved. `FlushedInOrder` is proved and not
run: the refinement says it and more.

No module declares a RECURSIVE operator. `RemoveThinking` is the one recursive function
that a proof looks into.

## 5. Plan

Done: the fanouts, the stream, the task pool, command routing, the Redis routes,
the AI bubble. Next, in order, each with its runs and then its proofs:

1. `ElasticQueue`, which composes CompeteFanout (EXTENDS) with the handlers of
   discovery, disconnection and kill: a worker in the pool can be disconnected.
2. The two hubs' PublishFromClient, composed with CmdRouting: the originator is
   tracked after the command was published.
3. Reliability (circuit breaker, retry schedule) and Collections (RetryBucket,
   ExpiringCache).
4. `RxnManager` and the backing channels; `ReactorManager`.
5. The monitor half of the portal's AI bubble: pushes against lists.
6. FileSystemAppUpdatesRepo's collection against uploads; the scheduler's groups.

## 6. Where the code and its comments part

* `PullFanout.cs:76-77` says that the Dispose of a registration "cleanly stops its
  read loop without affecting other workers". The token source is kept by name:
  after a worker registered again, the Dispose of its first registration cancels
  the second one's loop, and the first one's runs on (`pull_fanout_dispose`).
* `CompeteFanout.cs:25-28` says that the lock serialises the pick in Fanout and
  RegisterWorker. RegisterWorker does not take it, nor look at `IsReserved`
  (`compete_fanout_double_pick`).
* `CompeteFanout.cs:151-154` says that the worker becomes pickable "exactly once
  its prior dispatch is done". On an error it becomes pickable while the second
  subscription made by `Until` runs (`compete_fanout_retry`).
* `RedisStreamBackingChannel.cs:23` says "messages only removed after processing".
  The poll loop starts in the constructor (115-119), before Setup can be called,
  and acknowledges what it emitted to nobody (257) (`redis_stream_unheard`).
* `RoutableAppCmdManager.cs:126-128` says that a registration or heartbeat picks up a
  queued command. Add gets the queue and enqueues in two steps (130-131); a flush
  that removes and drains the queue in between (89-92) leaves the command on a
  queue that nothing leads to (`cmd_routing_orphan`).

Seen while modelling, and not a run of their own: here the models have what the code
does, and the properties say what is left of the promise.

* The same comment, `RoutableAppCmdManager.cs:126-128`, without a race. EventsHub.cs:476-482
  stores the root route of the name it is given and flushes the name itself, while
  the command waits under the spelling of its destination (129-130): a command for
  `notenant\w1` stays when `NoTenant\W1` registers. FlushCommands returns nothing for an empty
  name (88), so a command without a destination that found no route is never sent.
* `RedisRoutedCmdConsumer.cs:98-106` says that a worker that comes back takes the commands
  of its predecessor by the route. The hub puts the route on the envelope in lower case
  and without spaces (RedisEventHub.cs:218, IServiceCommand.cs:60-91), and the worker
  compares it with its own spelling ignoring case only (166-170). With a space in the system's
  name it ignores them.
* `RedisStreamBackingChannel.cs:76` cuts the machine's name and the GUID to 20
  characters. With names of 19 characters or more, or that agree in their first 20,
  instances have one id, and each skips and acknowledges the other's events (233).
* `TaskPoolSchedulerWithLimiter.cs` "ensures a maximum concurrency level". A task that
  waits for, or runs, a task of another scheduler runs it on a thread that does not
  count against that one's limit (126-136).
* `aiBubbleService.js:300-301` calls the tool toggle one of each engine. sendMessage reads it
  before it awaits the context (302) and the engine after it (313): the request of
  one engine can carry the setting of the other. The setting is not modelled.

## 7. Not modelled

What a worker computes, publishes or logs; the creation of queues on demand;
disposal of semaphores (nothing does it); the counter of connected workers;
transports and I/O. Of the hubs: BroadcastAsync, the lifecycle events, status
pushes and the tracking half of PublishFromClient. Of the stream:
ReconnectIfDead beyond its effect. Of the portal: the monitor, workspace and index tabs of the
bubble, the tool settings (which only travel in the body of a request), the other
pages, and the text of messages.

Most of the repository's JavaScript is third-party code (kendo, jQuery, SignalR,
Angular and their documentation stubs) or views that bind fields to markup. Such
code is not modelled, and the modelled share of the JavaScript lines stays small
for that reason; the logic of the system is in its C# services.

Components without a module are listed in `PROJECT.json` with the reason.
