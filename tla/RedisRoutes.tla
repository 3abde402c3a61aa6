------------------------------- MODULE RedisRoutes -------------------------------
(***************************************************************************)
(* RedisEventHub and RedisRoutedCmdConsumer: how the hub learns which      *)
(* client serves ONE route, and whom a command for the route reaches, while *)
(* the worker behind the route stops, dies and comes back as another       *)
(* client, and the hub's own process restarts.                             *)
(*                                                                         *)
(* The hub handles heartbeats, removals and its sweep on three schedulers: *)
(* CreateSubscription gives every subscription an ObserveOn of its own.    *)
(* Each of the three handles one thing at a time, and their accesses to    *)
(* _lastHeartbeat and _routes interleave.  Of a heartbeat's time the model *)
(* keeps whether it is older than HeartbeatTimeout.  The streams that      *)
(* carry the events are those of RedisStream.                              *)
(*                                                                         *)
(* The hub knows the route by its root, which AsRootRoute puts in lower    *)
(* case and takes the spaces out of; a worker compares an envelope with    *)
(* its own spelling of the route, and overlooks the case only.             *)
(***************************************************************************)
EXTENDS Naturals, Sequences

CONSTANTS
  IdOf,         \* IdOf[k]: the client id of instance k of the worker
  Plain,        \* instances that spell the route like its root but for the case
  MaxLives,     \* bound: instances of the worker, over all its restarts
  MaxRestarts,  \* bound: restarts of the hub's process
  MaxQueue      \* bound: events on a subscription that are not handled yet

ASSUME BoundsAssumption ==
  MaxLives \in Nat /\ MaxRestarts \in Nat /\ MaxQueue \in Nat \ {0}

None == 0
Lives == 1..MaxLives

\* A client id is cut to 24 characters of machine name and GUID: a worker that
\* comes back may have the one it had.  Those of other routes are different.
ASSUME IdAssumption == IdOf \in [Lives -> Nat \ {None}] /\ Plain \subseteq Lives

Ids == {IdOf[k] : k \in Lives}
Removers == {"removal", "sweep"}

VARIABLES
  used,         \* instances of the worker that were ever started
  up,           \* the instance that runs
  stopping,     \* instances that announced their removal and still have a timer
  beats,        \* heartbeats on their subscription, by client id
  removals,     \* WorkerRouteRemoved events on theirs
  last,         \* _lastHeartbeat of the route: none, fresh or stale
  routes,       \* _routes of the route: a client id, or None
  beatAt,       \* the heartbeat handler: idle, look or write
  beatOf,       \* the client id in the heartbeat it handles
  remover,      \* the removal handler and the sweep: idle, forget, look, remove
  crossed,      \* _lastHeartbeat went while a heartbeat was being handled
  restarts,     \* restarts of the hub's process
  cmd,          \* the last command: none, picked, stream or ignored
  cmdClient,    \* the client id that Add found for it
  cmdRoute,     \* its envelope names the route
  reader,       \* the instance that ignored it
  moved         \* the route changed between the two look-ups of the sender

worker == <<used, up, stopping>>
events == <<beats, removals>>
handlers == <<beatAt, beatOf, remover>>
command == <<cmd, cmdClient, cmdRoute, reader>>
vars == <<worker, events, last, routes, handlers, crossed, restarts, command, moved>>

Init ==
  /\ used = 0 /\ up = None /\ stopping = {}
  /\ beats = <<>> /\ removals = 0
  /\ last = "none" /\ routes = None
  /\ beatAt = "idle" /\ beatOf = None
  /\ remover = [w \in Removers |-> "idle"]
  /\ crossed = FALSE
  /\ restarts = 0
  /\ cmd = "none" /\ cmdClient = None /\ cmdRoute = FALSE
  /\ reader = None
  /\ moved = FALSE

-------------------------------------------------------------------------------
(* The worker: RedisRoutedCmdConsumer. *)

\* A process starts under the route.
Start ==
  /\ up = None
  /\ used < MaxLives
  /\ used' = used + 1
  /\ up' = used + 1
  /\ UNCHANGED <<stopping, events, last, routes, handlers, crossed, restarts, command, moved>>

\* The heartbeat timer, which a Dispose stops only after its announcement.
Beat(k) ==
  /\ k = up \/ k \in stopping
  /\ Len(beats) < MaxQueue
  /\ beats' = Append(beats, IdOf[k])
  /\ UNCHANGED <<worker, removals, last, routes, handlers, crossed, restarts, command, moved>>

\* Dispose: WorkerRouteRemoved is published, or its publication fails.
Stop ==
  /\ up # None
  /\ up' = None
  /\ stopping' = stopping \cup {up}
  /\ removals' \in {removals, removals + 1}
  /\ removals' <= MaxQueue
  /\ UNCHANGED <<used, beats, last, routes, handlers, crossed, restarts, command, moved>>

\* Dispose: the timer and the stream are disposed.
Stopped(k) ==
  /\ k \in stopping
  /\ stopping' = stopping \ {k}
  /\ UNCHANGED <<used, up, events, last, routes, handlers, crossed, restarts, command, moved>>

\* The process dies, without a word.
Die ==
  /\ up # None
  /\ up' = None
  /\ UNCHANGED <<used, stopping, events, last, routes, handlers, crossed, restarts, command, moved>>

-------------------------------------------------------------------------------
(* The hub handles a heartbeat. *)

\* Mutant: the time of the heartbeat is not kept.
BeatTouchNothing ==
  /\ beatAt = "idle"
  /\ beats # <<>>
  /\ beatAt' = "look"
  /\ beatOf' = Head(beats)
  /\ beats' = Tail(beats)
  /\ crossed' = FALSE
  /\ UNCHANGED <<worker, removals, last, routes, remover, restarts, command, moved>>

\* _lastHeartbeat of the route is now.
BeatTouch ==
  /\ beatAt = "idle"
  /\ beats # <<>>
  /\ last' = "fresh"
  /\ beatAt' = "look"
  /\ beatOf' = Head(beats)
  /\ beats' = Tail(beats)
  /\ crossed' = FALSE
  /\ UNCHANGED <<worker, removals, routes, remover, restarts, command, moved>>

\* Mutant: a route that is known is not looked at any further.
BeatLookKnown ==
  /\ beatAt = "look"
  /\ beatAt' = IF routes = None THEN "write" ELSE "idle"
  /\ beatOf' = IF routes = None THEN beatOf ELSE None
  /\ UNCHANGED <<worker, events, last, routes, remover, crossed, restarts, command, moved>>

\* Nothing to write if the route is known under this very client id.
BeatLook ==
  /\ beatAt = "look"
  /\ beatAt' = IF routes = beatOf THEN "idle" ELSE "write"
  /\ beatOf' = IF routes = beatOf THEN None ELSE beatOf
  /\ UNCHANGED <<worker, events, last, routes, remover, crossed, restarts, command, moved>>

\* Whoever is between the two look-ups of a send sees the route change.
Moves(client) == moved' = (moved \/ (cmd = "picked" /\ client # cmdClient))

\* RegisterRoute of an unknown route, or the new client id of a known one.
BeatWrite ==
  /\ beatAt = "write"
  /\ routes' = beatOf
  /\ Moves(beatOf)
  /\ beatAt' = "idle"
  /\ beatOf' = None
  /\ UNCHANGED <<worker, events, last, remover, crossed, restarts, command>>

-------------------------------------------------------------------------------
(* The hub handles a removal, and sweeps. *)

Go(w, step) == remover' = [remover EXCEPT ![w] = step]

RemovalArrives ==
  /\ remover["removal"] = "idle"
  /\ removals > 0
  /\ removals' = removals - 1
  /\ Go("removal", "forget")
  /\ UNCHANGED <<worker, beats, last, routes, beatAt, beatOf, crossed, restarts, command, moved>>

\* The sweep lists the entries that are stale.
SweepList ==
  /\ remover["sweep"] = "idle"
  /\ last = "stale"
  /\ Go("sweep", "forget")
  /\ UNCHANGED <<worker, events, last, routes, beatAt, beatOf, crossed, restarts, command, moved>>

\* TryRemove of the entry, stale or fresh by now; the sweep skips the route if
\* there is none, a removal goes on to it anyway.
Forget(w) ==
  /\ remover[w] = "forget"
  /\ Go(w, IF w = "sweep" /\ last = "none" THEN "idle" ELSE "look")
  /\ last' = "none"
  /\ crossed' = (crossed \/ (beatAt # "idle" /\ last # "none"))
  /\ UNCHANGED <<worker, events, routes, beatAt, beatOf, restarts, command, moved>>

\* RemoveRoute: TryGetValue, and Remove if the route was there.
RemoveLook(w) ==
  /\ remover[w] = "look"
  /\ Go(w, IF routes = None THEN "idle" ELSE "remove")
  /\ UNCHANGED <<worker, events, last, routes, beatAt, beatOf, crossed, restarts, command, moved>>

Remove(w) ==
  /\ remover[w] = "remove"
  /\ routes' = None
  /\ Moves(None)
  /\ Go(w, "idle")
  /\ UNCHANGED <<worker, events, last, beatAt, beatOf, crossed, restarts, command>>

\* More than HeartbeatTimeout passes without a heartbeat being handled.
Age ==
  /\ last = "fresh"
  /\ last' = "stale"
  /\ UNCHANGED <<worker, events, routes, handlers, crossed, restarts, command, moved>>

\* The hub's process restarts: all of this was in its memory.
Restart ==
  /\ restarts < MaxRestarts
  /\ restarts' = restarts + 1
  /\ beats' = <<>> /\ removals' = 0
  /\ last' = "none" /\ routes' = None
  /\ beatAt' = "idle" /\ beatOf' = None
  /\ remover' = [w \in Removers |-> "idle"]
  /\ crossed' = FALSE
  /\ cmd' = IF cmd = "picked" THEN "none" ELSE cmd
  /\ cmdClient' = IF cmd = "picked" THEN None ELSE cmdClient
  /\ UNCHANGED <<worker, cmdRoute, reader, moved>>

-------------------------------------------------------------------------------
(* A command. *)

\* Mutant: a command is sent although nobody has the route.
PickAnyway ==
  /\ cmd \in {"none", "ignored"}
  /\ cmd' = "picked"
  /\ cmdClient' = routes
  /\ cmdRoute' = FALSE
  /\ reader' = None
  /\ moved' = FALSE
  /\ UNCHANGED <<worker, events, last, routes, handlers, crossed, restarts>>

\* Add finds the route in a snapshot of Routes and has its client id.
Pick ==
  /\ cmd \in {"none", "ignored"}
  /\ routes # None
  /\ cmd' = "picked"
  /\ cmdClient' = routes
  /\ cmdRoute' = FALSE
  /\ reader' = None
  /\ moved' = FALSE
  /\ UNCHANGED <<worker, events, last, routes, handlers, crossed, restarts>>

\* SendToClientAsync looks the route up again by the client id, finds it or
\* not, and publishes the envelope.
Send ==
  /\ cmd = "picked"
  /\ cmd' = "stream"
  /\ cmdRoute' = (routes = cmdClient)
  /\ UNCHANGED <<worker, events, last, routes, handlers, crossed, restarts, cmdClient, reader, moved>>

\* Mutant: an envelope is for the client it names and nobody else.
ClientIdMatches(k) == cmdClient = IdOf[k]

\* ShouldDispatch: the root route on the envelope is how the instance spells
\* the route, but for the case, or else the client id is its own.
ShouldDispatch(k) == (cmdRoute /\ k \in Plain) \/ cmdClient = IdOf[k]

\* An instance reads it from the route's consumer group: it dispatches it, and
\* there is none any more, or it ignores it.
Consume(k) ==
  /\ cmd = "stream"
  /\ k = up \/ k \in stopping
  /\ cmd' = IF ShouldDispatch(k) THEN "none" ELSE "ignored"
  /\ cmdClient' = None
  /\ cmdRoute' = FALSE
  /\ reader' = IF ShouldDispatch(k) THEN None ELSE k
  /\ moved' = (moved /\ ~ShouldDispatch(k))
  /\ UNCHANGED <<worker, events, last, routes, handlers, crossed, restarts>>

-------------------------------------------------------------------------------

HandleBeat == BeatTouch \/ BeatLook \/ BeatWrite

HandleRemover(w) == Forget(w) \/ RemoveLook(w) \/ Remove(w)

Next ==
  \/ Start \/ Stop \/ Die
  \/ \E k \in Lives : Beat(k) \/ Stopped(k)
  \/ HandleBeat \/ RemovalArrives \/ SweepList
  \/ \E w \in Removers : HandleRemover(w)
  \/ Age \/ Restart
  \/ Pick \/ Send \/ \E k \in Lives : Consume(k)

\* Timers fire, time passes, and what was queued for a handler is handled.
Fairness ==
  /\ \A k \in Lives : WF_vars(k = up /\ Beat(k)) /\ WF_vars(Stopped(k))
  /\ WF_vars(HandleBeat) /\ WF_vars(RemovalArrives)
  /\ \A w \in Removers : WF_vars(HandleRemover(w))
  /\ WF_vars(Age) /\ WF_vars(SweepList)

Spec == Init /\ [][Next]_vars /\ Fairness

-------------------------------------------------------------------------------
(* Properties. *)

TypeOK ==
  /\ used \in 0..MaxLives
  /\ up \in 0..used
  /\ stopping \in SUBSET (1..used)
  /\ beats \in Seq(Ids)
  /\ removals \in 0..MaxQueue
  /\ last \in {"none", "fresh", "stale"}
  /\ routes \in Ids \cup {None}
  /\ beatAt \in {"idle", "look", "write"}
  /\ beatOf \in Ids \cup {None}
  /\ remover \in [Removers -> {"idle", "forget", "look", "remove"}]
  /\ crossed \in BOOLEAN
  /\ restarts \in 0..MaxRestarts
  /\ cmd \in {"none", "picked", "stream", "ignored"}
  /\ cmdClient \in Ids \cup {None}
  /\ cmdRoute \in BOOLEAN
  /\ reader \in 0..used
  /\ moved \in BOOLEAN
  /\ beatOf = None <=> beatAt = "idle"
  /\ cmdClient # None <=> cmd \in {"picked", "stream"}

Removing == \E w \in Removers : remover[w] \in {"look", "remove"}

\* "Evicted after a stale-route timeout": the sweep finds a route only by its
\* entry in _lastHeartbeat, so a route has one, or somebody is about to remove
\* it.  The one exception is a removal or an eviction that took the entry away
\* while a heartbeat was between writing it and registering the route.
WatchedUnlessCrossed ==
  routes # None => last # "none" \/ Removing \/ crossed

\* What the worker is given a route on its envelopes for, where the hub and the
\* worker spell it the same: a command that an instance ignores was sent while
\* the route was changing, and however often the worker died since, its
\* successor takes it.  An instance with a space in its spelling is exempt: it
\* matches by its client id alone, and ignores what was sent to a predecessor.
IgnoredOnlyIfMoved == cmd = "ignored" /\ reader \in Plain => moved

\* "Self-healing": a worker that goes on running is the one the route leads to,
\* again and again, whatever died, stopped or restarted before.
SelfHealing ==
  \A k \in Lives : <>[](up = k) => []<>(routes = IdOf[k])

\* A route whose worker is gone for good is evicted, unless a removal crossed
\* a heartbeat.
EvictedUnlessCrossed ==
  <>[](up = None) => <>[](routes = None \/ crossed)

================================================================================
