------------------------------- MODULE CmdRouting -------------------------------
(***************************************************************************)
(* RoutableAppCmdManager: who asked for a command, on which channel it     *)
(* goes out, and the commands that wait for a route that no channel has.   *)
(* Around it, what calls it: AppCommandService.SendClientCommand, the      *)
(* SignalR hub that registers a route and drains what waited for it, the   *)
(* Redis hub that registers one and drains nothing, the status requests    *)
(* with which a worker polls for its commands, and the two paths on which  *)
(* the result of a command comes back.                                     *)
(*                                                                         *)
(* Every call of a concurrent dictionary or queue is one step.  A pending  *)
(* queue outlives its entry in _pending for whoever still holds it, so     *)
(* queues are objects: each is named after the command whose Add made it.  *)
(*                                                                         *)
(* A hub stores the root route of the name a worker registers with, which  *)
(* AsRootRoute makes of its spelling.  A command waits under the spelling  *)
(* of its destination, and whoever flushes, flushes one spelling.          *)
(***************************************************************************)
EXTENDS Naturals, Sequences, FiniteSets

CONSTANTS
  Commands,     \* the commands that users send
  Names,        \* the spellings in which routes are named
  Blank,        \* the empty one
  Routes,       \* root routes, which are spellings too
  Root,         \* Root[n]: the root route of a name that is registered
  Asked,        \* those that come with a route to send the result to
  Dest,         \* Dest[c]: the destination of c, Blank when it has none
  Matches,      \* Matches[n]: the root routes that a command for n is for
  OnSignalR,    \* names that come and go on the SignalR hub
  OnRedis,      \* names that come and go on the Redis hub
  Polled,       \* names under which workers poll for commands
  None          \* no queue, no name

ASSUME DestAssumption == Dest \in [Commands -> Names] /\ Asked \subseteq Commands
ASSUME RoutesAssumption ==
  /\ Routes \subseteq Names \ {Blank} /\ Blank \in Names
  /\ OnSignalR \cup OnRedis \subseteq Names \ {Blank} /\ Polled \subseteq Names
  /\ \A n \in OnSignalR \cup OnRedis : Root[n] \in Routes
\* A destination contains its own root; an empty one is for every route.
ASSUME MatchesAssumption ==
  /\ Matches \in [Names -> SUBSET Routes]
  /\ \A n \in OnSignalR : Root[n] \in Matches[n]
  /\ Matches[Blank] = Routes
ASSUME NoneAssumption == None \notin Commands /\ None \notin Names

Paths == 2      \* paths on which a result is heard: the bus and the Redis hub
Channels == {"SignalR", "Redis"}

\* Who calls FlushCommands.
Adding == {"add"} \X Commands
Registering == {"register"} \X OnSignalR
Polling == {"poll"} \X Polled
Flushers == Adding \cup Registering \cup Polling

VARIABLES
  routes,       \* routes[ch]: the root routes that channel ch has
  originators,  \* commands with an entry in _originators
  pending,      \* pending[n]: the queue that _pending holds for the name n
  queue,        \* queue[q]: what is in the queue that q's Add made
  stage,        \* stage[c]: how far the thread that sends c is
  held,         \* held[c]: the queue that c's Add got and will enqueue to
  flush,        \* flush[f]: what f is doing in FlushCommands
  key,          \* key[f]: the name it flushes
  taken,        \* taken[f]: the queue it removed
  drained,      \* drained[f]: the commands it took out and has yet to send
  sent,         \* the commands given to a transport, in order
  heard,        \* heard[c]: how often the result of c was heard
  replied,      \* replied[c]: how often it was given to the originator
  raced,        \* commands overtaken by a registration or a flush while added
  joined,       \* joined[q]: all that was ever put on queue q
  announced     \* names under which SignalR was given a route that it still has

flushing == <<flush, key, taken, drained>>
replies == <<heard, replied>>
history == <<raced, joined, announced>>
vars == <<routes, originators, pending, queue, stage, held, flushing, sent, replies, history>>

Init ==
  /\ routes = [ch \in Channels |-> {}]
  /\ originators = {}
  /\ pending = [n \in Names |-> None]
  /\ queue = [q \in Commands |-> <<>>]
  /\ stage = [c \in Commands |-> "new"]
  /\ held = [c \in Commands |-> None]
  /\ flush = [f \in Flushers |-> "idle"]
  /\ key = [f \in Flushers |-> None]
  /\ taken = [f \in Flushers |-> None]
  /\ drained = [f \in Flushers |-> <<>>]
  /\ sent = <<>>
  /\ heard = [c \in Commands |-> 0]
  /\ replied = [c \in Commands |-> 0]
  /\ raced = {}
  /\ joined = [q \in Commands |-> <<>>]
  /\ announced = {}

-------------------------------------------------------------------------------
(* SendClientCommand and Add. *)

\* Mutant: the originator is not recorded before the command goes out.
TrackNothing(c) ==
  /\ stage[c] = "new"
  /\ stage' = [stage EXCEPT ![c] = "SignalR"]
  /\ UNCHANGED <<routes, originators, pending, queue, held, flushing, sent, replies, history>>

\* TrackOriginator if there is one, and only then Add.
Track(c) ==
  /\ stage[c] = "new"
  /\ originators' = originators \cup ({c} \cap Asked)
  /\ stage' = [stage EXCEPT ![c] = "SignalR"]
  /\ UNCHANGED <<routes, pending, queue, held, flushing, sent, replies, history>>

\* f enters FlushCommands(n).
StartFlush(f, n) ==
  /\ flush' = [flush EXCEPT ![f] = "remove"]
  /\ key' = [key EXCEPT ![f] = n]
  /\ UNCHANGED <<taken, drained>>

\* Mutant: no return after the command was sent.
DispatchGoesOn(c, ch, r) ==
  /\ stage[c] = ch
  /\ r \in routes[ch] \cap Matches[Dest[c]]
  /\ sent' = Append(sent, c)
  /\ stage' = [stage EXCEPT ![c] = "get"]
  /\ StartFlush(<<"add", c>>, r)
  /\ UNCHANGED <<routes, originators, pending, queue, held, replies, history>>

\* A route of the channel matches: c is sent to it, ahead of what waited.
Dispatch(c, ch, r) ==
  /\ stage[c] = ch
  /\ r \in routes[ch] \cap Matches[Dest[c]]
  /\ sent' = Append(sent, c)
  /\ stage' = [stage EXCEPT ![c] = "done"]
  /\ StartFlush(<<"add", c>>, r)
  /\ UNCHANGED <<routes, originators, pending, queue, held, replies, history>>

\* None does: the next channel, and after the last one the pending queue.
NoRoute(c, ch) ==
  /\ stage[c] = ch
  /\ routes[ch] \cap Matches[Dest[c]] = {}
  /\ stage' = [stage EXCEPT ![c] = IF ch = "SignalR" THEN "Redis" ELSE "get"]
  /\ UNCHANGED <<routes, originators, pending, queue, held, flushing, sent, replies, history>>

\* Mutant: a new queue replaces the one that is there.
AddQueue(c) ==
  /\ stage[c] = "get"
  /\ pending' = [pending EXCEPT ![Dest[c]] = c]
  /\ held' = [held EXCEPT ![c] = pending'[Dest[c]]]
  /\ stage' = [stage EXCEPT ![c] = "enqueue"]
  /\ UNCHANGED <<routes, originators, queue, flushing, sent, replies, history>>

\* The queue is that of the destination as it is spelled.
GetOrAddQueue(c) ==
  /\ stage[c] = "get"
  /\ pending' = [pending EXCEPT ![Dest[c]] = IF @ = None THEN c ELSE @]
  /\ held' = [held EXCEPT ![c] = pending'[Dest[c]]]
  /\ stage' = [stage EXCEPT ![c] = "enqueue"]
  /\ UNCHANGED <<routes, originators, queue, flushing, sent, replies, history>>

Enqueue(c) ==
  /\ stage[c] = "enqueue"
  /\ queue' = [queue EXCEPT ![held[c]] = Append(@, c)]
  /\ joined' = [joined EXCEPT ![held[c]] = Append(@, c)]
  /\ held' = [held EXCEPT ![c] = None]
  /\ stage' = [stage EXCEPT ![c] = "done"]
  /\ UNCHANGED <<routes, originators, pending, flushing, sent, replies, raced, announced>>

-------------------------------------------------------------------------------
(* FlushCommands, and the sending of what it returns. *)

\* TryRemove.  An Add that holds the queue already is overtaken.
FlushRemove(f) ==
  /\ flush[f] = "remove"
  /\ key[f] # Blank
  /\ pending[key[f]] # None
  /\ taken' = [taken EXCEPT ![f] = pending[key[f]]]
  /\ pending' = [pending EXCEPT ![key[f]] = None]
  /\ raced' = raced \cup
       {c \in Commands : stage[c] = "enqueue" /\ held[c] = pending[key[f]]}
  /\ flush' = [flush EXCEPT ![f] = "drain"]
  /\ UNCHANGED <<routes, originators, queue, stage, held, key, drained, sent, replies, joined, announced>>

\* Mutant: what TryRemove returns is not looked at.
FlushNothingDrains(f) ==
  /\ flush[f] = "remove"
  /\ pending[key[f]] = None
  /\ flush' = [flush EXCEPT ![f] = "drain"]
  /\ UNCHANGED <<routes, originators, pending, queue, stage, held, key, taken, drained, sent, replies, history>>

\* Nothing is returned for the empty name, whatever waits under it.
FlushNothing(f) ==
  /\ flush[f] = "remove"
  /\ key[f] = Blank \/ pending[key[f]] = None
  /\ flush' = [flush EXCEPT ![f] = "idle"]
  /\ key' = [key EXCEPT ![f] = None]
  /\ UNCHANGED <<routes, originators, pending, queue, stage, held, taken, drained, sent, replies, history>>

\* TryDequeue until the queue is empty.
FlushDequeue(f) ==
  /\ flush[f] = "drain"
  /\ queue[taken[f]] # <<>>
  /\ drained' = [drained EXCEPT ![f] = Append(@, Head(queue[taken[f]]))]
  /\ queue' = [queue EXCEPT ![taken[f]] = Tail(@)]
  /\ UNCHANGED <<routes, originators, pending, stage, held, flush, key, taken, sent, replies, history>>

FlushEmpty(f) ==
  /\ flush[f] = "drain"
  /\ queue[taken[f]] = <<>>
  /\ flush' = [flush EXCEPT ![f] = "send"]
  /\ UNCHANGED <<routes, originators, pending, queue, stage, held, key, taken, drained, sent, replies, history>>

\* Mutant: the commands are sent from the last one to the first.
FlushSendLast(f) ==
  /\ flush[f] = "send"
  /\ drained[f] # <<>>
  /\ sent' = Append(sent, drained[f][Len(drained[f])])
  /\ drained' = [drained EXCEPT ![f] = SubSeq(@, 1, Len(@) - 1)]
  /\ UNCHANGED <<routes, originators, pending, queue, stage, held, flush, key, taken, replies, history>>

FlushSend(f) ==
  /\ flush[f] = "send"
  /\ drained[f] # <<>>
  /\ sent' = Append(sent, Head(drained[f]))
  /\ drained' = [drained EXCEPT ![f] = Tail(@)]
  /\ UNCHANGED <<routes, originators, pending, queue, stage, held, flush, key, taken, replies, history>>

FlushEnd(f) ==
  /\ flush[f] = "send"
  /\ drained[f] = <<>>
  /\ flush' = [flush EXCEPT ![f] = "idle"]
  /\ key' = [key EXCEPT ![f] = None]
  /\ taken' = [taken EXCEPT ![f] = None]
  /\ UNCHANGED <<routes, originators, pending, queue, stage, held, drained, sent, replies, history>>

-------------------------------------------------------------------------------
(* The channels and the workers. *)

\* Commands for n that found no route on SignalR and are still being added.
Overtaken(n) ==
  {c \in Commands : Dest[c] = n /\ stage[c] \in {"Redis", "get", "enqueue"}}

\* Mutant: what is flushed is the root route, as it is stored.
RegisterAndFlushRoot(n) ==
  /\ flush[<<"register", n>>] = "idle"
  /\ routes' = [routes EXCEPT !["SignalR"] = @ \cup {Root[n]}]
  /\ announced' = announced \cup {n}
  /\ raced' = raced \cup Overtaken(n)
  /\ StartFlush(<<"register", n>>, Root[n])
  /\ UNCHANGED <<originators, pending, queue, stage, held, sent, replies, joined>>

\* RegisterRoute of the SignalR hub: the root route is there, and then what
\* waits under the name as it was given is flushed.
RegisterSignalR(n) ==
  /\ flush[<<"register", n>>] = "idle"
  /\ routes' = [routes EXCEPT !["SignalR"] = @ \cup {Root[n]}]
  /\ announced' = announced \cup {n}
  /\ raced' = raced \cup Overtaken(n)
  /\ StartFlush(<<"register", n>>, n)
  /\ UNCHANGED <<originators, pending, queue, stage, held, sent, replies, joined>>

RegisterRedis(n) ==
  /\ routes' = [routes EXCEPT !["Redis"] = @ \cup {Root[n]}]
  /\ UNCHANGED <<originators, pending, queue, stage, held, flushing, sent, replies, history>>

RemoveRoute(ch, n) ==
  /\ Root[n] \in routes[ch]
  /\ routes' = [routes EXCEPT ![ch] = @ \ {Root[n]}]
  /\ announced' = {m \in announced : ch = "SignalR" => Root[m] # Root[n]}
  /\ UNCHANGED <<originators, pending, queue, stage, held, flushing, sent, replies, raced, joined>>

\* Mutant: a worker whose route no hub has is given nothing.
PollRegistered(n) ==
  /\ flush[<<"poll", n>>] = "idle"
  /\ n \in routes["SignalR"] \cup routes["Redis"]
  /\ StartFlush(<<"poll", n>>, n)
  /\ UNCHANGED <<routes, originators, pending, queue, stage, held, sent, replies, history>>

\* A worker reports its status and is given what waits for its route, as its
\* status spells it, which is empty when the status names no tenant or system.
Poll(n) ==
  /\ flush[<<"poll", n>>] = "idle"
  /\ StartFlush(<<"poll", n>>, n)
  /\ UNCHANGED <<routes, originators, pending, queue, stage, held, sent, replies, history>>

\* Mutant: the originator is looked up and stays.
Resolve(c) ==
  /\ \E i \in DOMAIN sent : sent[i] = c
  /\ heard[c] < Paths
  /\ heard' = [heard EXCEPT ![c] = @ + 1]
  /\ replied' = [replied EXCEPT ![c] = IF c \in originators THEN @ + 1 ELSE @]
  /\ UNCHANGED <<routes, originators, pending, queue, stage, held, flushing, sent, history>>

\* A result that somebody asked for comes back, on one path or on both:
\* ResolveAndForgetOriginator, and it goes to the originator if there is one.
ResolveAndForget(c) ==
  /\ \E i \in DOMAIN sent : sent[i] = c
  /\ heard[c] < Paths
  /\ heard' = [heard EXCEPT ![c] = @ + 1]
  /\ replied' = [replied EXCEPT ![c] = IF c \in originators THEN @ + 1 ELSE @]
  /\ originators' = originators \ {c}
  /\ UNCHANGED <<routes, pending, queue, stage, held, flushing, sent, history>>

-------------------------------------------------------------------------------

Add(c) ==
  \/ \E ch \in Channels : NoRoute(c, ch) \/ \E r \in Routes : Dispatch(c, ch, r)
  \/ GetOrAddQueue(c) \/ Enqueue(c)

FlushCommands(f) ==
  \/ FlushRemove(f) \/ FlushNothing(f)
  \/ FlushDequeue(f) \/ FlushEmpty(f)
  \/ FlushSend(f) \/ FlushEnd(f)

Next ==
  \/ \E c \in Commands : Track(c) \/ Add(c)
  \/ \E c \in Asked : ResolveAndForget(c)
  \/ \E f \in Flushers : FlushCommands(f)
  \/ \E n \in OnSignalR : RegisterSignalR(n) \/ RemoveRoute("SignalR", n)
  \/ \E n \in OnRedis : RegisterRedis(n) \/ RemoveRoute("Redis", n)
  \/ \E n \in Polled : Poll(n)

\* Threads that are in Add or FlushCommands go on; the workers that poll keep
\* polling, which they do on a timer.
Fairness ==
  /\ \A c \in Commands : WF_vars(Add(c))
  /\ \A f \in Flushers : WF_vars(FlushCommands(f))
  /\ \A n \in Polled : WF_vars(Poll(n))

Spec == Init /\ [][Next]_vars /\ Fairness

-------------------------------------------------------------------------------
(* Properties. *)

TypeOK ==
  /\ routes \in [Channels -> SUBSET Routes]
  /\ originators \in SUBSET Commands
  /\ pending \in [Names -> Commands \cup {None}]
  /\ queue \in [Commands -> Seq(Commands)]
  /\ stage \in [Commands -> {"new", "SignalR", "Redis", "get", "enqueue", "done"}]
  /\ held \in [Commands -> Commands \cup {None}]
  /\ flush \in [Flushers -> {"idle", "remove", "drain", "send"}]
  /\ key \in [Flushers -> Names \cup {None}]
  /\ taken \in [Flushers -> Commands \cup {None}]
  /\ drained \in [Flushers -> Seq(Commands)]
  /\ sent \in Seq(Commands)
  /\ heard \in [Commands -> 0..Paths]
  /\ replied \in [Commands -> Nat]
  /\ raced \in SUBSET Commands
  /\ joined \in [Commands -> Seq(Commands)]
  /\ announced \in SUBSET OnSignalR
  /\ \A c \in Commands : stage[c] = "enqueue" => held[c] \in Commands
  /\ \A f \in Flushers : flush[f] # "idle" => key[f] \in Names
  /\ \A f \in Flushers : flush[f] = "drain" => taken[f] \in Commands

Positions(q, c) == {i \in DOMAIN q : q[i] = c}

\* Where c is: on a queue, in the hands of a flush, or sent.
Places(c) ==
  ({"queue"} \X UNION {{q} \X Positions(queue[q], c) : q \in Commands})
  \cup ({"drained"} \X UNION {{f} \X Positions(drained[f], c) : f \in Flushers})
  \cup ({"sent"} \X ({"all"} \X Positions(sent, c)))

\* A command whose Add has ended is in exactly one place, and one whose Add
\* has not is nowhere: adds and flushes that take the same queue apart neither
\* lose a command nor send it twice.
OnePlace ==
  \A c \in Commands :
    Cardinality(Places(c)) = (IF stage[c] = "done" THEN 1 ELSE 0)

Waiting(c) == \E n \in Names : pending[n] # None /\ Positions(queue[pending[n]], c) # {}
BeingDrained(q) == \E f \in Flushers : flush[f] = "drain" /\ taken[f] = q
Orphaned(c) ==
  \E q \in Commands : /\ Positions(queue[q], c) # {}
                      /\ \A n \in Names : pending[n] # q
                      /\ ~BeingDrained(q)

\* What the comment in Add says of a command that is queued: a registration or
\* a heartbeat "will pick these up via FlushCommands".  It does not hold, see
\* the run cmd_routing_orphan: the queue may have been removed already.
WillBePickedUp == \A c \in Commands : ~Orphaned(c)

\* What is left of that promise.  A command that no registration or flush of its
\* destination overtook while it was added is on the queue that _pending has
\* under the destination as it is spelled, or is being drained; and once the
\* SignalR hub was given a route in that very spelling and has flushed it, the
\* command waits no longer.  The same route registered in another spelling does
\* not get it out, and nothing gets out what was queued with no destination.
FlushedWhenAnnounced ==
  \A c \in Commands \ raced :
    /\ \A q \in Commands : Positions(queue[q], c) # {} => pending[Dest[c]] = q \/ BeingDrained(q)
    /\ Waiting(c) /\ Dest[c] \in announced => flush[<<"register", Dest[c]>>] = "remove"

\* Commands that wait for the same route go out in the order they were queued
\* in, whoever flushes them: none before the one that was queued before it.
FlushedInOrder ==
  \A q \in Commands : \A i, j \in DOMAIN joined[q] :
    i < j => \A n \in Positions(sent, joined[q][j]) :
               \E m \in Positions(sent, joined[q][i]) : m < n

\* A pending queue as Mailboxes sees it: what the flush that took it has in
\* hand and has yet to send, and behind that what is still on the queue.
Taker(q) == CHOOSE f \in Flushers : taken[f] = q
InHand(q) == IF \E f \in Flushers : taken[f] = q THEN drained[Taker(q)] ELSE <<>>
Box(q) == InHand(q) \o queue[q]

Mail == INSTANCE Mailboxes WITH
  Boxes <- Commands,
  fresh <- {c \in Commands : stage[c] # "done"},
  box <- [q \in Commands |-> Box(q)]

\* Adds, registrations, polls and flushes that share dictionaries and queues,
\* one access at a time, amount to boxes of which each access is one step: no
\* command is lost, doubled or sent before one that was queued before it.
ImplementsMailboxes == Mail!Spec

\* The result of a command reaches whoever asked for it exactly once, on the
\* first of the paths on which it is heard.
RepliedOnce == \A c \in Asked : heard[c] > 0 => replied[c] = 1

\* A command that waits under the name with which a worker polls, spelled the
\* same and not empty, is sent in the end.
PolledCommandsGoOut ==
  \A c \in Commands :
    (Waiting(c) /\ Dest[c] \in Polled \ {Blank}) ~> (Positions(sent, c) # {})

================================================================================
