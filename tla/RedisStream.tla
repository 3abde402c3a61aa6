------------------------------ MODULE RedisStream ------------------------------
(***************************************************************************)
(* RedisStreamBackingChannel: the poll loop of the consumers of ONE        *)
(* consumer group of a Redis stream, and the two things its users do with  *)
(* it, subscribing late (Setup is called after the loop has started) and   *)
(* unsubscribing before they dispose it (RedisRoutedCmdConsumer).          *)
(*                                                                         *)
(* A consumer of the model is one instance of the channel: a process that  *)
(* restarts is a different one, and two that live at the same time are two *)
(* pods that share the group.  Redis and the channel know an instance by   *)
(* its id, the name of its machine and a fresh GUID, cut to 20 characters: *)
(* where the names are long, or agree in their first 20 characters, two    *)
(* instances have one id.                                                  *)
(*                                                                         *)
(* The entries of a batch have consecutive ids: a batch is the interval    *)
(* at[c]..upto[c], empty when at[c] > upto[c].                             *)
(***************************************************************************)
EXTENDS Naturals, Sequences

CONSTANTS
  Consumers,    \* instances of the channel, over all restarts
  Other,        \* a publisher that is none of them
  None,         \* nobody
  ConsumerIds,  \* ids of instances
  IdOf,         \* IdOf[i]: the _consumerId of i
  MaxEntries,   \* bound: entries published
  BatchSize,    \* the count given to XREADGROUP
  Mail          \* what may be published: who publishes, and what it holds

Kinds == {"event", "unknown type", "broken"}

ASSUME ConsumersAssumption == Other \notin Consumers /\ None \notin Consumers
ASSUME IdAssumption == IdOf \in [Consumers \cup {Other} -> ConsumerIds]
ASSUME MailAssumption == Mail \subseteq [from : Consumers \cup {Other}, kind : Kinds]
ASSUME BoundsAssumption == MaxEntries \in Nat /\ BatchSize \in Nat \ {0}

VARIABLES
  log,          \* the stream: who published each entry, and what it holds
  made,         \* the consumer group exists
  cursor,       \* the group's last-delivered id
  reader,       \* reader[e]: the consumer that Redis handed e to
  pending,      \* ids that were handed out and not acknowledged
  life,         \* life[c]: new, running, closing, gone or crashed
  heard,        \* heard[c]: somebody is subscribed to _incoming
  stage,        \* stage[c]: where the poll loop of c is
  at, upto,     \* the entries of its batch that c has yet to handle
  inbox,        \* inbox[c]: what c's subscriber was given, in order
  unheard,      \* entries emitted while nobody was subscribed
  dropped       \* pending entries that went with their deleted consumer

group == <<log, made, cursor, reader, pending>>
vars == <<group, life, heard, stage, at, upto, inbox, unheard, dropped>>

Ids == 1..MaxEntries
Stages == {"off", "group", "loop", "read", "entry", "ack"}

Holding(c) == {e \in Ids : at[c] <= e /\ e <= upto[c]}

\* Entries of c's batch that it has not emitted yet.
Unemitted(c) == {e \in Holding(c) : e = at[c] => stage[c] = "entry"}

Delivered == {e \in Ids : \E c \in Consumers : \E i \in DOMAIN inbox[c] : inbox[c][i] = e}

Init ==
  /\ log = <<>>
  /\ made = FALSE
  /\ cursor = 0
  /\ reader = [e \in Ids |-> None]
  /\ pending = {}
  /\ life = [c \in Consumers |-> "new"]
  /\ heard = [c \in Consumers |-> FALSE]
  /\ stage = [c \in Consumers |-> "off"]
  /\ at = [c \in Consumers |-> 1]
  /\ upto = [c \in Consumers |-> 0]
  /\ inbox = [c \in Consumers |-> <<>>]
  /\ unheard = {}
  /\ dropped = {}

-------------------------------------------------------------------------------
(* Publish: XADD with the id of the channel that publishes. *)

Publish(entry) ==
  /\ Len(log) < MaxEntries
  /\ entry.from \in Consumers => life[entry.from] = "running"
  /\ log' = Append(log, entry)
  /\ UNCHANGED <<made, cursor, reader, pending, life, heard, stage, at, upto, inbox, unheard, dropped>>

-------------------------------------------------------------------------------
(* The life of an instance. *)

\* The constructor starts the poll loop, before anybody can subscribe.
Construct(c) ==
  /\ life[c] = "new"
  /\ life' = [life EXCEPT ![c] = "running"]
  /\ stage' = [stage EXCEPT ![c] = "group"]
  /\ UNCHANGED <<group, heard, at, upto, inbox, unheard, dropped>>

\* The user of the channel calls Setup and subscribes.
Subscribe(c) ==
  /\ life[c] = "running"
  /\ ~heard[c]
  /\ heard' = [heard EXCEPT ![c] = TRUE]
  /\ UNCHANGED <<group, life, stage, at, upto, inbox, unheard, dropped>>

\* It lets its subscription go; Dispose of the channel comes after.
Unsubscribe(c) ==
  /\ life[c] = "running"
  /\ heard[c]
  /\ heard' = [heard EXCEPT ![c] = FALSE]
  /\ UNCHANGED <<group, life, stage, at, upto, inbox, unheard, dropped>>

\* Dispose: the loop is cancelled, and XGROUP DELCONSUMER takes the consumer's
\* pending entries with it, unless the call throws, which is ignored.  Redis
\* takes instances of one id for one consumer.
CloseGroup(c) ==
  /\ life[c] = "running"
  /\ life' = [life EXCEPT ![c] = "closing"]
  /\ \E lost \in {{}, {e \in pending : IdOf[reader[e]] = IdOf[c]}} :
        /\ pending' = pending \ lost
        /\ dropped' = dropped \cup lost
  /\ UNCHANGED <<log, made, cursor, reader, heard, stage, at, upto, inbox, unheard>>

\* Dispose: _incoming and the connection are disposed.
CloseConnection(c) ==
  /\ life[c] = "closing"
  /\ life' = [life EXCEPT ![c] = "gone"]
  /\ heard' = [heard EXCEPT ![c] = FALSE]
  /\ UNCHANGED <<group, stage, at, upto, inbox, unheard, dropped>>

\* The process dies.
Crash(c) ==
  /\ life[c] \in {"running", "closing"}
  /\ life' = [life EXCEPT ![c] = "crashed"]
  /\ heard' = [heard EXCEPT ![c] = FALSE]
  /\ stage' = [stage EXCEPT ![c] = "off"]
  /\ upto' = [upto EXCEPT ![c] = 0]
  /\ at' = [at EXCEPT ![c] = 1]
  /\ UNCHANGED <<group, inbox, unheard, dropped>>

-------------------------------------------------------------------------------
(* PollStream. *)

\* Mutant: the group is destroyed and created again instead of joined.
RecreateGroup(c) ==
  /\ stage[c] = "group"
  /\ made' = TRUE
  /\ cursor' = 0
  /\ stage' = [stage EXCEPT ![c] = "loop"]
  /\ UNCHANGED <<log, reader, pending, life, heard, at, upto, inbox, unheard, dropped>>

\* XGROUP CREATE at "0-0"; BUSYGROUP says that the group is there already.
CreateGroup(c) ==
  /\ stage[c] = "group"
  /\ made' = TRUE
  /\ cursor' = IF made THEN cursor ELSE 0
  /\ stage' = [stage EXCEPT ![c] = "loop"]
  /\ UNCHANGED <<log, reader, pending, life, heard, at, upto, inbox, unheard, dropped>>

LoopAgain(c) ==
  /\ stage[c] = "loop"
  /\ stage' = [stage EXCEPT ![c] = IF life[c] = "running" THEN "read" ELSE "off"]
  /\ UNCHANGED <<group, life, heard, at, upto, inbox, unheard, dropped>>

\* Mutant: entries are read with noAck, so that Redis does not keep them.
HandOutNoAck(c, n) ==
  /\ cursor' = cursor + n
  /\ reader' = [e \in Ids |-> IF cursor < e /\ e <= cursor + n THEN c ELSE reader[e]]
  /\ UNCHANGED <<log, made, pending>>

\* XREADGROUP of new entries: Redis moves the cursor and keeps them pending.
HandOut(c, n) ==
  /\ cursor' = cursor + n
  /\ pending' = pending \cup (cursor + 1)..(cursor + n)
  /\ reader' = [e \in Ids |-> IF cursor < e /\ e <= cursor + n THEN c ELSE reader[e]]
  /\ UNCHANGED <<log, made>>

\* Mutant: a batch is taken to be full whatever the stream holds.
AvailableFull == BatchSize

Available ==
  IF Len(log) - cursor < BatchSize THEN Len(log) - cursor ELSE BatchSize

Read(c) ==
  /\ stage[c] = "read"
  /\ life[c] # "gone"
  /\ cursor < Len(log)
  /\ HandOut(c, Available)
  /\ at' = [at EXCEPT ![c] = cursor + 1]
  /\ upto' = [upto EXCEPT ![c] = cursor + Available]
  /\ stage' = [stage EXCEPT ![c] = "entry"]
  /\ UNCHANGED <<life, heard, inbox, unheard, dropped>>

\* Nothing new, or the call throws: the loop waits and comes round again.
ReadNothing(c) ==
  /\ stage[c] = "read"
  /\ stage' = [stage EXCEPT ![c] = "loop"]
  /\ UNCHANGED <<group, life, heard, at, upto, inbox, unheard, dropped>>

\* The connection breaks after Redis has handed the entries out: the call
\* throws, and they are pending for a consumer that never saw them.
ReadLost(c) ==
  /\ stage[c] = "read"
  /\ life[c] # "gone"
  /\ cursor < Len(log)
  /\ HandOut(c, Available)
  /\ stage' = [stage EXCEPT ![c] = "loop"]
  /\ UNCHANGED <<life, heard, at, upto, inbox, unheard, dropped>>

\* The foreach goes on with the next entry of the batch, cancelled or not.
NextEntry(c) ==
  /\ at' = [at EXCEPT ![c] = @ + 1]
  /\ stage' = [stage EXCEPT ![c] = IF at[c] < upto[c] THEN "entry" ELSE "loop"]
  /\ UNCHANGED upto

\* Entries of one's own id and those of an unknown type are acknowledged and not
\* emitted.
Skipped(c, e) == IdOf[log[e].from] = IdOf[c] \/ log[e].kind = "unknown type"

Skip(c) ==
  /\ stage[c] = "entry"
  /\ Skipped(c, at[c])
  /\ stage' = [stage EXCEPT ![c] = "ack"]
  /\ UNCHANGED <<group, life, heard, at, upto, inbox, unheard, dropped>>

\* Mutant: no try around one entry, so the exception ends the loop.
ThrowEndsLoop(c) ==
  /\ stage[c] = "entry"
  /\ ~Skipped(c, at[c])
  /\ log[at[c]].kind = "broken" \/ life[c] = "gone"
  /\ stage' = [stage EXCEPT ![c] = "off"]
  /\ UNCHANGED <<group, life, heard, at, upto, inbox, unheard, dropped>>

\* Deserialising or emitting throws: the entry stays pending, the loop goes on.
Throw(c) ==
  /\ stage[c] = "entry"
  /\ ~Skipped(c, at[c])
  /\ log[at[c]].kind = "broken" \/ life[c] = "gone"
  /\ NextEntry(c)
  /\ UNCHANGED <<group, life, heard, inbox, unheard, dropped>>

\* _incoming.OnNext: whoever is subscribed gets the event, if anybody is.
Emit(c) ==
  /\ stage[c] = "entry"
  /\ ~Skipped(c, at[c])
  /\ log[at[c]].kind # "broken"
  /\ life[c] # "gone"
  /\ inbox' = IF heard[c] THEN [inbox EXCEPT ![c] = Append(@, at[c])] ELSE inbox
  /\ unheard' = IF heard[c] THEN unheard ELSE unheard \cup {at[c]}
  /\ stage' = [stage EXCEPT ![c] = "ack"]
  /\ UNCHANGED <<group, life, heard, at, upto, dropped>>

Acknowledge(c) ==
  /\ stage[c] = "ack"
  /\ life[c] # "gone"
  /\ pending' = pending \ {at[c]}
  /\ NextEntry(c)
  /\ UNCHANGED <<log, made, cursor, reader, life, heard, inbox, unheard, dropped>>

\* Mutant: an entry that was not acknowledged is handled again.
AcknowledgeRetries(c) ==
  /\ stage[c] = "ack"
  /\ stage' = [stage EXCEPT ![c] = "entry"]
  /\ UNCHANGED <<group, life, heard, at, upto, inbox, unheard, dropped>>

\* XACK throws: the entry was handled and stays pending.
AcknowledgeFails(c) ==
  /\ stage[c] = "ack"
  /\ NextEntry(c)
  /\ UNCHANGED <<group, life, heard, inbox, unheard, dropped>>

-------------------------------------------------------------------------------

PollStep(c) ==
  \/ CreateGroup(c) \/ LoopAgain(c)
  \/ Read(c) \/ ReadNothing(c) \/ ReadLost(c)
  \/ Skip(c) \/ Throw(c) \/ Emit(c)
  \/ Acknowledge(c) \/ AcknowledgeFails(c)

LifeStep(c) ==
  \/ Construct(c) \/ Subscribe(c) \/ Unsubscribe(c)
  \/ CloseGroup(c) \/ CloseConnection(c) \/ Crash(c)

Next ==
  \/ \E entry \in Mail : Publish(entry)
  \/ \E c \in Consumers : LifeStep(c) \/ PollStep(c)

\* The loop runs on the task pool until it is cancelled, and a connection that
\* broke is made again until it holds, so a read does not fail for ever.
Fairness ==
  \A c \in Consumers : WF_vars(PollStep(c)) /\ SF_vars(Read(c))

Spec == Init /\ [][Next]_vars /\ Fairness

-------------------------------------------------------------------------------
(* Properties. *)

TypeOK ==
  /\ log \in Seq(Mail) /\ Len(log) <= MaxEntries
  /\ made \in BOOLEAN
  /\ cursor \in Nat /\ cursor <= Len(log)
  /\ reader \in [Ids -> Consumers \cup {None}]
  /\ pending \in SUBSET Ids
  /\ life \in [Consumers -> {"new", "running", "closing", "gone", "crashed"}]
  /\ heard \in [Consumers -> BOOLEAN]
  /\ stage \in [Consumers -> Stages]
  /\ at \in [Consumers -> Nat \ {0}]
  /\ upto \in [Consumers -> Nat]
  /\ inbox \in [Consumers -> Seq(Ids)]
  /\ unheard \in SUBSET Ids
  /\ dropped \in SUBSET Ids

\* However the consumers of the group start, crash, lose replies and fail to
\* acknowledge, no entry is delivered twice, by one consumer or by two, and
\* each consumer delivers in the order of the stream.
DeliveredOnceInOrder ==
  /\ \A c \in Consumers : \A i, j \in DOMAIN inbox[c] :
        i < j => inbox[c][i] < inbox[c][j]
  /\ \A c, d \in Consumers : \A i \in DOMAIN inbox[c], j \in DOMAIN inbox[d] :
        c # d => inbox[c][i] # inbox[d][j]

\* An entry of another instance that its reader takes for its own.
Mistaken(e) == log[e].from # reader[e] /\ IdOf[log[e].from] = IdOf[reader[e]]

\* An entry that was handed out and is no longer pending was delivered, was
\* emitted to nobody, went with a consumer that was disposed, was its reader's
\* own or of an unknown type, or came from an instance whose id is cut to the
\* same 20 characters as its reader's: nothing else, no crash and no broken
\* connection takes an entry off the books.
NothingForgotten ==
  \A e \in Ids : (e <= cursor /\ e \notin pending) =>
    \/ e \in Delivered \cup unheard \cup dropped
    \/ log[e].kind = "unknown type" \/ log[e].from = reader[e]
    \/ Mistaken(e)

\* What the class comment promises of acknowledgement: "messages only removed
\* after processing".  It does not hold, see the run redis_stream_unheard: an
\* entry is acknowledged as well when nobody had subscribed yet.
RemovedAfterProcessing ==
  \A e \in Ids : (e <= cursor /\ e \notin pending /\ log[e].kind = "event")
    => e \in Delivered \cup dropped \/ IdOf[log[e].from] = IdOf[reader[e]]

fate == [e \in Ids |->
  IF e > Len(log) THEN "unpublished"
  ELSE IF e > cursor THEN "waiting"
  ELSE IF e \in Delivered THEN "delivered"
  ELSE IF \E c \in Consumers : e \in Unemitted(c) THEN "taken"
  ELSE "abandoned"]

Abstract == INSTANCE GroupDelivery WITH fate <- fate

\* The poll loops implement the delivery that a consumer group promises.
ImplementsGroupDelivery == Abstract!Spec

\* As long as some consumer goes on running, every entry that is published is
\* delivered or given up in the end: none waits for ever behind a reader that
\* crashed, an acknowledgement that failed or an entry that cannot be read.  What
\* a reader left pending when it crashed counts as given up: nobody reads it again.
EveryEntrySettled ==
  <>[](\E c \in Consumers : life[c] = "running") =>
    \A e \in Ids : (e <= Len(log)) ~> (fate[e] \in {"delivered", "abandoned"})

===============================================================================
