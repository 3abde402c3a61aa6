---------------------------- MODULE CmdRoutingProofs ----------------------------
(***************************************************************************)
(* What TLAPS proves of CmdRouting, for any commands, routes and channels  *)
(* they come and go on.                                                    *)
(***************************************************************************)
EXTENDS CmdRouting, TLAPS

USE DestAssumption, MatchesAssumption, RoutesAssumption, NoneAssumption

Holds(q, c) == Positions(q, c) # {}

(***************************************************************************)
(* A command is on a queue, drained or sent only once its Add has ended.   *)
(***************************************************************************)
DoneInv ==
  \A c \in Commands :
    \/ \E q \in Commands : Holds(queue[q], c)
    \/ \E f \in Flushers : Holds(drained[f], c)
    \/ Holds(sent, c)
    => stage[c] = "done"

(***************************************************************************)
(* An Add flushes when it has sent its command, and then ends.             *)
(***************************************************************************)
AddInv == \A c \in Commands : flush[<<"add", c>>] # "idle" => stage[c] = "done"

(***************************************************************************)
(* The originator is known from before Add until the result is heard.      *)
(***************************************************************************)
ReplyOf(c) ==
  /\ stage[c] = "new" => heard[c] = 0
  /\ heard[c] = 0 => replied[c] = 0
  /\ stage[c] # "new" /\ heard[c] = 0 => c \in originators
  /\ heard[c] > 0 => c \notin originators /\ replied[c] = 1

ReplyInv == \A c \in Asked : ReplyOf(c)

(***************************************************************************)
(* Queues are named after the command whose Add made them, which is past   *)
(* GetOrAdd, and hold commands for that command's destination only; that   *)
(* is also where _pending keeps them.                                      *)
(***************************************************************************)
Made(q) == stage[q] \in {"enqueue", "done"}

QueueInv ==
  /\ \A n \in Names : pending[n] # None => Made(pending[n]) /\ Dest[pending[n]] = n
  /\ \A c \in Commands : stage[c] = "enqueue" => Made(held[c]) /\ Dest[held[c]] = Dest[c]
  /\ \A f \in Flushers : flush[f] = "drain" => Made(taken[f])
  /\ \A q, c \in Commands : Holds(queue[q], c) => Made(q) /\ Dest[c] = Dest[q]
  /\ \A r \in OnSignalR : flush[<<"register", r>>] # "idle" => key[<<"register", r>>] = r

(***************************************************************************)
(* A name that was announced is that of a route that SignalR has.          *)
(***************************************************************************)
AnnouncedInv == \A n \in announced : Root[n] \in routes["SignalR"]

(***************************************************************************)
(* A command that was not overtaken enqueues on the queue that _pending    *)
(* has, and is on one that _pending has or that a flush is draining; while *)
(* it is added, its destination has not been announced to SignalR.         *)
(***************************************************************************)
NotRaced(c) ==
  /\ stage[c] = "enqueue" => pending[Dest[c]] = held[c]
  /\ \A q \in Commands : Holds(queue[q], c) => pending[Dest[q]] = q \/ BeingDrained(q)
  /\ stage[c] \in {"Redis", "get", "enqueue"} => Dest[c] \notin announced

RacedInv == \A c \in Commands \ raced : NotRaced(c)

(***************************************************************************)
(* A command that was not overtaken does not wait under a name that was    *)
(* announced to SignalR, unless the announcement is about to flush.        *)
(***************************************************************************)
WaitsAtHome(c) == pending[Dest[c]] # None /\ Holds(queue[pending[Dest[c]]], c)

Caught(c) ==
  WaitsAtHome(c) /\ Dest[c] \in announced => flush[<<"register", Dest[c]>>] = "remove"

CaughtInv == \A c \in Commands \ raced : Caught(c)

IInv == TypeOK /\ DoneInv /\ AddInv /\ ReplyInv /\ QueueInv /\ AnnouncedInv /\ RacedInv /\ CaughtInv

(***************************************************************************)
(* What sequences hold.                                                    *)
(***************************************************************************)
LEMMA EmptyHolds == ASSUME NEW c PROVE ~Holds(<<>>, c)
  BY DEF Holds, Positions

LEMMA Appended ==
  ASSUME NEW S, NEW q \in Seq(S), NEW x \in S
  PROVE  /\ Append(q, x) \in Seq(S)
         /\ \A c : Holds(Append(q, x), c) <=> Holds(q, c) \/ c = x
<1>1. Append(q, x) \in Seq(S) /\ Len(q) \in Nat /\ DOMAIN q = 1..Len(q)
  OBVIOUS
<1>2. Len(Append(q, x)) = Len(q) + 1
  OBVIOUS
<1>3. \A i \in 1..Len(q) : Append(q, x)[i] = q[i]
  OBVIOUS
<1>4. Append(q, x)[Len(q) + 1] = x
  OBVIOUS
<1>5. DOMAIN Append(q, x) = 1..Len(q) + 1
  BY <1>1, <1>2
<1> QED BY <1>1, <1>3, <1>4, <1>5 DEF Holds, Positions

LEMMA HeadTaken ==
  ASSUME NEW S, NEW q \in Seq(S), q # <<>>
  PROVE  /\ Head(q) \in S /\ Tail(q) \in Seq(S) /\ Holds(q, Head(q))
         /\ \A c : Holds(q, c) <=> Holds(Tail(q), c) \/ c = Head(q)
<1>1. /\ Head(q) = q[1] /\ 1 \in DOMAIN q /\ Head(q) \in S /\ Tail(q) \in Seq(S)
      /\ DOMAIN Tail(q) = 1..Len(q) - 1 /\ DOMAIN q = 1..Len(q) /\ Len(q) \in Nat
  OBVIOUS
<1>2. \A i \in 1..Len(q) - 1 : i + 1 \in DOMAIN q /\ Tail(q)[i] = q[i + 1]
  OBVIOUS
<1>3. ASSUME NEW n \in Nat, NEW i \in 1..n, i # 1
      PROVE  \E j \in 1..n - 1 : i = j + 1
  <2>1. i - 1 \in 1..n - 1 /\ i = (i - 1) + 1
    BY <1>3
  <2> QED BY <2>1
<1>4. Holds(q, Head(q))
  BY <1>1 DEF Holds, Positions
<1>5. ASSUME NEW c, Holds(q, c), c # Head(q) PROVE Holds(Tail(q), c)
  <2>1. PICK i \in 1..Len(q) : q[i] = c
    BY <1>1, <1>5 DEF Holds, Positions
  <2>2. PICK j \in 1..Len(q) - 1 : i = j + 1
    BY <1>1, <1>3, <1>5, <2>1
  <2>3. Tail(q)[j] = c /\ j \in DOMAIN Tail(q)
    BY <1>1, <1>2, <2>1, <2>2
  <2> QED BY <2>3 DEF Holds, Positions
<1>6. ASSUME NEW c, Holds(Tail(q), c) PROVE Holds(q, c)
  <2>1. PICK j \in 1..Len(q) - 1 : Tail(q)[j] = c
    BY <1>1, <1>6 DEF Holds, Positions
  <2> QED BY <1>2, <2>1 DEF Holds, Positions
<1> QED BY <1>1, <1>4, <1>5, <1>6

(***************************************************************************)
(* Types.                                                                  *)
(***************************************************************************)
LEMMA FlusherKinds ==
  /\ \A c \in Commands : <<"add", c>> \in Flushers
  /\ \A r \in OnSignalR : <<"register", r>> \in Flushers
  /\ \A r \in Polled : <<"poll", r>> \in Flushers
  BY DEF Flushers, Adding, Registering, Polling

LEMMA PairsDiffer ==
  \A r, s : /\ <<"register", r>> = <<"register", s>> => r = s
            /\ <<"register", r>> # <<"add", s>> /\ <<"register", r>> # <<"poll", s>>
            /\ <<"add", r>> # <<"poll", s>> /\ <<"add", r>> = <<"add", s>> => r = s
  OBVIOUS

LEMMA InitType == Init => TypeOK
  BY DEF Init, TypeOK, Channels, Paths

LEMMA StartFlushType ==
  ASSUME TypeOK, NEW f \in Flushers, NEW r \in Names, StartFlush(f, r)
  PROVE  /\ flush' \in [Flushers -> {"idle", "remove", "drain", "send"}]
         /\ key' \in [Flushers -> Names \cup {None}]
         /\ \A g \in Flushers : flush'[g] # "idle" => key'[g] \in Names
         /\ \A g \in Flushers : flush'[g] = "drain" => taken'[g] \in Commands
  BY DEF TypeOK, StartFlush

LEMMA AddType ==
  ASSUME TypeOK, NEW c \in Commands, Track(c) \/ Add(c)
  PROVE  TypeOK'
<1>1. CASE Track(c)
  BY <1>1 DEF TypeOK, Track, flushing, replies, history
<1>2. CASE \E ch \in Channels : NoRoute(c, ch)
  BY <1>2 DEF TypeOK, NoRoute, flushing, replies, history
<1>3. ASSUME NEW ch \in Channels, NEW r \in Routes, Dispatch(c, ch, r) PROVE TypeOK'
  <2>1. <<"add", c>> \in Flushers /\ StartFlush(<<"add", c>>, r)
    BY <1>3, FlusherKinds DEF Dispatch
  <2>2. sent' \in Seq(Commands)
    BY <1>3, Appended DEF Dispatch, TypeOK
  <2>3. taken' = taken /\ drained' = drained
    BY <2>1 DEF StartFlush
  <2>4. stage' = [stage EXCEPT ![c] = "done"]
    BY <1>3 DEF Dispatch
  <2>5. UNCHANGED <<routes, originators, pending, queue, held, replies, history>>
    BY <1>3 DEF Dispatch
  <2> QED BY <2>1, <2>2, <2>3, <2>4, <2>5, StartFlushType DEF TypeOK, replies, history
<1>4. CASE GetOrAddQueue(c)
  BY <1>4 DEF TypeOK, GetOrAddQueue, flushing, replies, history
<1>5. CASE Enqueue(c)
  <2>1. held[c] \in Commands /\ queue[held[c]] \in Seq(Commands)
        /\ joined[held[c]] \in Seq(Commands)
    BY <1>5 DEF TypeOK, Enqueue
  <2>2. Append(queue[held[c]], c) \in Seq(Commands) /\ Append(joined[held[c]], c) \in Seq(Commands)
    BY <2>1, Appended
  <2>3. queue' \in [Commands -> Seq(Commands)] /\ joined' \in [Commands -> Seq(Commands)]
    BY <1>5, <2>1, <2>2 DEF Enqueue, TypeOK
  <2> QED BY <1>5, <2>3 DEF TypeOK, Enqueue, flushing, replies
<1> QED BY <1>1, <1>2, <1>3, <1>4, <1>5 DEF Add

LEMMA FlushType ==
  ASSUME TypeOK, NEW f \in Flushers, FlushCommands(f)
  PROVE  TypeOK'
<1>1. CASE FlushRemove(f)
  BY <1>1 DEF TypeOK, FlushRemove, replies
<1>2. CASE FlushNothing(f)
  BY <1>2 DEF TypeOK, FlushNothing, replies, history
<1>3. CASE FlushDequeue(f)
  <2>1. taken[f] \in Commands /\ queue[taken[f]] \in Seq(Commands) /\ queue[taken[f]] # <<>>
        /\ drained[f] \in Seq(Commands)
    BY <1>3 DEF TypeOK, FlushDequeue
  <2>2. Head(queue[taken[f]]) \in Commands /\ Tail(queue[taken[f]]) \in Seq(Commands)
    BY <2>1, HeadTaken
  <2>3. Append(drained[f], Head(queue[taken[f]])) \in Seq(Commands)
    BY <2>1, <2>2, Appended
  <2>4. queue' \in [Commands -> Seq(Commands)] /\ drained' \in [Flushers -> Seq(Commands)]
    BY <1>3, <2>1, <2>2, <2>3 DEF FlushDequeue, TypeOK
  <2> QED BY <1>3, <2>4 DEF TypeOK, FlushDequeue, replies, history
<1>4. CASE FlushEmpty(f)
  BY <1>4 DEF TypeOK, FlushEmpty, replies, history
<1>5. CASE FlushSend(f)
  <2>1. drained[f] \in Seq(Commands) /\ drained[f] # <<>>
    BY <1>5 DEF TypeOK, FlushSend
  <2>2. Head(drained[f]) \in Commands /\ Tail(drained[f]) \in Seq(Commands)
    BY <2>1, HeadTaken
  <2>3. sent' \in Seq(Commands)
    BY <1>5, <2>2, Appended DEF FlushSend, TypeOK
  <2>4. drained' \in [Flushers -> Seq(Commands)]
    BY <1>5, <2>2 DEF FlushSend, TypeOK
  <2> QED BY <1>5, <2>3, <2>4 DEF TypeOK, FlushSend, replies, history
<1>6. CASE FlushEnd(f)
  BY <1>6 DEF TypeOK, FlushEnd, replies, history
<1> QED BY <1>1, <1>2, <1>3, <1>4, <1>5, <1>6 DEF FlushCommands

LEMMA RouteType ==
  ASSUME TypeOK, NEW r \in Names,
         \/ r \in OnSignalR /\ RegisterSignalR(r)
         \/ r \in OnRedis /\ RegisterRedis(r)
         \/ \E ch \in Channels : RemoveRoute(ch, r)
         \/ r \in Polled /\ Poll(r)
  PROVE  TypeOK'
<1>1. CASE r \in OnSignalR /\ RegisterSignalR(r)
  <2>1. <<"register", r>> \in Flushers /\ StartFlush(<<"register", r>>, r)
    BY <1>1, FlusherKinds DEF RegisterSignalR
  <2>2. taken' = taken /\ drained' = drained
    BY <2>1 DEF StartFlush
  <2>3. /\ routes' \in [Channels -> SUBSET Routes]
        /\ raced' \in SUBSET Commands /\ announced' \in SUBSET OnSignalR
        /\ UNCHANGED <<originators, pending, queue, stage, held, sent, replies, joined>>
    BY <1>1 DEF RegisterSignalR, TypeOK, Overtaken, Channels
  <2>4. /\ flush' \in [Flushers -> {"idle", "remove", "drain", "send"}]
        /\ key' \in [Flushers -> Names \cup {None}]
        /\ \A g \in Flushers : flush'[g] # "idle" => key'[g] \in Names
        /\ \A g \in Flushers : flush'[g] = "drain" => taken'[g] \in Commands
    BY <2>1, StartFlushType
  <2> QED BY <2>2, <2>3, <2>4 DEF TypeOK, replies
<1>2. CASE r \in OnRedis /\ RegisterRedis(r)
  <2>1. Root[r] \in Routes
    BY <1>2
  <2>2. routes' \in [Channels -> SUBSET Routes]
    BY <1>2, <2>1 DEF RegisterRedis, TypeOK, Channels
  <2> QED BY <1>2, <2>2 DEF TypeOK, RegisterRedis, flushing, replies, history
<1>3. CASE \E ch \in Channels : RemoveRoute(ch, r)
  BY <1>3 DEF TypeOK, RemoveRoute, flushing, replies, history
<1>4. CASE r \in Polled /\ Poll(r)
  <2>1. <<"poll", r>> \in Flushers /\ StartFlush(<<"poll", r>>, r)
    BY <1>4, FlusherKinds DEF Poll
  <2>2. taken' = taken /\ drained' = drained
    BY <2>1 DEF StartFlush
  <2>3. UNCHANGED <<routes, originators, pending, queue, stage, held, sent, replies, history>>
    BY <1>4 DEF Poll
  <2> QED BY <2>1, <2>2, <2>3, StartFlushType DEF TypeOK, replies, history
<1> QED BY <1>1, <1>2, <1>3, <1>4

LEMMA ReplyType ==
  ASSUME TypeOK, NEW c \in Asked, ResolveAndForget(c)
  PROVE  TypeOK'
<1>1. c \in Commands /\ heard[c] \in 0..Paths /\ heard[c] < Paths /\ replied[c] \in Nat
  BY DEF ResolveAndForget, TypeOK
<1>2. heard[c] + 1 \in 0..Paths /\ replied[c] + 1 \in Nat
  BY <1>1 DEF Paths
<1>3. heard' \in [Commands -> 0..Paths] /\ replied' \in [Commands -> Nat]
  BY <1>2 DEF ResolveAndForget, TypeOK
<1> QED BY <1>3 DEF ResolveAndForget, TypeOK, flushing, history

LEMMA TypeStep == TypeOK /\ [Next]_vars => TypeOK'
<1> SUFFICES ASSUME TypeOK, [Next]_vars PROVE TypeOK'
  OBVIOUS
<1>1. CASE UNCHANGED vars
  BY <1>1 DEF TypeOK, vars, flushing, replies, history
<1>2. ASSUME NEW c \in Commands, Track(c) \/ Add(c) PROVE TypeOK'
  BY <1>2, AddType
<1>3. ASSUME NEW c \in Asked, ResolveAndForget(c) PROVE TypeOK'
  BY <1>3, ReplyType
<1>4. ASSUME NEW f \in Flushers, FlushCommands(f) PROVE TypeOK'
  BY <1>4, FlushType
<1>5. ASSUME NEW r \in OnSignalR, RegisterSignalR(r) \/ RemoveRoute("SignalR", r) PROVE TypeOK'
  BY <1>5, RouteType DEF Channels
<1>6. ASSUME NEW r \in OnRedis, RegisterRedis(r) \/ RemoveRoute("Redis", r) PROVE TypeOK'
  BY <1>6, RouteType DEF Channels
<1>7. ASSUME NEW r \in Polled, Poll(r) PROVE TypeOK'
  BY <1>7, RouteType
<1> QED BY <1>1, <1>2, <1>3, <1>4, <1>5, <1>6, <1>7 DEF Next

\* TypeOK: every variable keeps its type, and who is in FlushCommands or about
\* to enqueue has a route or a queue to do it to.
THEOREM TypeCorrect == Spec => []TypeOK
  BY InitType, TypeStep, PTL DEF Spec

(***************************************************************************)
(* What moves from where to where.                                         *)
(***************************************************************************)
LEMMA EnqueueMoves ==
  ASSUME TypeOK, NEW c \in Commands, Enqueue(c)
  PROVE  /\ held[c] \in Commands
         /\ \A q, d \in Commands :
              Holds(queue'[q], d) <=> Holds(queue[q], d) \/ (q = held[c] /\ d = c)
<1>1. held[c] \in Commands /\ queue \in [Commands -> Seq(Commands)]
      /\ queue' = [queue EXCEPT ![held[c]] = Append(@, c)]
  BY DEF TypeOK, Enqueue
<1>2. \A d : Holds(Append(queue[held[c]], c), d) <=> Holds(queue[held[c]], d) \/ d = c
  BY <1>1, Appended
<1>3. /\ queue'[held[c]] = Append(queue[held[c]], c)
      /\ \A q \in Commands : q # held[c] => queue'[q] = queue[q]
  BY <1>1
<1> HIDE DEF Holds
<1> QED BY <1>1, <1>2, <1>3

LEMMA DequeueMoves ==
  ASSUME TypeOK, NEW f \in Flushers, FlushDequeue(f)
  PROVE  \E x \in Commands :
           /\ taken[f] \in Commands /\ Holds(queue[taken[f]], x)
           /\ \A q, d \in Commands : Holds(queue'[q], d) => Holds(queue[q], d)
           /\ \A g \in Flushers : \A d \in Commands :
                Holds(drained'[g], d) => Holds(drained[g], d) \/ d = x
<1>1. /\ taken[f] \in Commands /\ queue \in [Commands -> Seq(Commands)]
      /\ drained \in [Flushers -> Seq(Commands)] /\ queue[taken[f]] # <<>>
      /\ drained' = [drained EXCEPT ![f] = Append(@, Head(queue[taken[f]]))]
      /\ queue' = [queue EXCEPT ![taken[f]] = Tail(@)]
  BY DEF TypeOK, FlushDequeue
<1>2. PICK x : x = Head(queue[taken[f]])
  OBVIOUS
<1>3. x \in Commands /\ Holds(queue[taken[f]], x)
      /\ \A d : Holds(Tail(queue[taken[f]]), d) => Holds(queue[taken[f]], d)
  BY <1>1, <1>2, HeadTaken
<1>4. \A d : Holds(Append(drained[f], x), d) <=> Holds(drained[f], d) \/ d = x
  BY <1>1, <1>3, Appended
<1>5. \A q, d \in Commands : Holds(queue'[q], d) => Holds(queue[q], d)
  BY <1>1, <1>3
<1>6. \A g \in Flushers : \A d \in Commands :
        Holds(drained'[g], d) => Holds(drained[g], d) \/ d = x
  BY <1>1, <1>2, <1>4
<1> QED BY <1>1, <1>3, <1>5, <1>6

LEMMA SendMoves ==
  ASSUME TypeOK, NEW f \in Flushers, FlushSend(f)
  PROVE  \E x \in Commands :
           /\ Holds(drained[f], x)
           /\ \A d \in Commands : Holds(sent', d) => Holds(sent, d) \/ d = x
           /\ \A g \in Flushers : \A d \in Commands :
                Holds(drained'[g], d) => Holds(drained[g], d)
<1>1. /\ drained \in [Flushers -> Seq(Commands)] /\ drained[f] # <<>>
      /\ sent \in Seq(Commands) /\ sent' = Append(sent, Head(drained[f]))
      /\ drained' = [drained EXCEPT ![f] = Tail(@)]
  BY DEF TypeOK, FlushSend
<1>2. PICK x : x = Head(drained[f])
  OBVIOUS
<1>3. x \in Commands /\ Holds(drained[f], x)
      /\ \A d : Holds(Tail(drained[f]), d) => Holds(drained[f], d)
  BY <1>1, <1>2, HeadTaken
<1>4. \A d : Holds(sent', d) <=> Holds(sent, d) \/ d = x
  BY <1>1, <1>2, <1>3, Appended
<1>5. \A g \in Flushers : \A d \in Commands : Holds(drained'[g], d) => Holds(drained[g], d)
  BY <1>1, <1>3
<1> QED BY <1>3, <1>4, <1>5

LEMMA DispatchMoves ==
  ASSUME TypeOK, NEW c \in Commands, NEW ch, NEW r, Dispatch(c, ch, r)
  PROVE  \A d \in Commands : Holds(sent', d) <=> Holds(sent, d) \/ d = c
  BY Appended DEF TypeOK, Dispatch

\* Everything else leaves queues, flushes and what was sent alone.
Still == UNCHANGED <<queue, drained, sent>>

LEMMA StillSteps ==
  /\ \A c : Track(c) => Still
  /\ \A c, ch : NoRoute(c, ch) => Still
  /\ \A c : GetOrAddQueue(c) => Still
  /\ \A c : ResolveAndForget(c) => Still /\ stage' = stage
  /\ \A f : FlushRemove(f) \/ FlushNothing(f) \/ FlushEmpty(f) \/ FlushEnd(f)
              => Still /\ stage' = stage
  /\ \A r : RegisterSignalR(r) \/ RegisterRedis(r) \/ Poll(r) => Still /\ stage' = stage
  /\ \A ch, r : RemoveRoute(ch, r) => Still /\ stage' = stage
  BY DEF Still, Track, NoRoute, GetOrAddQueue, ResolveAndForget, FlushRemove, FlushNothing,
         FlushEmpty, FlushEnd, RegisterSignalR, RegisterRedis, Poll, RemoveRoute, StartFlush,
         flushing

(***************************************************************************)
(* What is on a queue, drained or sent has been added.                     *)
(***************************************************************************)
Stays == \A d \in Commands : stage[d] = "done" => stage'[d] = "done"

LEMMA DoneStill == ASSUME DoneInv, Still, Stays PROVE DoneInv'
  BY DEF DoneInv, Still, Stays, Holds, Positions

LEMMA DoneStep == TypeOK /\ DoneInv /\ [Next]_vars => DoneInv'
<1> SUFFICES ASSUME TypeOK, DoneInv, [Next]_vars PROVE DoneInv'
  OBVIOUS
<1>1. ASSUME NEW c \in Commands, Track(c) PROVE DoneInv'
  BY <1>1, StillSteps, DoneStill DEF Track, Stays, TypeOK
<1>2. ASSUME NEW c \in Commands, NEW ch \in Channels, NoRoute(c, ch) PROVE DoneInv'
  BY <1>2, StillSteps, DoneStill DEF NoRoute, Stays, TypeOK, Channels
<1>3. ASSUME NEW c \in Commands, NEW ch \in Channels, NEW r, Dispatch(c, ch, r) PROVE DoneInv'
  <2>1. /\ \A d \in Commands : stage'[d] = "done" <=> stage[d] = "done" \/ d = c
        /\ queue' = queue /\ drained' = drained
    BY <1>3 DEF Dispatch, TypeOK, StartFlush
  <2>2. \A d \in Commands : Holds(sent', d) <=> Holds(sent, d) \/ d = c
    BY <1>3, DispatchMoves
  <2> HIDE DEF Holds
  <2> QED BY <2>1, <2>2 DEF DoneInv
<1>4. ASSUME NEW c \in Commands, GetOrAddQueue(c) PROVE DoneInv'
  BY <1>4, StillSteps, DoneStill DEF GetOrAddQueue, Stays, TypeOK
<1>5. ASSUME NEW c \in Commands, Enqueue(c) PROVE DoneInv'
  <2>1. /\ \A d \in Commands : stage'[d] = "done" <=> stage[d] = "done" \/ d = c
        /\ sent' = sent /\ drained' = drained
    BY <1>5 DEF Enqueue, TypeOK, flushing
  <2> QED BY <1>5, <2>1, EnqueueMoves DEF DoneInv
<1>6. ASSUME NEW f \in Flushers, FlushDequeue(f) PROVE DoneInv'
  <2>1. PICK x \in Commands :
           /\ taken[f] \in Commands /\ Holds(queue[taken[f]], x)
           /\ \A q, d \in Commands : Holds(queue'[q], d) => Holds(queue[q], d)
           /\ \A g \in Flushers : \A d \in Commands :
                Holds(drained'[g], d) => Holds(drained[g], d) \/ d = x
    BY <1>6, DequeueMoves
  <2>2. sent' = sent /\ stage' = stage
    BY <1>6 DEF FlushDequeue
  <2> QED BY <2>1, <2>2 DEF DoneInv
<1>7. ASSUME NEW f \in Flushers, FlushSend(f) PROVE DoneInv'
  <2>1. PICK x \in Commands :
           /\ Holds(drained[f], x)
           /\ \A d \in Commands : Holds(sent', d) => Holds(sent, d) \/ d = x
           /\ \A g \in Flushers : \A d \in Commands :
                Holds(drained'[g], d) => Holds(drained[g], d)
    BY <1>7, SendMoves
  <2>2. queue' = queue /\ stage' = stage
    BY <1>7 DEF FlushSend
  <2> QED BY <2>1, <2>2 DEF DoneInv
<1>8. CASE Still /\ stage' = stage
  BY <1>8, DoneStill DEF Stays
<1>9. CASE UNCHANGED vars
  BY <1>9, <1>8 DEF vars, Still, flushing
<1> QED BY <1>1, <1>2, <1>3, <1>4, <1>5, <1>6, <1>7, <1>8, <1>9, StillSteps
        DEF Next, Add, FlushCommands

(***************************************************************************)
(* The originator is told once.                                            *)
(***************************************************************************)
LEMMA ReplyStill ==
  ASSUME ReplyInv, UNCHANGED <<originators, heard, replied>>,
         \A c \in Asked : stage[c] = "new" <=> stage'[c] = "new"
  PROVE  ReplyInv'
  BY DEF ReplyInv, ReplyOf

LEMMA ReplyStep == TypeOK /\ DoneInv /\ ReplyInv /\ [Next]_vars => ReplyInv'
<1> SUFFICES ASSUME TypeOK, DoneInv, ReplyInv, [Next]_vars PROVE ReplyInv'
  OBVIOUS
<1>1. ASSUME NEW c \in Commands, Track(c) PROVE ReplyInv'
  <2>1. /\ stage[c] = "new" /\ heard' = heard /\ replied' = replied
        /\ originators' = originators \cup ({c} \cap Asked)
        /\ \A d \in Commands : d # c => stage'[d] = stage[d]
    BY <1>1 DEF Track, TypeOK, replies
  <2>2. stage'[c] # "new"
    BY <1>1 DEF Track, TypeOK
  <2> QED BY <2>1, <2>2 DEF ReplyInv, ReplyOf, TypeOK, Paths
<1>2. ASSUME NEW c \in Commands, Add(c) PROVE ReplyInv'
  <2>1. UNCHANGED <<originators, heard, replied>>
    BY <1>2 DEF Add, NoRoute, Dispatch, GetOrAddQueue, Enqueue, replies
  <2>2. /\ stage[c] # "new" /\ stage'[c] # "new"
        /\ \A d \in Commands : d # c => stage'[d] = stage[d]
    BY <1>2 DEF Add, NoRoute, Dispatch, GetOrAddQueue, Enqueue, TypeOK, Channels
  <2> QED BY <2>1, <2>2, ReplyStill
<1>3. ASSUME NEW c \in Asked, ResolveAndForget(c) PROVE ReplyInv'
  <2>1. stage[c] # "new"
    BY <1>3 DEF ResolveAndForget, DoneInv, Holds, Positions
  <2>2. /\ stage' = stage
        /\ originators' = originators \ {c}
        /\ heard[c] \in 0..Paths /\ replied[c] \in Nat /\ heard'[c] = heard[c] + 1
        /\ replied'[c] = IF c \in originators THEN replied[c] + 1 ELSE replied[c]
        /\ \A d \in Asked : d # c => heard'[d] = heard[d] /\ replied'[d] = replied[d]
    BY <1>3 DEF ResolveAndForget, TypeOK
  <2>3. ReplyOf(c)'
    BY <2>1, <2>2 DEF ReplyInv, ReplyOf, Paths
  <2>4. ASSUME NEW d \in Asked, d # c PROVE ReplyOf(d)'
    BY <2>2, <2>4 DEF ReplyInv, ReplyOf
  <2> QED BY <2>3, <2>4 DEF ReplyInv
<1>4. CASE UNCHANGED <<originators, heard, replied, stage>>
  BY <1>4, ReplyStill
<1>5. ASSUME NEW f \in Flushers, FlushCommands(f) PROVE ReplyInv'
  BY <1>4, <1>5 DEF FlushCommands, FlushRemove, FlushNothing, FlushDequeue, FlushEmpty,
                    FlushSend, FlushEnd, replies
<1>6. ASSUME NEW r, \/ RegisterSignalR(r) \/ RegisterRedis(r) \/ Poll(r)
                    \/ \E ch \in Channels : RemoveRoute(ch, r)
      PROVE  ReplyInv'
  BY <1>4, <1>6 DEF RegisterSignalR, RegisterRedis, Poll, RemoveRoute, replies
<1>7. CASE UNCHANGED vars
  BY <1>4, <1>7 DEF vars, replies
<1> QED BY <1>1, <1>2, <1>3, <1>5, <1>6, <1>7 DEF Next, Channels

(***************************************************************************)
(* Queues and what refers to them.                                         *)
(***************************************************************************)
\* A flush that starts flushes the route of its registration.
KeysKept == \A r \in OnSignalR :
  flush'[<<"register", r>>] # "idle" => key'[<<"register", r>>] = r

LEMMA StartKeeps ==
  ASSUME TypeOK, QueueInv, NEW f \in Flushers, NEW r \in Names, StartFlush(f, r),
         \A s \in OnSignalR : f = <<"register", s>> => s = r
  PROVE  /\ KeysKept
         /\ taken' = taken /\ drained' = drained
         /\ \A g \in Flushers : flush'[g] = "drain" => flush[g] = "drain"
<1>1. /\ flush' = [flush EXCEPT ![f] = "remove"] /\ key' = [key EXCEPT ![f] = r]
      /\ taken' = taken /\ drained' = drained
  BY DEF StartFlush
<1>2. \A g \in Flushers : /\ g # f => flush'[g] = flush[g] /\ key'[g] = key[g]
                          /\ flush'[f] = "remove" /\ key'[f] = r
  BY <1>1 DEF TypeOK
<1> QED BY <1>1, <1>2, FlusherKinds DEF KeysKept, QueueInv

\* The parts of QueueInv about queues that no flush of this step disturbs.
LEMMA QueueStill ==
  ASSUME QueueInv, Stays, UNCHANGED <<pending, queue>>, KeysKept,
         \A c \in Commands : stage'[c] = "enqueue" => stage[c] = "enqueue" /\ held'[c] = held[c],
         \A c \in Commands : stage[c] = "enqueue" => stage'[c] \in {"enqueue", "done"},
         \A f \in Flushers : flush'[f] = "drain" => flush[f] = "drain" /\ taken'[f] = taken[f],
         TypeOK
  PROVE  QueueInv'
<1>1. \A q \in Commands : Made(q) => Made(q)'
  BY DEF Made, Stays
<1>2. \A q, c \in Commands : Holds(queue[q], c) <=> Holds(queue[q], c)'
  BY DEF Holds, Positions
<1> HIDE DEF Made, Holds
<1> QED BY <1>1, <1>2 DEF QueueInv, KeysKept, TypeOK

\* The same, after the step.
MadeNext(q) == stage'[q] \in {"enqueue", "done"}

LEMMA QueueStep == TypeOK /\ DoneInv /\ QueueInv /\ [Next]_vars => QueueInv'
<1> SUFFICES ASSUME TypeOK, DoneInv, QueueInv, [Next]_vars PROVE QueueInv'
  OBVIOUS
<1>1. ASSUME NEW c \in Commands, Track(c) \/ (\E ch \in Channels : NoRoute(c, ch))
      PROVE  QueueInv'
  <2>1. UNCHANGED <<pending, queue, held, flush, key, taken>>
    BY <1>1 DEF Track, NoRoute, flushing
  <2>2. /\ stage[c] \notin {"enqueue", "done"} /\ stage'[c] \notin {"enqueue", "done"}
        /\ \A d \in Commands : d # c => stage'[d] = stage[d]
    BY <1>1 DEF Track, NoRoute, TypeOK, Channels
  <2>3. KeysKept
    BY <2>1 DEF KeysKept, QueueInv
  <2> QED BY <2>1, <2>2, <2>3, QueueStill DEF Stays
<1>2. ASSUME NEW c \in Commands, NEW ch \in Channels, NEW r \in Routes, Dispatch(c, ch, r)
      PROVE  QueueInv'
  <2>1. UNCHANGED <<pending, queue, held>> /\ StartFlush(<<"add", c>>, r)
    BY <1>2 DEF Dispatch
  <2>2. /\ stage[c] \notin {"enqueue", "done"} /\ stage'[c] = "done"
        /\ \A d \in Commands : d # c => stage'[d] = stage[d]
    BY <1>2 DEF Dispatch, TypeOK, Channels
  <2>3. /\ KeysKept /\ taken' = taken
        /\ \A g \in Flushers : flush'[g] = "drain" => flush[g] = "drain"
    BY <2>1, FlusherKinds, PairsDiffer, StartKeeps
  <2> QED BY <2>1, <2>2, <2>3, QueueStill DEF Stays
<1>3. ASSUME NEW c \in Commands, GetOrAddQueue(c) PROVE QueueInv'
  <2>1. UNCHANGED <<queue, flush, key, taken>>
    BY <1>3 DEF GetOrAddQueue, flushing
  <2>2. /\ stage[c] = "get" /\ stage'[c] = "enqueue"
        /\ \A d \in Commands : d # c => stage'[d] = stage[d] /\ held'[d] = held[d]
        /\ Dest[c] \in Names /\ held'[c] = pending'[Dest[c]]
        /\ pending'[Dest[c]] = IF pending[Dest[c]] = None THEN c ELSE pending[Dest[c]]
        /\ \A n \in Names : n # Dest[c] => pending'[n] = pending[n]
    BY <1>3 DEF GetOrAddQueue, TypeOK
  <2>3. \A q \in Commands : Made(q) => MadeNext(q)
    BY <2>2 DEF Made, MadeNext
  <2>4. \A n \in Names : pending[n] # None =>
          pending[n] \in Commands /\ MadeNext(pending[n]) /\ Dest[pending[n]] = n
    BY <2>3 DEF QueueInv, TypeOK
  <2>5. /\ MadeNext(pending'[Dest[c]]) /\ Dest[pending'[Dest[c]]] = Dest[c]
        /\ \A n \in Names : pending'[n] # None =>
             MadeNext(pending'[n]) /\ Dest[pending'[n]] = n
    <3>1. MadeNext(c)
      BY <2>2 DEF MadeNext
    <3>2. MadeNext(pending'[Dest[c]]) /\ Dest[pending'[Dest[c]]] = Dest[c]
      <4>1. CASE pending[Dest[c]] = None
        BY <2>2, <3>1, <4>1
      <4>2. CASE pending[Dest[c]] # None
        BY <2>2, <2>4, <4>2
      <4> QED BY <4>1, <4>2
    <3> QED BY <2>2, <2>4, <3>2
  <2>6. \A d \in Commands : stage'[d] = "enqueue" => MadeNext(held'[d]) /\ Dest[held'[d]] = Dest[d]
    <3>1. \A d \in Commands : stage[d] = "enqueue" =>
            held[d] \in Commands /\ MadeNext(held[d]) /\ Dest[held[d]] = Dest[d]
      BY <2>3 DEF QueueInv, TypeOK
    <3> QED BY <2>2, <2>5, <3>1
  <2>7. \A f \in Flushers : flush'[f] = "drain" => MadeNext(taken'[f])
    BY <2>1, <2>3 DEF QueueInv, TypeOK
  <2>8. \A q, d \in Commands : Holds(queue'[q], d) => MadeNext(q) /\ Dest[d] = Dest[q]
    BY <2>1, <2>3 DEF QueueInv
  <2> QED BY <2>1, <2>5, <2>6, <2>7, <2>8 DEF QueueInv, Made, MadeNext, Holds
<1>4. ASSUME NEW c \in Commands, Enqueue(c) PROVE QueueInv'
  <2>1. UNCHANGED <<pending, flush, key, taken>>
    BY <1>4 DEF Enqueue, flushing
  <2>2. /\ stage[c] = "enqueue" /\ stage'[c] = "done"
        /\ \A d \in Commands : d # c => stage'[d] = stage[d] /\ held'[d] = held[d]
    BY <1>4 DEF Enqueue, TypeOK
  <2>3. \A q \in Commands : Made(q) => MadeNext(q)
    BY <2>2 DEF Made, MadeNext
  <2>4. /\ held[c] \in Commands
        /\ \A q, d \in Commands :
             Holds(queue'[q], d) <=> Holds(queue[q], d) \/ (q = held[c] /\ d = c)
    BY <1>4, EnqueueMoves
  <2>5. \A q, d \in Commands : Holds(queue'[q], d) => MadeNext(q) /\ Dest[d] = Dest[q]
    BY <2>2, <2>3, <2>4 DEF QueueInv
  <2>6. \A n \in Names : pending'[n] # None => MadeNext(pending'[n]) /\ Dest[pending'[n]] = n
    BY <2>1, <2>3 DEF QueueInv, TypeOK
  <2>7. \A d \in Commands : stage'[d] = "enqueue" => MadeNext(held'[d]) /\ Dest[held'[d]] = Dest[d]
    BY <2>2, <2>3 DEF QueueInv, TypeOK
  <2>8. \A f \in Flushers : flush'[f] = "drain" => MadeNext(taken'[f])
    BY <2>1, <2>3 DEF QueueInv, TypeOK
  <2> QED BY <2>1, <2>5, <2>6, <2>7, <2>8 DEF QueueInv, Made, MadeNext, Holds
<1>5. ASSUME NEW f \in Flushers, FlushRemove(f) PROVE QueueInv'
  <2>1. /\ UNCHANGED <<queue, stage, held, key>> /\ key[f] \in Names
        /\ flush[f] = "remove" /\ pending[key[f]] # None
        /\ taken'[f] = pending[key[f]] /\ \A g \in Flushers : g # f => taken'[g] = taken[g]
        /\ \A g \in Flushers : g # f => flush'[g] = flush[g]
        /\ \A n \in Names : pending'[n] \in {pending[n], None}
    BY <1>5 DEF FlushRemove, TypeOK
  <2>2. \A q : MadeNext(q) <=> Made(q)
    BY <2>1 DEF Made, MadeNext
  <2>3. \A g \in Flushers : flush'[g] = "drain" => MadeNext(taken'[g])
    BY <2>1, <2>2 DEF QueueInv
  <2>4. KeysKept
    BY <2>1, FlusherKinds DEF KeysKept, QueueInv
  <2> QED BY <2>1, <2>2, <2>3, <2>4 DEF QueueInv, KeysKept, TypeOK, Made, MadeNext, Holds
<1>6. ASSUME NEW f \in Flushers,
             FlushNothing(f) \/ FlushEmpty(f) \/ FlushSend(f) \/ FlushEnd(f)
      PROVE  QueueInv'
  <2>1. /\ UNCHANGED <<pending, queue, stage, held>>
        /\ \A g \in Flushers : flush'[g] = "drain" => flush[g] = "drain" /\ taken'[g] = taken[g]
        /\ \A g \in Flushers : flush'[g] # "idle" => flush[g] # "idle" /\ key'[g] = key[g]
    BY <1>6 DEF FlushNothing, FlushEmpty, FlushSend, FlushEnd, TypeOK
  <2>2. KeysKept
    BY <2>1, FlusherKinds DEF KeysKept, QueueInv
  <2> QED BY <2>1, <2>2, QueueStill DEF Stays
<1>7. ASSUME NEW f \in Flushers, FlushDequeue(f) PROVE QueueInv'
  <2>1. UNCHANGED <<pending, stage, held, flush, key, taken>>
    BY <1>7 DEF FlushDequeue
  <2>2. \A q, d \in Commands : Holds(queue'[q], d) => Holds(queue[q], d)
    BY <1>7, DequeueMoves
  <2> HIDE DEF Holds
  <2> QED BY <2>1, <2>2 DEF QueueInv, Made
<1>8. ASSUME NEW f \in Flushers, NEW r \in Names, StartFlush(f, r),
             \A s \in OnSignalR : f = <<"register", s>> => s = r,
             UNCHANGED <<pending, queue, stage, held>>
      PROVE  QueueInv'
  <2>1. /\ KeysKept /\ taken' = taken
        /\ \A g \in Flushers : flush'[g] = "drain" => flush[g] = "drain"
    BY <1>8, StartKeeps
  <2> QED BY <1>8, <2>1, QueueStill DEF Stays
<1>9. ASSUME NEW r \in OnSignalR, RegisterSignalR(r) PROVE QueueInv'
  BY <1>8, <1>9, FlusherKinds, PairsDiffer DEF RegisterSignalR
<1>10. ASSUME NEW r \in Polled, Poll(r) PROVE QueueInv'
  BY <1>8, <1>10, FlusherKinds, PairsDiffer DEF Poll
<1>11. CASE UNCHANGED <<pending, queue, stage, held, flushing>>
  <2>1. KeysKept
    BY <1>11 DEF flushing, KeysKept, QueueInv
  <2> QED BY <1>11, <2>1, QueueStill DEF flushing, Stays
<1>12. ASSUME NEW r, \/ RegisterRedis(r) \/ (\E ch \in Channels : RemoveRoute(ch, r))
                     \/ ResolveAndForget(r)
       PROVE  QueueInv'
  BY <1>11, <1>12 DEF RegisterRedis, RemoveRoute, ResolveAndForget
<1>13. CASE UNCHANGED vars
  BY <1>11, <1>13 DEF vars
<1> QED BY <1>1, <1>2, <1>3, <1>4, <1>5, <1>6, <1>7, <1>9, <1>10, <1>12, <1>13
        DEF Next, Add, FlushCommands, Channels

(***************************************************************************)
(* The flush of an Add.                                                    *)
(***************************************************************************)
LEMMA AddStep == TypeOK /\ AddInv /\ [Next]_vars => AddInv'
<1> SUFFICES ASSUME TypeOK, AddInv, [Next]_vars PROVE AddInv'
  OBVIOUS
<1>1. CASE Stays /\ \A c \in Commands : flush[<<"add", c>>] = "idle" => flush'[<<"add", c>>] = "idle"
  BY <1>1, FlusherKinds DEF AddInv, Stays, TypeOK
<1>2. ASSUME NEW c \in Commands, Track(c) \/ (\E ch \in Channels : NoRoute(c, ch))
                                 \/ GetOrAddQueue(c) \/ Enqueue(c)
      PROVE  AddInv'
  <2>1. Stays /\ flush' = flush
    BY <1>2 DEF Track, NoRoute, GetOrAddQueue, Enqueue, Stays, TypeOK, flushing, Channels
  <2> QED BY <1>1, <2>1
<1>3. ASSUME NEW c \in Commands, NEW ch \in Channels, NEW r \in Routes, Dispatch(c, ch, r)
      PROVE  AddInv'
  <2>1. Stays /\ stage'[c] = "done"
    BY <1>3 DEF Dispatch, Stays, TypeOK
  <2>2. \A f \in Flushers : f # <<"add", c>> => flush'[f] = flush[f]
    BY <1>3 DEF Dispatch, StartFlush, TypeOK
  <2> QED BY <2>1, <2>2, FlusherKinds, PairsDiffer DEF AddInv, Stays
<1>4. ASSUME NEW f \in Flushers, FlushCommands(f) PROVE AddInv'
  <2>1. stage' = stage /\ \A g \in Flushers : flush[g] = "idle" => flush'[g] = "idle"
    BY <1>4 DEF FlushCommands, FlushRemove, FlushNothing, FlushDequeue, FlushEmpty,
                FlushSend, FlushEnd, TypeOK
  <2> QED BY <1>1, <2>1, FlusherKinds DEF Stays
<1>5. ASSUME NEW r, (r \in OnSignalR /\ RegisterSignalR(r)) \/ (r \in Polled /\ Poll(r))
      PROVE  AddInv'
  <2>1. stage' = stage /\ \A c \in Commands : flush'[<<"add", c>>] = flush[<<"add", c>>]
    BY <1>5, FlusherKinds, PairsDiffer DEF RegisterSignalR, Poll, StartFlush, TypeOK
  <2> QED BY <1>1, <2>1 DEF Stays
<1>6. CASE stage' = stage /\ flush' = flush
  BY <1>1, <1>6 DEF Stays
<1>7. ASSUME NEW r, \/ RegisterRedis(r) \/ (\E ch \in Channels : RemoveRoute(ch, r))
                    \/ ResolveAndForget(r)
      PROVE  AddInv'
  BY <1>6, <1>7 DEF RegisterRedis, RemoveRoute, ResolveAndForget, flushing
<1>8. CASE UNCHANGED vars
  BY <1>6, <1>8 DEF vars, flushing
<1> QED BY <1>2, <1>3, <1>4, <1>5, <1>7, <1>8 DEF Next, Add, Channels

(***************************************************************************)
(* Commands that were not overtaken.                                       *)
(***************************************************************************)
Kept(g) == flush[g] = "drain" => flush'[g] = "drain" /\ taken'[g] = taken[g]

LEMMA DrainsKept ==
  ASSUME \A g \in Flushers : Kept(g)
  PROVE  \A q : BeingDrained(q) => BeingDrained(q)'
  BY DEF Kept, BeingDrained

LEMMA StartKept ==
  ASSUME TypeOK, NEW f \in Flushers, NEW r, StartFlush(f, r), flush[f] = "idle"
  PROVE  \A g \in Flushers : Kept(g)
  BY DEF TypeOK, StartFlush, Kept

LEMMA RacedStill ==
  ASSUME RacedInv, pending' = pending, raced \subseteq raced',
         \A g \in Flushers : Kept(g),
         \A q, d \in Commands : Holds(queue'[q], d) => Holds(queue[q], d),
         \A d \in Commands : stage'[d] = "enqueue" => stage[d] = "enqueue" /\ held'[d] = held[d],
         \A d \in Commands \ raced' : stage'[d] \in {"Redis", "get", "enqueue"}
            => Dest[d] \notin announced'
  PROVE  RacedInv'
<1> SUFFICES ASSUME NEW d \in Commands \ raced' PROVE NotRaced(d)'
  BY DEF RacedInv
<1>1. NotRaced(d)
  BY DEF RacedInv
<1>2. \A q : BeingDrained(q) => BeingDrained(q)'
  BY DrainsKept
<1> QED BY <1>1, <1>2 DEF NotRaced, Holds, Positions

LEMMA RacedAdd ==
  ASSUME TypeOK, DoneInv, AddInv, QueueInv, AnnouncedInv, RacedInv, NEW c \in Commands,
         Track(c) \/ Add(c)
  PROVE  RacedInv'
<1>1. ASSUME UNCHANGED <<pending, flush, taken, queue, raced, held, announced>>,
             \A d \in Commands : d # c => stage'[d] = stage[d],
             stage'[c] # "enqueue",
             c \notin raced /\ stage'[c] \in {"Redis", "get"}
               => Dest[c] \notin announced
      PROVE  RacedInv'
  <2>1. \A g \in Flushers : Kept(g)
    BY <1>1 DEF Kept
  <2>2. \A q, d \in Commands : Holds(queue'[q], d) => Holds(queue[q], d)
    BY <1>1
  <2>3. \A d \in Commands \ raced' : stage'[d] \in {"Redis", "get", "enqueue"}
            => Dest[d] \notin announced'
    BY <1>1 DEF RacedInv, NotRaced
  <2> QED BY <1>1, <2>1, <2>2, <2>3, RacedStill
<1>2. CASE Track(c)
  <2>1. /\ UNCHANGED <<pending, flush, taken, queue, raced, held, announced>>
        /\ stage'[c] = "SignalR" /\ \A d \in Commands : d # c => stage'[d] = stage[d]
    BY <1>2 DEF Track, TypeOK, flushing, history
  <2> QED BY <1>1, <2>1
<1>3. ASSUME NEW ch \in Channels, NoRoute(c, ch) PROVE RacedInv'
  <2>1. /\ UNCHANGED <<pending, flush, taken, queue, raced, held, announced>>
        /\ stage[c] = ch /\ stage'[c] \in {"Redis", "get"}
        /\ \A d \in Commands : d # c => stage'[d] = stage[d]
    BY <1>3 DEF NoRoute, TypeOK, flushing, history
  <2>2. ASSUME c \notin raced PROVE Dest[c] \notin announced
    <3>1. CASE ch = "SignalR"
      <4>1. Dest[c] \in announced =>
              Root[Dest[c]] \in Matches[Dest[c]] /\ Root[Dest[c]] \in routes["SignalR"]
        BY DEF TypeOK, AnnouncedInv
      <4> QED BY <1>3, <3>1, <4>1 DEF NoRoute
    <3>2. CASE ch = "Redis"
      <4>1. NotRaced(c)
        BY <2>2 DEF RacedInv
      <4> QED BY <2>1, <3>2, <4>1 DEF NotRaced
    <3> QED BY <3>1, <3>2 DEF Channels
  <2> QED BY <1>1, <2>1, <2>2
<1>4. ASSUME NEW ch \in Channels, NEW r \in Routes, Dispatch(c, ch, r) PROVE RacedInv'
  <2>1. /\ UNCHANGED <<pending, queue, raced, held, announced>> /\ StartFlush(<<"add", c>>, r)
        /\ stage[c] # "done" /\ stage'[c] = "done"
        /\ \A d \in Commands : d # c => stage'[d] = stage[d]
    BY <1>4 DEF Dispatch, TypeOK, history, Channels
  <2>2. \A g \in Flushers : Kept(g)
    BY <2>1, FlusherKinds, StartKept DEF AddInv
  <2>3. \A d \in Commands \ raced' : stage'[d] \in {"Redis", "get", "enqueue"}
            => Dest[d] \notin announced'
    BY <2>1 DEF RacedInv, NotRaced
  <2> QED BY <2>1, <2>2, <2>3, RacedStill
<1>5. CASE GetOrAddQueue(c)
  <2>1. /\ UNCHANGED <<queue, flush, taken, raced, announced>>
        /\ stage[c] = "get" /\ stage'[c] = "enqueue"
        /\ held'[c] = pending'[Dest[c]]
        /\ \A d \in Commands : d # c => stage'[d] = stage[d] /\ held'[d] = held[d]
        /\ \A n \in Names : pending[n] # None => pending'[n] = pending[n]
    BY <1>5 DEF GetOrAddQueue, TypeOK, flushing, history
  <2>2. ASSUME NEW d \in Commands \ raced' PROVE NotRaced(d)'
    <3>1. NotRaced(d) /\ Dest[d] \in Names
      BY <2>1 DEF RacedInv
    <3>2. stage'[d] = "enqueue" => pending'[Dest[d]] = held'[d]
      BY <2>1, <3>1 DEF NotRaced, TypeOK
    <3>3. \A q \in Commands : Holds(queue'[q], d) => pending'[Dest[q]] = q \/ BeingDrained(q)'
      <4>1. \A q \in Commands : BeingDrained(q) => BeingDrained(q)'
        BY <2>1 DEF BeingDrained
      <4>2. \A q \in Commands : pending[Dest[q]] = q => pending'[Dest[q]] = q
        BY <2>1
      <4> QED BY <2>1, <3>1, <4>1, <4>2 DEF NotRaced
    <3>4. stage'[d] \in {"Redis", "get", "enqueue"} => Dest[d] \notin announced'
      BY <2>1, <3>1 DEF NotRaced
    <3> QED BY <3>2, <3>3, <3>4 DEF NotRaced, Holds, Positions
  <2> QED BY <2>2 DEF RacedInv
<1>6. CASE Enqueue(c)
  <2>1. /\ UNCHANGED <<pending, flush, taken, raced, announced>>
        /\ stage[c] = "enqueue" /\ stage'[c] = "done"
        /\ \A d \in Commands : d # c => stage'[d] = stage[d] /\ held'[d] = held[d]
    BY <1>6 DEF Enqueue, TypeOK, flushing
  <2>2. /\ held[c] \in Commands /\ Dest[held[c]] = Dest[c]
        /\ \A q, d \in Commands :
             Holds(queue'[q], d) <=> Holds(queue[q], d) \/ (q = held[c] /\ d = c)
    BY <1>6, <2>1, EnqueueMoves DEF QueueInv
  <2>3. ASSUME NEW d \in Commands \ raced' PROVE NotRaced(d)'
    <3>1. NotRaced(d)
      BY <2>1 DEF RacedInv
    <3>2. stage'[d] = "enqueue" => pending'[Dest[d]] = held'[d]
      BY <2>1, <3>1 DEF NotRaced
    <3>3. \A q \in Commands : Holds(queue'[q], d) => pending'[Dest[q]] = q \/ BeingDrained(q)'
      BY <2>1, <2>2, <3>1 DEF NotRaced, BeingDrained
    <3>4. stage'[d] \in {"Redis", "get", "enqueue"} => Dest[d] \notin announced'
      BY <2>1, <3>1 DEF NotRaced
    <3> QED BY <3>2, <3>3, <3>4 DEF NotRaced, Holds, Positions
  <2> QED BY <2>3 DEF RacedInv
<1> QED BY <1>2, <1>3, <1>4, <1>5, <1>6 DEF Add

LEMMA RacedFlush ==
  ASSUME TypeOK, QueueInv, RacedInv, NEW f \in Flushers, FlushCommands(f)
  PROVE  RacedInv'
<1>0. /\ UNCHANGED <<announced, stage, held>>
      /\ \A d \in Commands \ raced : stage'[d] \in {"Redis", "get", "enqueue"}
            => Dest[d] \notin announced'
  BY DEF FlushCommands, FlushRemove, FlushNothing, FlushDequeue, FlushEmpty, FlushSend,
         FlushEnd, RacedInv, NotRaced, history
<1>1. CASE FlushRemove(f)
  <2>1. /\ queue' = queue /\ key[f] \in Names /\ flush[f] = "remove"
        /\ pending[key[f]] # None /\ pending[key[f]] \in Commands
        /\ flush'[f] = "drain" /\ taken'[f] = pending[key[f]]
        /\ \A g \in Flushers : g # f => flush'[g] = flush[g] /\ taken'[g] = taken[g]
        /\ \A n \in Names : n # key[f] => pending'[n] = pending[n]
        /\ raced' = raced \cup {d \in Commands : stage[d] = "enqueue" /\ held[d] = pending[key[f]]}
    BY <1>1 DEF FlushRemove, TypeOK
  <2>2. ASSUME NEW d \in Commands \ raced' PROVE NotRaced(d)'
    <3>1. NotRaced(d) /\ d \notin raced
          /\ ~(stage[d] = "enqueue" /\ held[d] = pending[key[f]])
      BY <2>1 DEF RacedInv
    <3>2. stage'[d] = "enqueue" => pending'[Dest[d]] = held'[d]
      BY <1>0, <2>1, <3>1 DEF NotRaced
    <3>3. ASSUME NEW q \in Commands, Holds(queue'[q], d)
          PROVE  pending'[Dest[q]] = q \/ BeingDrained(q)'
      <4>1. CASE BeingDrained(q)
        BY <2>1, <4>1 DEF BeingDrained
      <4>2. CASE pending[Dest[q]] = q /\ Dest[q] = key[f]
        BY <2>1, <4>2 DEF BeingDrained
      <4>3. CASE pending[Dest[q]] = q /\ Dest[q] # key[f]
        BY <2>1, <4>3
      <4> QED BY <2>1, <3>1, <3>3, <4>1, <4>2, <4>3 DEF NotRaced
    <3>4. stage'[d] \in {"Redis", "get", "enqueue"} => Dest[d] \notin announced'
      BY <1>0, <3>1
    <3> QED BY <3>2, <3>3, <3>4 DEF NotRaced, Holds, Positions
  <2> QED BY <2>2 DEF RacedInv
<1>2. CASE FlushNothing(f) \/ FlushSend(f) \/ FlushEnd(f)
  <2>1. UNCHANGED <<pending, queue, raced>> /\ \A g \in Flushers : Kept(g)
    BY <1>2 DEF FlushNothing, FlushSend, FlushEnd, Kept, TypeOK, history
  <2> QED BY <1>0, <2>1, RacedStill
<1>3. CASE FlushDequeue(f)
  <2>1. UNCHANGED <<pending, raced>> /\ \A g \in Flushers : Kept(g)
    BY <1>3 DEF FlushDequeue, Kept, history
  <2>2. \A q, d \in Commands : Holds(queue'[q], d) => Holds(queue[q], d)
    BY <1>3, DequeueMoves
  <2> QED BY <1>0, <2>1, <2>2, RacedStill
<1>4. CASE FlushEmpty(f)
  <2>1. /\ UNCHANGED <<pending, queue, raced, taken>> /\ queue[taken[f]] = <<>>
        /\ \A g \in Flushers : g # f => flush'[g] = flush[g]
    BY <1>4 DEF FlushEmpty, TypeOK, history
  <2>2. ASSUME NEW d \in Commands \ raced' PROVE NotRaced(d)'
    <3>1. NotRaced(d) /\ d \notin raced
      BY <2>1 DEF RacedInv
    <3>2. ~Holds(queue[taken[f]], d)
      BY <2>1, EmptyHolds
    <3>3. \A q \in Commands : Holds(queue'[q], d) => pending'[Dest[q]] = q \/ BeingDrained(q)'
      BY <2>1, <3>1, <3>2 DEF NotRaced, BeingDrained
    <3> QED BY <1>0, <2>1, <3>1, <3>3 DEF NotRaced, Holds, Positions
  <2> QED BY <2>2 DEF RacedInv
<1> QED BY <1>1, <1>2, <1>3, <1>4 DEF FlushCommands

LEMMA AnnouncedStep == TypeOK /\ AnnouncedInv /\ [Next]_vars => AnnouncedInv'
<1> SUFFICES ASSUME TypeOK, AnnouncedInv, [Next]_vars PROVE AnnouncedInv'
  OBVIOUS
<1>1. CASE UNCHANGED <<announced, routes>>
  BY <1>1 DEF AnnouncedInv
<1>2. ASSUME NEW n \in OnSignalR, RegisterSignalR(n) PROVE AnnouncedInv'
  BY <1>2 DEF AnnouncedInv, RegisterSignalR, TypeOK, Channels
<1>3. ASSUME NEW n, RegisterRedis(n) PROVE AnnouncedInv'
  BY <1>3 DEF AnnouncedInv, RegisterRedis, TypeOK, Channels, history
<1>4. ASSUME NEW ch \in Channels, NEW n, RemoveRoute(ch, n) PROVE AnnouncedInv'
  BY <1>4 DEF AnnouncedInv, RemoveRoute, TypeOK, Channels
<1>5. ASSUME NEW c \in Commands, Track(c) \/ Add(c) \/ ResolveAndForget(c) PROVE AnnouncedInv'
  BY <1>1, <1>5 DEF Track, Add, NoRoute, Dispatch, GetOrAddQueue, Enqueue, ResolveAndForget,
                    history
<1>6. ASSUME NEW f \in Flushers, FlushCommands(f) PROVE AnnouncedInv'
  BY <1>1, <1>6 DEF FlushCommands, FlushRemove, FlushNothing, FlushDequeue, FlushEmpty,
                    FlushSend, FlushEnd, history
<1>7. ASSUME NEW n, Poll(n) PROVE AnnouncedInv'
  BY <1>1, <1>7 DEF Poll, history
<1>8. CASE UNCHANGED vars
  BY <1>1, <1>8 DEF vars, history
<1> QED BY <1>2, <1>3, <1>4, <1>5, <1>6, <1>7, <1>8 DEF Next, Channels

LEMMA RedisOrLess ==
  ASSUME NEW r,
         \/ RegisterRedis(r) \/ (\E ch \in Channels : RemoveRoute(ch, r)) \/ ResolveAndForget(r)
  PROVE  announced' \subseteq announced /\ raced' = raced
  BY DEF RegisterRedis, RemoveRoute, ResolveAndForget, history

LEMMA RacedStep ==
  TypeOK /\ DoneInv /\ AddInv /\ QueueInv /\ AnnouncedInv /\ RacedInv /\ [Next]_vars => RacedInv'
<1> SUFFICES ASSUME TypeOK, DoneInv, AddInv, QueueInv, AnnouncedInv, RacedInv, [Next]_vars
             PROVE  RacedInv'
  OBVIOUS
<1>1. ASSUME NEW r \in OnSignalR, RegisterSignalR(r) PROVE RacedInv'
  <2>1. /\ UNCHANGED <<pending, queue, stage, held>>
        /\ flush[<<"register", r>>] = "idle" /\ StartFlush(<<"register", r>>, r)
        /\ announced' = announced \cup {r}
        /\ raced' = raced \cup Overtaken(r)
    BY <1>1 DEF RegisterSignalR, TypeOK, Channels
  <2>2. \A g \in Flushers : Kept(g)
    BY <2>1, FlusherKinds, StartKept
  <2>3. \A d \in Commands \ raced' : stage'[d] \in {"Redis", "get", "enqueue"}
            => Dest[d] \notin announced'
    BY <2>1 DEF RacedInv, NotRaced, Overtaken
  <2> QED BY <2>1, <2>2, <2>3, RacedStill
<1>2. ASSUME NEW r \in Polled, Poll(r) PROVE RacedInv'
  <2>1. /\ UNCHANGED <<pending, queue, stage, held, raced, announced>>
        /\ flush[<<"poll", r>>] = "idle" /\ StartFlush(<<"poll", r>>, r)
    BY <1>2 DEF Poll, history
  <2>2. \A g \in Flushers : Kept(g)
    BY <2>1, FlusherKinds, StartKept
  <2>3. \A d \in Commands \ raced' : stage'[d] \in {"Redis", "get", "enqueue"}
            => Dest[d] \notin announced'
    BY <2>1 DEF RacedInv, NotRaced
  <2> QED BY <2>1, <2>2, <2>3, RacedStill
<1>3. CASE UNCHANGED <<pending, queue, stage, held, raced, flush, taken>>
           /\ announced' \subseteq announced
  <2>1. \A g \in Flushers : Kept(g)
    BY <1>3 DEF Kept
  <2>2. \A d \in Commands \ raced' : stage'[d] \in {"Redis", "get", "enqueue"}
            => Dest[d] \notin announced'
    BY <1>3 DEF RacedInv, NotRaced
  <2> QED BY <1>3, <2>1, <2>2, RacedStill
<1>4. ASSUME NEW r, \/ RegisterRedis(r) \/ (\E ch \in Channels : RemoveRoute(ch, r))
                    \/ ResolveAndForget(r)
      PROVE  RacedInv'
  <2>1. UNCHANGED <<pending, queue, stage, held, raced, flush, taken>>
    BY <1>4 DEF RegisterRedis, RemoveRoute, ResolveAndForget, flushing, history
  <2>2. announced' \subseteq announced
    BY <1>4, RedisOrLess
  <2> QED BY <1>3, <2>1, <2>2
<1>5. CASE UNCHANGED vars
  BY <1>3, <1>5 DEF vars, flushing, history
<1> QED BY <1>1, <1>2, <1>4, <1>5, RacedAdd, RacedFlush DEF Next, Channels

(***************************************************************************)
(* Nothing waits under a name that SignalR was told and has flushed.       *)
(***************************************************************************)
LEMMA CaughtStill ==
  ASSUME TypeOK, CaughtInv, raced \subseteq raced', announced' \subseteq announced,
         \A d \in Commands \ raced' : WaitsAtHome(d)' => WaitsAtHome(d),
         \A d \in Commands \ raced' :
           /\ WaitsAtHome(d)' /\ Dest[d] \in OnSignalR
           /\ flush[<<"register", Dest[d]>>] = "remove"
           => flush'[<<"register", Dest[d]>>] = "remove"
  PROVE  CaughtInv'
<1> HIDE DEF WaitsAtHome
<1> QED BY DEF CaughtInv, Caught, TypeOK

LEMMA CaughtAdd ==
  ASSUME TypeOK, AddInv, QueueInv, RacedInv, CaughtInv, NEW c \in Commands, Track(c) \/ Add(c)
  PROVE  CaughtInv'
<1>1. raced' = raced /\ announced' = announced
  BY DEF Track, Add, NoRoute, Dispatch, GetOrAddQueue, Enqueue, history
<1>2. \A r \in OnSignalR : flush[<<"register", r>>] = "remove"
                           => flush'[<<"register", r>>] = "remove"
  <2>1. CASE flush' = flush
    BY <2>1
  <2>2. ASSUME NEW ch \in Channels, NEW r \in Routes, Dispatch(c, ch, r)
        PROVE  \A s \in OnSignalR : flush'[<<"register", s>>] = flush[<<"register", s>>]
    BY <2>2, FlusherKinds, PairsDiffer DEF Dispatch, StartFlush, TypeOK
  <2> QED BY <2>1, <2>2 DEF Track, Add, NoRoute, GetOrAddQueue, Enqueue, flushing
<1>3. CASE UNCHANGED <<pending, queue>>
  <2>1. \A d \in Commands : WaitsAtHome(d)' => WaitsAtHome(d)
    BY <1>3 DEF WaitsAtHome, Holds, Positions
  <2> QED BY <1>1, <1>2, <2>1, CaughtStill
<1>4. CASE GetOrAddQueue(c)
  <2>1. /\ queue' = queue /\ stage[c] = "get" /\ Dest[c] \in Names
        /\ \A n \in Names : pending'[n] = pending[n] \/ pending'[n] = c
    BY <1>4 DEF GetOrAddQueue, TypeOK
  <2>2. \A d \in Commands : ~Holds(queue[c], d)
    BY <2>1 DEF QueueInv, Made
  <2>3. \A q \in Commands : \A d \in Commands : Holds(queue[q], d)' <=> Holds(queue[q], d)
    BY <2>1 DEF Holds, Positions
  <2>4. ASSUME NEW d \in Commands, WaitsAtHome(d)' PROVE WaitsAtHome(d)
    <3>1. Dest[d] \in Names /\ pending'[Dest[d]] # None
          /\ Holds(queue[pending'[Dest[d]]], d)
      BY <2>1, <2>4 DEF WaitsAtHome, Holds, Positions
    <3> QED BY <2>1, <2>2, <3>1 DEF WaitsAtHome
  <2> QED BY <1>1, <1>2, <2>4, CaughtStill
<1>5. CASE Enqueue(c)
  <2>1. /\ pending' = pending /\ flush' = flush /\ stage[c] = "enqueue"
    BY <1>5 DEF Enqueue, flushing
  <2>2. \A q, d \in Commands :
          Holds(queue'[q], d) <=> Holds(queue[q], d) \/ (q = held[c] /\ d = c)
    BY <1>5, EnqueueMoves
  <2>3. c \notin raced => Dest[c] \notin announced
    BY <2>1 DEF RacedInv, NotRaced
  <2>4. ASSUME NEW d \in Commands \ raced' PROVE Caught(d)'
    <3>1. CASE d = c
      BY <1>1, <2>3, <2>4, <3>1 DEF Caught
    <3>2. CASE d # c
      <4>1. WaitsAtHome(d)' => WaitsAtHome(d)
        <5>1. pending[Dest[d]] \in Commands \cup {None}
          BY DEF TypeOK
        <5> QED BY <2>1, <2>2, <3>2, <5>1 DEF WaitsAtHome
      <4> QED BY <1>1, <2>1, <2>4, <4>1 DEF Caught, CaughtInv
    <3> QED BY <3>1, <3>2
  <2> QED BY <2>4 DEF CaughtInv
<1>6. CASE Track(c) \/ (\E ch \in Channels : NoRoute(c, ch) \/ \E r \in Routes : Dispatch(c, ch, r))
  BY <1>3, <1>6 DEF Track, NoRoute, Dispatch
<1> QED BY <1>4, <1>5, <1>6 DEF Add

LEMMA CaughtFlush ==
  ASSUME TypeOK, QueueInv, CaughtInv, NEW f \in Flushers, FlushCommands(f)
  PROVE  CaughtInv'
<1>1. raced \subseteq raced' /\ announced' = announced
  BY DEF FlushCommands, FlushRemove, FlushNothing, FlushDequeue, FlushEmpty, FlushSend,
         FlushEnd, history
<1>2. CASE FlushRemove(f)
  <2>1. /\ queue' = queue /\ flush[f] = "remove" /\ key[f] \in Names
        /\ pending'[key[f]] = None
        /\ \A n \in Names : n # key[f] => pending'[n] = pending[n]
        /\ \A g \in Flushers : g # f => flush'[g] = flush[g]
    BY <1>2 DEF FlushRemove, TypeOK
  <2>2. ASSUME NEW d \in Commands, WaitsAtHome(d)' PROVE WaitsAtHome(d) /\ Dest[d] # key[f]
    BY <2>1, <2>2 DEF WaitsAtHome, Holds, Positions
  <2>3. ASSUME NEW d \in Commands, WaitsAtHome(d)', Dest[d] \in OnSignalR
        PROVE  flush'[<<"register", Dest[d]>>] = flush[<<"register", Dest[d]>>]
    BY <2>1, <2>2, <2>3, FlusherKinds DEF QueueInv
  <2> QED BY <1>1, <2>2, <2>3, CaughtStill
<1>3. CASE FlushNothing(f)
  <2>1. /\ queue' = queue /\ pending' = pending /\ flush[f] = "remove"
        /\ key[f] = Blank \/ pending[key[f]] = None
        /\ \A g \in Flushers : g # f => flush'[g] = flush[g]
    BY <1>3 DEF FlushNothing, TypeOK
  <2>2. ASSUME NEW d \in Commands, WaitsAtHome(d)'
        PROVE  WaitsAtHome(d) /\ (Dest[d] = key[f] => Dest[d] = Blank)
    BY <2>1, <2>2 DEF WaitsAtHome, Holds, Positions
  <2>3. ASSUME NEW d \in Commands, WaitsAtHome(d)', Dest[d] \in OnSignalR
        PROVE  flush'[<<"register", Dest[d]>>] = flush[<<"register", Dest[d]>>]
    BY <2>1, <2>2, <2>3, FlusherKinds DEF QueueInv
  <2> QED BY <1>1, <2>2, <2>3, CaughtStill
<1>4. CASE FlushDequeue(f)
  <2>1. pending' = pending /\ flush' = flush
    BY <1>4 DEF FlushDequeue
  <2>2. \A q, d \in Commands : Holds(queue'[q], d) => Holds(queue[q], d)
    BY <1>4, DequeueMoves
  <2>3. ASSUME NEW d \in Commands, WaitsAtHome(d)' PROVE WaitsAtHome(d)
    <3>1. pending[Dest[d]] \in Commands \cup {None}
      BY DEF TypeOK
    <3> QED BY <2>1, <2>2, <2>3, <3>1 DEF WaitsAtHome
  <2> QED BY <1>1, <2>1, <2>3, CaughtStill
<1>5. CASE FlushEmpty(f) \/ FlushSend(f) \/ FlushEnd(f)
  <2>1. /\ UNCHANGED <<pending, queue>>
        /\ \A g \in Flushers : flush[g] = "remove" => flush'[g] = "remove"
    BY <1>5 DEF FlushEmpty, FlushSend, FlushEnd, TypeOK
  <2>2. \A d \in Commands : WaitsAtHome(d)' => WaitsAtHome(d)
    BY <2>1 DEF WaitsAtHome, Holds, Positions
  <2> QED BY <1>1, <2>1, <2>2, FlusherKinds, CaughtStill
<1> QED BY <1>2, <1>3, <1>4, <1>5 DEF FlushCommands

LEMMA CaughtStep ==
  TypeOK /\ AddInv /\ QueueInv /\ RacedInv /\ CaughtInv /\ [Next]_vars => CaughtInv'
<1> SUFFICES ASSUME TypeOK, AddInv, QueueInv, RacedInv, CaughtInv, [Next]_vars PROVE CaughtInv'
  OBVIOUS
<1>1. ASSUME UNCHANGED <<pending, queue>>, raced \subseteq raced',
             announced' \subseteq announced,
             \A r \in OnSignalR : flush[<<"register", r>>] = "remove"
                                => flush'[<<"register", r>>] = "remove"
      PROVE  CaughtInv'
  <2>1. \A d \in Commands : WaitsAtHome(d)' => WaitsAtHome(d)
    BY <1>1 DEF WaitsAtHome, Holds, Positions
  <2> QED BY <1>1, <2>1, CaughtStill
<1>2. ASSUME NEW r \in OnSignalR, RegisterSignalR(r) PROVE CaughtInv'
  <2>1. /\ UNCHANGED <<pending, queue>> /\ raced \subseteq raced'
        /\ announced' = announced \cup {r} /\ announced \subseteq OnSignalR
        /\ flush'[<<"register", r>>] = "remove"
        /\ \A s \in OnSignalR : s # r => flush'[<<"register", s>>] = flush[<<"register", s>>]
    BY <1>2, FlusherKinds, PairsDiffer DEF RegisterSignalR, StartFlush, TypeOK, Channels
  <2>2. \A d \in Commands : WaitsAtHome(d)' => WaitsAtHome(d)
    BY <2>1 DEF WaitsAtHome, Holds, Positions
  <2>3. ASSUME NEW d \in Commands \ raced' PROVE Caught(d)'
    <3> HIDE DEF WaitsAtHome
    <3>1. Caught(d)
      BY <2>1 DEF CaughtInv
    <3> QED BY <2>1, <2>2, <3>1 DEF Caught
  <2> QED BY <2>3 DEF CaughtInv
<1>3. ASSUME NEW r \in Polled, Poll(r) PROVE CaughtInv'
  <2>1. /\ UNCHANGED <<pending, queue, raced, announced>>
        /\ \A s \in OnSignalR : flush'[<<"register", s>>] = flush[<<"register", s>>]
    BY <1>3, FlusherKinds, PairsDiffer DEF Poll, StartFlush, TypeOK, history
  <2> QED BY <1>1, <2>1
<1>4. ASSUME NEW r, \/ RegisterRedis(r) \/ (\E ch \in Channels : RemoveRoute(ch, r))
                    \/ ResolveAndForget(r)
      PROVE  CaughtInv'
  <2>1. UNCHANGED <<pending, queue, raced, flush>>
    BY <1>4 DEF RegisterRedis, RemoveRoute, ResolveAndForget, flushing, history
  <2>2. announced' \subseteq announced
    BY <1>4, RedisOrLess
  <2> QED BY <1>1, <2>1, <2>2
<1>5. CASE UNCHANGED vars
  BY <1>1, <1>5 DEF vars, flushing, history
<1> QED BY <1>2, <1>3, <1>4, <1>5, CaughtAdd, CaughtFlush DEF Next, Channels

-------------------------------------------------------------------------------
(* Theorems. *)

LEMMA InitInv == Init => IInv
<1> SUFFICES ASSUME Init PROVE IInv
  OBVIOUS
<1>1. \A c : ~Holds(<<>>, c)
  BY EmptyHolds
<1>2. DoneInv /\ QueueInv /\ AnnouncedInv /\ RacedInv /\ CaughtInv
  BY <1>1, FlusherKinds DEF Init, DoneInv, QueueInv, AnnouncedInv, RacedInv, NotRaced,
                           CaughtInv, Caught,
                           WaitsAtHome, Channels
<1>3. AddInv /\ ReplyInv
  BY FlusherKinds DEF Init, AddInv, ReplyInv, ReplyOf
<1> QED BY <1>2, <1>3, InitType DEF IInv

\* The inductive invariant of command routing: what the four theorems below,
\* and the order of a route's commands, rest on.
THEOREM Invariant == Spec => []IInv
<1>1. IInv /\ [Next]_vars => IInv'
  BY TypeStep, DoneStep, AddStep, ReplyStep, QueueStep, AnnouncedStep, RacedStep,
     CaughtStep DEF IInv
<1> QED BY InitInv, <1>1, PTL DEF Spec

\* RepliedOnce: whatever races, and on however many paths a result is heard,
\* RoutableAppCmdManager hands it to the originator once.
THEOREM ResultGivenOnce == Spec => []RepliedOnce
<1>1. IInv => RepliedOnce
  BY DEF IInv, ReplyInv, ReplyOf, RepliedOnce
<1> QED BY Invariant, <1>1, PTL

\* FlushedWhenAnnounced: a command that no registration or flush overtook in
\* the middle of its Add is where _pending leads under its destination as it is
\* spelled, and does not wait under a spelling that SignalR was told and flushed.
THEOREM AnnouncedIsFlushed == Spec => []FlushedWhenAnnounced
<1>1. IInv => FlushedWhenAnnounced
  <2> SUFFICES ASSUME IInv, NEW c \in Commands \ raced
               PROVE  /\ \A q \in Commands : Positions(queue[q], c) # {}
                           => pending[Dest[c]] = q \/ BeingDrained(q)
                      /\ Waiting(c) /\ Dest[c] \in announced
                           => flush[<<"register", Dest[c]>>] = "remove"
    BY DEF FlushedWhenAnnounced
  <2>1. \A q \in Commands : Positions(queue[q], c) # {}
          => pending[Dest[c]] = q \/ BeingDrained(q)
    BY DEF IInv, RacedInv, NotRaced, QueueInv, Holds
  <2>2. Waiting(c) => WaitsAtHome(c)
    <3>1. ASSUME NEW n \in Names, pending[n] # None, Positions(queue[pending[n]], c) # {}
          PROVE  pending[n] \in Commands /\ Dest[pending[n]] = n /\ Dest[c] = n
      BY <3>1 DEF IInv, QueueInv, TypeOK, Holds
    <3> QED BY <3>1 DEF Waiting, WaitsAtHome, Holds
  <2> HIDE DEF WaitsAtHome
  <2> QED BY <2>1, <2>2 DEF IInv, CaughtInv, Caught
<1> QED BY Invariant, <1>1, PTL

================================================================================
