--------------------------- MODULE RedisRoutesProofs ---------------------------
(***************************************************************************)
(* What TLAPS proves of RedisRoutes, for any number of lives of the        *)
(* worker, of restarts of the hub and of events that wait.                 *)
(***************************************************************************)
EXTENDS RedisRoutes, TLAPS

\* A heartbeat that is being handled has left its time, or that was taken away.
BeatInv == beatAt # "idle" => last # "none" \/ crossed

WatchInv == TypeOK /\ BeatInv /\ WatchedUnlessCrossed

\* A command whose two look-ups disagree, or may, has seen the route change.
PickedInv == cmd = "picked" /\ routes # cmdClient => moved
StreamInv == cmd = "stream" /\ ~cmdRoute => moved

CommandInv == TypeOK /\ PickedInv /\ StreamInv /\ IgnoredOnlyIfMoved

LEMMA EmptySeq == ASSUME NEW S PROVE <<>> \in Seq(S)
  OBVIOUS

LEMMA Clients == \A k \in Lives : IdOf[k] \in Ids /\ IdOf[k] # None
  BY IdAssumption DEF Ids

LEMMA NoClient == None \notin Ids
  BY IdAssumption DEF Ids

(***************************************************************************)
(* Type correctness.                                                       *)
(***************************************************************************)
LEMMA TypeInit == Init => TypeOK
<1> SUFFICES ASSUME Init PROVE TypeOK
  OBVIOUS
<1>1. beats \in Seq(Ids)
  BY EmptySeq DEF Init
<1>2. /\ used \in 0..MaxLives /\ up \in 0..used /\ removals \in 0..MaxQueue
      /\ restarts \in 0..MaxRestarts /\ reader \in 0..used
  BY BoundsAssumption DEF Init, None
<1>3. remover \in [Removers -> {"idle", "forget", "look", "remove"}]
  BY DEF Init
<1> QED BY <1>1, <1>2, <1>3 DEF Init, TypeOK, None

LEMMA TypeWorker ==
  ASSUME TypeOK,
         \/ Start \/ Stop \/ Die
         \/ \E k \in Lives : Beat(k) \/ Stopped(k)
  PROVE  TypeOK'
<1> USE BoundsAssumption
    DEF TypeOK, None, events, handlers, command, worker
<1>1. CASE Start
  <2>1. used' \in 0..MaxLives /\ used \in Nat /\ used' = used + 1
    BY <1>1 DEF Start
  <2>2. up' \in 0..used' /\ reader' \in 0..used'
    BY <1>1, <2>1 DEF Start
  <2>3. stopping' \in SUBSET (1..used')
    BY <1>1, <2>1 DEF Start
  <2> QED BY <1>1, <2>1, <2>2, <2>3 DEF Start
<1>2. CASE Stop
  BY <1>2 DEF Stop
<1>3. CASE Die
  BY <1>3 DEF Die
<1>4. ASSUME NEW k \in Lives, Beat(k) PROVE TypeOK'
  <2>1. IdOf[k] \in Ids
    BY Clients
  <2>2. beats' \in Seq(Ids)
    BY <1>4, <2>1 DEF Beat
  <2> QED BY <1>4, <2>2 DEF Beat
<1>5. ASSUME NEW k \in Lives, Stopped(k) PROVE TypeOK'
  BY <1>5 DEF Stopped
<1> QED BY <1>1, <1>2, <1>3, <1>4, <1>5

LEMMA TypeBeat ==
  ASSUME TypeOK, HandleBeat
  PROVE  TypeOK'
<1> USE DEF TypeOK, None, events, handlers, command, worker
<1>1. CASE BeatTouch
  <2>1. Head(beats) \in Ids /\ Tail(beats) \in Seq(Ids)
    BY <1>1 DEF BeatTouch
  <2>2. beatOf' \in Ids /\ beatOf' # None
    BY <1>1, <2>1, NoClient DEF BeatTouch
  <2> QED BY <1>1, <2>1, <2>2 DEF BeatTouch
<1>2. CASE BeatLook
  BY <1>2 DEF BeatLook
<1>3. CASE BeatWrite
  BY <1>3 DEF BeatWrite, Moves
<1> QED BY <1>1, <1>2, <1>3 DEF HandleBeat

LEMMA TypeRemover ==
  ASSUME TypeOK,
         \/ RemovalArrives \/ SweepList \/ Age \/ Restart
         \/ \E w \in Removers : HandleRemover(w)
  PROVE  TypeOK'
<1> USE BoundsAssumption
    DEF TypeOK, None, events, handlers, command, worker, Go
<1>1. CASE RemovalArrives
  <2>1. removals' \in 0..MaxQueue
    BY <1>1 DEF RemovalArrives
  <2>2. remover' \in [Removers -> {"idle", "forget", "look", "remove"}]
    BY <1>1 DEF RemovalArrives
  <2> QED BY <1>1, <2>1, <2>2 DEF RemovalArrives
<1>2. CASE SweepList
  BY <1>2 DEF SweepList
<1>3. CASE Age
  BY <1>3 DEF Age
<1>4. CASE Restart
  <2>1. beats' \in Seq(Ids)
    BY <1>4, EmptySeq DEF Restart
  <2>2. remover' \in [Removers -> {"idle", "forget", "look", "remove"}]
    BY <1>4 DEF Restart
  <2>3. restarts' \in 0..MaxRestarts
    BY <1>4 DEF Restart
  <2>4. /\ cmd' \in {"none", "picked", "stream", "ignored"}
        /\ cmdClient' \in Ids \cup {None}
        /\ cmdClient' # None <=> cmd' \in {"picked", "stream"}
    BY <1>4 DEF Restart
  <2>5. removals' \in 0..MaxQueue /\ routes' = None /\ beatOf' = None
    BY <1>4 DEF Restart
  <2> QED BY <1>4, <2>1, <2>2, <2>3, <2>4, <2>5 DEF Restart
<1>5. ASSUME NEW w \in Removers, Forget(w) PROVE TypeOK'
  BY <1>5 DEF Forget
<1>6. ASSUME NEW w \in Removers, RemoveLook(w) PROVE TypeOK'
  BY <1>6 DEF RemoveLook
<1>7. ASSUME NEW w \in Removers, Remove(w) PROVE TypeOK'
  BY <1>7 DEF Remove, Moves
<1> QED
  BY <1>1, <1>2, <1>3, <1>4, <1>5, <1>6, <1>7 DEF HandleRemover

LEMMA TypeCommand ==
  ASSUME TypeOK, Pick \/ Send \/ \E k \in Lives : Consume(k)
  PROVE  TypeOK'
<1> USE BoundsAssumption DEF TypeOK, None, events, handlers, worker
<1>1. CASE Pick
  <2>1. /\ cmd' = "picked" /\ cmdClient' \in Ids /\ cmdClient' # 0
        /\ cmdRoute' \in BOOLEAN /\ moved' \in BOOLEAN
    BY <1>1 DEF Pick
  <2>2. reader' \in 0..used
    BY <1>1 DEF Pick
  <2>3. UNCHANGED <<used, up, stopping, beats, removals, last, routes, beatAt,
                    beatOf, remover, crossed, restarts>>
    BY <1>1 DEF Pick
  <2> QED BY <2>1, <2>2, <2>3
<1>2. CASE Send
  BY <1>2 DEF Send
<1>3. ASSUME NEW k \in Lives, Consume(k) PROVE TypeOK'
  <2>1. cmd' \in {"none", "ignored"} /\ cmdClient' = None /\ cmdRoute' = FALSE
    BY <1>3 DEF Consume
  <2>2. UNCHANGED <<used, up, stopping, beats, removals, last, routes, beatAt,
                    beatOf, remover, crossed, restarts>>
    BY <1>3 DEF Consume
  <2>3. k \in 0..used /\ 0 \in 0..used
    BY <1>3 DEF Consume, Lives
  <2>4. reader' \in 0..used
    BY <1>3, <2>3 DEF Consume
  <2>5. moved' \in BOOLEAN
    BY <1>3 DEF Consume
  <2> QED BY <2>1, <2>2, <2>4, <2>5
<1> QED BY <1>1, <1>2, <1>3

LEMMA TypeStep == TypeOK /\ [Next]_vars => TypeOK'
<1> SUFFICES ASSUME TypeOK, [Next]_vars PROVE TypeOK'
  OBVIOUS
<1>1. CASE UNCHANGED vars
  BY <1>1 DEF vars, worker, events, handlers, command, TypeOK
<1>2. CASE Next
  <2> HIDE DEF TypeOK
  <2> QED
    BY <1>2, TypeWorker, TypeBeat, TypeRemover, TypeCommand DEF Next
<1> QED BY <1>1, <1>2

\* Every variable of the hub, the worker and the command keeps its type.
THEOREM TypeCorrect == Spec => []TypeOK
  BY TypeInit, TypeStep, PTL DEF Spec

(***************************************************************************)
(* A route has an entry by which the sweep can find it.                    *)
(***************************************************************************)
LEMMA WatchInit == Init => WatchInv
  BY TypeInit DEF Init, WatchInv, BeatInv, WatchedUnlessCrossed, None

LEMMA WatchWorker ==
  ASSUME WatchInv,
         UNCHANGED <<last, routes, beatAt, remover, crossed>>
  PROVE  BeatInv' /\ WatchedUnlessCrossed'
  BY DEF WatchInv, BeatInv, WatchedUnlessCrossed, Removing

LEMMA WatchBeat ==
  ASSUME WatchInv, HandleBeat
  PROVE  BeatInv' /\ WatchedUnlessCrossed'
<1> USE DEF WatchInv, TypeOK, BeatInv, WatchedUnlessCrossed, Removing
<1>1. CASE BeatTouch
  BY <1>1 DEF BeatTouch
<1>2. CASE BeatLook
  BY <1>2 DEF BeatLook
<1>3. CASE BeatWrite
  BY <1>3 DEF BeatWrite
<1> QED BY <1>1, <1>2, <1>3 DEF HandleBeat

LEMMA WatchRemover ==
  ASSUME WatchInv,
         \/ RemovalArrives \/ SweepList \/ Age \/ Restart
         \/ \E w \in Removers : HandleRemover(w)
  PROVE  BeatInv' /\ WatchedUnlessCrossed'
<1> USE DEF WatchInv, TypeOK, BeatInv, WatchedUnlessCrossed, Removing, Removers, Go
<1>1. CASE RemovalArrives
  BY <1>1 DEF RemovalArrives
<1>2. CASE SweepList
  BY <1>2 DEF SweepList
<1>3. CASE Age
  BY <1>3 DEF Age
<1>4. CASE Restart
  BY <1>4 DEF Restart, None
<1>5. ASSUME NEW w \in Removers, Forget(w)
      PROVE  BeatInv' /\ WatchedUnlessCrossed'
  BY <1>5 DEF Forget
<1>6. ASSUME NEW w \in Removers, RemoveLook(w)
      PROVE  BeatInv' /\ WatchedUnlessCrossed'
  BY <1>6 DEF RemoveLook
<1>7. ASSUME NEW w \in Removers, Remove(w)
      PROVE  BeatInv' /\ WatchedUnlessCrossed'
  BY <1>7 DEF Remove
<1> QED
  BY <1>1, <1>2, <1>3, <1>4, <1>5, <1>6, <1>7 DEF HandleRemover

LEMMA WatchStep == WatchInv /\ [Next]_vars => WatchInv'
<1> SUFFICES ASSUME WatchInv, [Next]_vars PROVE BeatInv' /\ WatchedUnlessCrossed'
  BY TypeStep DEF WatchInv
<1>1. CASE HandleBeat
  BY <1>1, WatchBeat
<1>2. CASE \/ RemovalArrives \/ SweepList \/ Age \/ Restart
           \/ \E w \in Removers : HandleRemover(w)
  BY <1>2, WatchRemover
<1>3. CASE \/ Start \/ Stop \/ Die \/ Pick \/ Send \/ UNCHANGED vars
           \/ \E k \in Lives : Beat(k) \/ Stopped(k) \/ Consume(k)
  <2>1. UNCHANGED <<last, routes, beatAt, remover, crossed>>
    BY <1>3
    DEF Start, Stop, Die, Beat, Stopped, Pick, Send, Consume, vars, handlers
  <2> QED BY <2>1, WatchWorker
<1> QED BY <1>1, <1>2, <1>3 DEF Next

\* The eviction can find every route: it has an entry in _lastHeartbeat, or is
\* about to be removed, or a removal crossed the heartbeat that registered it.
THEOREM Watched == Spec => []WatchedUnlessCrossed
<1>1. WatchInv => WatchedUnlessCrossed
  BY DEF WatchInv
<1> QED BY <1>1, WatchInit, WatchStep, PTL DEF Spec

(***************************************************************************)
(* A command reaches whoever serves its route.                             *)
(***************************************************************************)
LEMMA CommandInit == Init => CommandInv
  BY TypeInit
  DEF Init, CommandInv, PickedInv, StreamInv, IgnoredOnlyIfMoved

LEMMA CommandMoves ==
  ASSUME CommandInv, NEW client, routes' = client, Moves(client),
         UNCHANGED command
  PROVE  PickedInv' /\ StreamInv' /\ IgnoredOnlyIfMoved'
  BY DEF CommandInv, PickedInv, StreamInv, IgnoredOnlyIfMoved, Moves, command

LEMMA CommandSent ==
  ASSUME CommandInv, Pick \/ Send \/ \E k \in Lives : Consume(k)
  PROVE  PickedInv' /\ StreamInv' /\ IgnoredOnlyIfMoved'
<1> USE DEF CommandInv, PickedInv, StreamInv, IgnoredOnlyIfMoved
<1>1. CASE Pick
  BY <1>1 DEF Pick
<1>2. CASE Send
  BY <1>2 DEF Send
<1>3. ASSUME NEW k \in Lives, Consume(k)
      PROVE  PickedInv' /\ StreamInv' /\ IgnoredOnlyIfMoved'
  BY <1>3 DEF Consume, ShouldDispatch
<1> QED BY <1>1, <1>2, <1>3

LEMMA CommandStep == CommandInv /\ [Next]_vars => CommandInv'
<1> SUFFICES ASSUME CommandInv, [Next]_vars
             PROVE  PickedInv' /\ StreamInv' /\ IgnoredOnlyIfMoved'
  BY TypeStep DEF CommandInv
<1>1. CASE Pick \/ Send \/ \E k \in Lives : Consume(k)
  BY <1>1, CommandSent
<1>2. CASE BeatWrite
  BY <1>2, CommandMoves DEF BeatWrite
<1>3. ASSUME NEW w \in Removers, Remove(w)
      PROVE  PickedInv' /\ StreamInv' /\ IgnoredOnlyIfMoved'
  BY <1>3, CommandMoves DEF Remove
<1>4. CASE Restart
  BY <1>4
  DEF Restart, CommandInv, PickedInv, StreamInv, IgnoredOnlyIfMoved
<1>5. CASE UNCHANGED <<routes, command, moved>>
  BY <1>5 DEF CommandInv, PickedInv, StreamInv, IgnoredOnlyIfMoved, command
<1>6. ASSUME \/ Start \/ Stop \/ Die \/ BeatTouch \/ BeatLook
             \/ RemovalArrives \/ SweepList \/ Age \/ UNCHANGED vars
             \/ \E k \in Lives : Beat(k) \/ Stopped(k)
             \/ \E w \in Removers : Forget(w) \/ RemoveLook(w)
      PROVE  UNCHANGED <<routes, command, moved>>
  BY <1>6
  DEF Start, Stop, Die, BeatTouch, BeatLook, RemovalArrives, SweepList, Age,
      Beat, Stopped, Forget, RemoveLook, vars, command
<1> QED
  BY <1>1, <1>2, <1>3, <1>4, <1>5, <1>6 DEF Next, HandleBeat, HandleRemover

\* IgnoredOnlyIfMoved: of the instances that spell the route like the hub does,
\* but for the case, none ignores a command that was not sent while the route
\* changed hands: whatever died and came back, its successor dispatches it.
THEOREM IgnoredOnlyWhenMoved == Spec => []IgnoredOnlyIfMoved
<1>1. CommandInv => IgnoredOnlyIfMoved
  BY DEF CommandInv
<1> QED BY <1>1, CommandInit, CommandStep, PTL DEF Spec

================================================================================
