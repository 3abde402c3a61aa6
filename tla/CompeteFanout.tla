----------------------------- MODULE CompeteFanout -----------------------------
(***************************************************************************)
(* src/Rxns/Cloud/Intelligence/CompeteFanout.cs: Fanout gives an item to   *)
(* a worker that is neither reserved nor busy, or pushes it on a stack,    *)
(* Overflow. A worker that was given an item goes on to pop items off      *)
(* Overflow until it finds none.                                           *)
(*                                                                         *)
(* A connection (the WorkerConnection that one call of RegisterWorker      *)
(* makes) is a member of Conns. A dispatch is one subscription of          *)
(* DoWorkUntilDrained; it is named by the item it starts with, which is    *)
(* handed out once. A dispatch whose DoWork fails is subscribed a second   *)
(* time by Until (RxnExtensions.cs), from its first item on.               *)
(*                                                                         *)
(* A worker (external) runs what DoWork gives it, and publishes IsBusy     *)
(* some time after it started and some time after it stopped.              *)
(***************************************************************************)
EXTENDS Naturals, Sequences, FiniteSets

CONSTANTS
  Work,      \* the items given to Fanout, each once
  Failing,   \* the items whose DoWork may fail
  Names,     \* the worker names
  Conns,     \* the connections
  NameOf,    \* NameOf[c]: the name of the worker of connection c
  Eligible,  \* Eligible[w]: the workers whose tags match item w
  None       \* no connection, no item

ASSUME CompeteFanoutAssumption ==
  /\ Failing \subseteq Work
  /\ NameOf \in [Conns -> Names]
  /\ Eligible \in [Work -> SUBSET Names]
  /\ None \notin Work \cup Conns

VARIABLES
  fanout,    \* fanout[w]: how far the call Fanout(w) is
  workers,   \* Workers, by name
  overflow,  \* Overflow, top first
  reserved,  \* the connections with IsReserved
  reg,       \* reg[c]: how far RegisterWorker and the Dispose of its result are
  popped,    \* popped[c]: the item that RegisterWorker popped
  conn,      \* conn[d]: the connection of dispatch d
  running,   \* running[d]: the item that dispatch d runs
  competing, \* the dispatches whose DoWork completed, before their TryPop
  errors,    \* errors[d]: how many subscriptions of dispatch d have failed
  finals,    \* finals[d]: the ended subscriptions of d whose Finally is to come
  busy,      \* the workers whose IsBusy is true
  outcome    \* outcome[w]: how w first ended (history)

registerVars == <<workers, reg, popped>>
dispatchVars == <<conn, running, competing, errors, finals, outcome>>
vars == <<fanout, overflow, reserved, busy, registerVars, dispatchVars>>

-------------------------------------------------------------------------------
Init ==
  /\ fanout = [w \in Work |-> "new"]
  /\ workers = [n \in Names |-> None]
  /\ overflow = <<>>
  /\ reserved = {}
  /\ reg = [c \in Conns |-> "unused"]
  /\ popped = [c \in Conns |-> None]
  /\ conn = [d \in Work |-> None]
  /\ running = [d \in Work |-> None]
  /\ competing = {}
  /\ errors = [d \in Work |-> 0]
  /\ finals = [d \in Work |-> 0]
  /\ busy = {}
  /\ outcome = [w \in Work |-> "none"]

\* _shouldFanOutToWorker: the tags match and the worker does not look busy.
Suits(c, w) == NameOf[c] \in Eligible[w] \ busy

Push(w) == overflow' = <<w>> \o overflow

\* _pickLock is held from the choice of a worker until it is marked.
LockFree == \A w \in Work : fanout[w] # "marking"

(***************************************************************************)
(* Fanout. Under the lock: find a worker and mark it.                      *)
(***************************************************************************)
ChooseSuited(w, c) ==
  /\ fanout[w] = "new"
  /\ LockFree
  /\ workers[NameOf[c]] = c
  /\ Suits(c, w)
  /\ fanout' = [fanout EXCEPT ![w] = "marking"]
  /\ conn' = [conn EXCEPT ![w] = c]
  /\ UNCHANGED <<overflow, reserved, busy, registerVars,
                 running, competing, errors, finals, outcome>>

FanoutChoose(w, c) == c \notin reserved /\ ChooseSuited(w, c)

FanoutMark(w) ==
  /\ fanout[w] = "marking"
  /\ fanout' = [fanout EXCEPT ![w] = "picked"]
  /\ reserved' = reserved \cup {conn[w]}
  /\ UNCHANGED <<overflow, busy, registerVars, dispatchVars>>

FanoutNoWorker(w) ==
  /\ fanout[w] = "new"
  /\ LockFree
  /\ \A c \in Conns : workers[NameOf[c]] = c => c \in reserved \/ ~Suits(c, w)
  /\ fanout' = [fanout EXCEPT ![w] = "unplaced"]
  /\ UNCHANGED <<overflow, reserved, busy, registerVars, dispatchVars>>

\* Outside the lock: subscribe the dispatch, or push the item.
Start(d) ==
  /\ running' = [running EXCEPT ![d] = d]
  /\ UNCHANGED <<overflow, reserved, busy, competing, errors, finals, outcome>>

FanoutStart(w) ==
  /\ fanout[w] = "picked"
  /\ fanout' = [fanout EXCEPT ![w] = "dispatched"]
  /\ Start(w)
  /\ UNCHANGED <<conn, registerVars>>

FanoutPush(w) ==
  /\ fanout[w] = "unplaced"
  /\ fanout' = [fanout EXCEPT ![w] = "pushed"]
  /\ Push(w)
  /\ UNCHANGED <<reserved, busy, registerVars, dispatchVars>>

(***************************************************************************)
(* RegisterWorker, which does not take the lock. Workers.Add replaces an   *)
(* entry of that name.                                                     *)
(***************************************************************************)
Registering(c, from, to) ==
  /\ reg[c] = from
  /\ reg' = [reg EXCEPT ![c] = to]
  /\ UNCHANGED <<fanout, busy>>

RegisterAdd(c) ==
  /\ Registering(c, "unused", "added")
  /\ workers' = [workers EXCEPT ![NameOf[c]] = c]
  /\ UNCHANGED <<overflow, reserved, popped, dispatchVars>>

\* TryPeek finds an item that suits the worker; or it does not.
RegisterPeek(c) ==
  /\ Registering(c, "added",
       IF overflow # <<>> /\ Suits(c, Head(overflow)) THEN "popping" ELSE "registered")
  /\ UNCHANGED <<workers, overflow, reserved, popped, dispatchVars>>

\* TryPop, which may return another item than the one peeked at.
PopThen(c, next) ==
  /\ overflow # <<>>
  /\ Registering(c, "popping", next)
  /\ popped' = [popped EXCEPT ![c] = Head(overflow)]
  /\ overflow' = Tail(overflow)
  /\ UNCHANGED <<workers, reserved, dispatchVars>>

\* Mutant: the item is taken for the one that was peeked at.
RegisterPopUnchecked(c) == PopThen(c, "marking")

RegisterPop(c) == PopThen(c, IF Suits(c, Head(overflow)) THEN "marking" ELSE "unsuited")

RegisterPopNothing(c) ==
  /\ overflow = <<>>
  /\ Registering(c, "popping", "registered")
  /\ UNCHANGED <<workers, overflow, reserved, popped, dispatchVars>>

RegisterMark(c) ==
  /\ Registering(c, "marking", "starting")
  /\ reserved' = reserved \cup {c}
  /\ UNCHANGED <<workers, overflow, popped, dispatchVars>>

RegisterStart(c) ==
  /\ Registering(c, "starting", "registered")
  /\ popped' = [popped EXCEPT ![c] = None]
  /\ conn' = [conn EXCEPT ![popped[c]] = c]
  /\ Start(popped[c])
  /\ UNCHANGED workers

\* The popped item does not suit the worker after all, and is let go.
LetGo(c) ==
  /\ Registering(c, "unsuited", "registered")
  /\ popped' = [popped EXCEPT ![c] = None]
  /\ UNCHANGED <<workers, reserved, dispatchVars>>

\* Mutant: it is not pushed back.
RegisterDrop(c) == LetGo(c) /\ UNCHANGED overflow

RegisterPushBack(c) == LetGo(c) /\ Push(popped[c])

\* The Dispose of a registration removes whatever worker has the name. Nothing
\* stops a dispatch that is under way.
Dispose(c) ==
  /\ Registering(c, "registered", "disposed")
  /\ workers' = [workers EXCEPT ![NameOf[c]] = None]
  /\ UNCHANGED <<overflow, reserved, popped, dispatchVars>>

(***************************************************************************)
(* DoWorkUntilDrained.                                                     *)
(***************************************************************************)
Ended(w, result) ==
  outcome' = [outcome EXCEPT ![w] = IF @ = "none" THEN result ELSE @]

DoWorkCompletes(d) ==
  /\ running[d] # None
  /\ Ended(running[d], "completed")
  /\ running' = [running EXCEPT ![d] = None]
  /\ competing' = competing \cup {d}
  /\ UNCHANGED <<fanout, overflow, reserved, busy, registerVars, conn, errors, finals>>

\* TryPop yields the next item, whatever its tags.
CompeteNext(d) ==
  /\ d \in competing
  /\ overflow # <<>>
  /\ competing' = competing \ {d}
  /\ running' = [running EXCEPT ![d] = Head(overflow)]
  /\ overflow' = Tail(overflow)
  /\ UNCHANGED <<fanout, reserved, busy, registerVars, conn, errors, finals, outcome>>

\* OnCompleted, when Overflow is empty.
CompeteEnds(d) ==
  /\ d \in competing
  /\ competing' = competing \ {d}
  /\ UNCHANGED <<fanout, overflow, reserved, busy, registerVars, conn, running, errors, outcome>>

Complete(d) == CompeteEnds(d) /\ finals' = [finals EXCEPT ![d] = @ + 1]

\* Mutant: the reservation is only given back after a failure.
CompleteNoFinally(d) == overflow = <<>> /\ CompeteEnds(d) /\ UNCHANGED finals

CompeteDone(d) == overflow = <<>> /\ Complete(d)

\* OnError: the subscription ends, and what comes next is up to Until.
Fails(d, next) ==
  /\ running[d] \in Failing
  /\ errors' = [errors EXCEPT ![d] = @ + 1]
  /\ running' = [running EXCEPT ![d] = next]
  /\ finals' = [finals EXCEPT ![d] = @ + 1]
  /\ UNCHANGED <<fanout, overflow, reserved, busy, registerVars, conn, competing>>

\* The first time, Until subscribes the dispatch again, before the Finally of
\* the failed subscription runs: it starts over with its first item. An item
\* popped off Overflow is not tried again.
DoWorkFailsFirst(d) ==
  /\ errors[d] = 0
  /\ IF running[d] = d THEN UNCHANGED outcome ELSE Ended(running[d], "failed")
  /\ Fails(d, d)

\* The second time, the dispatch ends.
DoWorkFailsAgain(d) ==
  errors[d] = 1 /\ Ended(running[d], "failed") /\ Fails(d, None)

\* .Finally(() => picked.IsReserved = false), once for every subscription.
ClearReserved(d) ==
  /\ finals' = [finals EXCEPT ![d] = @ - 1]
  /\ reserved' = reserved \ {conn[d]}
  /\ UNCHANGED <<fanout, overflow, busy, registerVars, conn, running, competing, errors, outcome>>

Finally(d) == finals[d] > 0 /\ ClearReserved(d)

(***************************************************************************)
(* IsBusy follows what the worker does, late.                              *)
(***************************************************************************)
AtWork(n) == \E d \in Work : running[d] # None /\ NameOf[conn[d]] = n

BusyOn(n) ==
  /\ n \notin busy /\ AtWork(n)
  /\ busy' = busy \cup {n}
  /\ UNCHANGED <<fanout, overflow, reserved, registerVars, dispatchVars>>

BusyOff(n) ==
  /\ n \in busy /\ ~AtWork(n)
  /\ busy' = busy \ {n}
  /\ UNCHANGED <<fanout, overflow, reserved, registerVars, dispatchVars>>

-------------------------------------------------------------------------------
Fanout(w) ==
  \/ \E c \in Conns : FanoutChoose(w, c)
  \/ FanoutMark(w)
  \/ FanoutNoWorker(w)
  \/ FanoutStart(w)
  \/ FanoutPush(w)

RegisterWorker(c) ==
  \/ RegisterAdd(c)
  \/ RegisterPeek(c)
  \/ RegisterPop(c)
  \/ RegisterPopNothing(c)
  \/ RegisterMark(c)
  \/ RegisterStart(c)
  \/ RegisterPushBack(c)

DoWorkUntilDrained(d) ==
  \/ DoWorkCompletes(d)
  \/ CompeteNext(d)
  \/ CompeteDone(d)
  \/ DoWorkFailsFirst(d)
  \/ DoWorkFailsAgain(d)

Next ==
  \/ \E w \in Work : Fanout(w) \/ DoWorkUntilDrained(w) \/ Finally(w)
  \/ \E c \in Conns : RegisterWorker(c) \/ Dispose(c)
  \/ \E n \in Names : BusyOn(n) \/ BusyOff(n)

Spec == Init /\ [][Next]_vars

\* Every DoWork ends, one way or the other. No call has to be made.
Fairness == \A d \in Work : WF_vars(DoWorkUntilDrained(d))

FairSpec == Spec /\ Fairness
-------------------------------------------------------------------------------
TypeOK ==
  /\ fanout \in [Work -> {"new", "marking", "picked", "dispatched", "unplaced", "pushed"}]
  /\ workers \in [Names -> Conns \cup {None}]
  /\ overflow \in Seq(Work)
  /\ reserved \in SUBSET Conns
  /\ reg \in [Conns -> {"unused", "added", "popping", "marking", "starting", "unsuited",
                        "registered", "disposed"}]
  /\ popped \in [Conns -> Work \cup {None}]
  /\ conn \in [Work -> Conns \cup {None}]
  /\ running \in [Work -> Work \cup {None}]
  /\ competing \in SUBSET Work
  /\ errors \in [Work -> 0 .. 2]
  /\ finals \in [Work -> 0 .. 2]
  /\ busy \in SUBSET Names
  /\ outcome \in [Work -> {"none", "completed", "failed"}]

\* A dispatch goes on from its subscription to OnCompleted or OnError. It is
\* active on its connection from the moment it was picked to its last Finally.
GoesOn(d) == running[d] # None \/ d \in competing
Active(c) ==
  {d \in Work : conn[d] = c /\ (fanout[d] = "picked" \/ GoesOn(d) \/ finals[d] > 0)}

\* Every dispatch of c is from Fanout, and none has failed.
Untroubled(c) ==
  /\ reg[c] \notin {"marking", "starting"}
  /\ \A d \in Work : conn[d] = c => fanout[d] # "pushed" /\ errors[d] = 0

\* What the lock and the flag give (lines 25-31 and 134-158): a connection that
\* Fanout alone gives work to has one dispatch at most, and is reserved as long
\* as it has one, up to and including its last Finally. It takes a failed DoWork
\* or a RegisterWorker that drains Overflow to break this.
ReservedWhileActive ==
  \A c \in Conns : Untroubled(c) =>
    /\ Active(c) # {} => c \in reserved
    /\ \A d, e \in Active(c) : d = e

\* No reservation outlives its dispatches, so no worker drops out for good:
\* whatever failed and in whatever order the Finally actions ran, a reserved
\* connection has a dispatch that is still to clear the flag.
NoLeakedReservation ==
  \A c \in reserved : reg[c] = "starting" \/ Active(c) # {}

\* A worker is never started on an item whose tags it does not match (lines
\* 53-55 and 64), even if the item it popped is not the one it peeked at. This
\* is of the item a dispatch starts with; the next ones are popped unseen.
FirstItemMatches ==
  \A d \in Work : conn[d] # None => NameOf[conn[d]] \in Eligible[d]

\* Lines 25-28: Fanout and RegisterWorker "can't double-pick the same worker".
Picked(c) ==
  {d \in Work : conn[d] = c /\ (fanout[d] = "picked" \/ GoesOn(d))}
    \cup (IF reg[c] = "starting" THEN {popped[c]} ELSE {})
NoDoublePick == \A c \in Conns : \A d, e \in Picked(c) : d = e

\* Lines 151-154: "the worker becomes pickable again exactly once its prior
\* dispatch is done".
PickableOnceDone ==
  \A d \in Work : GoesOn(d) => conn[d] \in reserved

Elements(q) == {q[i] : i \in DOMAIN q}

\* What a stack promises (lines 22 and 142-150): while a dispatch is under way,
\* the item on top of Overflow is popped, or another one is pushed above it, or
\* a dispatch gave up after its second failure. So the item under it comes to be
\* the top, unless pushes go on forever: an item on Overflow is not promised to
\* be popped. One pushed after the last dispatch found Overflow empty has no
\* promise at all.
OnTop(w) == overflow # <<>> /\ Head(overflow) = w
PoppedUnlessCovered ==
  \A w \in Work :
    OnTop(w) /\ (\E d \in Work : GoesOn(d))
      ~> ~OnTop(w) \/ (\E d \in Work : errors[d] = 2)

\* CompeteFanout implements WorkDistribution with connections as holders. A
\* connection may hold several items and any item, and nothing is abandoned.
\* Only the first end of an item counts: a dispatch that starts over runs its
\* first item again, even if that item was completed.
Running(w) == \E d \in Work : running[d] = w
Started(w) == fanout[w] = "picked" \/ \E c \in Conns : reg[c] = "starting" /\ popped[c] = w
Waits(w) ==
  \/ fanout[w] \in {"marking", "unplaced"}
  \/ w \in Elements(overflow)
  \/ \E c \in Conns : reg[c] \in {"marking", "unsuited"} /\ popped[c] = w

Stage(w) ==
  IF outcome[w] # "none"           THEN outcome[w]
  ELSE IF Running(w) \/ Started(w) THEN "held"
  ELSE IF Waits(w)                 THEN "pooled"
  ELSE IF fanout[w] = "new"        THEN "new"
  ELSE "lost"

Holder(w) ==
  IF Stage(w) # "held" THEN None
  ELSE IF Running(w)   THEN conn[CHOOSE d \in Work : running[d] = w]
  ELSE IF fanout[w] = "picked" THEN conn[w]
  ELSE CHOOSE c \in Conns : reg[c] = "starting" /\ popped[c] = w

Distribution == INSTANCE WorkDistribution WITH
  Holders   <- Conns,
  Eligible  <- [w \in Work |-> Conns],
  Exclusive <- FALSE,
  stage     <- [w \in Work |-> Stage(w)],
  holder    <- [w \in Work |-> Holder(w)],
  stopped   <- {}

DistributesWork == Distribution!Spec
===============================================================================
