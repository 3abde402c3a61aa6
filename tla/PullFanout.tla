------------------------------ MODULE PullFanout ------------------------------
(***************************************************************************)
(* src/Rxns/Cloud/Intelligence/PullFanout.cs: work items are put on one    *)
(* FIFO per queue key, each with a semaphore that counts its items; every  *)
(* registered worker runs a read loop that waits for a permit on any of    *)
(* the keys it subscribes to, dequeues one item and runs it.               *)
(*                                                                         *)
(* A registration (one call of RegisterWorker) is a member of Loops: it is *)
(* also its read loop and its CancellationTokenSource. Two registrations   *)
(* may be of one worker name, as when a worker restarts under its old name *)
(* and is discovered again before its first registration is disposed.      *)
(*                                                                         *)
(* SemaphoreSlim (external) is its count. A waiter may take a permit when  *)
(* there is one, whichever waits longest: .NET hands permits out FIFO,     *)
(* which is one of the orders modelled. Queues and semaphores, created     *)
(* lazily by EnsureQueue with GetOrAdd, exist empty from the start.        *)
(***************************************************************************)
EXTENDS Naturals, Sequences, FiniteSets

CONSTANTS
  Work,        \* the work items given to Fanout, each once
  Keys,        \* the queue keys
  Names,       \* the worker names
  Loops,       \* the registrations
  KeyOf,       \* KeyOf[w]: _getWorkQueueKey(w)
  Subscribed,  \* Subscribed[l]: the snapshot of _getWorkerQueueKeys
  NameOf,      \* NameOf[l]: the name of the worker that l registers
  None         \* no registration, no key, no item

ASSUME PullFanoutAssumption ==
  /\ IsFiniteSet(Work)
  /\ IsFiniteSet(Loops)
  /\ KeyOf \in [Work -> Keys]
  /\ Subscribed \in [Loops -> (SUBSET Keys) \ {{}}]
  /\ NameOf \in [Loops -> Names]
  /\ None \notin Work \cup Keys \cup Loops

VARIABLES
  fanout,     \* fanout[w]: how far the call Fanout(w) is
  queue,      \* _queues
  sem,        \* _signals: the CurrentCount of each semaphore
  workers,    \* Workers, by name
  workerCts,  \* _workerCts, by name
  reg,        \* reg[l]: how far RegisterWorker and the Dispose of its result are
  cancelled,  \* the registrations whose CancellationTokenSource is cancelled
  pc,         \* pc[l]: where the read loop is
  granted,    \* granted[l]: the keys whose WaitAsync holds a permit for l
  uncollected,\* uncollected[l]: the sibling waits TryTakeWork has yet to await
  winner,     \* winner[l]: the key TryTakeWork won, None for a cancelled wait
  item,       \* item[l]: the work RunDispatch runs
  outcome     \* outcome[w]: how the run of w ended (history)

fanoutVars == <<fanout, queue>>
regVars    == <<workers, workerCts, reg, cancelled>>
takeVars   == <<granted, uncollected, winner>>
vars == <<fanoutVars, sem, regVars, pc, takeVars, item, outcome>>

-------------------------------------------------------------------------------
Init ==
  /\ fanout = [w \in Work |-> "new"]
  /\ queue = [k \in Keys |-> <<>>]
  /\ sem = [k \in Keys |-> 0]
  /\ workers = [n \in Names |-> None]
  /\ workerCts = [n \in Names |-> None]
  /\ reg = [l \in Loops |-> "unused"]
  /\ cancelled = {}
  /\ pc = [l \in Loops |-> "off"]
  /\ granted = [l \in Loops |-> {}]
  /\ uncollected = [l \in Loops |-> {}]
  /\ winner = [l \in Loops |-> None]
  /\ item = [l \in Loops |-> None]
  /\ outcome = [w \in Work |-> "none"]

(***************************************************************************)
(* Fanout: Enqueue, then Release. Another thread may run between the two.  *)
(***************************************************************************)
FanoutEnqueue(w) ==
  /\ fanout[w] = "new"
  /\ fanout' = [fanout EXCEPT ![w] = "enqueued"]
  /\ queue' = [queue EXCEPT ![KeyOf[w]] = Append(@, w)]
  /\ UNCHANGED <<sem, regVars, pc, takeVars, item, outcome>>

FanoutRelease(w) ==
  /\ fanout[w] = "enqueued"
  /\ fanout' = [fanout EXCEPT ![w] = "returned"]
  /\ sem' = [sem EXCEPT ![KeyOf[w]] = @ + 1]
  /\ UNCHANGED <<queue, regVars, pc, takeVars, item, outcome>>

(***************************************************************************)
(* RegisterWorker: Workers.Add (which replaces an entry of that name),     *)
(* then the token source takes the name's slot and the loop is started.    *)
(***************************************************************************)
RegisterAdd(l) ==
  /\ reg[l] = "unused"
  /\ reg' = [reg EXCEPT ![l] = "adding"]
  /\ workers' = [workers EXCEPT ![NameOf[l]] = l]
  /\ UNCHANGED <<fanoutVars, sem, workerCts, cancelled, pc, takeVars, item, outcome>>

\* Mutant: the token source is not recorded under the worker's name.
RegisterStartUnrecorded(l) ==
  /\ reg[l] = "adding"
  /\ reg' = [reg EXCEPT ![l] = "registered"]
  /\ pc' = [pc EXCEPT ![l] = "top"]
  /\ UNCHANGED <<fanoutVars, sem, workers, workerCts, cancelled, takeVars, item, outcome>>

RegisterStart(l) ==
  /\ reg[l] = "adding"
  /\ reg' = [reg EXCEPT ![l] = "registered"]
  /\ workerCts' = [workerCts EXCEPT ![NameOf[l]] = l]
  /\ pc' = [pc EXCEPT ![l] = "top"]
  /\ UNCHANGED <<fanoutVars, sem, workers, cancelled, takeVars, item, outcome>>

(***************************************************************************)
(* The Dispose of a registration goes by NAME: it removes whatever worker  *)
(* has the name and cancels whatever token source the name's slot holds.   *)
(***************************************************************************)
DisposeRemove(l) ==
  /\ reg[l] = "registered"
  /\ reg' = [reg EXCEPT ![l] = "disposing"]
  /\ workers' = [workers EXCEPT ![NameOf[l]] = None]
  /\ UNCHANGED <<fanoutVars, sem, workerCts, cancelled, pc, takeVars, item, outcome>>

DisposeCancel(l) ==
  /\ reg[l] = "disposing"
  /\ reg' = [reg EXCEPT ![l] = "disposed"]
  /\ cancelled' = cancelled \cup ({workerCts[NameOf[l]]} \ {None})
  /\ workerCts' = [workerCts EXCEPT ![NameOf[l]] = None]
  /\ UNCHANGED <<fanoutVars, sem, workers, pc, takeVars, item, outcome>>

(***************************************************************************)
(* The read loop. At the top: while (!cts.IsCancellationRequested).        *)
(***************************************************************************)
LoopExit(l) ==
  /\ pc[l] = "top"
  /\ l \in cancelled
  /\ pc' = [pc EXCEPT ![l] = "ended"]
  /\ UNCHANGED <<fanoutVars, sem, regVars, takeVars, item, outcome>>

\* TryTakeWork: one WaitAsync per subscribed key.
StartWait(l) ==
  /\ pc[l] = "top"
  /\ l \notin cancelled
  /\ pc' = [pc EXCEPT ![l] = "waiting"]
  /\ UNCHANGED <<fanoutVars, sem, regVars, takeVars, item, outcome>>

\* Mutant: a wait completes although the count is zero.
AcquireUnchecked(l, k) ==
  /\ pc[l] = "waiting"
  /\ k \in Subscribed[l] \ granted[l]
  /\ sem' = [sem EXCEPT ![k] = @ - 1]
  /\ granted' = [granted EXCEPT ![l] = @ \cup {k}]
  /\ UNCHANGED <<fanoutVars, regVars, pc, uncollected, winner, item, outcome>>

\* A WaitAsync of l completes with a permit. It may still do so after l has
\* a winner and cancelled the siblings, until the sibling has been awaited.
Acquire(l, k) ==
  /\ \/ pc[l] = "waiting" /\ k \in Subscribed[l]
     \/ pc[l] = "collecting" /\ k \in uncollected[l]
  /\ k \notin granted[l]
  /\ sem[k] > 0
  /\ sem' = [sem EXCEPT ![k] = @ - 1]
  /\ granted' = [granted EXCEPT ![l] = @ \cup {k}]
  /\ UNCHANGED <<fanoutVars, regVars, pc, uncollected, winner, item, outcome>>

\* Task.WhenAny returns a wait that completed; the siblings are cancelled.
Win(l, k) ==
  /\ pc[l] = "waiting"
  /\ k \in granted[l]
  /\ pc' = [pc EXCEPT ![l] = "collecting"]
  /\ winner' = [winner EXCEPT ![l] = k]
  /\ uncollected' = [uncollected EXCEPT ![l] = Subscribed[l] \ {k}]
  /\ UNCHANGED <<fanoutVars, sem, regVars, granted, item, outcome>>

\* Task.WhenAny returns a wait that the outer token cancelled.
WinCancelled(l, k) ==
  /\ pc[l] = "waiting"
  /\ l \in cancelled
  /\ k \in Subscribed[l] \ granted[l]
  /\ pc' = [pc EXCEPT ![l] = "collecting"]
  /\ uncollected' = [uncollected EXCEPT ![l] = Subscribed[l] \ {k}]
  /\ UNCHANGED <<fanoutVars, sem, regVars, granted, winner, item, outcome>>

\* Mutant: the permit of a late sibling is not released back.
CollectGrantedLeak(l, k) ==
  /\ pc[l] = "collecting"
  /\ k \in uncollected[l] \cap granted[l]
  /\ granted' = [granted EXCEPT ![l] = @ \ {k}]
  /\ uncollected' = [uncollected EXCEPT ![l] = @ \ {k}]
  /\ UNCHANGED <<fanoutVars, sem, regVars, pc, winner, item, outcome>>

\* A sibling that got a permit all the same gives it back.
CollectGranted(l, k) ==
  /\ pc[l] = "collecting"
  /\ k \in uncollected[l] \cap granted[l]
  /\ sem' = [sem EXCEPT ![k] = @ + 1]
  /\ granted' = [granted EXCEPT ![l] = @ \ {k}]
  /\ uncollected' = [uncollected EXCEPT ![l] = @ \ {k}]
  /\ UNCHANGED <<fanoutVars, regVars, pc, winner, item, outcome>>

\* Mutant: Release runs for a sibling whose wait was cancelled, too.
CollectCancelledRelease(l, k) ==
  /\ pc[l] = "collecting"
  /\ k \in uncollected[l] \ granted[l]
  /\ sem' = [sem EXCEPT ![k] = @ + 1]
  /\ uncollected' = [uncollected EXCEPT ![l] = @ \ {k}]
  /\ UNCHANGED <<fanoutVars, regVars, pc, granted, winner, item, outcome>>

CollectCancelled(l, k) ==
  /\ pc[l] = "collecting"
  /\ k \in uncollected[l] \ granted[l]
  /\ uncollected' = [uncollected EXCEPT ![l] = @ \ {k}]
  /\ UNCHANGED <<fanoutVars, sem, regVars, pc, granted, winner, item, outcome>>

\* The winner was a cancelled wait, or its queue turned out to be empty:
\* Maybe.Empty, and the loop goes round. The permit, if any, is spent.
TakeNothing(l) ==
  /\ pc[l] = "collecting"
  /\ uncollected[l] = {}
  /\ winner[l] # None => queue[winner[l]] = <<>>
  /\ pc' = [pc EXCEPT ![l] = "top"]
  /\ granted' = [granted EXCEPT ![l] = {}]
  /\ winner' = [winner EXCEPT ![l] = None]
  /\ UNCHANGED <<fanoutVars, sem, regVars, uncollected, item, outcome>>

\* Mutant: the item is peeked at and stays in the queue.
TakeItemPeek(l) ==
  /\ pc[l] = "collecting"
  /\ uncollected[l] = {}
  /\ winner[l] # None
  /\ queue[winner[l]] # <<>>
  /\ item' = [item EXCEPT ![l] = Head(queue[winner[l]])]
  /\ pc' = [pc EXCEPT ![l] = "working"]
  /\ granted' = [granted EXCEPT ![l] = {}]
  /\ winner' = [winner EXCEPT ![l] = None]
  /\ UNCHANGED <<fanoutVars, sem, regVars, uncollected, outcome>>

\* TryDequeue succeeds and RunDispatch starts the item.
TakeItem(l) ==
  /\ pc[l] = "collecting"
  /\ uncollected[l] = {}
  /\ winner[l] # None
  /\ queue[winner[l]] # <<>>
  /\ item' = [item EXCEPT ![l] = Head(queue[winner[l]])]
  /\ queue' = [queue EXCEPT ![winner[l]] = Tail(@)]
  /\ pc' = [pc EXCEPT ![l] = "working"]
  /\ granted' = [granted EXCEPT ![l] = {}]
  /\ winner' = [winner EXCEPT ![l] = None]
  /\ UNCHANGED <<fanout, sem, regVars, uncollected, outcome>>

\* RunDispatch ends: DoWork completes; it fails, which is logged and the
\* loop goes on; or the token is cancelled, which drops it and ends the loop.
Settle(l, result, next) ==
  /\ pc[l] = "working"
  /\ outcome' = [outcome EXCEPT ![item[l]] = result]
  /\ item' = [item EXCEPT ![l] = None]
  /\ pc' = [pc EXCEPT ![l] = next]
  /\ UNCHANGED <<fanoutVars, sem, regVars, takeVars>>

DoWorkCompletes(l) == Settle(l, "completed", "top")
DoWorkFails(l)     == Settle(l, "failed", "top")
DoWorkCancelled(l) == l \in cancelled /\ Settle(l, "abandoned", "ended")

-------------------------------------------------------------------------------
Fanout(w) == FanoutEnqueue(w) \/ FanoutRelease(w)

Registration(l) ==
  \/ RegisterAdd(l)
  \/ RegisterStart(l)
  \/ DisposeRemove(l)
  \/ DisposeCancel(l)

TryTakeWork(l) ==
  \/ StartWait(l)
  \/ \E k \in Keys :
        \/ Acquire(l, k)
        \/ Win(l, k)
        \/ WinCancelled(l, k)
        \/ CollectGranted(l, k)
        \/ CollectCancelled(l, k)
  \/ TakeNothing(l)
  \/ TakeItem(l)

RunDispatch(l) ==
  \/ DoWorkCompletes(l)
  \/ DoWorkFails(l)
  \/ DoWorkCancelled(l)

ReadLoop(l) == LoopExit(l) \/ TryTakeWork(l) \/ RunDispatch(l)

Next ==
  \/ \E w \in Work : Fanout(w)
  \/ \E l \in Loops : Registration(l) \/ ReadLoop(l)

Spec == Init /\ [][Next]_vars

\* The thread pool runs every read loop, a call of Fanout that has enqueued
\* its item returns, and every DoWork ends. Nobody has to call anything.
Fairness ==
  /\ \A w \in Work : WF_vars(FanoutRelease(w))
  /\ \A l \in Loops : WF_vars(TryTakeWork(l)) /\ WF_vars(RunDispatch(l))

FairSpec == Spec /\ Fairness
-------------------------------------------------------------------------------
TypeOK ==
  /\ fanout \in [Work -> {"new", "enqueued", "returned"}]
  /\ queue \in [Keys -> Seq(Work)]
  /\ sem \in [Keys -> Nat]
  /\ workers \in [Names -> Loops \cup {None}]
  /\ workerCts \in [Names -> Loops \cup {None}]
  /\ reg \in [Loops -> {"unused", "adding", "registered", "disposing", "disposed"}]
  /\ cancelled \in SUBSET Loops
  /\ pc \in [Loops -> {"off", "top", "waiting", "collecting", "working", "ended"}]
  /\ granted \in [Loops -> SUBSET Keys]
  /\ uncollected \in [Loops -> SUBSET Keys]
  /\ winner \in [Loops -> Keys \cup {None}]
  /\ item \in [Loops -> Work \cup {None}]
  /\ outcome \in [Work -> {"none", "completed", "failed", "abandoned"}]

\* The loops that hold a permit of key k, and the items of k whose producer
\* has enqueued but not released.
Holding(k) == {l \in Loops : k \in granted[l]}
Unreleased(k) == {w \in Work : fanout[w] = "enqueued" /\ KeyOf[w] = k}

\* No permit is created or lost, whatever wait is cancelled, wins late or is
\* given back (the compensation of lines 193-198 and 236-251): the items of a
\* queue are those with a permit in the semaphore, those with a permit in the
\* hands of a loop, and those about to be released.
PermitConservation ==
  \A k \in Keys :
    sem[k] + Cardinality(Holding(k)) + Cardinality(Unreleased(k)) = Len(queue[k])

\* A loop that won a permit finds an item: no other loop can have emptied the
\* queue in between, so the branch of lines 258-265 that spends a permit for
\* nothing is never taken by a loop with a permit.
WinnerFindsWork ==
  \A l \in Loops :
    pc[l] = "collecting" /\ winner[l] # None => queue[winner[l]] # <<>>

\* The Dispose of a registration stops its own read loop and no other
\* (lines 76-77 and 181-190), as long as no other registration was ever made
\* under its name.
UnsharedNameDispose ==
  \A l \in Loops :
    (\A m \in Loops \ {l} : NameOf[m] = NameOf[l] => reg[m] = "unused")
      => (l \in cancelled <=> reg[l] = "disposed")

\* The comment of lines 76-77, which makes no exception for names: "Dispose on
\* a registration cleanly stops its read loop without affecting other workers".
DisposeStopsOwnLoop ==
  \A l \in Loops : l \in cancelled <=> reg[l] = "disposed"

\* A fanned-out item is taken, as long as some loop that subscribes to its key
\* stays registered: permits are not lost to a loop that does not use them.
Elements(q) == {q[i] : i \in DOMAIN q}
Waits(w) == w \in Elements(queue[KeyOf[w]])
Served(k) ==
  \E l \in Loops : k \in Subscribed[l] /\ pc[l] \notin {"off", "ended"} /\ l \notin cancelled
EveryItemTaken ==
  \A w \in Work : Waits(w) ~> ~Waits(w) \/ ~Served(KeyOf[w])

\* PullFanout implements WorkDistribution, with a read loop as the holder and
\* one item at a time per holder: an item is taken once, by a loop subscribed
\* to its key, and dropped only by a loop that was cancelled. An item that is
\* neither queued nor held nor settled would be "lost", which is no stage.
Held(w) == \E l \in Loops : item[l] = w

Stage(w) ==
  IF outcome[w] # "none"     THEN outcome[w]
  ELSE IF Held(w)            THEN "held"
  ELSE IF Waits(w)           THEN "pooled"
  ELSE IF fanout[w] = "new"  THEN "new"
  ELSE "lost"

Holder(w) == IF Held(w) THEN CHOOSE l \in Loops : item[l] = w ELSE None

Distribution == INSTANCE WorkDistribution WITH
  Holders   <- Loops,
  Eligible  <- [w \in Work |-> {l \in Loops : KeyOf[w] \in Subscribed[l]}],
  Exclusive <- TRUE,
  stage     <- [w \in Work |-> Stage(w)],
  holder    <- [w \in Work |-> Holder(w)],
  stopped   <- cancelled

DistributesWork == Distribution!Spec
===============================================================================
