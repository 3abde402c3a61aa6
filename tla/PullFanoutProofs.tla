--------------------------- MODULE PullFanoutProofs ---------------------------
(***************************************************************************)
(* What TLAPS proves of PullFanout, for any sets of items, keys, names and *)
(* registrations that satisfy PullFanoutAssumption.                        *)
(***************************************************************************)
EXTENDS PullFanout, FiniteSetTheorems, TLAPS

(***************************************************************************)
(* Type correctness.                                                       *)
(***************************************************************************)
LEMMA TypeInit == Init => TypeOK
  BY PullFanoutAssumption DEF Init, TypeOK

LEMMA TypeFanout ==
  ASSUME TypeOK, NEW w \in Work, Fanout(w)
  PROVE  TypeOK'
<1>1. CASE FanoutEnqueue(w)
  <2>0. /\ KeyOf[w] \in Keys
        /\ queue \in [Keys -> Seq(Work)]
    BY PullFanoutAssumption DEF TypeOK
  <2>1. Append(queue[KeyOf[w]], w) \in Seq(Work)
    BY <2>0
  <2>2. queue' \in [Keys -> Seq(Work)]
    BY <1>1, <2>0, <2>1 DEF FanoutEnqueue
  <2> QED BY <1>1, <2>2 DEF TypeOK, FanoutEnqueue, regVars, takeVars
<1>2. CASE FanoutRelease(w)
  <2>1. KeyOf[w] \in Keys /\ sem[KeyOf[w]] + 1 \in Nat
    BY PullFanoutAssumption DEF TypeOK
  <2>2. sem' \in [Keys -> Nat]
    BY <1>2, <2>1 DEF TypeOK, FanoutRelease
  <2> QED BY <1>2, <2>2 DEF TypeOK, FanoutRelease, regVars, takeVars
<1> QED BY <1>1, <1>2 DEF Fanout

LEMMA TypeRegistration ==
  ASSUME TypeOK, NEW l \in Loops, Registration(l)
  PROVE  TypeOK'
<1> USE PullFanoutAssumption DEF TypeOK, fanoutVars, takeVars
<1>1. CASE RegisterAdd(l)   BY <1>1 DEF RegisterAdd
<1>2. CASE RegisterStart(l) BY <1>2 DEF RegisterStart
<1>3. CASE DisposeRemove(l) BY <1>3 DEF DisposeRemove
<1>4. CASE DisposeCancel(l) BY <1>4 DEF DisposeCancel
<1> QED BY <1>1, <1>2, <1>3, <1>4 DEF Registration

LEMMA TypeTryTakeWork ==
  ASSUME TypeOK, NEW l \in Loops, TryTakeWork(l)
  PROVE  TypeOK'
<1> USE PullFanoutAssumption DEF TypeOK, fanoutVars, regVars
<1>1. CASE StartWait(l) BY <1>1 DEF StartWait, takeVars
<1>2. ASSUME NEW k \in Keys, Acquire(l, k) PROVE TypeOK'
  BY <1>2 DEF Acquire
<1>3. ASSUME NEW k \in Keys, Win(l, k) PROVE TypeOK'
  BY <1>3 DEF Win
<1>4. ASSUME NEW k \in Keys, WinCancelled(l, k) PROVE TypeOK'
  BY <1>4 DEF WinCancelled
<1>5. ASSUME NEW k \in Keys, CollectGranted(l, k) PROVE TypeOK'
  BY <1>5 DEF CollectGranted
<1>6. ASSUME NEW k \in Keys, CollectCancelled(l, k) PROVE TypeOK'
  BY <1>6 DEF CollectCancelled
<1>7. CASE TakeNothing(l) BY <1>7 DEF TakeNothing
<1>8. CASE TakeItem(l)
  <2>1. /\ winner[l] \in Keys
        /\ queue[winner[l]] \in Seq(Work)
        /\ queue[winner[l]] # <<>>
    BY <1>8 DEF TakeItem
  <2>2. /\ Head(queue[winner[l]]) \in Work
        /\ Tail(queue[winner[l]]) \in Seq(Work)
    BY <2>1
  <2> QED BY <1>8, <2>1, <2>2 DEF TakeItem
<1> QED BY <1>1, <1>2, <1>3, <1>4, <1>5, <1>6, <1>7, <1>8 DEF TryTakeWork

LEMMA TypeRunDispatch ==
  ASSUME TypeOK, NEW l \in Loops, LoopExit(l) \/ RunDispatch(l)
  PROVE  TypeOK'
<1> USE DEF TypeOK, fanoutVars, regVars, takeVars
<1>1. CASE LoopExit(l) BY <1>1 DEF LoopExit
<1>2. ASSUME NEW result \in {"completed", "failed", "abandoned"},
             NEW next \in {"top", "ended"},
             Settle(l, result, next)
      PROVE  TypeOK'
  BY <1>2 DEF Settle
<1> QED
  BY <1>1, <1>2 DEF RunDispatch, DoWorkCompletes, DoWorkFails, DoWorkCancelled

LEMMA TypeStep == TypeOK /\ [Next]_vars => TypeOK'
<1> SUFFICES ASSUME TypeOK, [Next]_vars PROVE TypeOK'
  OBVIOUS
<1>1. ASSUME NEW w \in Work, Fanout(w) PROVE TypeOK'
  BY <1>1, TypeFanout
<1>2. ASSUME NEW l \in Loops, Registration(l) PROVE TypeOK'
  BY <1>2, TypeRegistration
<1>3. ASSUME NEW l \in Loops, ReadLoop(l) PROVE TypeOK'
  BY <1>3, TypeTryTakeWork, TypeRunDispatch DEF ReadLoop
<1>4. CASE UNCHANGED vars
  BY <1>4 DEF TypeOK, vars, fanoutVars, regVars, takeVars
<1> QED BY <1>1, <1>2, <1>3, <1>4 DEF Next

\* Every variable keeps its type: in particular no semaphore goes below zero.
THEOREM TypeCorrect == Spec => []TypeOK
  BY TypeInit, TypeStep, PTL DEF Spec

(***************************************************************************)
(* Permit conservation. What TryTakeWork knows of its waits: outside a     *)
(* take a loop holds nothing, and while it collects it holds the winner's  *)
(* permit and at most those of siblings that it has yet to await.          *)
(***************************************************************************)
TakeOf(l) ==
  /\ reg[l] \in {"unused", "adding"} => pc[l] = "off"
  /\ granted[l] \cup uncollected[l] \subseteq Subscribed[l]
  /\ pc[l] = "waiting" => winner[l] = None /\ uncollected[l] = {}
  /\ pc[l] = "collecting" =>
        /\ granted[l] \subseteq uncollected[l] \cup {winner[l]}
        /\ winner[l] \notin uncollected[l]
        /\ winner[l] # None => winner[l] \in granted[l]
  /\ pc[l] \notin {"waiting", "collecting"} =>
        granted[l] = {} /\ winner[l] = None /\ uncollected[l] = {}

TakeInv == \A l \in Loops : TakeOf(l)

PermitInv == TypeOK /\ TakeInv /\ PermitConservation

LEMMA TakeInit == Init => TakeInv
  BY DEF Init, TakeInv, TakeOf

LEMMA TakeStep == TypeOK /\ TakeInv /\ [Next]_vars => TakeInv'
<1> SUFFICES ASSUME TypeOK, TakeInv, [Next]_vars, NEW m \in Loops
             PROVE  TakeOf(m)'
  BY DEF TakeInv
<1>0. TakeOf(m)
  BY DEF TakeInv
<1>1. ASSUME UNCHANGED <<reg, pc, takeVars>> PROVE TakeOf(m)'
  BY <1>0, <1>1 DEF TakeOf, takeVars
<1>2. CASE UNCHANGED vars
  BY <1>1, <1>2 DEF vars, regVars
<1>3. ASSUME NEW w \in Work, Fanout(w) PROVE TakeOf(m)'
  BY <1>1, <1>3 DEF Fanout, FanoutEnqueue, FanoutRelease, regVars
<1>4. ASSUME NEW l \in Loops, Registration(l) PROVE TakeOf(m)'
  <2> USE <1>0 DEF TakeOf, TypeOK, takeVars
  <2>1. CASE RegisterAdd(l)   BY <2>1 DEF RegisterAdd
  <2>2. CASE RegisterStart(l) BY <2>2 DEF RegisterStart
  <2>3. CASE DisposeRemove(l) BY <2>3 DEF DisposeRemove
  <2>4. CASE DisposeCancel(l) BY <2>4 DEF DisposeCancel
  <2> QED BY <1>4, <2>1, <2>2, <2>3, <2>4 DEF Registration
<1>5. ASSUME NEW l \in Loops, ReadLoop(l) PROVE TakeOf(m)'
  <2> USE <1>0 DEF TakeOf, TypeOK, regVars
  <2>1. CASE LoopExit(l)  BY <2>1 DEF LoopExit, takeVars
  <2>2. CASE StartWait(l) BY <2>2 DEF StartWait, takeVars
  <2>3. ASSUME NEW k \in Keys, Acquire(l, k) PROVE TakeOf(m)'
    BY <2>3, PullFanoutAssumption DEF Acquire
  <2>4. ASSUME NEW k \in Keys, Win(l, k) PROVE TakeOf(m)'
    BY <2>4, PullFanoutAssumption DEF Win
  <2>5. ASSUME NEW k \in Keys, WinCancelled(l, k) PROVE TakeOf(m)'
    BY <2>5, PullFanoutAssumption DEF WinCancelled
  <2>6. ASSUME NEW k \in Keys, CollectGranted(l, k) PROVE TakeOf(m)'
    BY <2>6 DEF CollectGranted
  <2>7. ASSUME NEW k \in Keys, CollectCancelled(l, k) PROVE TakeOf(m)'
    BY <2>7 DEF CollectCancelled
  <2>8. CASE TakeNothing(l) BY <2>8 DEF TakeNothing
  <2>9. CASE TakeItem(l)    BY <2>9 DEF TakeItem
  <2>10. CASE RunDispatch(l)
    BY <2>10 DEF RunDispatch, DoWorkCompletes, DoWorkFails, DoWorkCancelled,
                 Settle, takeVars
  <2> QED
    BY <1>5, <2>1, <2>2, <2>3, <2>4, <2>5, <2>6, <2>7, <2>8, <2>9, <2>10
    DEF ReadLoop, TryTakeWork
<1> QED BY <1>2, <1>3, <1>4, <1>5 DEF Next

LEMMA HoldersFinite ==
  ASSUME NEW k
  PROVE  /\ IsFiniteSet(Holding(k)) /\ Cardinality(Holding(k)) \in Nat
         /\ IsFiniteSet(Unreleased(k)) /\ Cardinality(Unreleased(k)) \in Nat
<1>1. Holding(k) \in SUBSET Loops /\ Unreleased(k) \in SUBSET Work
  BY DEF Holding, Unreleased
<1>2. IsFiniteSet(Holding(k)) /\ IsFiniteSet(Unreleased(k))
  BY <1>1, FS_Subset, PullFanoutAssumption
<1> QED BY <1>2, FS_CardinalityType

\* Steps that touch neither permits nor queues.
LEMMA ConservationFrame ==
  ASSUME PermitConservation, UNCHANGED <<fanout, queue, sem, granted>>
  PROVE  PermitConservation'
<1>1. ASSUME NEW k \in Keys
      PROVE  Holding(k)' = Holding(k) /\ Unreleased(k)' = Unreleased(k)
  BY DEF Holding, Unreleased
<1> QED BY <1>1 DEF PermitConservation

LEMMA ConservationFanout ==
  ASSUME TypeOK, PermitConservation, NEW w \in Work, Fanout(w)
  PROVE  PermitConservation'
<1> SUFFICES ASSUME NEW k \in Keys
             PROVE  sem'[k] + Cardinality(Holding(k)') + Cardinality(Unreleased(k)')
                      = Len(queue'[k])
  BY DEF PermitConservation
<1>1. sem[k] + Cardinality(Holding(k)) + Cardinality(Unreleased(k)) = Len(queue[k])
  BY DEF PermitConservation
<1>2. /\ Holding(k)' = Holding(k)
      /\ KeyOf[w] \in Keys /\ sem[k] \in Nat /\ queue[k] \in Seq(Work)
  BY PullFanoutAssumption
  DEF TypeOK, Holding, Fanout, FanoutEnqueue, FanoutRelease, takeVars
<1>0. /\ Cardinality(Holding(k)) \in Nat
      /\ Cardinality(Unreleased(k)) \in Nat
      /\ Len(queue[k]) \in Nat /\ sem[k] \in Nat
  BY <1>2, HoldersFinite
<1>3. CASE FanoutEnqueue(w)
  <2>1. CASE KeyOf[w] = k
    <3>1. Unreleased(k)' = Unreleased(k) \cup {w} /\ w \notin Unreleased(k)
      BY <1>3, <2>1 DEF FanoutEnqueue, Unreleased, TypeOK
    <3>2. Cardinality(Unreleased(k)') = Cardinality(Unreleased(k)) + 1
      BY <3>1, FS_AddElement, HoldersFinite
    <3>3. queue'[k] = Append(queue[k], w) /\ sem' = sem
      BY <1>3, <2>1 DEF FanoutEnqueue, TypeOK
    <3>4. Len(queue'[k]) = Len(queue[k]) + 1
      BY <1>2, <3>3
    <3>5. Cardinality(Holding(k)') = Cardinality(Holding(k))
      BY <1>2
    <3>6. sem'[k] = sem[k]
      BY <3>3
    <3> QED BY <1>0, <1>1, <3>2, <3>4, <3>5, <3>6
  <2>2. CASE KeyOf[w] # k
    <3>1. Unreleased(k)' = Unreleased(k)
      BY <1>3, <2>2 DEF FanoutEnqueue, Unreleased, TypeOK
    <3>2. queue'[k] = queue[k] /\ sem' = sem
      BY <1>3, <2>2 DEF FanoutEnqueue, TypeOK
    <3> QED BY <1>1, <1>2, <3>1, <3>2
  <2> QED BY <2>1, <2>2
<1>4. CASE FanoutRelease(w)
  <2>1. CASE KeyOf[w] = k
    <3>1. Unreleased(k)' = Unreleased(k) \ {w} /\ w \in Unreleased(k)
      BY <1>4, <2>1 DEF FanoutRelease, Unreleased, TypeOK
    <3>2. Cardinality(Unreleased(k)') = Cardinality(Unreleased(k)) - 1
      BY <3>1, FS_RemoveElement, HoldersFinite
    <3>3. queue' = queue /\ sem'[k] = sem[k] + 1
      BY <1>4, <2>1 DEF FanoutRelease, TypeOK
    <3> QED BY <1>1, <1>2, <3>2, <3>3, HoldersFinite
  <2>2. CASE KeyOf[w] # k
    <3>1. Unreleased(k)' = Unreleased(k)
      BY <1>4, <2>2 DEF FanoutRelease, Unreleased, TypeOK
    <3>2. queue' = queue /\ sem'[k] = sem[k]
      BY <1>4, <2>2 DEF FanoutRelease, TypeOK
    <3> QED BY <1>1, <1>2, <3>1, <3>2
  <2> QED BY <2>1, <2>2
<1> QED BY <1>3, <1>4 DEF Fanout

\* A loop takes or gives back one permit of key k0.
LEMMA ConservationPermit ==
  ASSUME TypeOK, PermitConservation, NEW l \in Loops, NEW k0 \in Keys,
         Acquire(l, k0) \/ CollectGranted(l, k0)
  PROVE  PermitConservation'
<1> SUFFICES ASSUME NEW k \in Keys
             PROVE  sem'[k] + Cardinality(Holding(k)') + Cardinality(Unreleased(k)')
                      = Len(queue'[k])
  BY DEF PermitConservation
<1>1. sem[k] + Cardinality(Holding(k)) + Cardinality(Unreleased(k)) = Len(queue[k])
  BY DEF PermitConservation
<1>2. /\ Unreleased(k)' = Unreleased(k) /\ queue' = queue
      /\ sem[k] \in Nat
  BY DEF TypeOK, Unreleased, Acquire, CollectGranted, fanoutVars
<1>3. CASE k = k0 /\ Acquire(l, k0)
  <2>1. Holding(k)' = Holding(k) \cup {l} /\ l \notin Holding(k)
    BY <1>3 DEF Acquire, Holding, TypeOK
  <2>2. Cardinality(Holding(k)') = Cardinality(Holding(k)) + 1
    BY <2>1, FS_AddElement, HoldersFinite
  <2>3. sem'[k] = sem[k] - 1
    BY <1>3 DEF Acquire, TypeOK
  <2> QED BY <1>1, <1>2, <2>2, <2>3, HoldersFinite
<1>4. CASE k = k0 /\ CollectGranted(l, k0)
  <2>1. Holding(k)' = Holding(k) \ {l} /\ l \in Holding(k)
    BY <1>4 DEF CollectGranted, Holding, TypeOK
  <2>2. Cardinality(Holding(k)') = Cardinality(Holding(k)) - 1
    BY <2>1, FS_RemoveElement, HoldersFinite
  <2>3. sem'[k] = sem[k] + 1
    BY <1>4 DEF CollectGranted, TypeOK
  <2> QED BY <1>1, <1>2, <2>2, <2>3, HoldersFinite
<1>5. CASE k # k0
  <2>1. sem'[k] = sem[k]
    BY <1>5 DEF Acquire, CollectGranted, TypeOK
  <2>2. \/ granted' = [granted EXCEPT ![l] = @ \cup {k0}]
        \/ granted' = [granted EXCEPT ![l] = @ \ {k0}]
    BY DEF Acquire, CollectGranted
  <2>4. ASSUME NEW m \in Loops PROVE k \in granted'[m] <=> k \in granted[m]
    <3>1. granted \in [Loops -> SUBSET Keys]
      BY DEF TypeOK
    <3>2. CASE m # l
      BY <2>2, <3>1, <3>2
    <3>3. CASE m = l
      <4>1. granted'[l] = granted[l] \cup {k0} \/ granted'[l] = granted[l] \ {k0}
        BY <2>2, <3>1
      <4> QED BY <1>5, <3>3, <4>1
    <3> QED BY <3>2, <3>3
  <2>3. Holding(k)' = Holding(k)
    BY <2>4 DEF Holding
  <2> QED BY <1>1, <1>2, <2>1, <2>3
<1> QED BY <1>3, <1>4, <1>5

\* With permits conserved, a loop that holds a permit of k finds an item there.
LEMMA PermitMeansItem ==
  ASSUME TypeOK, PermitConservation, NEW l \in Loops, NEW k \in Keys, k \in granted[l]
  PROVE  queue[k] # <<>>
<1>1. l \in Holding(k)
  BY DEF Holding
<1>2. Cardinality(Holding(k)) # 0
  BY <1>1, FS_EmptySet, HoldersFinite
<1>3. Len(queue[k]) # 0
  BY <1>2, HoldersFinite DEF PermitConservation, TypeOK
<1> QED BY <1>3

LEMMA ConservationTakeItem ==
  ASSUME TypeOK, TakeInv, PermitConservation, NEW l \in Loops, TakeItem(l)
  PROVE  PermitConservation'
<1> DEFINE k0 == winner[l]
<1> SUFFICES ASSUME NEW k \in Keys
             PROVE  sem'[k] + Cardinality(Holding(k)') + Cardinality(Unreleased(k)')
                      = Len(queue'[k])
  BY DEF PermitConservation
<1>1. sem[k] + Cardinality(Holding(k)) + Cardinality(Unreleased(k)) = Len(queue[k])
  BY DEF PermitConservation
<1>2. /\ Unreleased(k)' = Unreleased(k) /\ sem' = sem
      /\ sem[k] \in Nat /\ queue[k] \in Seq(Work)
  BY DEF TypeOK, Unreleased, TakeItem
<1>3. granted[l] = {k0} /\ k0 \in Keys
  BY DEF TakeItem, TakeInv, TakeOf, TypeOK
<1>4. CASE k = k0
  <2>1. Holding(k)' = Holding(k) \ {l} /\ l \in Holding(k)
    BY <1>3, <1>4 DEF TakeItem, Holding, TypeOK
  <2>2. Cardinality(Holding(k)') = Cardinality(Holding(k)) - 1
    BY <2>1, FS_RemoveElement, HoldersFinite
  <2>3. queue'[k] = Tail(queue[k]) /\ queue[k] # <<>>
    BY <1>3, <1>4 DEF TakeItem, TypeOK
  <2>4. Len(queue'[k]) = Len(queue[k]) - 1 /\ Len(queue[k]) \in Nat
    BY <1>2, <2>3
  <2>5. Cardinality(Holding(k)) \in Nat /\ Cardinality(Unreleased(k)) \in Nat
    BY HoldersFinite
  <2> QED BY <1>1, <1>2, <2>2, <2>4, <2>5
<1>5. CASE k # k0
  <2>1. Holding(k)' = Holding(k) /\ queue'[k] = queue[k]
    BY <1>3, <1>5 DEF TakeItem, Holding, TypeOK
  <2> QED BY <1>1, <1>2, <2>1
<1> QED BY <1>4, <1>5

LEMMA ConservationTakeNothing ==
  ASSUME TypeOK, TakeInv, PermitConservation, NEW l \in Loops, TakeNothing(l)
  PROVE  PermitConservation'
<1>1. winner[l] = None
  <2> SUFFICES ASSUME winner[l] # None PROVE FALSE
    OBVIOUS
  <2>1. winner[l] \in Keys /\ winner[l] \in granted[l] /\ queue[winner[l]] = <<>>
    BY DEF TakeNothing, TakeInv, TakeOf, TypeOK
  <2> QED BY <2>1, PermitMeansItem
<1>2. granted[l] = {}
  <2>1. granted[l] \subseteq {None}
    BY <1>1 DEF TakeNothing, TakeInv, TakeOf
  <2>2. granted[l] \subseteq Keys /\ None \notin Keys
    BY PullFanoutAssumption DEF TypeOK
  <2> QED BY <2>1, <2>2
<1>3. granted' = granted
  BY <1>2 DEF TakeNothing, TypeOK
<1> QED BY <1>3, ConservationFrame DEF TakeNothing, fanoutVars

LEMMA PermitInit == Init => PermitInv
<1> SUFFICES ASSUME Init PROVE PermitInv
  OBVIOUS
<1>1. ASSUME NEW k \in Keys
      PROVE  sem[k] + Cardinality(Holding(k)) + Cardinality(Unreleased(k)) = Len(queue[k])
  <2>1. Holding(k) = {} /\ Unreleased(k) = {}
    BY DEF Init, Holding, Unreleased
  <2>2. sem[k] = 0 /\ Len(queue[k]) = 0
    BY DEF Init
  <2>3. Cardinality(Holding(k)) = 0 /\ Cardinality(Unreleased(k)) = 0
    BY <2>1, FS_EmptySet
  <2> QED BY <2>2, <2>3
<1>2. PermitConservation
  BY <1>1 DEF PermitConservation
<1> QED BY <1>2, TypeInit, TakeInit DEF PermitInv

LEMMA PermitStep == PermitInv /\ [Next]_vars => PermitInv'
<1> SUFFICES ASSUME PermitInv, [Next]_vars PROVE PermitConservation'
  BY TypeStep, TakeStep DEF PermitInv
<1> USE DEF PermitInv
<1>1. CASE UNCHANGED vars
  BY <1>1, ConservationFrame DEF vars, fanoutVars, takeVars
<1>2. ASSUME NEW w \in Work, Fanout(w) PROVE PermitConservation'
  BY <1>2, ConservationFanout
<1>3. ASSUME NEW l \in Loops, Registration(l) PROVE PermitConservation'
  BY <1>3, ConservationFrame
  DEF Registration, RegisterAdd, RegisterStart, DisposeRemove, DisposeCancel,
      fanoutVars, takeVars
<1>4. ASSUME NEW l \in Loops, ReadLoop(l) PROVE PermitConservation'
  <2>1. CASE LoopExit(l) \/ StartWait(l) \/ RunDispatch(l)
    BY <2>1, ConservationFrame
    DEF LoopExit, StartWait, RunDispatch, DoWorkCompletes, DoWorkFails,
        DoWorkCancelled, Settle, fanoutVars, takeVars
  <2>2. ASSUME NEW k \in Keys, Acquire(l, k) \/ CollectGranted(l, k)
        PROVE  PermitConservation'
    BY <2>2, ConservationPermit
  <2>3. ASSUME NEW k \in Keys,
               Win(l, k) \/ WinCancelled(l, k) \/ CollectCancelled(l, k)
        PROVE  PermitConservation'
    BY <2>3, ConservationFrame DEF Win, WinCancelled, CollectCancelled, fanoutVars
  <2>4. CASE TakeNothing(l) BY <2>4, ConservationTakeNothing
  <2>5. CASE TakeItem(l)    BY <2>5, ConservationTakeItem
  <2> QED BY <1>4, <2>1, <2>2, <2>3, <2>4, <2>5 DEF ReadLoop, TryTakeWork
<1> QED BY <1>1, <1>2, <1>3, <1>4 DEF Next

\* Every queued item has exactly one permit, in its semaphore, in the hands of
\* one loop, or about to be released by the producer.
THEOREM PermitsConserved == Spec => []PermitConservation
<1>1. PermitInv => PermitConservation
  BY DEF PermitInv
<1> QED BY <1>1, PermitInit, PermitStep, PTL DEF Spec

\* No loop that won a permit ever finds the queue empty.
THEOREM WinnerAlwaysFindsWork == Spec => []WinnerFindsWork
<1>1. ASSUME PermitInv PROVE WinnerFindsWork
  <2> SUFFICES ASSUME NEW l \in Loops, pc[l] = "collecting", winner[l] # None
               PROVE  queue[winner[l]] # <<>>
    BY DEF WinnerFindsWork
  <2>1. winner[l] \in Keys /\ winner[l] \in granted[l]
    BY <1>1 DEF PermitInv, TakeInv, TakeOf, TypeOK
  <2> QED BY <1>1, <2>1, PermitMeansItem DEF PermitInv
<1> QED BY <1>1, PermitInit, PermitStep, PTL DEF Spec

(***************************************************************************)
(* The Dispose of a registration whose name no other registration has.     *)
(* workerCts slots hold started registrations of their own name, so only a *)
(* Dispose under that name can cancel a registration.                      *)
(***************************************************************************)
Started(l) == reg[l] \notin {"unused", "adding"}

Unshared(l) == \A m \in Loops \ {l} : NameOf[m] = NameOf[l] => reg[m] = "unused"

SlotsOwned ==
  /\ \A nm \in Names : \A l \in Loops :
        workerCts[nm] = l => NameOf[l] = nm /\ Started(l)
  /\ \A l \in cancelled : Started(l)

UnsharedOf(l) ==
  Unshared(l) =>
    /\ reg[l] \in {"registered", "disposing"} =>
          workerCts[NameOf[l]] = l /\ l \notin cancelled
    /\ reg[l] = "disposed" => l \in cancelled

DisposeInv == TypeOK /\ SlotsOwned /\ \A l \in Loops : UnsharedOf(l)

LEMMA DisposeInit == Init => DisposeInv
<1> SUFFICES ASSUME Init PROVE SlotsOwned /\ \A l \in Loops : UnsharedOf(l)
  BY TypeInit DEF DisposeInv
<1> QED
  BY PullFanoutAssumption DEF Init, SlotsOwned, UnsharedOf, Started

LEMMA DisposeStep == DisposeInv /\ [Next]_vars => DisposeInv'
<1> SUFFICES ASSUME DisposeInv, [Next]_vars
             PROVE  SlotsOwned' /\ \A l \in Loops : UnsharedOf(l)'
  BY TypeStep DEF DisposeInv
<1> USE DEF DisposeInv
<1>1. ASSUME UNCHANGED <<workerCts, reg, cancelled>>
      PROVE  SlotsOwned' /\ \A l \in Loops : UnsharedOf(l)'
  BY <1>1 DEF SlotsOwned, UnsharedOf, Unshared, Started
<1>2. ASSUME UNCHANGED regVars \/ UNCHANGED vars
      PROVE  SlotsOwned' /\ \A l \in Loops : UnsharedOf(l)'
  BY <1>1, <1>2 DEF regVars, vars
<1>3. ASSUME NEW w \in Work, Fanout(w)
      PROVE  SlotsOwned' /\ \A l \in Loops : UnsharedOf(l)'
  BY <1>2, <1>3 DEF Fanout, FanoutEnqueue, FanoutRelease
<1>4. ASSUME NEW l \in Loops, ReadLoop(l)
      PROVE  SlotsOwned' /\ \A m \in Loops : UnsharedOf(m)'
  BY <1>2, <1>4
  DEF ReadLoop, LoopExit, TryTakeWork, StartWait, Acquire, Win, WinCancelled,
      CollectGranted, CollectCancelled, TakeNothing, TakeItem, RunDispatch,
      DoWorkCompletes, DoWorkFails, DoWorkCancelled, Settle
<1>5. ASSUME NEW m \in Loops, Registration(m)
      PROVE  SlotsOwned' /\ \A l \in Loops : UnsharedOf(l)'
  <2> USE PullFanoutAssumption DEF TypeOK
  <2>1. CASE RegisterAdd(m)
    <3>1. SlotsOwned'
      BY <2>1 DEF RegisterAdd, SlotsOwned, Started
    <3>2. ASSUME NEW l \in Loops PROVE UnsharedOf(l)'
      BY <2>1 DEF RegisterAdd, UnsharedOf, Unshared
    <3> QED BY <3>1, <3>2
  <2>2. CASE RegisterStart(m)
    <3>1. SlotsOwned'
      BY <2>2 DEF RegisterStart, SlotsOwned, Started
    <3>2. ASSUME NEW l \in Loops PROVE UnsharedOf(l)'
      BY <2>2 DEF RegisterStart, UnsharedOf, Unshared, SlotsOwned, Started
    <3> QED BY <3>1, <3>2
  <2>3. CASE DisposeRemove(m)
    <3>1. SlotsOwned'
      BY <2>3 DEF DisposeRemove, SlotsOwned, Started
    <3>2. ASSUME NEW l \in Loops PROVE UnsharedOf(l)'
      BY <2>3 DEF DisposeRemove, UnsharedOf, Unshared
    <3> QED BY <3>1, <3>2
  <2>4. CASE DisposeCancel(m)
    <3>1. SlotsOwned'
      BY <2>4 DEF DisposeCancel, SlotsOwned, Started
    <3>2. ASSUME NEW l \in Loops PROVE UnsharedOf(l)'
      <4>1. CASE l = m
        BY <2>4, <4>1 DEF DisposeCancel, UnsharedOf, Unshared, SlotsOwned
      <4>2. CASE l # m
        BY <2>4, <4>2 DEF DisposeCancel, UnsharedOf, Unshared, SlotsOwned
      <4> QED BY <4>1, <4>2
    <3> QED BY <3>1, <3>2
  <2> QED BY <1>5, <2>1, <2>2, <2>3, <2>4 DEF Registration
<1> QED BY <1>2, <1>3, <1>4, <1>5 DEF Next

\* Under a name of its own, a registration's loop is cancelled by its own
\* Dispose and by nothing else.
THEOREM UnsharedDisposeIsOwn == Spec => []UnsharedNameDispose
<1>1. DisposeInv => UnsharedNameDispose
  BY DEF DisposeInv, UnsharedNameDispose, UnsharedOf, Unshared, SlotsOwned, Started, TypeOK
<1> QED BY <1>1, DisposeInit, DisposeStep, PTL DEF Spec

(***************************************************************************)
(* PullFanout implements WorkDistribution. Two facts about sequences.      *)
(***************************************************************************)
NoDuplicates(q) == \A i, j \in DOMAIN q : q[i] = q[j] => i = j

LEMMA AppendElements ==
  ASSUME NEW S, NEW q \in Seq(S), NEW x \in S
  PROVE  /\ Elements(Append(q, x)) = Elements(q) \cup {x}
         /\ NoDuplicates(q) /\ x \notin Elements(q) => NoDuplicates(Append(q, x))
<1>1. /\ DOMAIN q = 1 .. Len(q) /\ Len(q) \in Nat
      /\ DOMAIN Append(q, x) = 1 .. Len(q) + 1
      /\ \A i \in 1 .. Len(q) : Append(q, x)[i] = q[i]
      /\ Append(q, x)[Len(q) + 1] = x
  OBVIOUS
<1>2. Elements(Append(q, x)) \subseteq Elements(q) \cup {x}
  BY <1>1 DEF Elements
<1>3. x \in Elements(Append(q, x))
  BY <1>1 DEF Elements
<1>4. ASSUME NEW y \in Elements(q) PROVE y \in Elements(Append(q, x))
  <2>1. PICK i \in 1 .. Len(q) : y = q[i]
    BY <1>1 DEF Elements
  <2>2. i \in 1 .. Len(q) + 1 /\ Append(q, x)[i] = y
    BY <1>1, <2>1
  <2> QED BY <1>1, <2>2 DEF Elements
<1>5. ASSUME NoDuplicates(q), x \notin Elements(q) PROVE NoDuplicates(Append(q, x))
  BY <1>1, <1>5 DEF NoDuplicates, Elements
<1> QED BY <1>2, <1>3, <1>4, <1>5

LEMMA TailElements ==
  ASSUME NEW S, NEW q \in Seq(S), q # <<>>, NoDuplicates(q)
  PROVE  /\ Head(q) \in Elements(q)
         /\ Elements(Tail(q)) = Elements(q) \ {Head(q)}
         /\ NoDuplicates(Tail(q))
<1>1. /\ DOMAIN q = 1 .. Len(q) /\ Len(q) \in Nat /\ Len(q) > 0
      /\ Head(q) = q[1]
      /\ DOMAIN Tail(q) = 1 .. Len(q) - 1
      /\ \A i \in 1 .. Len(q) - 1 : Tail(q)[i] = q[i + 1]
  OBVIOUS
<1>2. Head(q) \in Elements(q)
  BY <1>1 DEF Elements
<1>3. ASSUME NEW y \in Elements(Tail(q)) PROVE y \in Elements(q) \ {Head(q)}
  <2>1. PICK i \in 1 .. Len(q) - 1 : y = q[i + 1]
    BY <1>1 DEF Elements
  <2>2. i + 1 \in DOMAIN q /\ 1 \in DOMAIN q /\ i + 1 # 1
    BY <1>1
  <2> QED BY <1>1, <2>1, <2>2 DEF Elements, NoDuplicates
<1>4. ASSUME NEW y \in Elements(q) \ {Head(q)} PROVE y \in Elements(Tail(q))
  <2>1. PICK i \in 1 .. Len(q) : y = q[i]
    BY <1>1 DEF Elements
  <2>2. i # 1 /\ i - 1 \in 1 .. Len(q) - 1 /\ (i - 1) + 1 = i
    BY <1>1, <2>1
  <2>3. Tail(q)[i - 1] = y
    BY <1>1, <2>1, <2>2
  <2> QED BY <1>1, <2>2, <2>3 DEF Elements
<1>5. NoDuplicates(Tail(q))
  <2> SUFFICES ASSUME NEW i \in 1 .. Len(q) - 1, NEW j \in 1 .. Len(q) - 1,
                      Tail(q)[i] = Tail(q)[j]
               PROVE  i = j
    BY <1>1 DEF NoDuplicates
  <2>1. q[i + 1] = q[j + 1] /\ i + 1 \in DOMAIN q /\ j + 1 \in DOMAIN q
    BY <1>1
  <2>2. i + 1 = j + 1
    BY <2>1 DEF NoDuplicates
  <2> QED BY <2>2
<1> QED BY <1>2, <1>3, <1>4, <1>5

(***************************************************************************)
(* Every item that was given to Fanout is in exactly one place: in the     *)
(* queue of its key once, in the hands of one loop that subscribes to that *)
(* key, or settled.                                                        *)
(***************************************************************************)
QueuesDistinct ==
  \A k \in Keys :
    /\ NoDuplicates(queue[k])
    /\ \A w \in Elements(queue[k]) :
          KeyOf[w] = k /\ fanout[w] # "new" /\ outcome[w] = "none" /\ ~Held(w)

HeldOnce ==
  \A l \in Loops :
    /\ item[l] # None <=> pc[l] = "working"
    /\ item[l] # None =>
          /\ fanout[item[l]] # "new" /\ outcome[item[l]] = "none"
          /\ KeyOf[item[l]] \in Subscribed[l]
          /\ \A m \in Loops : item[m] = item[l] => m = l

NoneLost ==
  \A w \in Work :
    /\ outcome[w] # "none" => fanout[w] # "new"
    /\ fanout[w] # "new" => outcome[w] # "none" \/ Held(w) \/ Waits(w)

PlaceInv == PermitInv /\ QueuesDistinct /\ HeldOnce /\ NoneLost

LEMMA PlaceInit == Init => PlaceInv
<1> SUFFICES ASSUME Init PROVE QueuesDistinct /\ HeldOnce /\ NoneLost
  BY PermitInit DEF PlaceInv
<1> QED
  BY DEF Init, QueuesDistinct, HeldOnce, NoneLost, NoDuplicates, Elements

\* Steps that leave the places of all items alone.
LEMMA PlaceFrame ==
  ASSUME PlaceInv, PermitInv',
         UNCHANGED <<queue, item, outcome>>,
         \A w \in Work : fanout[w] # "new" <=> fanout'[w] # "new",
         \A l \in Loops : pc[l] = "working" <=> pc'[l] = "working"
  PROVE  PlaceInv'
<1> USE DEF PlaceInv
<1>1. QueuesDistinct'
  BY DEF QueuesDistinct, Held, Elements, NoDuplicates, PermitInv, TypeOK
<1>2. HeldOnce'
  BY DEF HeldOnce, PermitInv, TypeOK
<1>3. NoneLost'
  BY DEF NoneLost, Held, Waits
<1> QED BY <1>1, <1>2, <1>3

LEMMA PlaceEnqueue ==
  ASSUME PlaceInv, PermitInv', NEW w \in Work, FanoutEnqueue(w)
  PROVE  PlaceInv' /\ Waits(w)' /\ \A v \in Work \ {w} : Waits(v)' <=> Waits(v)
<1> DEFINE k0 == KeyOf[w]
<1>1. /\ k0 \in Keys /\ queue[k0] \in Seq(Work)
      /\ fanout[w] = "new" /\ fanout' = [fanout EXCEPT ![w] = "enqueued"]
      /\ queue' = [queue EXCEPT ![k0] = Append(queue[k0], w)]
      /\ UNCHANGED <<pc, item, outcome>>
  BY PullFanoutAssumption DEF PlaceInv, PermitInv, TypeOK, FanoutEnqueue
<1>2. w \notin Elements(queue[k0])
  BY <1>1 DEF PlaceInv, QueuesDistinct
<1>3. /\ Elements(queue'[k0]) = Elements(queue[k0]) \cup {w}
      /\ NoDuplicates(queue'[k0])
      /\ \A k \in Keys \ {k0} : queue'[k] = queue[k]
  <2>1. queue'[k0] = Append(queue[k0], w) /\ \A k \in Keys \ {k0} : queue'[k] = queue[k]
    BY <1>1 DEF PlaceInv, PermitInv, TypeOK
  <2> QED BY <1>1, <1>2, <2>1, AppendElements DEF PlaceInv, QueuesDistinct
<1>4. ~Held(w) /\ outcome[w] = "none"
  BY <1>1, PullFanoutAssumption DEF PlaceInv, HeldOnce, NoneLost, Held, PermitInv, TypeOK
<1>5. QueuesDistinct'
  <2> SUFFICES ASSUME NEW k \in Keys
               PROVE  /\ NoDuplicates(queue'[k])
                      /\ \A v \in Elements(queue'[k]) :
                            KeyOf[v] = k /\ fanout'[v] # "new" /\ outcome'[v] = "none"
                              /\ ~Held(v)'
    BY DEF QueuesDistinct
  <2>1. \A v : Held(v)' <=> Held(v)
    BY <1>1 DEF Held
  <2>2. \A v \in Elements(queue'[k]) : v \in Elements(queue[k]) \/ (k = k0 /\ v = w)
    BY <1>3
  <2>3. NoDuplicates(queue'[k])
    BY <1>3 DEF PlaceInv, QueuesDistinct
  <2>4. \A v : fanout[v] # "new" => fanout'[v] # "new"
    BY <1>1 DEF PlaceInv, PermitInv, TypeOK
  <2>5. fanout'[w] # "new"
    BY <1>1 DEF PlaceInv, PermitInv, TypeOK
  <2> QED BY <1>1, <1>4, <2>1, <2>2, <2>3, <2>4, <2>5 DEF PlaceInv, QueuesDistinct
<1>6. HeldOnce'
  BY <1>1 DEF HeldOnce, PlaceInv, PermitInv, TypeOK
<1>7. Waits(w)' /\ \A v \in Work \ {w} : Waits(v)' <=> Waits(v)
  BY <1>1, <1>3, PullFanoutAssumption DEF Waits
<1>8. NoneLost'
  <2>1. \A v \in Work : Held(v)' <=> Held(v)
    BY <1>1 DEF Held
  <2> QED
    BY <1>1, <1>4, <1>7, <2>1 DEF NoneLost, PlaceInv, PermitInv, TypeOK
<1> QED BY <1>5, <1>6, <1>7, <1>8 DEF PlaceInv

LEMMA PlaceTakeItem ==
  ASSUME PlaceInv, PermitInv', NEW l \in Loops, TakeItem(l),
         NEW w0, w0 = Head(queue[winner[l]])
  PROVE  /\ PlaceInv'
         /\ w0 \in Work /\ Waits(w0) /\ fanout[w0] # "new" /\ outcome[w0] = "none"
         /\ KeyOf[w0] \in Subscribed[l] /\ ~Held(w0)
         /\ item' = [item EXCEPT ![l] = w0] /\ item[l] = None
         /\ ~Waits(w0)' /\ \A v \in Work \ {w0} : Waits(v)' <=> Waits(v)
<1> DEFINE k0 == winner[l]
<1>1. /\ k0 \in Keys /\ k0 \in Subscribed[l] /\ queue[k0] \in Seq(Work) /\ queue[k0] # <<>>
      /\ queue' = [queue EXCEPT ![k0] = Tail(queue[k0])]
      /\ item' = [item EXCEPT ![l] = w0]
      /\ pc[l] = "collecting" /\ pc' = [pc EXCEPT ![l] = "working"]
      /\ UNCHANGED <<fanout, outcome>>
  BY DEF PlaceInv, PermitInv, TypeOK, TakeInv, TakeOf, TakeItem
<1>2. /\ w0 \in Elements(queue[k0])
      /\ Elements(queue'[k0]) = Elements(queue[k0]) \ {w0}
      /\ NoDuplicates(queue'[k0])
      /\ \A k \in Keys \ {k0} : queue'[k] = queue[k]
  <2>1. queue'[k0] = Tail(queue[k0]) /\ \A k \in Keys \ {k0} : queue'[k] = queue[k]
    BY <1>1 DEF PlaceInv, PermitInv, TypeOK
  <2> QED BY <1>1, <2>1, TailElements DEF PlaceInv, QueuesDistinct
<1>3. w0 \in Work
  BY <1>1
<1>4. KeyOf[w0] = k0 /\ fanout[w0] # "new" /\ outcome[w0] = "none" /\ ~Held(w0)
  BY <1>1, <1>2 DEF PlaceInv, QueuesDistinct
<1>5. item[l] = None /\ w0 # None
  BY <1>1, <1>3, PullFanoutAssumption DEF PlaceInv, HeldOnce
<1>6. \A v \in Work : Held(v)' <=> Held(v) \/ v = w0
  BY <1>1, <1>3, <1>5, PullFanoutAssumption DEF Held, PlaceInv, PermitInv, TypeOK
<1>7. ~Waits(w0)' /\ \A v \in Work \ {w0} : Waits(v)' <=> Waits(v)
  BY <1>1, <1>2, <1>4, PullFanoutAssumption DEF Waits
<1>8. QueuesDistinct'
  <2> SUFFICES ASSUME NEW k \in Keys
               PROVE  /\ NoDuplicates(queue'[k])
                      /\ \A v \in Elements(queue'[k]) :
                            KeyOf[v] = k /\ fanout'[v] # "new" /\ outcome'[v] = "none"
                              /\ ~Held(v)'
    BY DEF QueuesDistinct
  <2>1. NoDuplicates(queue'[k])
    BY <1>2 DEF PlaceInv, QueuesDistinct
  <2>2. ASSUME NEW v \in Elements(queue'[k])
        PROVE  v \in Elements(queue[k]) /\ v # w0
    BY <1>2, <1>4 DEF PlaceInv, QueuesDistinct
  <2>3. Elements(queue[k]) \subseteq Work
    BY DEF Elements, PlaceInv, PermitInv, TypeOK
  <2> QED BY <1>1, <1>6, <2>1, <2>2, <2>3 DEF PlaceInv, QueuesDistinct
<1>9. HeldOnce'
  BY <1>1, <1>3, <1>4, <1>5 DEF HeldOnce, Held, PlaceInv, PermitInv, TypeOK
<1>10. NoneLost'
  BY <1>1, <1>6, <1>7 DEF NoneLost, PlaceInv
<1> QED BY <1>1, <1>2, <1>3, <1>4, <1>5, <1>7, <1>8, <1>9, <1>10 DEF PlaceInv, Waits

LEMMA PlaceSettle ==
  ASSUME PlaceInv, PermitInv', NEW l \in Loops,
         NEW result \in {"completed", "failed", "abandoned"},
         NEW next \in {"top", "ended"},
         Settle(l, result, next),
         NEW w0, w0 = item[l]
  PROVE  /\ PlaceInv'
         /\ w0 \in Work /\ fanout[w0] # "new" /\ outcome[w0] = "none"
         /\ ~Waits(w0)
         /\ outcome' = [outcome EXCEPT ![w0] = result] /\ item' = [item EXCEPT ![l] = None]
         /\ \A m \in Loops : item[m] = w0 => m = l
         /\ \A v \in Work : Waits(v)' <=> Waits(v)
<1>1. /\ pc[l] = "working" /\ pc' = [pc EXCEPT ![l] = next]
      /\ outcome' = [outcome EXCEPT ![w0] = result]
      /\ item' = [item EXCEPT ![l] = None]
      /\ UNCHANGED <<fanout, queue>>
  BY DEF Settle, fanoutVars
<1>2. /\ w0 \in Work /\ w0 # None /\ fanout[w0] # "new" /\ outcome[w0] = "none"
      /\ \A m \in Loops : item[m] = w0 => m = l
  BY <1>1, PullFanoutAssumption DEF PlaceInv, HeldOnce, PermitInv, TypeOK
<1>3. Held(w0)
  BY DEF Held
<1>4. \A v \in Work : Held(v)' <=> Held(v) /\ v # w0
  BY <1>1, <1>2, PullFanoutAssumption DEF Held, PlaceInv, PermitInv, TypeOK
<1>5. \A k \in Keys : w0 \notin Elements(queue[k])
  BY <1>3 DEF PlaceInv, QueuesDistinct
<1>6. QueuesDistinct'
  <2>1. \A k \in Keys : Elements(queue[k]) \subseteq Work
    BY DEF Elements, PlaceInv, PermitInv, TypeOK
  <2>2. \A v : v # w0 => outcome'[v] = outcome[v]
    BY <1>1, <1>2 DEF PlaceInv, PermitInv, TypeOK
  <2> QED
    BY <1>1, <1>4, <1>5, <2>1, <2>2 DEF PlaceInv, QueuesDistinct
<1>7. HeldOnce'
  BY <1>1, <1>2 DEF HeldOnce, PlaceInv, PermitInv, TypeOK
<1>8. NoneLost'
  BY <1>1, <1>2, <1>4 DEF NoneLost, Waits, PlaceInv, PermitInv, TypeOK
<1>9. ~Waits(w0) /\ \A v \in Work : Waits(v)' <=> Waits(v)
  BY <1>1, <1>2, <1>5, PullFanoutAssumption DEF Waits
<1> QED BY <1>1, <1>2, <1>6, <1>7, <1>8, <1>9 DEF PlaceInv

\* No step of a registration touches an item; it starts a read loop at most.
LEMMA PlaceFrameOff ==
  ASSUME PlaceInv, PermitInv', NEW l \in Loops, Registration(l)
  PROVE  PlaceInv' /\ UNCHANGED <<queue, item, outcome, fanout>>
<1>1. UNCHANGED <<queue, item, outcome, fanout>>
  BY DEF Registration, RegisterAdd, RegisterStart, DisposeRemove, DisposeCancel, fanoutVars
<1>2. \A m \in Loops : pc[m] = "working" <=> pc'[m] = "working"
  <2>1. reg[l] = "adding" => pc[l] = "off"
    BY DEF PlaceInv, PermitInv, TakeInv, TakeOf, TypeOK
  <2> QED
    BY <2>1
    DEF Registration, RegisterAdd, RegisterStart, DisposeRemove, DisposeCancel,
        PlaceInv, PermitInv, TypeOK
<1> QED BY <1>1, <1>2, PlaceFrame

LEMMA PlaceStep == PlaceInv /\ [Next]_vars => PlaceInv'
<1> SUFFICES ASSUME PlaceInv, [Next]_vars PROVE PlaceInv'
  OBVIOUS
<1>0. PermitInv' /\ TypeOK
  BY PermitStep DEF PlaceInv, PermitInv
<1>1. CASE UNCHANGED vars
  BY <1>0, <1>1, PlaceFrame DEF vars, fanoutVars
<1>2. ASSUME NEW w \in Work, Fanout(w) PROVE PlaceInv'
  <2>1. CASE FanoutEnqueue(w) BY <1>0, <2>1, PlaceEnqueue
  <2>2. CASE FanoutRelease(w)
    BY <1>0, <2>2, PlaceFrame DEF FanoutRelease, TypeOK
  <2> QED BY <1>2, <2>1, <2>2 DEF Fanout
<1>3. ASSUME NEW l \in Loops, Registration(l) PROVE PlaceInv'
  BY <1>0, <1>3, PlaceFrameOff
<1>4. ASSUME NEW l \in Loops, ReadLoop(l) PROVE PlaceInv'
  <2>1. CASE LoopExit(l)     BY <1>0, <2>1, PlaceFrame DEF LoopExit, TypeOK, fanoutVars
  <2>2. CASE StartWait(l)    BY <1>0, <2>2, PlaceFrame DEF StartWait, TypeOK, fanoutVars
  <2>3. ASSUME NEW k \in Keys,
               Acquire(l, k) \/ Win(l, k) \/ WinCancelled(l, k)
                 \/ CollectGranted(l, k) \/ CollectCancelled(l, k)
        PROVE  PlaceInv'
    BY <1>0, <2>3, PlaceFrame
    DEF Acquire, Win, WinCancelled, CollectGranted, CollectCancelled, TypeOK, fanoutVars
  <2>4. CASE TakeNothing(l)  BY <1>0, <2>4, PlaceFrame DEF TakeNothing, TypeOK, fanoutVars
  <2>5. CASE TakeItem(l)     BY <1>0, <2>5, PlaceTakeItem
  <2>6. CASE RunDispatch(l)
    BY <1>0, <2>6, PlaceSettle DEF RunDispatch, DoWorkCompletes, DoWorkFails, DoWorkCancelled
  <2> QED BY <1>4, <2>1, <2>2, <2>3, <2>4, <2>5, <2>6 DEF ReadLoop, TryTakeWork
<1> QED BY <1>1, <1>2, <1>3, <1>4 DEF Next

(***************************************************************************)
(* The refinement. An item that is held has one holder, the loop whose     *)
(* item it is; and a step that moves neither an item nor who holds it      *)
(* leaves what WorkDistribution sees of it alone.                          *)
(***************************************************************************)
HolderHolds ==
  \A w \in Work : \A l \in Loops : item[l] = w => Held(w) /\ Holder(w) = l

StageSays ==
  \A w \in Work :
    /\ Held(w) => Stage(w) = "held"
    /\ ~Held(w) => Stage(w) # "held" /\ Holder(w) = None
    /\ Waits(w) => Stage(w) = "pooled"
    /\ fanout[w] = "new" => Stage(w) = "new"
    /\ outcome[w] # "none" => Stage(w) = outcome[w]

LEMMA HolderIs == PlaceInv => HolderHolds
<1> SUFFICES ASSUME PlaceInv, NEW w \in Work, NEW l \in Loops, item[l] = w
             PROVE  Held(w) /\ Holder(w) = l
  BY DEF HolderHolds
<1>1. Held(w)
  BY DEF Held
<1>2. Holder(w) \in Loops /\ item[Holder(w)] = w
  BY <1>1 DEF Held, Holder
<1> QED BY <1>1, <1>2, PullFanoutAssumption DEF PlaceInv, HeldOnce

LEMMA StageIs == PlaceInv => StageSays
<1> SUFFICES ASSUME PlaceInv, NEW w \in Work
             PROVE  /\ Held(w) => Stage(w) = "held"
                    /\ ~Held(w) => Stage(w) # "held" /\ Holder(w) = None
                    /\ Waits(w) => Stage(w) = "pooled"
                    /\ fanout[w] = "new" => Stage(w) = "new"
                    /\ outcome[w] # "none" => Stage(w) = outcome[w]
  BY DEF StageSays
<1>1. outcome[w] \in {"none", "completed", "failed", "abandoned"} /\ KeyOf[w] \in Keys
  BY PullFanoutAssumption DEF PlaceInv, PermitInv, TypeOK
<1>2. Held(w) => outcome[w] = "none" /\ fanout[w] # "new"
  BY PullFanoutAssumption DEF Held, PlaceInv, HeldOnce
<1>3. Waits(w) => outcome[w] = "none" /\ ~Held(w) /\ fanout[w] # "new"
  BY <1>1 DEF Waits, PlaceInv, QueuesDistinct
<1>4. fanout[w] = "new" => outcome[w] = "none"
  BY DEF PlaceInv, NoneLost
<1> QED BY <1>1, <1>2, <1>3, <1>4 DEF Stage, Holder

LEMMA StageNext == PlaceInv' => HolderHolds' /\ StageSays'
  BY HolderIs, StageIs, PTL

LEMMA MapFrame ==
  ASSUME PlaceInv, PlaceInv', NEW v \in Work,
         fanout[v] = "new" <=> fanout'[v] = "new",
         outcome'[v] = outcome[v],
         Waits(v)' <=> Waits(v),
         \A l \in Loops : item'[l] = v <=> item[l] = v
  PROVE  Stage(v)' = Stage(v) /\ Holder(v)' = Holder(v)
<1>1. Held(v)' <=> Held(v)
  BY DEF Held
<1>2. Stage(v)' = Stage(v)
  BY <1>1 DEF Stage
<1>3. CASE Held(v)
  <2>1. PICK l \in Loops : item[l] = v
    BY <1>3 DEF Held
  <2>2. Holder(v) = l
    BY <2>1, HolderIs DEF HolderHolds
  <2>3. Holder(v)' = l
    BY <2>1, StageNext DEF HolderHolds
  <2> QED BY <1>2, <2>2, <2>3
<1>4. CASE ~Held(v)
  BY <1>1, <1>2, <1>4 DEF Holder
<1> QED BY <1>3, <1>4

LEMMA MapInit == Init => Distribution!Init
<1> SUFFICES ASSUME Init PROVE Distribution!Init
  OBVIOUS
<1>1. \A w \in Work : fanout[w] = "new" /\ outcome[w] = "none" /\ ~Held(w)
  BY PullFanoutAssumption DEF Init, Held
<1>2. \A w \in Work : Stage(w) = "new" /\ Holder(w) = None
  BY <1>1, PlaceInit, StageIs DEF StageSays
<1>3. cancelled = {}
  BY DEF Init
<1> QED BY <1>2, <1>3 DEF Distribution!Init

LEMMA MapEnqueue ==
  ASSUME PlaceInv, PlaceInv', NEW w \in Work, FanoutEnqueue(w)
  PROVE  Distribution!Submit(w)
<1>1. /\ fanout[w] = "new" /\ fanout' = [fanout EXCEPT ![w] = "enqueued"]
      /\ UNCHANGED <<item, outcome, cancelled>>
      /\ fanout \in [Work -> {"new", "enqueued", "returned"}]
  BY DEF FanoutEnqueue, regVars, PlaceInv, PermitInv, TypeOK
<1>2. Waits(w)' /\ \A v \in Work \ {w} : Waits(v)' <=> Waits(v)
  BY PlaceEnqueue DEF PlaceInv
<1>3. ~Held(w) /\ ~Held(w)'
  BY <1>1, PullFanoutAssumption DEF PlaceInv, HeldOnce, Held
<1>4. Stage(w) = "new" /\ Holder(w) = None /\ Stage(w)' = "pooled" /\ Holder(w)' = None
  BY <1>1, <1>2, <1>3, StageIs, StageNext DEF StageSays
<1>5. \A v \in Work \ {w} : Stage(v)' = Stage(v) /\ Holder(v)' = Holder(v)
  BY <1>1, <1>2, MapFrame
<1> QED BY <1>1, <1>4, <1>5 DEF Distribution!Submit

LEMMA MapTakeItem ==
  ASSUME PlaceInv, PlaceInv', NEW l \in Loops, TakeItem(l),
         NEW w, w = Head(queue[winner[l]])
  PROVE  w \in Work /\ Distribution!Take(w, l)
<1>1. /\ w \in Work /\ Waits(w)
      /\ KeyOf[w] \in Subscribed[l] /\ ~Held(w)
      /\ item' = [item EXCEPT ![l] = w] /\ item[l] = None
      /\ ~Waits(w)' /\ \A v \in Work \ {w} : Waits(v)' <=> Waits(v)
  BY PlaceTakeItem DEF PlaceInv
<1>2. UNCHANGED <<fanout, outcome, cancelled>> /\ item \in [Loops -> Work \cup {None}]
  BY DEF TakeItem, regVars, PlaceInv, PermitInv, TypeOK
<1>3. item'[l] = w
  BY <1>1, <1>2
<1>4. /\ Stage(w) = "pooled" /\ Holder(w) = None
      /\ Stage(w)' = "held" /\ Holder(w)' = l
  BY <1>1, <1>3, StageIs, StageNext DEF StageSays, HolderHolds
<1>5. \A v \in Work \ {w} : \A m \in Loops : item'[m] = v <=> item[m] = v
  BY <1>1, <1>2, PullFanoutAssumption
<1>6. \A v \in Work \ {w} : Stage(v)' = Stage(v) /\ Holder(v)' = Holder(v)
  BY <1>1, <1>2, <1>5, MapFrame
<1>7. \A v \in Work : Holder(v) # l
  <2> SUFFICES ASSUME NEW v \in Work, Holder(v) = l PROVE FALSE
    OBVIOUS
  <2>1. Held(v)
    BY PullFanoutAssumption DEF Holder
  <2>2. item[Holder(v)] = v
    BY <2>1 DEF Held, Holder
  <2> QED BY <1>1, <2>2, PullFanoutAssumption
<1> QED BY <1>1, <1>2, <1>4, <1>6, <1>7 DEF Distribution!Take, Distribution!Idle

LEMMA MapSettle ==
  ASSUME PlaceInv, PlaceInv', NEW l \in Loops,
         NEW result \in {"completed", "failed", "abandoned"},
         NEW next \in {"top", "ended"},
         Settle(l, result, next),
         result = "abandoned" => l \in cancelled,
         NEW w, w = item[l]
  PROVE  w \in Work /\ Distribution!Settle(w, result)
<1>1. /\ w \in Work /\ fanout[w] # "new" /\ ~Waits(w)
      /\ outcome' = [outcome EXCEPT ![w] = result] /\ item' = [item EXCEPT ![l] = None]
      /\ \A m \in Loops : item[m] = w => m = l
      /\ \A v \in Work : Waits(v)' <=> Waits(v)
  BY PlaceSettle DEF PlaceInv
<1>2. /\ UNCHANGED <<fanout, cancelled>> /\ item \in [Loops -> Work \cup {None}]
      /\ outcome \in [Work -> {"none", "completed", "failed", "abandoned"}]
  BY DEF Settle, fanoutVars, regVars, PlaceInv, PermitInv, TypeOK
<1>3. outcome'[w] = result /\ result # "none"
  BY <1>1, <1>2
<1>4. ~Held(w)'
  BY <1>1, <1>2, PullFanoutAssumption DEF Held
<1>5. /\ Stage(w) = "held" /\ Holder(w) = l
      /\ Stage(w)' = result /\ Holder(w)' = None
  BY <1>1, <1>3, <1>4, StageIs, HolderIs, StageNext DEF StageSays, HolderHolds
<1>6. \A v \in Work \ {w} :
        outcome'[v] = outcome[v] /\ \A m \in Loops : item'[m] = v <=> item[m] = v
  BY <1>1, <1>2, PullFanoutAssumption
<1>7. \A v \in Work \ {w} : Stage(v)' = Stage(v) /\ Holder(v)' = Holder(v)
  BY <1>1, <1>2, <1>6, MapFrame
<1> QED BY <1>1, <1>2, <1>5, <1>7 DEF Distribution!Settle

LEMMA MapStutter ==
  ASSUME PlaceInv, PlaceInv', UNCHANGED <<queue, item, outcome>>,
         \A w \in Work : fanout[w] = "new" <=> fanout'[w] = "new"
  PROVE  \A w \in Work : Stage(w)' = Stage(w) /\ Holder(w)' = Holder(w)
<1> SUFFICES ASSUME NEW w \in Work
             PROVE  Stage(w)' = Stage(w) /\ Holder(w)' = Holder(w)
  OBVIOUS
<1>1. Waits(w)' <=> Waits(w)
  BY DEF Waits
<1> QED BY <1>1, MapFrame

LEMMA MapStep ==
  PlaceInv /\ PlaceInv' /\ [Next]_vars => [Distribution!Next]_(Distribution!vars)
<1> SUFFICES ASSUME PlaceInv, PlaceInv', [Next]_vars
             PROVE  Distribution!Next \/ UNCHANGED Distribution!vars
  OBVIOUS
<1>0. TypeOK
  BY DEF PlaceInv, PermitInv
<1>s. ASSUME UNCHANGED <<queue, item, outcome, cancelled>>,
             \A w \in Work : fanout[w] = "new" <=> fanout'[w] = "new"
      PROVE  UNCHANGED Distribution!vars
  BY <1>s, MapStutter DEF Distribution!vars
<1>1. CASE UNCHANGED vars
  BY <1>1, <1>s DEF vars, fanoutVars, regVars
<1>2. ASSUME NEW w \in Work, Fanout(w)
      PROVE  Distribution!Next \/ UNCHANGED Distribution!vars
  <2>1. CASE FanoutEnqueue(w) BY <2>1, MapEnqueue DEF Distribution!Next
  <2>2. CASE FanoutRelease(w)
    BY <1>0, <1>s, <2>2 DEF FanoutRelease, TypeOK, regVars
  <2> QED BY <1>2, <2>1, <2>2 DEF Fanout
<1>3. ASSUME NEW l \in Loops, Registration(l)
      PROVE  Distribution!Next \/ UNCHANGED Distribution!vars
  <2>1. UNCHANGED <<queue, item, outcome, fanout>>
    BY <1>3
    DEF Registration, RegisterAdd, RegisterStart, DisposeRemove, DisposeCancel, fanoutVars
  <2>2. CASE UNCHANGED cancelled
    BY <1>s, <2>1, <2>2
  <2>3. CASE DisposeCancel(l)
    <3>1. \A w \in Work : Stage(w)' = Stage(w) /\ Holder(w)' = Holder(w)
      BY <2>1, MapStutter
    <3>2. CASE workerCts[NameOf[l]] = None
      BY <1>s, <2>1, <2>3, <3>2 DEF DisposeCancel
    <3>3. CASE workerCts[NameOf[l]] # None
      <4>1. workerCts[NameOf[l]] \in Loops
        BY <1>0, <3>3, PullFanoutAssumption DEF TypeOK
      <4>2. Distribution!Stop(workerCts[NameOf[l]])
        BY <2>3, <3>1, <3>3 DEF DisposeCancel, Distribution!Stop
      <4> QED BY <4>1, <4>2 DEF Distribution!Next
    <3> QED BY <3>2, <3>3
  <2> QED
    BY <1>3, <2>2, <2>3 DEF Registration, RegisterAdd, RegisterStart, DisposeRemove
<1>4. ASSUME NEW l \in Loops, ReadLoop(l)
      PROVE  Distribution!Next \/ UNCHANGED Distribution!vars
  <2>1. CASE LoopExit(l)  BY <1>s, <2>1 DEF LoopExit, fanoutVars, regVars
  <2>2. CASE StartWait(l) BY <1>s, <2>2 DEF StartWait, fanoutVars, regVars
  <2>3. ASSUME NEW k \in Keys,
               Acquire(l, k) \/ Win(l, k) \/ WinCancelled(l, k)
                 \/ CollectGranted(l, k) \/ CollectCancelled(l, k)
        PROVE  UNCHANGED Distribution!vars
    BY <1>s, <2>3
    DEF Acquire, Win, WinCancelled, CollectGranted, CollectCancelled, fanoutVars, regVars
  <2>4. CASE TakeNothing(l) BY <1>s, <2>4 DEF TakeNothing, fanoutVars, regVars
  <2>5. CASE TakeItem(l)    BY <2>5, MapTakeItem DEF Distribution!Next
  <2>6. CASE RunDispatch(l)
    BY <2>6, MapSettle
    DEF RunDispatch, DoWorkCompletes, DoWorkFails, DoWorkCancelled, Distribution!Next
  <2> QED BY <1>4, <2>1, <2>2, <2>3, <2>4, <2>5, <2>6 DEF ReadLoop, TryTakeWork
<1> QED BY <1>1, <1>2, <1>3, <1>4 DEF Next

\* PullFanout implements WorkDistribution: an item is taken at most once, by a
\* registered loop that subscribes to its key and runs nothing else, never
\* vanishes, and is given up only by a loop that was cancelled.
THEOREM ImplementsDistribution == Spec => DistributesWork
<1>1. Init => PlaceInv /\ Distribution!Init
  BY PlaceInit, MapInit
<1>2. PlaceInv /\ [Next]_vars
        => PlaceInv' /\ [Distribution!Next]_(Distribution!vars)
  BY PlaceStep, MapStep
<1> QED BY <1>1, <1>2, PTL DEF Spec, DistributesWork, Distribution!Spec
===============================================================================
