-------------------------- MODULE CompeteFanoutProofs --------------------------
(***************************************************************************)
(* What TLAPS proves of CompeteFanout, for any sets of items, names and    *)
(* connections that satisfy CompeteFanoutAssumption.                       *)
(***************************************************************************)
EXTENDS CompeteFanout, TLAPS

(***************************************************************************)
(* Where an item may be. An item that waits, on Overflow or in the hands   *)
(* of RegisterWorker, was never dispatched, and waits in one place only.   *)
(***************************************************************************)
Idle(d) == running[d] = None /\ d \notin competing /\ errors[d] = 0 /\ finals[d] = 0
Waiting(w) == fanout[w] = "pushed" /\ Idle(w) /\ conn[w] = None

OverflowInv ==
  /\ \A i \in 1 .. Len(overflow) : Waiting(overflow[i])
  /\ \A i, j \in 1 .. Len(overflow) : overflow[i] = overflow[j] => i = j

Draining == {"marking", "starting", "unsuited"}

PoppedOf(c) ==
  /\ reg[c] \in Draining <=> popped[c] # None
  /\ popped[c] # None =>
        /\ Waiting(popped[c])
        /\ \A i \in 1 .. Len(overflow) : overflow[i] # popped[c]
        /\ \A e \in Conns : popped[e] = popped[c] => e = c
  /\ reg[c] \in {"marking", "starting"} => NameOf[c] \in Eligible[popped[c]]

PoppedInv == \A c \in Conns : PoppedOf(c)

(***************************************************************************)
(* What a dispatch has been through. While it goes on, each of its         *)
(* subscriptions that ended has failed; it ends at the second failure.     *)
(***************************************************************************)
DispatchOf(d) ==
  /\ fanout[d] \in {"new", "unplaced"} => Idle(d) /\ conn[d] = None
  /\ fanout[d] \in {"marking", "picked"} => Idle(d) /\ conn[d] # None
  /\ running[d] # None => d \notin competing
  /\ GoesOn(d) => conn[d] # None /\ errors[d] <= 1 /\ finals[d] <= errors[d]
  /\ finals[d] <= errors[d] + 1
  /\ finals[d] > 0 => conn[d] # None

DispatchInv == \A d \in Work : DispatchOf(d)

IInv == TypeOK /\ OverflowInv /\ PoppedInv /\ DispatchInv

(***************************************************************************)
(* Overflow as a sequence.                                                 *)
(***************************************************************************)
LEMMA PopSeq ==
  ASSUME NEW S, NEW s \in Seq(S), s # <<>>
  PROVE  /\ Head(s) \in S /\ Tail(s) \in Seq(S)
         /\ Head(s) = s[1] /\ 1 \in 1 .. Len(s)
         /\ Len(Tail(s)) = Len(s) - 1
         /\ \A i \in 1 .. Len(Tail(s)) : i + 1 \in 1 .. Len(s) /\ Tail(s)[i] = s[i + 1]
  OBVIOUS

LEMMA PushSeq ==
  ASSUME NEW S, NEW s \in Seq(S), NEW x \in S
  PROVE  /\ <<x>> \o s \in Seq(S)
         /\ Len(<<x>> \o s) = Len(s) + 1
         /\ (<<x>> \o s)[1] = x
         /\ \A i \in 2 .. Len(s) + 1 :
               i - 1 \in 1 .. Len(s) /\ (<<x>> \o s)[i] = s[i - 1]
  OBVIOUS

(***************************************************************************)
(* Type correctness, given what a dispatch has been through.               *)
(***************************************************************************)
LEMMA TypeInit == Init => TypeOK
  BY CompeteFanoutAssumption DEF Init, TypeOK

LEMMA TypePush ==
  ASSUME TypeOK, NEW w \in Work, Push(w)
  PROVE  overflow' \in Seq(Work)
  BY PushSeq DEF Push, TypeOK

LEMMA TypeFanout ==
  ASSUME IInv, NEW w \in Work, Fanout(w)
  PROVE  TypeOK'
<1> USE DEF IInv, TypeOK, registerVars, dispatchVars
<1>1. ASSUME NEW c \in Conns, FanoutChoose(w, c) PROVE TypeOK'
  BY <1>1 DEF FanoutChoose, ChooseSuited
<1>2. CASE FanoutMark(w)
  <2>1. conn[w] \in Conns
    BY <1>2 DEF FanoutMark, DispatchInv, DispatchOf
  <2> QED BY <1>2, <2>1 DEF FanoutMark
<1>3. CASE FanoutNoWorker(w) BY <1>3 DEF FanoutNoWorker
<1>4. CASE FanoutStart(w)    BY <1>4 DEF FanoutStart, Start
<1>5. CASE FanoutPush(w)     BY <1>5, TypePush DEF FanoutPush
<1> QED BY <1>1, <1>2, <1>3, <1>4, <1>5 DEF Fanout

LEMMA TypeRegister ==
  ASSUME IInv, NEW c \in Conns, RegisterWorker(c) \/ Dispose(c)
  PROVE  TypeOK'
<1> USE CompeteFanoutAssumption
    DEF IInv, TypeOK, registerVars, dispatchVars, Registering
<1>0. reg[c] \in Draining => popped[c] \in Work
  BY DEF PoppedInv, PoppedOf
<1>1. CASE RegisterAdd(c)        BY <1>1 DEF RegisterAdd
<1>2. CASE RegisterPeek(c)       BY <1>2 DEF RegisterPeek
<1>3. CASE RegisterPop(c)        BY <1>3, PopSeq DEF RegisterPop, PopThen
<1>4. CASE RegisterPopNothing(c) BY <1>4 DEF RegisterPopNothing
<1>5. CASE RegisterMark(c)       BY <1>5 DEF RegisterMark
<1>6. CASE RegisterStart(c)
  BY <1>0, <1>6 DEF RegisterStart, Start, Draining
<1>7. CASE RegisterPushBack(c)
  BY <1>0, <1>7, TypePush DEF RegisterPushBack, LetGo, Draining
<1>8. CASE Dispose(c)            BY <1>8 DEF Dispose
<1> QED
  BY <1>1, <1>2, <1>3, <1>4, <1>5, <1>6, <1>7, <1>8 DEF RegisterWorker

LEMMA TypeWork ==
  ASSUME IInv, NEW d \in Work, DoWorkUntilDrained(d) \/ Finally(d)
  PROVE  TypeOK'
<1> USE CompeteFanoutAssumption DEF IInv, TypeOK, registerVars, dispatchVars
<1>0. DispatchOf(d)
  BY DEF DispatchInv
<1>1. CASE DoWorkCompletes(d) BY <1>1 DEF DoWorkCompletes, Ended
<1>2. CASE CompeteNext(d)     BY <1>2, PopSeq DEF CompeteNext
<1>3. CASE CompeteDone(d)
  <2>1. finals[d] + 1 \in 0 .. 2
    BY <1>0, <1>3 DEF CompeteDone, Complete, CompeteEnds, DispatchOf, GoesOn
  <2> QED BY <1>3, <2>1 DEF CompeteDone, Complete, CompeteEnds
<1>4. ASSUME NEW next \in Work \cup {None}, Fails(d, next),
             outcome' = outcome \/ Ended(running[d], "failed")
      PROVE  TypeOK'
  <2>0. GoesOn(d)
    BY <1>4 DEF Fails, GoesOn
  <2>1. finals[d] + 1 \in 0 .. 2 /\ errors[d] + 1 \in 0 .. 2
    <3>1. finals[d] \in 0 .. 2 /\ errors[d] \in 0 .. 2
      OBVIOUS
    <3>2. finals[d] <= errors[d] /\ errors[d] <= 1
      BY <1>0, <2>0 DEF DispatchOf
    <3> HIDE DEF IInv, TypeOK
    <3> QED BY <3>1, <3>2
  <2> QED BY <1>4, <2>1 DEF Fails, Ended
<1>5. CASE DoWorkFailsFirst(d) BY <1>4, <1>5 DEF DoWorkFailsFirst
<1>6. CASE DoWorkFailsAgain(d) BY <1>4, <1>6 DEF DoWorkFailsAgain
<1>7. CASE Finally(d)
  <2>1. finals[d] - 1 \in 0 .. 2
    BY <1>7 DEF Finally
  <2> QED BY <1>7, <2>1 DEF Finally, ClearReserved
<1> QED
  BY <1>1, <1>2, <1>3, <1>5, <1>6, <1>7 DEF DoWorkUntilDrained

LEMMA TypeStep == IInv /\ [Next]_vars => TypeOK'
<1> SUFFICES ASSUME IInv, [Next]_vars PROVE TypeOK'
  OBVIOUS
<1>1. ASSUME NEW w \in Work, Fanout(w) \/ DoWorkUntilDrained(w) \/ Finally(w)
      PROVE  TypeOK'
  BY <1>1, TypeFanout, TypeWork
<1>2. ASSUME NEW c \in Conns, RegisterWorker(c) \/ Dispose(c) PROVE TypeOK'
  BY <1>2, TypeRegister
<1>3. ASSUME NEW n \in Names, BusyOn(n) \/ BusyOff(n) PROVE TypeOK'
  BY <1>3 DEF IInv, TypeOK, BusyOn, BusyOff, registerVars, dispatchVars
<1>4. CASE UNCHANGED vars
  BY <1>4 DEF IInv, TypeOK, vars, registerVars, dispatchVars
<1> QED BY <1>1, <1>2, <1>3, <1>4 DEF Next
(***************************************************************************)
(* Waiting items, in a step that is not RegisterStart: they go on waiting. *)
(***************************************************************************)
KeepsWaiting == \A x \in Work : Waiting(x) => Waiting(x)'

LEMMA WaitingKept ==
  ASSUME IInv,
         \/ \E w \in Work : Fanout(w) \/ DoWorkUntilDrained(w) \/ Finally(w)
         \/ \E c \in Conns : (RegisterWorker(c) /\ ~RegisterStart(c)) \/ Dispose(c)
         \/ \E n \in Names : BusyOn(n) \/ BusyOff(n)
         \/ UNCHANGED vars
  PROVE  KeepsWaiting
<1> SUFFICES ASSUME NEW x \in Work, Waiting(x) PROVE Waiting(x)'
  BY DEF KeepsWaiting
<1> USE DEF IInv, TypeOK, Waiting, Idle, registerVars, dispatchVars
<1>1. ASSUME NEW w \in Work, Fanout(w) PROVE Waiting(x)'
  BY <1>1 DEF Fanout, FanoutChoose, ChooseSuited, FanoutMark, FanoutNoWorker,
              FanoutStart, Start, FanoutPush
<1>2. ASSUME NEW w \in Work, DoWorkUntilDrained(w) PROVE Waiting(x)'
  <2>0. w # x
    BY <1>2, CompeteFanoutAssumption
    DEF DoWorkUntilDrained, DoWorkCompletes, CompeteNext, CompeteDone, Complete,
        CompeteEnds, DoWorkFailsFirst, DoWorkFailsAgain, Fails
  <2> QED
    BY <1>2, <2>0 DEF DoWorkUntilDrained, DoWorkCompletes, CompeteNext, CompeteDone,
         Complete, CompeteEnds, DoWorkFailsFirst, DoWorkFailsAgain, Fails
<1>3. ASSUME NEW w \in Work, Finally(w) PROVE Waiting(x)'
  BY <1>3 DEF Finally, ClearReserved
<1>4. ASSUME NEW c \in Conns, (RegisterWorker(c) /\ ~RegisterStart(c)) \/ Dispose(c)
      PROVE  Waiting(x)'
  BY <1>4 DEF RegisterWorker, Registering, RegisterAdd, RegisterPeek, RegisterPop, PopThen,
              RegisterPopNothing, RegisterMark, RegisterPushBack, LetGo, Dispose
<1>5. ASSUME NEW n \in Names, BusyOn(n) \/ BusyOff(n) PROVE Waiting(x)'
  BY <1>5 DEF BusyOn, BusyOff
<1>6. CASE UNCHANGED vars BY <1>6 DEF vars
<1> QED BY <1>1, <1>2, <1>3, <1>4, <1>5, <1>6

(***************************************************************************)
(* Overflow, when it stays, is popped, or has an item pushed.              *)
(***************************************************************************)
LEMMA OverflowStays ==
  ASSUME IInv, KeepsWaiting, UNCHANGED overflow
  PROVE  OverflowInv'
<1>1. \A i \in 1 .. Len(overflow) : overflow[i] \in Work
  BY DEF IInv, TypeOK
<1> QED BY <1>1 DEF IInv, OverflowInv, KeepsWaiting

LEMMA OverflowPopped ==
  ASSUME IInv, KeepsWaiting, overflow # <<>>, overflow' = Tail(overflow)
  PROVE  /\ OverflowInv'
         /\ \A i \in 1 .. Len(overflow') : overflow'[i] # Head(overflow)
         /\ \A i \in 1 .. Len(overflow') :
               \E j \in 1 .. Len(overflow) : overflow'[i] = overflow[j]
<1>1. /\ overflow \in Seq(Work) /\ Len(overflow) \in Nat
      /\ \A i \in 1 .. Len(overflow) : overflow[i] \in Work
  BY DEF IInv, TypeOK
<1>2. /\ Head(overflow) = overflow[1] /\ 1 \in 1 .. Len(overflow)
      /\ Len(overflow') = Len(overflow) - 1
      /\ \A i \in 1 .. Len(overflow') :
            i + 1 \in 1 .. Len(overflow) /\ overflow'[i] = overflow[i + 1]
  BY <1>1, PopSeq
<1>3. \A i \in 1 .. Len(overflow') : overflow'[i] # Head(overflow)
  BY <1>1, <1>2 DEF IInv, OverflowInv
<1>4. \A i \in 1 .. Len(overflow') : Waiting(overflow[i])'
  <2> SUFFICES ASSUME NEW i \in 1 .. Len(overflow') PROVE Waiting(overflow[i])'
    OBVIOUS
  <2>1. Waiting(overflow[i + 1]) /\ overflow[i + 1] \in Work
    BY <1>1, <1>2 DEF IInv, OverflowInv
  <2> QED BY <1>2, <2>1 DEF KeepsWaiting, Waiting, Idle
<1>5. \A i, j \in 1 .. Len(overflow') : overflow'[i] = overflow'[j] => i = j
  BY <1>1, <1>2 DEF IInv, OverflowInv
<1> QED BY <1>2, <1>3, <1>4, <1>5 DEF OverflowInv

LEMMA OverflowPushed ==
  ASSUME IInv, KeepsWaiting, NEW w \in Work, Push(w), Waiting(w)',
         \A i \in 1 .. Len(overflow) : overflow[i] # w
  PROVE  /\ OverflowInv'
         /\ \A i \in 1 .. Len(overflow') :
               \/ overflow'[i] = w
               \/ \E j \in 1 .. Len(overflow) : overflow'[i] = overflow[j]
<1>1. /\ overflow \in Seq(Work) /\ Len(overflow) \in Nat
      /\ \A i \in 1 .. Len(overflow) : overflow[i] \in Work
  BY DEF IInv, TypeOK
<1>2. /\ Len(overflow') = Len(overflow) + 1
      /\ overflow'[1] = w
      /\ \A i \in 2 .. Len(overflow) + 1 :
            i - 1 \in 1 .. Len(overflow) /\ overflow'[i] = overflow[i - 1]
  BY <1>1, PushSeq DEF Push
<1>3. \A i \in 1 .. Len(overflow') : i = 1 \/ i \in 2 .. Len(overflow) + 1
  BY <1>1, <1>2
<1>4. \A i \in 1 .. Len(overflow') : Waiting(overflow[i])'
  <2> SUFFICES ASSUME NEW i \in 1 .. Len(overflow') PROVE Waiting(overflow[i])'
    OBVIOUS
  <2>1. CASE i = 1
    BY <1>2, <2>1 DEF Waiting, Idle
  <2>2. CASE i \in 2 .. Len(overflow) + 1
    <3>1. Waiting(overflow[i - 1]) /\ overflow[i - 1] \in Work
      BY <1>1, <1>2, <2>2 DEF IInv, OverflowInv
    <3> QED BY <1>2, <2>2, <3>1 DEF KeepsWaiting, Waiting, Idle
  <2> QED BY <1>3, <2>1, <2>2
<1>5. \A i, j \in 1 .. Len(overflow') : overflow'[i] = overflow'[j] => i = j
  <2> SUFFICES ASSUME NEW i \in 1 .. Len(overflow'), NEW j \in 1 .. Len(overflow'),
                      overflow'[i] = overflow'[j]
               PROVE  i = j
    OBVIOUS
  <2>1. i = 1 => j = 1
    BY <1>2, <1>3
  <2>2. j = 1 => i = 1
    BY <1>2, <1>3
  <2>3. CASE i \in 2 .. Len(overflow) + 1 /\ j \in 2 .. Len(overflow) + 1
    <3>1. /\ i - 1 \in 1 .. Len(overflow) /\ j - 1 \in 1 .. Len(overflow)
          /\ overflow[i - 1] = overflow[j - 1]
      BY <1>2, <2>3
    <3>2. i - 1 = j - 1
      BY <3>1 DEF IInv, OverflowInv
    <3> QED BY <1>1, <2>3, <3>2
  <2> QED BY <1>3, <2>1, <2>2, <2>3
<1> QED BY <1>2, <1>3, <1>4, <1>5 DEF OverflowInv
(***************************************************************************)
(* What RegisterWorker has popped.                                         *)
(***************************************************************************)
LEMMA PoppedStays ==
  ASSUME IInv, KeepsWaiting, UNCHANGED <<overflow, popped>>,
         NEW c \in Conns,
         (reg'[c] \in Draining) <=> (reg[c] \in Draining),
         reg'[c] \in {"marking", "starting"} => reg[c] \in {"marking", "starting"}
  PROVE  PoppedOf(c)'
<1>1. PoppedOf(c) /\ popped[c] \in Work \cup {None}
  BY DEF IInv, TypeOK, PoppedInv
<1>2. popped[c] # None => Waiting(popped[c])'
  BY <1>1 DEF KeepsWaiting, PoppedOf, Waiting, Idle
<1> QED BY <1>1, <1>2 DEF PoppedOf

ItemInv == OverflowInv /\ PoppedInv

\* Steps that leave Overflow and RegisterWorker's items where they are.
LEMMA ItemStays ==
  ASSUME IInv, KeepsWaiting, UNCHANGED <<overflow, popped, reg>>
  PROVE  ItemInv'
BY OverflowStays, PoppedStays DEF ItemInv, PoppedInv

LEMMA ItemFanout ==
  ASSUME IInv, NEW w \in Work, Fanout(w)
  PROVE  ItemInv'
<1>0. KeepsWaiting
  BY WaitingKept
<1>1. ASSUME ~FanoutPush(w) PROVE UNCHANGED <<overflow, popped, reg>>
  BY <1>1 DEF Fanout, FanoutChoose, ChooseSuited, FanoutMark, FanoutNoWorker, FanoutStart,
              Start, registerVars, dispatchVars
<1>2. CASE FanoutPush(w)
  <2>1. /\ Waiting(w)'
        /\ \A i \in 1 .. Len(overflow) : overflow[i] # w
        /\ \A e \in Conns : popped[e] # w
        /\ UNCHANGED <<reg, popped>>
    BY <1>2, CompeteFanoutAssumption
    DEF IInv, TypeOK, OverflowInv, PoppedInv, PoppedOf, DispatchInv, DispatchOf, Waiting,
        Idle, FanoutPush, registerVars, dispatchVars
  <2>2. /\ OverflowInv'
        /\ \A i \in 1 .. Len(overflow') :
              \/ overflow'[i] = w
              \/ \E j \in 1 .. Len(overflow) : overflow'[i] = overflow[j]
    BY <1>0, <1>2, <2>1, OverflowPushed DEF FanoutPush
  <2>3. ASSUME NEW e \in Conns PROVE PoppedOf(e)'
    <3>1. PoppedOf(e) /\ popped[e] \in Work \cup {None}
      BY DEF IInv, TypeOK, PoppedInv
    <3>2. popped[e] # None => Waiting(popped[e])'
      BY <1>0, <2>1, <3>1 DEF KeepsWaiting, PoppedOf, Waiting, Idle
    <3> QED BY <2>1, <2>2, <3>1, <3>2 DEF PoppedOf
  <2> QED BY <2>2, <2>3 DEF ItemInv, PoppedInv
<1> QED BY <1>0, <1>1, <1>2, ItemStays

LEMMA ItemWork ==
  ASSUME IInv, NEW d \in Work, DoWorkUntilDrained(d) \/ Finally(d)
  PROVE  ItemInv'
<1>0. KeepsWaiting
  BY WaitingKept
<1>1. ASSUME ~CompeteNext(d) PROVE UNCHANGED <<overflow, popped, reg>>
  BY <1>1 DEF DoWorkUntilDrained, DoWorkCompletes, CompeteDone, CompeteEnds,
              Complete, DoWorkFailsFirst, DoWorkFailsAgain, Fails, Finally, ClearReserved,
              registerVars, dispatchVars
<1>2. CASE CompeteNext(d)
  <2>1. overflow # <<>> /\ overflow' = Tail(overflow) /\ UNCHANGED <<reg, popped>>
    BY <1>2 DEF CompeteNext, registerVars
  <2>2. /\ OverflowInv'
        /\ \A i \in 1 .. Len(overflow') :
              \E j \in 1 .. Len(overflow) : overflow'[i] = overflow[j]
    BY <1>0, <2>1, OverflowPopped
  <2>3. ASSUME NEW e \in Conns PROVE PoppedOf(e)'
    <3>1. PoppedOf(e) /\ popped[e] \in Work \cup {None}
      BY DEF IInv, TypeOK, PoppedInv
    <3>2. popped[e] # None => Waiting(popped[e])'
      BY <1>0, <2>1, <3>1 DEF KeepsWaiting, PoppedOf, Waiting, Idle
    <3> QED BY <2>1, <2>2, <3>1, <3>2 DEF PoppedOf
  <2> QED BY <2>2, <2>3 DEF ItemInv, PoppedInv
<1> QED BY <1>0, <1>1, <1>2, ItemStays

\* RegisterWorker of c takes its item off Overflow.
LEMMA ItemPop ==
  ASSUME IInv, NEW c \in Conns, RegisterPop(c)
  PROVE  ItemInv'
<1>0. KeepsWaiting
  <2>1. ~RegisterStart(c)
    BY DEF RegisterPop, PopThen, RegisterStart, Registering
  <2> QED BY <2>1, WaitingKept DEF RegisterWorker
<1>1. /\ overflow # <<>> /\ overflow' = Tail(overflow)
      /\ popped' = [popped EXCEPT ![c] = Head(overflow)]
      /\ reg[c] = "popping"
      /\ reg' = [reg EXCEPT ![c] = IF Suits(c, Head(overflow)) THEN "marking" ELSE "unsuited"]
  BY DEF RegisterPop, PopThen, Registering
<1>2. PICK w \in Work : w = Head(overflow) /\ w = overflow[1] /\ 1 \in 1 .. Len(overflow)
  BY <1>1, PopSeq DEF IInv, TypeOK
<1>3. /\ OverflowInv'
      /\ \A i \in 1 .. Len(overflow') : overflow'[i] # w
      /\ \A i \in 1 .. Len(overflow') :
            \E j \in 1 .. Len(overflow) : overflow'[i] = overflow[j]
  BY <1>0, <1>1, <1>2, OverflowPopped
<1>4. Waiting(w) /\ Waiting(w)' /\ \A e \in Conns : popped[e] # w
  <2>1. w # None
    BY CompeteFanoutAssumption
  <2>2. Waiting(w) /\ \A e \in Conns : popped[e] # w
    BY <1>2, <2>1 DEF IInv, OverflowInv, PoppedInv, PoppedOf
  <2> QED BY <2>2, <1>0 DEF KeepsWaiting
<1>5. popped'[c] = w /\ \A e \in Conns \ {c} : popped'[e] = popped[e] /\ reg'[e] = reg[e]
  BY <1>1, <1>2 DEF IInv, TypeOK
<1>6. reg'[c] = IF Suits(c, w) THEN "marking" ELSE "unsuited"
  BY <1>1, <1>2 DEF IInv, TypeOK
<1>7. PoppedOf(c)'
  <2>1. Waiting(popped[c])'
    BY <1>4, <1>5 DEF Waiting, Idle
  <2>2. \A e \in Conns : popped'[e] = popped'[c] => e = c
    BY <1>4, <1>5
  <2> QED
    BY <1>3, <1>5, <1>6, <2>1, <2>2, CompeteFanoutAssumption
    DEF PoppedOf, Draining, Suits
<1>8. ASSUME NEW e \in Conns \ {c} PROVE PoppedOf(e)'
  <2>1. PoppedOf(e) /\ popped[e] \in Work \cup {None}
    BY DEF IInv, TypeOK, PoppedInv
  <2>2. popped[e] # None => Waiting(popped[e])'
    BY <1>0, <1>5, <2>1 DEF KeepsWaiting, PoppedOf, Waiting, Idle
  <2> QED BY <1>3, <1>4, <1>5, <2>1, <2>2 DEF PoppedOf
<1> QED BY <1>3, <1>7, <1>8 DEF ItemInv, PoppedInv

\* RegisterWorker of c starts its item, or puts it back.
LEMMA ItemGone ==
  ASSUME IInv, NEW c \in Conns, RegisterStart(c) \/ RegisterPushBack(c)
  PROVE  ItemInv'
<1>1. PICK w \in Work : w = popped[c]
  BY DEF IInv, TypeOK, PoppedInv, PoppedOf, RegisterStart, RegisterPushBack, LetGo,
         Registering, Draining
<1>2. /\ PoppedOf(c) /\ w # None /\ Waiting(w)
      /\ \A i \in 1 .. Len(overflow) : overflow[i] # w /\ overflow[i] \in Work
      /\ \A e \in Conns \ {c} : popped[e] # w
  BY <1>1, CompeteFanoutAssumption DEF IInv, TypeOK, PoppedInv, PoppedOf
<1>3. /\ popped' = [popped EXCEPT ![c] = None]
      /\ reg' = [reg EXCEPT ![c] = "registered"]
  BY DEF RegisterStart, RegisterPushBack, LetGo, Registering
<1>4. \A x \in Work \ {w} : Waiting(x) => Waiting(x)'
  <2>1. CASE RegisterStart(c)
    BY <1>1, <2>1 DEF RegisterStart, Registering, Start, Waiting, Idle, IInv, TypeOK
  <2>2. CASE RegisterPushBack(c)
    BY <2>2 DEF RegisterPushBack, LetGo, Registering, Waiting, Idle, dispatchVars
  <2> QED BY <2>1, <2>2
<1>5. /\ OverflowInv'
      /\ \A i \in 1 .. Len(overflow') :
            \/ overflow'[i] = w
            \/ \E j \in 1 .. Len(overflow) : overflow'[i] = overflow[j]
  <2>1. CASE RegisterStart(c)
    <3>1. overflow' = overflow
      BY <2>1 DEF RegisterStart, Start
    <3>2. \A i \in 1 .. Len(overflow) : Waiting(overflow[i])'
      BY <1>2, <1>4, <3>1 DEF IInv, OverflowInv, Waiting, Idle
    <3> QED BY <3>1, <3>2 DEF IInv, OverflowInv
  <2>2. CASE RegisterPushBack(c)
    <3>1. KeepsWaiting
      BY <2>2, WaitingKept DEF RegisterWorker, RegisterPushBack, RegisterStart, LetGo, Registering
    <3>2. Waiting(w)'
      BY <1>2, <3>1 DEF KeepsWaiting
    <3> QED BY <1>1, <1>2, <2>2, <3>1, <3>2, OverflowPushed DEF RegisterPushBack
  <2> QED BY <2>1, <2>2
<1>6. PoppedOf(c)'
  BY <1>3 DEF PoppedOf, Draining, IInv, TypeOK
<1>7. ASSUME NEW e \in Conns \ {c} PROVE PoppedOf(e)'
  <2>1. /\ PoppedOf(e) /\ popped[e] \in (Work \cup {None}) \ {w}
        /\ popped'[e] = popped[e] /\ reg'[e] = reg[e] /\ popped'[c] = None
        /\ \A b \in Conns \ {c} : popped'[b] = popped[b]
    BY <1>2, <1>3 DEF IInv, TypeOK, PoppedInv
  <2>2. popped[e] # None => Waiting(popped[e])'
    BY <1>4, <2>1 DEF PoppedOf, Waiting, Idle
  <2> QED BY <1>5, <2>1, <2>2 DEF PoppedOf
<1> QED BY <1>5, <1>6, <1>7 DEF ItemInv, PoppedInv

LEMMA ItemRegister ==
  ASSUME IInv, NEW c \in Conns, RegisterWorker(c) \/ Dispose(c)
  PROVE  ItemInv'
<1>1. ASSUME ~RegisterPop(c), ~RegisterStart(c), ~RegisterPushBack(c) PROVE ItemInv'
  <2>1. UNCHANGED <<overflow, popped>>
    BY <1>1 DEF RegisterWorker, RegisterAdd, RegisterPeek, RegisterPopNothing, RegisterMark,
                Dispose, registerVars
  <2>2. \A e \in Conns :
          /\ (reg'[e] \in Draining) <=> (reg[e] \in Draining)
          /\ reg'[e] \in {"marking", "starting"} => reg[e] \in {"marking", "starting"}
    BY <1>1 DEF RegisterWorker, Registering, RegisterAdd, RegisterPeek, RegisterPopNothing,
                RegisterMark, Dispose, Draining, IInv, TypeOK
  <2>3. KeepsWaiting
    BY <1>1, WaitingKept
  <2> QED BY <2>1, <2>2, <2>3, OverflowStays, PoppedStays DEF ItemInv, PoppedInv
<1> QED BY <1>1, ItemPop, ItemGone

LEMMA ItemStep == IInv /\ [Next]_vars => ItemInv'
<1> SUFFICES ASSUME IInv, [Next]_vars PROVE ItemInv'
  OBVIOUS
<1>1. ASSUME NEW w \in Work, Fanout(w) \/ DoWorkUntilDrained(w) \/ Finally(w)
      PROVE  ItemInv'
  BY <1>1, ItemFanout, ItemWork
<1>2. ASSUME NEW c \in Conns, RegisterWorker(c) \/ Dispose(c) PROVE ItemInv'
  BY <1>2, ItemRegister
<1>3. ASSUME NEW n \in Names, BusyOn(n) \/ BusyOff(n) PROVE ItemInv'
  BY <1>3, WaitingKept, ItemStays DEF BusyOn, BusyOff, registerVars
<1>4. CASE UNCHANGED vars
  BY <1>4, WaitingKept, ItemStays DEF vars, registerVars
<1> QED BY <1>1, <1>2, <1>3, <1>4 DEF Next
(***************************************************************************)
(* What a dispatch has been through. Each step is of one dispatch at most. *)
(***************************************************************************)
LEMMA DispatchStep == IInv /\ [Next]_vars => DispatchInv'
<1> SUFFICES ASSUME IInv, [Next]_vars, NEW e \in Work PROVE DispatchOf(e)'
  BY DEF DispatchInv
<1> USE DEF Idle, GoesOn, DispatchOf
<1>0. DispatchOf(e)
  BY DEF IInv, DispatchInv
<1>1. ASSUME NEW w \in Work, Fanout(w) PROVE DispatchOf(e)'
  <2> USE <1>0, CompeteFanoutAssumption DEF IInv, TypeOK
  <2>1. ASSUME NEW c \in Conns, FanoutChoose(w, c) PROVE DispatchOf(e)'
    BY <2>1 DEF FanoutChoose, ChooseSuited
  <2>2. CASE FanoutMark(w)     BY <2>2 DEF FanoutMark, dispatchVars
  <2>3. CASE FanoutNoWorker(w) BY <2>3 DEF FanoutNoWorker, dispatchVars
  <2>4. CASE FanoutStart(w)    BY <2>4 DEF FanoutStart, Start
  <2>5. CASE FanoutPush(w)     BY <2>5 DEF FanoutPush, dispatchVars
  <2> QED BY <1>1, <2>1, <2>2, <2>3, <2>4, <2>5 DEF Fanout
<1>2. ASSUME NEW c \in Conns, RegisterWorker(c) \/ Dispose(c) PROVE DispatchOf(e)'
  <2>1. CASE RegisterStart(c)
    <3>1. popped[c] \in Work /\ popped[c] # None /\ Waiting(popped[c])
      BY <2>1, CompeteFanoutAssumption
      DEF IInv, TypeOK, PoppedInv, PoppedOf, RegisterStart, Registering, Draining
    <3> QED
      BY <1>0, <2>1, <3>1, CompeteFanoutAssumption
      DEF IInv, TypeOK, Waiting, RegisterStart, Registering, Start
  <2>2. ASSUME ~RegisterStart(c) PROVE UNCHANGED <<fanout, dispatchVars>>
    BY <1>2, <2>2 DEF RegisterWorker, Registering, RegisterAdd, RegisterPeek, RegisterPop,
       PopThen, RegisterPopNothing, RegisterMark, RegisterPushBack, LetGo, Dispose
  <2> QED BY <1>0, <2>1, <2>2 DEF dispatchVars
<1>3. ASSUME NEW d \in Work, DoWorkUntilDrained(d) PROVE DispatchOf(e)'
  <2> USE <1>0, CompeteFanoutAssumption DEF IInv, TypeOK
  <2>1. CASE DoWorkCompletes(d) BY <2>1 DEF DoWorkCompletes
  <2>2. CASE CompeteNext(d)
    <3>1. overflow # <<>> /\ Head(overflow) \in Work
      BY <2>2, PopSeq DEF CompeteNext
    <3> QED BY <2>2, <3>1 DEF CompeteNext
  <2>3. CASE CompeteDone(d)     BY <2>3 DEF CompeteDone, Complete, CompeteEnds
  <2>4. CASE DoWorkFailsFirst(d) BY <2>4 DEF DoWorkFailsFirst, Fails
  <2>5. CASE DoWorkFailsAgain(d) BY <2>5 DEF DoWorkFailsAgain, Fails
  <2> QED BY <1>3, <2>1, <2>2, <2>3, <2>4, <2>5 DEF DoWorkUntilDrained
<1>4. ASSUME NEW d \in Work, Finally(d) PROVE DispatchOf(e)'
  BY <1>0, <1>4 DEF IInv, TypeOK, Finally, ClearReserved
<1>5. ASSUME NEW n \in Names, BusyOn(n) \/ BusyOff(n) PROVE DispatchOf(e)'
  BY <1>0, <1>5 DEF BusyOn, BusyOff, dispatchVars
<1>6. CASE UNCHANGED vars
  BY <1>0, <1>6 DEF vars, dispatchVars
<1> QED BY <1>1, <1>2, <1>3, <1>4, <1>5, <1>6 DEF Next

LEMMA InvInit == Init => IInv
BY TypeInit DEF IInv, Init, OverflowInv, PoppedInv, PoppedOf, Draining, DispatchInv,
                DispatchOf, Idle, GoesOn

LEMMA InvStep == IInv /\ [Next]_vars => IInv'
  BY TypeStep, ItemStep, DispatchStep DEF IInv, ItemInv

LEMMA Invariance == Spec => []IInv
  BY InvInit, InvStep, PTL DEF Spec

\* Every variable keeps its type: in particular a dispatch is subscribed twice
\* at most, and has at most two Finally actions to come.
THEOREM TypeCorrect == Spec => []TypeOK
<1>1. IInv => TypeOK
  BY DEF IInv
<1> QED BY <1>1, Invariance, PTL

(***************************************************************************)
(* The reservations.                                                       *)
(***************************************************************************)
ActiveOn(d, c) == conn[d] = c /\ (fanout[d] = "picked" \/ GoesOn(d) \/ finals[d] > 0)
Held(c) == reg[c] = "starting" \/ \E d \in Work : ActiveOn(d, c)

LEMMA LeakStep == IInv /\ NoLeakedReservation /\ [Next]_vars => NoLeakedReservation'
<1> SUFFICES ASSUME IInv, [Next]_vars, NEW c \in Conns, c \in reserved',
                    c \in reserved => Held(c)
             PROVE  Held(c)'
  BY TypeStep DEF TypeOK, NoLeakedReservation, Held, Active, ActiveOn
<1> USE DEF Held, ActiveOn, GoesOn
<1>1. ASSUME NEW w \in Work, Fanout(w) PROVE Held(c)'
  <2> USE CompeteFanoutAssumption DEF IInv, TypeOK, DispatchInv, DispatchOf, Idle,
                                      registerVars, dispatchVars
  <2>1. ASSUME NEW b \in Conns, FanoutChoose(w, b) PROVE Held(c)'
    BY <2>1 DEF FanoutChoose, ChooseSuited
  <2>2. CASE FanoutMark(w)     BY <2>2 DEF FanoutMark
  <2>3. CASE FanoutNoWorker(w) BY <2>3 DEF FanoutNoWorker
  <2>4. CASE FanoutStart(w)    BY <2>4 DEF FanoutStart, Start
  <2>5. CASE FanoutPush(w)     BY <2>5 DEF FanoutPush
  <2> QED BY <1>1, <2>1, <2>2, <2>3, <2>4, <2>5 DEF Fanout
<1>2. ASSUME NEW b \in Conns, RegisterWorker(b) \/ Dispose(b) PROVE Held(c)'
  <2>1. CASE RegisterMark(b)
    BY <2>1 DEF RegisterMark, Registering, IInv, TypeOK, dispatchVars
  <2>2. CASE RegisterStart(b)
    <3>1. PICK w \in Work : w = popped[b] /\ w # None /\ Waiting(w)
      BY <2>2, CompeteFanoutAssumption
      DEF IInv, TypeOK, PoppedInv, PoppedOf, RegisterStart, Registering, Draining
    <3>2. c # b => reg'[c] = reg[c]
      BY <2>2 DEF RegisterStart, Registering, IInv, TypeOK
    <3>3. \A d \in Work : ActiveOn(d, c) => ActiveOn(d, c)'
      BY <2>2, <3>1 DEF RegisterStart, Start, Registering, IInv, TypeOK, Waiting, Idle
    <3>4. ActiveOn(w, b)'
      BY <2>2, <3>1 DEF RegisterStart, Start, Registering, IInv, TypeOK
    <3>5. reserved' = reserved
      BY <2>2 DEF RegisterStart, Start
    <3> QED BY <3>1, <3>2, <3>3, <3>4, <3>5
  <2>3. ASSUME ~RegisterMark(b), ~RegisterStart(b)
        PROVE  /\ UNCHANGED <<fanout, reserved, dispatchVars>>
               /\ reg[c] = "starting" => reg'[c] = "starting"
    BY <1>2, <2>3 DEF RegisterWorker, Registering, RegisterAdd, RegisterPeek, RegisterPop,
       PopThen, RegisterPopNothing, RegisterPushBack, LetGo, Dispose, IInv, TypeOK
  <2> QED BY <2>1, <2>2, <2>3 DEF dispatchVars
<1>3. ASSUME NEW d \in Work, DoWorkUntilDrained(d) PROVE Held(c)'
  <2> USE CompeteFanoutAssumption DEF IInv, TypeOK, registerVars
  <2>1. CASE DoWorkCompletes(d) BY <2>1 DEF DoWorkCompletes
  <2>2. CASE CompeteNext(d)
    <3>1. overflow # <<>> /\ Head(overflow) \in Work
      BY <2>2, PopSeq DEF CompeteNext
    <3> QED BY <2>2, <3>1 DEF CompeteNext
  <2>3. CASE CompeteDone(d)      BY <2>3 DEF CompeteDone, Complete, CompeteEnds
  <2>4. CASE DoWorkFailsFirst(d) BY <2>4 DEF DoWorkFailsFirst, Fails
  <2>5. CASE DoWorkFailsAgain(d) BY <2>5 DEF DoWorkFailsAgain, Fails
  <2> QED BY <1>3, <2>1, <2>2, <2>3, <2>4, <2>5 DEF DoWorkUntilDrained
<1>4. ASSUME NEW d \in Work, Finally(d) PROVE Held(c)'
  BY <1>4 DEF IInv, TypeOK, Finally, ClearReserved, registerVars
<1>5. CASE (\E n \in Names : BusyOn(n) \/ BusyOff(n)) \/ UNCHANGED vars
  BY <1>5 DEF BusyOn, BusyOff, vars, registerVars, dispatchVars
<1> QED BY <1>1, <1>2, <1>3, <1>4, <1>5 DEF Next

\* A reserved connection has a dispatch that is still to clear the flag, or is
\* about to: no worker drops out of Fanout for good.
THEOREM NoReservationLeaks == Spec => []NoLeakedReservation
<1>1. Init => NoLeakedReservation
  BY DEF Init, NoLeakedReservation
<1> QED BY <1>1, Invariance, LeakStep, PTL DEF Spec

LEMMA MatchStep == IInv /\ FirstItemMatches /\ [Next]_vars => FirstItemMatches'
<1> SUFFICES ASSUME IInv, FirstItemMatches, [Next]_vars,
                    NEW d \in Work, conn'[d] # None, conn'[d] # conn[d]
             PROVE  NameOf[conn'[d]] \in Eligible[d]
  BY DEF FirstItemMatches
<1> USE DEF IInv, TypeOK
<1>1. ASSUME NEW w \in Work, Fanout(w) PROVE NameOf[conn'[d]] \in Eligible[d]
  BY <1>1, CompeteFanoutAssumption
  DEF Fanout, FanoutChoose, ChooseSuited, Suits, FanoutMark, FanoutNoWorker, FanoutStart,
      Start, FanoutPush, dispatchVars
<1>2. ASSUME NEW c \in Conns, RegisterWorker(c) \/ Dispose(c)
      PROVE  NameOf[conn'[d]] \in Eligible[d]
  <2>1. RegisterStart(c)
    BY <1>2 DEF RegisterWorker, RegisterAdd, RegisterPeek, RegisterPop, PopThen,
       RegisterPopNothing, RegisterMark, RegisterPushBack, LetGo, Dispose, dispatchVars
  <2>2. NameOf[c] \in Eligible[popped[c]]
    BY <2>1 DEF PoppedInv, PoppedOf, RegisterStart, Registering
  <2> QED BY <2>1, <2>2 DEF RegisterStart
<1>3. ~(\E w \in Work : DoWorkUntilDrained(w) \/ Finally(w))
  BY DEF DoWorkUntilDrained, DoWorkCompletes, CompeteNext, CompeteDone, Complete, CompeteEnds,
         DoWorkFailsFirst, DoWorkFailsAgain, Fails, Finally, ClearReserved
<1>4. ~(\E n \in Names : BusyOn(n) \/ BusyOff(n)) /\ ~(UNCHANGED vars)
  BY DEF BusyOn, BusyOff, vars, dispatchVars
<1> QED BY <1>1, <1>2, <1>3, <1>4 DEF Next

\* A dispatch starts with an item whose tags its worker matches, whatever is
\* pushed or popped between TryPeek and TryPop.
THEOREM FirstItemAlwaysMatches == Spec => []FirstItemMatches
<1>1. Init => FirstItemMatches
  BY DEF Init, FirstItemMatches
<1> QED BY <1>1, Invariance, MatchStep, PTL DEF Spec

(***************************************************************************)
(* The reservations of connections that Fanout alone gives work to. The    *)
(* lock lets one call mark at a time, and what it is about to mark is not  *)
(* reserved.                                                               *)
(***************************************************************************)
MarkInv ==
  \A w \in Work : fanout[w] = "marking" =>
    /\ Untroubled(conn[w]) => conn[w] \notin reserved
    /\ \A x \in Work : fanout[x] = "marking" => x = w

Alone(c) ==
  /\ \A d \in Work : ActiveOn(d, c) => c \in reserved
  /\ \A d, e \in Work : ActiveOn(d, c) /\ ActiveOn(e, c) => d = e

AloneInv == \A c \in Conns : Untroubled(c) => Alone(c)

LEMMA AloneMeans == AloneInv <=> ReservedWhileActive
  BY DEF AloneInv, Alone, ReservedWhileActive, Active, ActiveOn

\* What a step never undoes.
LEMMA TroubleLasts ==
  ASSUME IInv, [Next]_vars, NEW c \in Conns, Untroubled(c)'
  PROVE  Untroubled(c)
<1> USE DEF IInv, TypeOK
<1>1. \A d \in Work : conn[d] = c => conn'[d] = c
  <2>1. ASSUME NEW w \in Work, Fanout(w) PROVE \A d \in Work : conn[d] = c => conn'[d] = c
    BY <2>1, CompeteFanoutAssumption
    DEF Fanout, FanoutChoose, ChooseSuited, FanoutMark, FanoutNoWorker, FanoutStart, Start,
        FanoutPush, dispatchVars, DispatchInv, DispatchOf
  <2>2. ASSUME NEW b \in Conns, RegisterWorker(b) \/ Dispose(b)
        PROVE  \A d \in Work : conn[d] = c => conn'[d] = c
    <3>1. RegisterStart(b) => Waiting(popped[b])
      BY CompeteFanoutAssumption
      DEF RegisterStart, Registering, PoppedInv, PoppedOf, Draining
    <3> QED
      BY <2>2, <3>1, CompeteFanoutAssumption
      DEF RegisterWorker, RegisterAdd, RegisterPeek, RegisterPop, PopThen, RegisterPopNothing,
          RegisterMark, RegisterStart, RegisterPushBack, LetGo, Dispose, dispatchVars, Waiting
  <2>3. ASSUME NEW d \in Work, DoWorkUntilDrained(d) \/ Finally(d) PROVE conn' = conn
    BY <2>3 DEF DoWorkUntilDrained, DoWorkCompletes, CompeteNext, CompeteDone, Complete,
       CompeteEnds, DoWorkFailsFirst, DoWorkFailsAgain, Fails, Finally, ClearReserved
  <2>4. CASE (\E n \in Names : BusyOn(n) \/ BusyOff(n)) \/ UNCHANGED vars
    BY <2>4 DEF BusyOn, BusyOff, vars, dispatchVars
  <2> QED BY <2>1, <2>2, <2>3, <2>4 DEF Next
<1>2. \A d \in Work : errors[d] # 0 => errors'[d] # 0
  BY DEF Next, Fanout, FanoutChoose, ChooseSuited, FanoutMark, FanoutNoWorker, FanoutStart,
     Start, FanoutPush, RegisterWorker, RegisterAdd, RegisterPeek, RegisterPop, PopThen,
     RegisterPopNothing, RegisterMark, RegisterStart, RegisterPushBack, LetGo, Dispose,
     DoWorkUntilDrained, DoWorkCompletes, CompeteNext, CompeteDone, Complete, CompeteEnds,
     DoWorkFailsFirst, DoWorkFailsAgain, Fails, Finally, ClearReserved, BusyOn, BusyOff,
     vars, dispatchVars
<1>3. \A d \in Work : fanout[d] = "pushed" => fanout'[d] = "pushed"
  BY DEF Next, Fanout, FanoutChoose, ChooseSuited, FanoutMark, FanoutNoWorker, FanoutStart,
     FanoutPush, RegisterWorker, Registering, RegisterAdd, RegisterPeek, RegisterPop, PopThen,
     RegisterPopNothing, RegisterMark, RegisterStart, RegisterPushBack, LetGo, Dispose,
     DoWorkUntilDrained, DoWorkCompletes, CompeteNext, CompeteDone, CompeteEnds, Complete,
     DoWorkFailsFirst, DoWorkFailsAgain, Fails, Finally, ClearReserved, BusyOn, BusyOff, vars
<1>4. reg[c] \in {"marking", "starting"} =>
        \/ reg'[c] \in {"marking", "starting"}
        \/ \E d \in Work : conn'[d] = c /\ fanout'[d] = "pushed"
  <2> SUFFICES ASSUME reg[c] \in {"marking", "starting"}, reg'[c] # reg[c]
               PROVE  \/ reg'[c] \in {"marking", "starting"}
                      \/ \E d \in Work : conn'[d] = c /\ fanout'[d] = "pushed"
    OBVIOUS
  <2>1. RegisterMark(c) \/ RegisterStart(c)
    BY DEF Next, Fanout, FanoutChoose, ChooseSuited, FanoutMark, FanoutNoWorker, FanoutStart,
       FanoutPush, RegisterWorker, Registering, RegisterAdd, RegisterPeek, RegisterPop,
       PopThen, RegisterPopNothing, RegisterMark, RegisterStart, RegisterPushBack, LetGo,
       Dispose, DoWorkUntilDrained, DoWorkCompletes, CompeteNext, CompeteDone, CompeteEnds,
       Complete, DoWorkFailsFirst, DoWorkFailsAgain, Fails, Finally, ClearReserved, BusyOn,
       BusyOff, vars, registerVars
  <2>2. CASE RegisterMark(c) BY <2>2 DEF RegisterMark, Registering
  <2>3. CASE RegisterStart(c)
    <3>1. popped[c] \in Work /\ Waiting(popped[c])
      BY <2>3, CompeteFanoutAssumption
      DEF RegisterStart, Registering, PoppedInv, PoppedOf, Draining
    <3> QED BY <2>3, <3>1 DEF RegisterStart, Registering, Waiting
  <2> QED BY <2>1, <2>2, <2>3
<1> QED BY <1>1, <1>2, <1>3, <1>4 DEF Untroubled

LEMMA MarkStep == IInv /\ MarkInv /\ [Next]_vars => MarkInv'
<1> SUFFICES ASSUME IInv, MarkInv, [Next]_vars, NEW w \in Work, fanout'[w] = "marking"
             PROVE  /\ Untroubled(conn[w])' => conn'[w] \notin reserved'
                    /\ \A x \in Work : fanout'[x] = "marking" => x = w
  BY DEF MarkInv
<1> USE DEF IInv, TypeOK
<1>1. CASE \E c \in Conns : FanoutChoose(w, c)
  BY <1>1 DEF FanoutChoose, ChooseSuited, LockFree
<1>2. CASE fanout[w] = "marking"
  <2>1. \A x \in Work : fanout'[x] = "marking" => fanout[x] = "marking"
    BY <1>2 DEF Next, Fanout, FanoutChoose, ChooseSuited, LockFree, FanoutMark, FanoutNoWorker,
       FanoutStart, FanoutPush, RegisterWorker, Registering, RegisterAdd, RegisterPeek,
       RegisterPop, PopThen, RegisterPopNothing, RegisterMark, RegisterStart, RegisterPushBack,
       LetGo, Dispose, DoWorkUntilDrained, DoWorkCompletes, CompeteNext, CompeteDone,
       CompeteEnds, Complete, DoWorkFailsFirst, DoWorkFailsAgain, Fails, Finally,
       ClearReserved, BusyOn, BusyOff, vars
  <2>2. conn[w] \in Conns /\ conn'[w] = conn[w]
    <3>1. conn[w] \in Conns
      BY <1>2 DEF DispatchInv, DispatchOf
    <3>2. ASSUME NEW x \in Work, Fanout(x) PROVE conn'[w] = conn[w]
      BY <1>2, <3>2 DEF Fanout, FanoutChoose, ChooseSuited, FanoutMark, FanoutNoWorker,
         FanoutStart, Start, FanoutPush, dispatchVars
    <3>3. ASSUME NEW b \in Conns, RegisterWorker(b) \/ Dispose(b) PROVE conn'[w] = conn[w]
      <4>1. RegisterStart(b) => Waiting(popped[b])
        BY CompeteFanoutAssumption
        DEF RegisterStart, Registering, PoppedInv, PoppedOf, Draining
      <4> QED
        BY <1>2, <3>3, <4>1 DEF RegisterWorker, RegisterAdd, RegisterPeek, RegisterPop,
           PopThen, RegisterPopNothing, RegisterMark, RegisterStart, RegisterPushBack, LetGo,
           Dispose, dispatchVars, Waiting
    <3>4. ASSUME NEW d \in Work, DoWorkUntilDrained(d) \/ Finally(d) PROVE conn'[w] = conn[w]
      BY <3>4 DEF DoWorkUntilDrained, DoWorkCompletes, CompeteNext, CompeteDone, Complete,
         CompeteEnds, DoWorkFailsFirst, DoWorkFailsAgain, Fails, Finally, ClearReserved
    <3>5. ASSUME (\E n \in Names : BusyOn(n) \/ BusyOff(n)) \/ UNCHANGED vars
          PROVE  conn'[w] = conn[w]
      BY <3>5 DEF BusyOn, BusyOff, vars, dispatchVars
    <3> QED BY <3>1, <3>2, <3>3, <3>4, <3>5 DEF Next
  <2>3. ASSUME Untroubled(conn[w])' PROVE conn'[w] \notin reserved'
    <3>1. Untroubled(conn[w])
      <4>1. PICK c \in Conns : c = conn[w] /\ c = conn'[w]
        BY <2>2
      <4>2. Untroubled(c)'
        BY <2>3, <4>1 DEF Untroubled
      <4> QED BY <4>1, <4>2, TroubleLasts
    <3>2. conn[w] \notin reserved
      BY <1>2, <3>1 DEF MarkInv
    <3>3. ASSUME NEW x \in Work, FanoutMark(x) PROVE FALSE
      BY <1>2, <3>3 DEF FanoutMark, MarkInv
    <3>4. ASSUME NEW b \in Conns, RegisterMark(b) PROVE b # conn[w]
      BY <2>2, <2>3, <3>4 DEF RegisterMark, Registering, Untroubled
    <3>5. \A c \in reserved' \ reserved : c # conn[w]
      BY <3>3, <3>4 DEF Next, Fanout, FanoutChoose, ChooseSuited, FanoutNoWorker, FanoutStart,
         Start, FanoutPush, RegisterWorker, RegisterAdd, RegisterPeek, RegisterPop, PopThen,
         RegisterPopNothing, RegisterMark, RegisterStart, RegisterPushBack, LetGo, Dispose,
         DoWorkUntilDrained, DoWorkCompletes, CompeteNext, CompeteDone, CompeteEnds, Complete,
         DoWorkFailsFirst, DoWorkFailsAgain, Fails, Finally, ClearReserved, BusyOn, BusyOff,
         vars, dispatchVars
    <3> QED BY <2>2, <3>2, <3>5
  <2> QED BY <1>2, <2>1, <2>3 DEF MarkInv
<1>3. (\E c \in Conns : FanoutChoose(w, c)) \/ fanout[w] = "marking"
  BY DEF Next, Fanout, FanoutChoose, ChooseSuited, FanoutMark, FanoutNoWorker, FanoutStart,
     FanoutPush, RegisterWorker, Registering, RegisterAdd, RegisterPeek, RegisterPop, PopThen,
     RegisterPopNothing, RegisterMark, RegisterStart, RegisterPushBack, LetGo, Dispose,
     DoWorkUntilDrained, DoWorkCompletes, CompeteNext, CompeteDone, CompeteEnds, Complete,
     DoWorkFailsFirst, DoWorkFailsAgain, Fails, Finally, ClearReserved, BusyOn, BusyOff, vars
<1> QED BY <1>1, <1>2, <1>3

LEMMA AloneStep == IInv /\ MarkInv /\ AloneInv /\ [Next]_vars => AloneInv'
<1> SUFFICES ASSUME IInv, MarkInv, [Next]_vars, NEW c \in Conns,
                    Untroubled(c)', Untroubled(c), Alone(c)
             PROVE  Alone(c)'
  BY TroubleLasts DEF AloneInv
<1>0. ASSUME \A d \in Work : ActiveOn(d, c)' => ActiveOn(d, c),
             c \in reserved => c \in reserved'
      PROVE  Alone(c)'
  BY <1>0 DEF Alone
<1> USE CompeteFanoutAssumption DEF IInv, TypeOK, ActiveOn, GoesOn, registerVars, dispatchVars
<1>1. ASSUME NEW w \in Work, Fanout(w) PROVE Alone(c)'
  <2>0. \A d \in Work : DispatchOf(d)
    BY DEF DispatchInv
  <2>1. ASSUME NEW b \in Conns, FanoutChoose(w, b) PROVE Alone(c)'
    BY <1>0, <2>0, <2>1 DEF FanoutChoose, ChooseSuited, DispatchOf, Idle
  <2>2. CASE FanoutMark(w)
    <3>1. CASE conn[w] = c
      <4>1. c \notin reserved /\ c \in reserved'
        BY <2>2, <3>1 DEF FanoutMark, MarkInv
      <4>2. \A d \in Work : ~ActiveOn(d, c)
        BY <4>1 DEF Alone
      <4>3. \A d \in Work \ {w} : ~ActiveOn(d, c)'
        BY <2>2, <4>2 DEF FanoutMark
      <4> QED BY <4>1, <4>3 DEF Alone
    <3>2. CASE conn[w] # c
      BY <1>0, <2>2, <3>2 DEF FanoutMark
    <3> QED BY <3>1, <3>2
  <2>3. CASE FanoutNoWorker(w) BY <1>0, <2>3 DEF FanoutNoWorker
  <2>4. CASE FanoutStart(w)    BY <1>0, <2>4 DEF FanoutStart, Start
  <2>5. CASE FanoutPush(w)     BY <1>0, <2>5 DEF FanoutPush
  <2> QED BY <1>1, <2>1, <2>2, <2>3, <2>4, <2>5 DEF Fanout
<1>2. ASSUME NEW b \in Conns, RegisterWorker(b) \/ Dispose(b) PROVE Alone(c)'
  <2>1. CASE RegisterMark(b) BY <1>0, <2>1 DEF RegisterMark, Registering
  <2>2. CASE RegisterStart(b)
    <3>1. b # c
      BY <2>2 DEF RegisterStart, Registering, Untroubled
    <3> QED BY <1>0, <2>2, <3>1 DEF RegisterStart, Start, Registering
  <2>3. ASSUME ~RegisterMark(b), ~RegisterStart(b)
        PROVE  UNCHANGED <<fanout, reserved, dispatchVars>>
    BY <1>2, <2>3 DEF RegisterWorker, Registering, RegisterAdd, RegisterPeek, RegisterPop,
       PopThen, RegisterPopNothing, RegisterPushBack, LetGo, Dispose
  <2> QED BY <1>0, <2>1, <2>2, <2>3
<1>3. ASSUME NEW d \in Work, DoWorkUntilDrained(d) PROVE Alone(c)'
  <2>1. CASE DoWorkCompletes(d) BY <1>0, <2>1 DEF DoWorkCompletes
  <2>2. CASE CompeteNext(d)     BY <1>0, <2>2 DEF CompeteNext
  <2>3. CASE CompeteDone(d)     BY <1>0, <2>3 DEF CompeteDone, Complete, CompeteEnds
  <2>4. ASSUME NEW next, Fails(d, next) PROVE Alone(c)'
    <3>1. conn[d] # c
      BY <2>4 DEF Fails, Untroubled
    <3> QED BY <1>0, <2>4, <3>1 DEF Fails
  <2> QED
    BY <1>3, <2>1, <2>2, <2>3, <2>4 DEF DoWorkUntilDrained, DoWorkFailsFirst, DoWorkFailsAgain
<1>4. ASSUME NEW d \in Work, Finally(d) PROVE Alone(c)'
  <2>1. CASE conn[d] = c
    <3>1. DispatchOf(d) /\ errors[d] = 0 /\ finals[d] > 0
      BY <1>4, <2>1 DEF DispatchInv, Untroubled, Finally
    <3>2. finals[d] = 1 /\ ~GoesOn(d) /\ fanout[d] # "picked"
      BY <3>1 DEF DispatchOf, Idle
    <3>3. ~ActiveOn(d, c)'
      BY <1>4, <3>2 DEF Finally, ClearReserved
    <3>4. \A e \in Work \ {d} : ~ActiveOn(e, c)
      BY <2>1, <3>1 DEF Alone
    <3>5. \A e \in Work \ {d} : ~ActiveOn(e, c)'
      BY <1>4, <3>4 DEF Finally, ClearReserved
    <3> QED BY <3>3, <3>5 DEF Alone
  <2>2. CASE conn[d] # c
    BY <1>0, <1>4, <2>2 DEF Finally, ClearReserved
  <2> QED BY <2>1, <2>2
<1>5. CASE (\E n \in Names : BusyOn(n) \/ BusyOff(n)) \/ UNCHANGED vars
  BY <1>0, <1>5 DEF BusyOn, BusyOff, vars
<1> QED BY <1>1, <1>2, <1>3, <1>4, <1>5 DEF Next

\* A connection that only Fanout has given work to, and on which no DoWork has
\* failed, has one dispatch at most and is reserved as long as it has one.
THEOREM FanoutNeverDoublePicks == Spec => []ReservedWhileActive
<1>1. Init => MarkInv /\ AloneInv
  BY InvInit DEF Init, MarkInv, AloneInv, Alone, ActiveOn, GoesOn
<1> QED BY <1>1, Invariance, MarkStep, AloneStep, AloneMeans, PTL DEF Spec

(***************************************************************************)
(* Where an item is. A dispatch d runs its own item d, or one that was     *)
(* popped off Overflow, is nowhere else, and has not ended. What has not   *)
(* ended is somewhere; and a dispatch that is past its first item has      *)
(* ended that one.                                                         *)
(***************************************************************************)
Gone(w) ==
  /\ Waiting(w) /\ outcome[w] = "none" /\ w \notin Elements(overflow)
  /\ \A c \in Conns : popped[c] # w

RunningOf(d) ==
  /\ running[d] # None /\ running[d] # d => Gone(running[d])
  /\ \A e \in Work : running[e] # None /\ running[e] = running[d] => e = d
  /\ GoesOn(d) /\ running[d] # d => outcome[d] # "none"

OutcomeOf(w) ==
  /\ fanout[w] = "new" \/ Waits(w) \/ Started(w) => outcome[w] = "none"
  /\ fanout[w] = "new" \/ Waits(w) \/ Started(w) \/ Running(w) \/ outcome[w] # "none"

PlaceInv ==
  /\ IInv
  /\ \A d \in Work : RunningOf(d)
  /\ \A w \in Work : OutcomeOf(w)

LEMMA ElementsPopped ==
  ASSUME IInv, overflow # <<>>, overflow' = Tail(overflow)
  PROVE  /\ Head(overflow) \in Elements(overflow)
         /\ Elements(overflow)' = Elements(overflow) \ {Head(overflow)}
<1>1. /\ overflow \in Seq(Work) /\ Len(overflow) \in Nat
      /\ DOMAIN overflow = 1 .. Len(overflow)
      /\ overflow' \in Seq(Work) /\ DOMAIN overflow' = 1 .. Len(overflow')
  BY PopSeq DEF IInv, TypeOK
<1>2. /\ Head(overflow) = overflow[1] /\ 1 \in 1 .. Len(overflow)
      /\ Len(overflow') = Len(overflow) - 1
      /\ \A i \in 1 .. Len(overflow') :
            i + 1 \in 1 .. Len(overflow) /\ overflow'[i] = overflow[i + 1]
  BY <1>1, PopSeq
<1>3. \A i \in 1 .. Len(overflow) : overflow[i] = Head(overflow) => i = 1
  BY <1>2 DEF IInv, OverflowInv
<1>4. ASSUME NEW x \in Elements(overflow)'
      PROVE  x \in Elements(overflow) /\ x # Head(overflow)
  <2>1. PICK i \in 1 .. Len(overflow') : x = overflow'[i]
    BY <1>1 DEF Elements
  <2> QED BY <1>1, <1>2, <1>3, <2>1 DEF Elements
<1>5. ASSUME NEW x \in Elements(overflow), x # Head(overflow)
      PROVE  x \in Elements(overflow)'
  <2>1. PICK i \in 1 .. Len(overflow) : x = overflow[i]
    BY <1>1 DEF Elements
  <2>2. i - 1 \in 1 .. Len(overflow') /\ i = (i - 1) + 1
    BY <1>1, <1>2, <1>5, <2>1
  <2>3. x = overflow'[i - 1]
    BY <1>2, <2>1, <2>2
  <2> QED BY <1>1, <2>2, <2>3 DEF Elements
<1>6. Head(overflow) \in Elements(overflow)
  BY <1>1, <1>2 DEF Elements
<1> QED BY <1>4, <1>5, <1>6

LEMMA ElementsPushed ==
  ASSUME IInv, NEW w \in Work, Push(w)
  PROVE  Elements(overflow)' = Elements(overflow) \cup {w}
<1>1. /\ overflow \in Seq(Work) /\ Len(overflow) \in Nat
      /\ DOMAIN overflow = 1 .. Len(overflow)
      /\ overflow' \in Seq(Work) /\ DOMAIN overflow' = 1 .. Len(overflow')
  BY PushSeq DEF IInv, TypeOK, Push
<1>2. /\ Len(overflow') = Len(overflow) + 1
      /\ overflow'[1] = w
      /\ \A i \in 2 .. Len(overflow) + 1 :
            i - 1 \in 1 .. Len(overflow) /\ overflow'[i] = overflow[i - 1]
  BY <1>1, PushSeq DEF Push
<1>3. ASSUME NEW x \in Elements(overflow)' PROVE x = w \/ x \in Elements(overflow)
  <2>1. PICK i \in 1 .. Len(overflow') : x = overflow'[i]
    BY <1>1 DEF Elements
  <2>2. i = 1 \/ i \in 2 .. Len(overflow) + 1
    BY <1>1, <1>2
  <2> QED BY <1>1, <1>2, <2>1, <2>2 DEF Elements
<1>4. ASSUME NEW x \in Elements(overflow) PROVE x \in Elements(overflow)'
  <2>1. PICK i \in 1 .. Len(overflow) : x = overflow[i]
    BY <1>1 DEF Elements
  <2>2. i + 1 \in 2 .. Len(overflow) + 1 /\ (i + 1) - 1 = i
    BY <1>1
  <2>3. x = overflow'[i + 1] /\ i + 1 \in 1 .. Len(overflow')
    BY <1>1, <1>2, <2>1, <2>2
  <2> QED BY <1>1, <2>3 DEF Elements
<1>5. w \in Elements(overflow)'
  <2>1. 1 \in 1 .. Len(overflow')
    BY <1>1, <1>2
  <2> QED BY <1>1, <1>2, <2>1 DEF Elements
<1> QED BY <1>3, <1>4, <1>5

\* The parts of IInv, with Overflow as a set.
ItemFacts ==
  /\ \A x \in Elements(overflow) :
        x \in Work /\ Waiting(x) /\ \A c \in Conns : popped[c] # x
  /\ \A c \in Conns :
        /\ popped[c] \in Work \cup {None}
        /\ reg[c] \in Draining <=> popped[c] # None
        /\ popped[c] # None => Waiting(popped[c]) /\ popped[c] \notin Elements(overflow)
        /\ \A e \in Conns : popped[c] # None /\ popped[e] = popped[c] => e = c
  /\ \A d \in Work : DispatchOf(d)
  /\ None \notin Work \cup Conns

LEMMA ItemsAre == IInv => ItemFacts
<1> SUFFICES ASSUME IInv PROVE ItemFacts
  OBVIOUS
<1>1. DOMAIN overflow = 1 .. Len(overflow) /\ \A i \in 1 .. Len(overflow) : overflow[i] \in Work
  BY DEF IInv, TypeOK
<1>2. \A x \in Elements(overflow) :
        x \in Work /\ Waiting(x) /\ \A c \in Conns : popped[c] # x
  <2> SUFFICES ASSUME NEW x \in Elements(overflow)
               PROVE  x \in Work /\ Waiting(x) /\ \A c \in Conns : popped[c] # x
    OBVIOUS
  <2>1. PICK i \in 1 .. Len(overflow) : x = overflow[i]
    BY <1>1 DEF Elements
  <2> QED
    BY <1>1, <2>1, CompeteFanoutAssumption DEF IInv, OverflowInv, PoppedInv, PoppedOf
<1>3. \A c \in Conns :
        /\ popped[c] \in Work \cup {None}
        /\ reg[c] \in Draining <=> popped[c] # None
        /\ popped[c] # None => Waiting(popped[c]) /\ popped[c] \notin Elements(overflow)
        /\ \A e \in Conns : popped[c] # None /\ popped[e] = popped[c] => e = c
  BY <1>1 DEF IInv, TypeOK, PoppedInv, PoppedOf, Elements
<1> QED BY <1>2, <1>3, CompeteFanoutAssumption DEF ItemFacts, IInv, DispatchInv

PlaceParts ==
  (\A d \in Work : RunningOf(d)) /\ (\A w \in Work : OutcomeOf(w))

LEMMA PlaceFanout ==
  ASSUME PlaceInv, NEW w \in Work, Fanout(w)
  PROVE  PlaceParts'
<1>0. ItemFacts /\ TypeOK
  BY ItemsAre DEF PlaceInv, IInv
<1> USE <1>0 DEF PlaceParts, PlaceInv, TypeOK, ItemFacts, RunningOf, OutcomeOf, Gone, Waiting,
                 Idle, DispatchOf, GoesOn, Waits, Started, Running, registerVars, dispatchVars
<1>1. ASSUME NEW c \in Conns, FanoutChoose(w, c) PROVE PlaceParts'
  BY <1>1 DEF FanoutChoose, ChooseSuited
<1>2. CASE FanoutMark(w)     BY <1>2 DEF FanoutMark
<1>3. CASE FanoutNoWorker(w) BY <1>3 DEF FanoutNoWorker
<1>4. CASE FanoutStart(w)    BY <1>4 DEF FanoutStart, Start
<1>5. CASE FanoutPush(w)
  <2>1. Elements(overflow)' = Elements(overflow) \cup {w}
    BY <1>5, ElementsPushed DEF FanoutPush
  <2> QED BY <1>5, <2>1 DEF FanoutPush
<1> QED BY <1>1, <1>2, <1>3, <1>4, <1>5 DEF Fanout

LEMMA PlaceRegister ==
  ASSUME PlaceInv, NEW c \in Conns, RegisterWorker(c) \/ Dispose(c)
  PROVE  PlaceParts'
<1>0. ItemFacts /\ TypeOK
  BY ItemsAre DEF PlaceInv, IInv
<1> USE <1>0 DEF PlaceParts, PlaceInv, TypeOK, ItemFacts, RunningOf, OutcomeOf, Gone, Waiting,
                 Idle, DispatchOf, GoesOn, Waits, Started, Running, Registering, Draining,
                 registerVars, dispatchVars
<1>1. CASE RegisterAdd(c)        BY <1>1 DEF RegisterAdd
<1>2. CASE RegisterPeek(c)       BY <1>2 DEF RegisterPeek
<1>3. CASE RegisterPop(c)
  <2>1. overflow # <<>> /\ overflow' = Tail(overflow)
    BY <1>3 DEF RegisterPop, PopThen
  <2>2. PICK w \in Work : /\ w = Head(overflow) /\ w \in Elements(overflow)
                          /\ Elements(overflow)' = Elements(overflow) \ {w}
    BY <2>1, ElementsPopped
  <2> QED BY <1>3, <2>2 DEF RegisterPop, PopThen
<1>4. CASE RegisterPopNothing(c) BY <1>4 DEF RegisterPopNothing
<1>5. CASE RegisterMark(c)       BY <1>5 DEF RegisterMark
<1>6. CASE RegisterStart(c)
  <2>1. PICK w \in Work : w = popped[c] /\ w # None
    BY <1>6 DEF RegisterStart
  <2>2. /\ running' = [running EXCEPT ![w] = w] /\ popped' = [popped EXCEPT ![c] = None]
        /\ reg' = [reg EXCEPT ![c] = "registered"] /\ conn' = [conn EXCEPT ![w] = c]
        /\ UNCHANGED <<fanout, overflow, competing, errors, finals, outcome>>
    BY <1>6, <2>1 DEF RegisterStart, Start
  <2>3. /\ Waiting(w) /\ outcome[w] = "none" /\ w \notin Elements(overflow)
        /\ \A e \in Conns \ {c} : popped[e] # w
        /\ \A e \in Work : running[e] # w
    <3>1. reg[c] = "starting"
      BY <1>6 DEF RegisterStart
    <3>2. Waiting(w) /\ w \notin Elements(overflow) /\ \A e \in Conns \ {c} : popped[e] # w
      BY <2>1
    <3>3. Started(w)
      BY <2>1, <3>1
    <3>4. outcome[w] = "none"
      BY <3>3 DEF OutcomeOf
    <3>5. ASSUME NEW e \in Work, running[e] = w PROVE FALSE
      <4>1. e # w
        BY <3>2, <3>5
      <4> QED BY <2>1, <3>5, <4>1
    <3> QED BY <3>2, <3>4, <3>5
  <2>4. ASSUME NEW e \in Work PROVE RunningOf(e)'
    BY <2>2, <2>3
  <2>5. ASSUME NEW v \in Work PROVE OutcomeOf(v)'
    <3>1. CASE v = w
      BY <2>2, <2>3, <3>1
    <3>2. CASE v # w
      <4>1. Started(v)' <=> Started(v)
        BY <2>1, <2>2, <3>2
      <4>2. Waits(v)' <=> Waits(v)
        BY <2>1, <2>2, <3>2
      <4>3. Running(v)' <=> Running(v)
        BY <2>2, <2>3, <3>2
      <4>4. OutcomeOf(v)
        OBVIOUS
      <4> QED BY <2>2, <4>1, <4>2, <4>3, <4>4 DEF OutcomeOf
    <3> QED BY <3>1, <3>2
  <2> QED BY <2>4, <2>5
<1>7. CASE RegisterPushBack(c)
  <2>1. PICK w \in Work : w = popped[c]
    BY <1>7 DEF RegisterPushBack, LetGo
  <2>2. Elements(overflow)' = Elements(overflow) \cup {w}
    BY <1>7, <2>1, ElementsPushed DEF RegisterPushBack
  <2> QED BY <1>7, <2>1, <2>2 DEF RegisterPushBack, LetGo
<1>8. CASE Dispose(c)            BY <1>8 DEF Dispose
<1> QED
  BY <1>1, <1>2, <1>3, <1>4, <1>5, <1>6, <1>7, <1>8 DEF RegisterWorker

LEMMA PlaceWork ==
  ASSUME PlaceInv, NEW d \in Work, DoWorkUntilDrained(d) \/ Finally(d)
  PROVE  PlaceParts'
<1>0. ItemFacts /\ TypeOK
  BY ItemsAre DEF PlaceInv, IInv
<1> USE <1>0 DEF PlaceParts, PlaceInv, TypeOK, ItemFacts, RunningOf, OutcomeOf, Gone, Waiting,
                 Idle, DispatchOf, GoesOn, Waits, Started, Running, registerVars, dispatchVars
\* The item that d runs ends, for the first time or again, and d has none.
<1>e. ASSUME NEW result \in {"completed", "failed"}, Ended(running[d], result),
             running[d] # None, running' = [running EXCEPT ![d] = None],
             \A e \in Work \ {d} : /\ e \in competing' <=> e \in competing
                                  /\ errors'[e] = errors[e] /\ finals'[e] = finals[e],
             UNCHANGED <<fanout, overflow, reg, popped, conn>>
      PROVE  PlaceParts'
  <2>1. PICK w \in Work : w = running[d]
    BY <1>e
  <2>2. /\ outcome'[w] # "none" /\ \A v \in Work \ {w} : outcome'[v] = outcome[v]
        /\ \A v \in Work : outcome[v] # "none" => outcome'[v] # "none"
    BY <1>e, <2>1 DEF Ended
  <2>3. \A e \in Work \ {d} : running'[e] = running[e] /\ running[e] \notin {w, d}
    <3> SUFFICES ASSUME NEW e \in Work \ {d}
                 PROVE  running'[e] = running[e] /\ running[e] \notin {w, d}
      OBVIOUS
    <3>1. running'[e] = running[e] /\ running[e] # w
      BY <1>e, <2>1
    <3>2. running[e] # d
      BY <1>e
    <3> QED BY <3>1, <3>2
  <2>4. running'[d] = None /\ (w # d => outcome[d] # "none")
    BY <1>e, <2>1
  <2>5. ~Waits(w) /\ ~Started(w) /\ fanout[w] # "new"
    <3>1. CASE w = d
      <4>1. ~Idle(d) /\ ~Waiting(d)
        BY <1>e
      <4> HIDE DEF Idle, Waiting
      <4>2. fanout[d] \notin {"new", "unplaced", "marking", "picked"}
        BY <4>1
      <4>3. d \notin Elements(overflow) /\ \A c \in Conns : popped[c] # d
        BY <4>1
      <4> QED BY <3>1, <4>2, <4>3
    <3>2. CASE w # d BY <1>e, <2>1, <3>2 DEF Draining
    <3> QED BY <3>1, <3>2
  <2>6. ASSUME NEW e \in Work PROVE RunningOf(e)'
    <3>1. CASE e = d
      <4>1. outcome'[d] # "none"
        BY <2>2, <2>4
      <4> QED BY <2>3, <2>4, <3>1, <4>1
    <3>2. CASE e # d
      BY <1>e, <2>2, <2>3, <2>4, <3>2
    <3> QED BY <3>1, <3>2
  <2>7. ASSUME NEW v \in Work PROVE OutcomeOf(v)'
    <3>1. /\ Waits(v)' <=> Waits(v)
          /\ Started(v)' <=> Started(v)
          /\ v # w => (Running(v)' <=> Running(v))
      BY <1>e, <2>1, <2>3, <2>4
    <3>2. OutcomeOf(v)
      OBVIOUS
    <3> HIDE DEF Waits, Started, Running
    <3> QED BY <1>e, <2>2, <2>5, <3>1, <3>2
  <2> QED BY <2>6, <2>7
<1>1. CASE DoWorkCompletes(d) BY <1>e, <1>1 DEF DoWorkCompletes
<1>2. CASE CompeteNext(d)
  <2>1. overflow # <<>> /\ overflow' = Tail(overflow)
    BY <1>2 DEF CompeteNext
  <2>2. PICK w \in Work : /\ w = Head(overflow) /\ w \in Elements(overflow)
                          /\ Elements(overflow)' = Elements(overflow) \ {w}
    BY <2>1, ElementsPopped
  <2>3. /\ running' = [running EXCEPT ![d] = w] /\ competing' = competing \ {d}
        /\ UNCHANGED <<fanout, reg, popped, conn, errors, finals, outcome>>
        /\ d \in competing /\ running[d] = None
    BY <1>2, <2>2 DEF CompeteNext
  <2>4. /\ Waiting(w) /\ outcome[w] = "none" /\ w # d /\ outcome[d] # "none"
        /\ \A e \in Conns : popped[e] # w
        /\ \A e \in Work : running[e] # w
    BY <2>2, <2>3
  <2>5. ASSUME NEW e \in Work PROVE RunningOf(e)'
    <3>1. CASE e = d BY <2>2, <2>3, <2>4, <3>1
    <3>2. CASE e # d BY <2>2, <2>3, <2>4, <3>2
    <3> QED BY <3>1, <3>2
  <2>6. ASSUME NEW v \in Work PROVE OutcomeOf(v)'
    <3>1. CASE v = w BY <2>2, <2>3, <2>4, <3>1
    <3>2. CASE v # w BY <2>2, <2>3, <2>4, <3>2
    <3> QED BY <3>1, <3>2
  <2> QED BY <2>5, <2>6
<1>3. CASE CompeteDone(d)      BY <1>3 DEF CompeteDone, Complete, CompeteEnds
<1>4. CASE DoWorkFailsFirst(d)
  <2>1. /\ running[d] # None /\ running' = [running EXCEPT ![d] = d]
        /\ errors' = [errors EXCEPT ![d] = @ + 1] /\ finals' = [finals EXCEPT ![d] = @ + 1]
        /\ UNCHANGED <<fanout, overflow, reg, popped, conn, competing>>
    BY <1>4, CompeteFanoutAssumption DEF DoWorkFailsFirst, Fails
  <2>2. \A v \in Work : outcome'[v] = IF v = running[d] /\ v # d /\ outcome[v] = "none"
                                      THEN "failed" ELSE outcome[v]
    BY <1>4, <2>1 DEF DoWorkFailsFirst, Ended
  <2>3. \A e \in Work : running[e] = d => e = d
    BY <2>1
  <2>4. running[d] # d => Gone(running[d]) /\ outcome[d] # "none"
    BY <2>1
  <2>5. ASSUME NEW e \in Work PROVE RunningOf(e)'
    <3>1. CASE e = d BY <2>1, <2>2, <2>3, <2>4, <3>1
    <3>2. CASE e # d BY <2>1, <2>2, <2>3, <2>4, <3>2
    <3> QED BY <3>1, <3>2
  <2>6. ASSUME NEW v \in Work PROVE OutcomeOf(v)'
    <3>1. CASE v = running[d] BY <2>1, <2>2, <2>4, <3>1
    <3>2. CASE v # running[d] BY <2>1, <2>2, <2>4, <3>2
    <3> QED BY <3>1, <3>2
  <2> QED BY <2>5, <2>6
<1>5. CASE DoWorkFailsAgain(d)
  BY <1>e, <1>5, CompeteFanoutAssumption DEF DoWorkFailsAgain, Fails
<1>6. CASE Finally(d)
  <2>1. finals[d] # 0 /\ \A e \in Work \ {d} : finals'[e] = finals[e]
    BY <1>6 DEF Finally, ClearReserved
  <2>2. UNCHANGED <<fanout, overflow, reg, popped, conn, running, competing, errors, outcome>>
    BY <1>6 DEF Finally, ClearReserved
  <2>3. \A x \in Work : Gone(x) => Gone(x)'
    BY <2>1, <2>2
  <2>4. ASSUME NEW e \in Work PROVE RunningOf(e)'
    <3>1. RunningOf(e) /\ running[e] \in Work \cup {None}
      OBVIOUS
    <3> HIDE DEF Gone, Idle, Waiting
    <3> QED BY <2>2, <2>3, <3>1
  <2>5. ASSUME NEW v \in Work PROVE OutcomeOf(v)'
    BY <2>2
  <2> QED BY <2>4, <2>5
<1> QED BY <1>1, <1>2, <1>3, <1>4, <1>5, <1>6 DEF DoWorkUntilDrained

LEMMA PlaceStep == PlaceInv /\ [Next]_vars => PlaceInv'
<1> SUFFICES ASSUME PlaceInv, [Next]_vars PROVE PlaceParts'
  BY InvStep DEF PlaceInv, PlaceParts
<1>1. ASSUME NEW w \in Work, Fanout(w) \/ DoWorkUntilDrained(w) \/ Finally(w)
      PROVE  PlaceParts'
  BY <1>1, PlaceFanout, PlaceWork
<1>2. ASSUME NEW c \in Conns, RegisterWorker(c) \/ Dispose(c) PROVE PlaceParts'
  BY <1>2, PlaceRegister
<1>3. ASSUME (\E n \in Names : BusyOn(n) \/ BusyOff(n)) \/ UNCHANGED vars
      PROVE  PlaceParts'
  <2>1. UNCHANGED <<fanout, overflow, reg, popped, conn, running, competing, errors, finals,
                    outcome>>
    BY <1>3 DEF BusyOn, BusyOff, vars, registerVars, dispatchVars
  <2> QED
    BY <2>1 DEF PlaceInv, PlaceParts, RunningOf, OutcomeOf, Gone, Waiting, Idle, GoesOn,
                Waits, Started, Running
<1> QED BY <1>1, <1>2, <1>3 DEF Next

(***************************************************************************)
(* The refinement. PlaceInv gives every item one place, and so one stage   *)
(* and one holder; the connection of an item that is held is At.           *)
(***************************************************************************)
At(w, h) ==
  \/ \E d \in Work : running[d] = w /\ conn[d] = h
  \/ fanout[w] = "picked" /\ conn[w] = h
  \/ reg[h] = "starting" /\ popped[h] = w

StageSays ==
  \A w \in Work :
    /\ fanout[w] = "new" => Stage(w) = "new" /\ Holder(w) = None
    /\ Waits(w) => Stage(w) = "pooled" /\ Holder(w) = None
    /\ outcome[w] # "none" => Stage(w) = outcome[w] /\ Holder(w) = None
    /\ \A h \in Conns :
          At(w, h) /\ outcome[w] = "none" => Stage(w) = "held" /\ Holder(w) = h
    /\ \/ fanout[w] = "new" \/ Waits(w) \/ outcome[w] # "none"
       \/ outcome[w] = "none" /\ \E h \in Conns : At(w, h)

LEMMA StageIs == PlaceInv => StageSays
<1> SUFFICES ASSUME PlaceInv, NEW w \in Work
             PROVE  /\ fanout[w] = "new" => Stage(w) = "new" /\ Holder(w) = None
                    /\ Waits(w) => Stage(w) = "pooled" /\ Holder(w) = None
                    /\ outcome[w] # "none" => Stage(w) = outcome[w] /\ Holder(w) = None
                    /\ \A h \in Conns : At(w, h) /\ outcome[w] = "none"
                                           => Stage(w) = "held" /\ Holder(w) = h
                    /\ \/ fanout[w] = "new" \/ Waits(w) \/ outcome[w] # "none"
                       \/ outcome[w] = "none" /\ \E h \in Conns : At(w, h)
  BY DEF StageSays
<1>0. ItemFacts /\ TypeOK /\ OutcomeOf(w) /\ \A d \in Work : RunningOf(d)
  BY ItemsAre DEF PlaceInv, IInv
<1>1. Running(w) =>
        /\ ~Waits(w) /\ fanout[w] \notin {"new", "picked"}
        /\ \A c \in Conns : popped[c] # w
  BY <1>0 DEF ItemFacts, RunningOf, Gone, DispatchOf, Idle, Waiting, Waits, Running
<1>2. Started(w) => ~Waits(w) /\ fanout[w] # "new"
  BY <1>0 DEF ItemFacts, DispatchOf, Idle, Waiting, Waits, Started, Draining
<1>3. Waits(w) => fanout[w] # "new"
  BY <1>0 DEF ItemFacts, Waiting, Waits, Draining
<1>4. Running(w) \/ Started(w) <=> \E h \in Conns : At(w, h)
  BY <1>0 DEF ItemFacts, DispatchOf, GoesOn, Running, Started, At, TypeOK
<1>5. ASSUME NEW h \in Conns, At(w, h), outcome[w] = "none"
      PROVE  Stage(w) = "held" /\ Holder(w) = h
  <2>1. Stage(w) = "held"
    BY <1>4, <1>5 DEF Stage
  <2>2. CASE Running(w)
    <3>1. PICK d \in Work : running[d] = w /\ conn[d] = h
      BY <1>1, <1>5, <2>2 DEF At
    <3>2. (CHOOSE e \in Work : running[e] = w) = d
      <4>1. \A e \in Work : running[e] = w => e = d
        BY <1>0, <3>1, CompeteFanoutAssumption DEF RunningOf
      <4> QED BY <3>1, <4>1
    <3> QED BY <2>1, <2>2, <3>1, <3>2 DEF Holder
  <2>3. CASE ~Running(w) /\ fanout[w] = "picked"
    <3>1. conn[w] = h
      BY <1>0, <1>5, <2>3, CompeteFanoutAssumption
      DEF At, Running, ItemFacts, Waiting
    <3> QED BY <2>1, <2>3, <3>1 DEF Holder
  <2>4. CASE ~Running(w) /\ fanout[w] # "picked"
    <3>1. reg[h] = "starting" /\ popped[h] = w
      BY <1>5, <2>4 DEF At, Running
    <3>2. \A c \in Conns : reg[c] = "starting" /\ popped[c] = w => c = h
      BY <1>0, <3>1, CompeteFanoutAssumption DEF ItemFacts
    <3> QED BY <2>1, <2>4, <3>1, <3>2 DEF Holder
  <2> QED BY <2>2, <2>3, <2>4
<1>6. outcome[w] # "none" => Stage(w) = outcome[w] /\ Holder(w) = None
  BY <1>0 DEF TypeOK, Stage, Holder
<1>7. Waits(w) => Stage(w) = "pooled" /\ Holder(w) = None
  BY <1>0, <1>1, <1>2 DEF OutcomeOf, Stage, Holder
<1>8. fanout[w] = "new" => Stage(w) = "new" /\ Holder(w) = None
  BY <1>0, <1>1, <1>2, <1>3 DEF OutcomeOf, Stage, Holder
<1> QED BY <1>0, <1>4, <1>5, <1>6, <1>7, <1>8 DEF OutcomeOf

LEMMA StageNext == PlaceInv' => StageSays'
  BY StageIs, PTL

\* Item v stays where it is.
Stays(v) ==
  /\ fanout[v] = "new" => fanout'[v] = "new"
  /\ Waits(v) => Waits(v)'
  /\ \A h \in Conns : At(v, h) /\ outcome[v] = "none" => At(v, h)'
  /\ outcome'[v] = outcome[v]

LEMMA StageStays ==
  ASSUME PlaceInv, PlaceInv', NEW v \in Work, Stays(v)
  PROVE  Stage(v)' = Stage(v) /\ Holder(v)' = Holder(v)
<1>0. StageSays /\ StageSays'
  BY StageIs, StageNext
<1>1. CASE fanout[v] = "new" BY <1>0, <1>1 DEF StageSays, Stays
<1>2. CASE Waits(v) BY <1>0, <1>2 DEF StageSays, Stays
<1>3. CASE outcome[v] # "none" BY <1>0, <1>3 DEF StageSays, Stays
<1>4. ASSUME NEW h \in Conns, At(v, h), outcome[v] = "none"
      PROVE  Stage(v)' = Stage(v) /\ Holder(v)' = Holder(v)
  <2>1. At(v, h)' /\ outcome'[v] = "none"
    BY <1>4 DEF Stays
  <2> QED BY <1>0, <1>4, <2>1 DEF StageSays
<1> QED BY <1>0, <1>1, <1>2, <1>3, <1>4 DEF StageSays

\* A step that moves one item at most, to the pool, to a connection or out.
LEMMA MapMove ==
  ASSUME PlaceInv, PlaceInv', NEW w \in Work, \A v \in Work \ {w} : Stays(v)
  PROVE  /\ Stays(w) => UNCHANGED Distribution!vars
         /\ fanout[w] = "new" /\ Waits(w)' => Distribution!Submit(w)
         /\ \A h \in Conns : Waits(w) /\ At(w, h)' /\ outcome'[w] = "none"
                              => Distribution!Take(w, h)
         /\ \A h \in Conns : \A result \in {"completed", "failed"} :
               At(w, h) /\ outcome[w] = "none" /\ outcome'[w] = result
                 => Distribution!Settle(w, result)
<1>0. StageSays /\ StageSays'
  BY StageIs, StageNext
<1>1. \A v \in Work \ {w} : Stage(v)' = Stage(v) /\ Holder(v)' = Holder(v)
  BY StageStays
<1>2. Stays(w) => Stage(w)' = Stage(w) /\ Holder(w)' = Holder(w)
  BY StageStays
<1>3. Stays(w) => UNCHANGED Distribution!vars
  BY <1>1, <1>2 DEF Distribution!vars
<1>4. fanout[w] = "new" /\ Waits(w)' => Distribution!Submit(w)
  BY <1>0, <1>1 DEF StageSays, Distribution!Submit
<1>5. ASSUME NEW h \in Conns, Waits(w), At(w, h)', outcome'[w] = "none"
      PROVE  Distribution!Take(w, h)
  BY <1>0, <1>1, <1>5 DEF StageSays, Distribution!Take
<1>6. ASSUME NEW h \in Conns, NEW result \in {"completed", "failed"},
             At(w, h), outcome[w] = "none", outcome'[w] = result
      PROVE  Distribution!Settle(w, result)
  BY <1>0, <1>1, <1>6 DEF StageSays, Distribution!Settle
<1> QED BY <1>3, <1>4, <1>5, <1>6

Maps == Distribution!Next \/ UNCHANGED Distribution!vars

LEMMA MapStutter ==
  ASSUME PlaceInv, PlaceInv', \A v \in Work : Stays(v)
  PROVE  UNCHANGED Distribution!vars
<1>1. \A v \in Work : Stage(v)' = Stage(v) /\ Holder(v)' = Holder(v)
  BY StageStays
<1> QED BY <1>1 DEF Distribution!vars

LEMMA MapTake ==
  ASSUME PlaceInv, PlaceInv', NEW w \in Work, NEW h \in Conns,
         \A v \in Work \ {w} : Stays(v), Waits(w), At(w, h)', outcome' = outcome
  PROVE  Maps
<1>1. outcome'[w] = "none"
  BY DEF PlaceInv, OutcomeOf
<1>2. Distribution!Take(w, h)
  BY <1>1, MapMove
<1> QED BY <1>2 DEF Maps, Distribution!Next

LEMMA MapFanout ==
  ASSUME PlaceInv, PlaceInv', NEW w \in Work, Fanout(w)
  PROVE  Maps
<1>0. ItemFacts /\ TypeOK
  BY ItemsAre DEF PlaceInv, IInv
<1> USE <1>0 DEF TypeOK, ItemFacts, DispatchOf, Idle, Stays, Waits, At, registerVars, dispatchVars
<1>1. ASSUME NEW c \in Conns, FanoutChoose(w, c) PROVE Maps
  <2>1. fanout[w] = "new" /\ Waits(w)' /\ \A v \in Work \ {w} : Stays(v)
    BY <1>1 DEF FanoutChoose, ChooseSuited
  <2> QED BY <2>1, MapMove DEF Maps, Distribution!Next
<1>2. CASE FanoutMark(w)
  <2>1. PICK h \in Conns : h = conn[w]
    BY <1>2 DEF FanoutMark
  <2>2. \A v \in Work \ {w} : Stays(v)
    BY <1>2 DEF FanoutMark
  <2>3. Waits(w) /\ At(w, h)'
    BY <1>2, <2>1 DEF FanoutMark
  <2>4. outcome' = outcome
    BY <1>2 DEF FanoutMark
  <2> HIDE DEF Stays, Waits, At
  <2> QED BY <2>2, <2>3, <2>4, MapTake
<1>3. CASE FanoutNoWorker(w)
  <2>1. fanout[w] = "new" /\ Waits(w)' /\ \A v \in Work \ {w} : Stays(v)
    BY <1>3 DEF FanoutNoWorker
  <2> QED BY <2>1, MapMove DEF Maps, Distribution!Next
<1>4. CASE FanoutStart(w)
  <2>1. \A v \in Work : Stays(v)
    BY <1>4 DEF FanoutStart, Start
  <2> QED BY <2>1, MapStutter DEF Maps
<1>5. CASE FanoutPush(w)
  <2>1. Elements(overflow)' = Elements(overflow) \cup {w}
    BY <1>5, ElementsPushed DEF FanoutPush, PlaceInv
  <2>2. \A v \in Work : Stays(v)
    BY <1>5, <2>1 DEF FanoutPush
  <2> QED BY <2>2, MapStutter DEF Maps
<1> QED BY <1>1, <1>2, <1>3, <1>4, <1>5 DEF Fanout

LEMMA MapRegister ==
  ASSUME PlaceInv, PlaceInv', NEW c \in Conns, RegisterWorker(c) \/ Dispose(c)
  PROVE  Maps
<1>0. ItemFacts /\ TypeOK
  BY ItemsAre DEF PlaceInv, IInv
<1>s. ASSUME \A v \in Work : Stays(v) PROVE Maps
  BY <1>s, MapStutter DEF Maps
<1> USE <1>0, <1>s DEF TypeOK, ItemFacts, Stays, Waits, At, Registering, registerVars, dispatchVars
<1>1. CASE RegisterAdd(c)        BY <1>1 DEF RegisterAdd
<1>2. CASE RegisterPeek(c)       BY <1>2 DEF RegisterPeek
<1>3. CASE RegisterPop(c)
  <2>1. overflow # <<>> /\ overflow' = Tail(overflow)
    BY <1>3 DEF RegisterPop, PopThen
  <2>2. PICK w \in Work : /\ w = Head(overflow) /\ w \in Elements(overflow)
                          /\ Elements(overflow)' = Elements(overflow) \ {w}
    BY <2>1, ElementsPopped DEF PlaceInv
  <2>3. \A v \in Work : Stays(v)
    BY <1>3, <2>2 DEF RegisterPop, PopThen
  <2> QED BY <2>3
<1>4. CASE RegisterPopNothing(c) BY <1>4 DEF RegisterPopNothing
<1>5. CASE RegisterMark(c)
  <2>1. PICK w \in Work : w = popped[c]
    BY <1>5 DEF RegisterMark, Draining
  <2>2. \A v \in Work \ {w} : Stays(v)
    BY <1>5, <2>1 DEF RegisterMark
  <2>3. Waits(w) /\ At(w, c)'
    BY <1>5, <2>1 DEF RegisterMark
  <2>4. outcome' = outcome
    BY <1>5 DEF RegisterMark
  <2> HIDE DEF Stays, Waits, At
  <2> QED BY <2>2, <2>3, <2>4, MapTake
<1>6. CASE RegisterStart(c)
  <2>1. PICK w \in Work : w = popped[c] /\ w # None /\ Waiting(w)
    BY <1>6 DEF RegisterStart, Draining
  <2>2. \A v \in Work : Stays(v)
    BY <1>6, <2>1 DEF RegisterStart, Start, Waiting, Idle
  <2> QED BY <2>2
<1>7. CASE RegisterPushBack(c)
  <2>1. PICK w \in Work : w = popped[c]
    BY <1>7 DEF RegisterPushBack, LetGo, Draining
  <2>2. Elements(overflow)' = Elements(overflow) \cup {w}
    BY <1>7, <2>1, ElementsPushed DEF RegisterPushBack, PlaceInv
  <2>3. \A v \in Work : Stays(v)
    BY <1>7, <2>1, <2>2 DEF RegisterPushBack, LetGo
  <2> QED BY <2>3
<1>8. CASE Dispose(c)            BY <1>8 DEF Dispose
<1> QED
  BY <1>1, <1>2, <1>3, <1>4, <1>5, <1>6, <1>7, <1>8 DEF RegisterWorker

LEMMA MapWork ==
  ASSUME PlaceInv, PlaceInv', NEW d \in Work, DoWorkUntilDrained(d) \/ Finally(d)
  PROVE  Maps
<1>0. ItemFacts /\ TypeOK /\ \A e \in Work : RunningOf(e)
  BY ItemsAre DEF PlaceInv, IInv
<1>s. ASSUME \A v \in Work : Stays(v) PROVE Maps
  BY <1>s, MapStutter DEF Maps
<1> USE <1>0 DEF TypeOK, ItemFacts, DispatchOf, GoesOn, Stays, Waits, At, registerVars
\* An item ends, for the first time or again.
<1>1. ASSUME NEW result \in {"completed", "failed"}, Ended(running[d], result),
             NEW next \in {None, d}, running' = [running EXCEPT ![d] = next],
             running[d] # None, next = d => running[d] # d,
             UNCHANGED <<fanout, overflow, reg, popped, conn>>
      PROVE  Maps
  <2>1. PICK w \in Work : w = running[d]
    BY <1>1
  <2>2. PICK h \in Conns : h = conn[d]
    BY <1>1
  <2>3. /\ outcome'[w] = IF outcome[w] = "none" THEN result ELSE outcome[w]
        /\ \A v \in Work \ {w} : outcome'[v] = outcome[v]
    BY <1>1, <2>1 DEF Ended
  <2>4. \A v \in Work \ {w} : Stays(v)
    BY <1>1, <2>1, <2>3
  <2>5. CASE outcome[w] # "none"
    <3>1. Stays(w)
      BY <1>1, <2>1, <2>3, <2>5
    <3> HIDE DEF Stays, Waits, At
    <3>2. \A v \in Work : Stays(v)
      BY <2>4, <3>1
    <3> QED BY <1>s, <3>2
  <2>6. CASE outcome[w] = "none"
    <3>1. At(w, h) /\ outcome'[w] = result
      BY <2>1, <2>2, <2>3, <2>6
    <3> QED BY <2>4, <2>6, <3>1, MapMove DEF Maps, Distribution!Next
  <2> QED BY <2>5, <2>6
<1>2. CASE DoWorkCompletes(d)
  BY <1>1, <1>2 DEF DoWorkCompletes
<1>3. CASE CompeteNext(d)
  <2>1. overflow # <<>> /\ overflow' = Tail(overflow)
    BY <1>3 DEF CompeteNext
  <2>2. PICK w \in Work : /\ w = Head(overflow) /\ w \in Elements(overflow)
                          /\ Elements(overflow)' = Elements(overflow) \ {w}
    BY <2>1, ElementsPopped DEF PlaceInv
  <2>3. PICK h \in Conns : h = conn[d]
    BY <1>3 DEF CompeteNext
  <2>4. /\ running' = [running EXCEPT ![d] = w] /\ running[d] = None
        /\ UNCHANGED <<fanout, reg, popped, conn, outcome>>
    BY <1>3, <2>2 DEF CompeteNext
  <2>5. \A v \in Work \ {w} : Stays(v)
    BY <2>2, <2>4
  <2>6. Waits(w) /\ At(w, h)'
    BY <2>2, <2>3, <2>4
  <2> HIDE DEF Stays, Waits, At
  <2> QED BY <2>4, <2>5, <2>6, MapTake
<1>4. CASE CompeteDone(d)
  BY <1>4, <1>s DEF CompeteDone, Complete, CompeteEnds
<1>5. CASE DoWorkFailsFirst(d)
  <2>1. /\ running[d] # None /\ running' = [running EXCEPT ![d] = d]
        /\ UNCHANGED <<fanout, overflow, reg, popped, conn>>
    BY <1>5, CompeteFanoutAssumption DEF DoWorkFailsFirst, Fails
  <2>2. CASE running[d] = d
    <3>1. running' = running /\ outcome' = outcome
      BY <1>5, <2>1, <2>2 DEF DoWorkFailsFirst
    <3> QED BY <1>s, <2>1, <3>1
  <2>3. CASE running[d] # d
    BY <1>1, <1>5, <2>1, <2>3 DEF DoWorkFailsFirst
  <2> QED BY <2>2, <2>3
<1>6. CASE DoWorkFailsAgain(d)
  BY <1>1, <1>6, CompeteFanoutAssumption DEF DoWorkFailsAgain, Fails
<1>7. CASE Finally(d)
  BY <1>7, <1>s DEF Finally, ClearReserved
<1> QED BY <1>2, <1>3, <1>4, <1>5, <1>6, <1>7 DEF DoWorkUntilDrained

LEMMA MapStep ==
  PlaceInv /\ PlaceInv' /\ [Next]_vars => [Distribution!Next]_(Distribution!vars)
<1> SUFFICES ASSUME PlaceInv, PlaceInv', [Next]_vars PROVE Maps
  BY DEF Maps
<1>1. ASSUME NEW w \in Work, Fanout(w) \/ DoWorkUntilDrained(w) \/ Finally(w)
      PROVE  Maps
  BY <1>1, MapFanout, MapWork
<1>2. ASSUME NEW c \in Conns, RegisterWorker(c) \/ Dispose(c) PROVE Maps
  BY <1>2, MapRegister
<1>3. ASSUME (\E n \in Names : BusyOn(n) \/ BusyOff(n)) \/ UNCHANGED vars PROVE Maps
  <2>1. UNCHANGED <<fanout, overflow, reg, popped, conn, running, outcome>>
    BY <1>3 DEF BusyOn, BusyOff, vars, registerVars, dispatchVars
  <2>2. \A v \in Work : Stays(v)
    BY <2>1 DEF Stays, Waits, At
  <2> QED BY <2>2, MapStutter DEF Maps
<1> QED BY <1>1, <1>2, <1>3 DEF Next

LEMMA MapInit == Init => PlaceInv /\ Distribution!Init
<1> SUFFICES ASSUME Init PROVE PlaceInv /\ Distribution!Init
  OBVIOUS
<1>1. PlaceInv
  BY InvInit, CompeteFanoutAssumption
  DEF Init, PlaceInv, RunningOf, OutcomeOf, GoesOn, Waits, Started, Elements
<1>2. \A w \in Work : Stage(w) = "new" /\ Holder(w) = None
  BY <1>1, StageIs DEF StageSays, Init
<1> QED BY <1>1, <1>2 DEF Distribution!Init

\* CompeteFanout implements WorkDistribution: an item that was fanned out waits
\* until one connection takes it, ends by the end of its DoWork only, and is
\* never lost on the way through Overflow.
THEOREM ImplementsDistribution == Spec => DistributesWork
<1>1. PlaceInv /\ [Next]_vars
        => PlaceInv' /\ [Distribution!Next]_(Distribution!vars)
  BY PlaceStep, MapStep
<1> QED BY <1>1, MapInit, PTL DEF Spec, DistributesWork, Distribution!Spec
===============================================================================
