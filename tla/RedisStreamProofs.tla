--------------------------- MODULE RedisStreamProofs ---------------------------
(***************************************************************************)
(* What TLAPS proves of RedisStream, for any consumers, any mail and any   *)
(* size of batch: the invariants, and that it implements GroupDelivery.    *)
(***************************************************************************)
EXTENDS RedisStream, TLAPS

Got(c) == {inbox[c][i] : i \in DOMAIN inbox[c]}

(***************************************************************************)
(* The poll loop of c. Its batch is of entries that were handed out to c;  *)
(* c delivers entries of its batches only, and none behind the one it is   *)
(* at; it acknowledges what it has dealt with.                             *)
(***************************************************************************)
BatchOf(c) ==
  /\ upto[c] <= cursor
  /\ at[c] <= upto[c] <=> stage[c] \in {"entry", "ack"}
  /\ \A e \in Holding(c) : reader[e] = c
  /\ stage[c] \in {"loop", "read", "entry", "ack"} => made

GotOf(c) ==
  /\ \A e \in Got(c) : e <= cursor /\ reader[e] = c
  /\ stage[c] = "entry" => \A e \in Got(c) : e < at[c]
  /\ stage[c] = "ack" => \A e \in Got(c) : e <= at[c]
  /\ \A i, j \in DOMAIN inbox[c] : i < j => inbox[c][i] < inbox[c][j]

AckOf(c) == stage[c] = "ack" => at[c] \in Got(c) \cup unheard \/ Skipped(c, at[c])

LoopOf(c) == BatchOf(c) /\ GotOf(c) /\ AckOf(c)

GroupInv == ~made => cursor = 0

\* NothingForgotten in the terms of the loop.
Remembered ==
  \A e \in Ids : (e <= cursor /\ e \notin pending) =>
    e \in Delivered \cup unheard \cup dropped \/ Skipped(reader[e], e)

IInv == TypeOK /\ GroupInv /\ Remembered /\ \A c \in Consumers : LoopOf(c)

LEMMA ElementType ==
  ASSUME NEW S, NEW q \in Seq(S) PROVE \A i \in DOMAIN q : q[i] \in S
  OBVIOUS

LEMMA GotType ==
  ASSUME IInv, NEW c \in Consumers, NEW e \in Got(c)
  PROVE  /\ e \in Ids /\ e \in Nat /\ e <= cursor /\ reader[e] = c
         /\ stage[c] = "entry" => e < at[c]
         /\ stage[c] = "ack" => e <= at[c]
<1>1. e \in Ids /\ e \in Nat
  <2>1. PICK q \in Seq(Ids) : q = inbox[c]
    BY DEF IInv, TypeOK
  <2>2. \A i \in DOMAIN q : q[i] \in Ids
    BY ElementType
  <2>3. e \in Ids
    BY <2>1, <2>2 DEF Got
  <2> QED BY <2>3 DEF Ids
<1>2. GotOf(c)
  BY DEF IInv, LoopOf
<1> QED BY <1>1, <1>2 DEF GotOf

(***************************************************************************)
(* What a step of one consumer does to the others: nothing, since the log, *)
(* the cursor and what was handed out only grow.                           *)
(***************************************************************************)
Grows ==
  /\ cursor <= cursor' /\ (made => made') /\ unheard \subseteq unheard'
  /\ \A e \in Ids : e <= cursor => reader'[e] = reader[e]
  /\ Len(log) <= Len(log') /\ \A e \in 1..Len(log) : log'[e] = log[e]

Rests(c) ==
  at'[c] = at[c] /\ upto'[c] = upto[c] /\ stage'[c] = stage[c] /\ inbox'[c] = inbox[c]

LEMMA LoopKept ==
  ASSUME TypeOK, TypeOK', Grows, NEW c \in Consumers, LoopOf(c), Rests(c)
  PROVE  LoopOf(c)'
<1> USE DEF TypeOK, Rests
<1>1. Got(c)' = Got(c) /\ Holding(c)' = Holding(c) /\ Got(c) \subseteq Ids
  BY DEF Got, Holding
<1>2. \A e \in Got(c) \cup Holding(c) : e \in Ids /\ e <= cursor
  BY <1>1 DEF LoopOf, BatchOf, GotOf, Holding, Ids
<1>3. \A e \in Got(c) \cup Holding(c) : reader'[e] = reader[e] /\ e <= cursor'
  BY <1>2 DEF Grows, Ids
<1>4. BatchOf(c)'
  BY <1>1, <1>3 DEF LoopOf, BatchOf, Grows
<1>5. GotOf(c)'
  BY <1>1, <1>3 DEF LoopOf, GotOf
<1>6. AckOf(c)'
  <2> SUFFICES ASSUME stage[c] = "ack"
               PROVE  at[c] \in Got(c) \cup unheard' \/ Skipped(c, at[c])'
    BY <1>1 DEF AckOf
  <2>1. at[c] \in 1..Len(log)
    BY DEF LoopOf, BatchOf
  <2> QED BY <2>1 DEF LoopOf, AckOf, Skipped, Grows
<1> QED BY <1>4, <1>5, <1>6 DEF LoopOf

LEMMA RememberedKept ==
  ASSUME TypeOK, Remembered, Grows, cursor' = cursor,
         \A c \in Consumers : Got(c) \subseteq Got(c)',
         \A e \in pending \ pending' :
            e \in Delivered \cup unheard \cup dropped' \/ Skipped(reader[e], e),
         dropped \subseteq dropped'
  PROVE  Remembered'
<1> SUFFICES ASSUME NEW e \in Ids, e <= cursor, e \notin pending'
             PROVE  \/ e \in Delivered' \cup unheard' \cup dropped'
                    \/ Skipped(reader[e], e)'
  BY DEF Remembered
<1>1. e \in Delivered \cup unheard \cup dropped' \/ Skipped(reader[e], e)
  BY DEF Remembered
<1>2. Delivered \subseteq Delivered'
  BY DEF Delivered, Got
<1>3. e \in 1..Len(log) /\ reader'[e] = reader[e] /\ log'[e] = log[e]
  <2>1. /\ cursor \in Nat /\ cursor <= Len(log) /\ Len(log) \in Nat
        /\ e \in Nat /\ 1 <= e
    BY DEF TypeOK, Ids
  <2>2. e \in 1..Len(log)
    BY <2>1
  <2> QED BY <2>2 DEF Grows
<1> QED BY <1>1, <1>2, <1>3 DEF Grows, Skipped

\* Steps that change nothing but the stage of c, and its batch.
LEMMA InvStage ==
  ASSUME IInv, TypeOK', NEW c \in Consumers, BatchOf(c)', AckOf(c)', Grows,
         stage'[c] = "entry" => \A e \in Got(c) : e < at'[c],
         stage'[c] = "ack" => \A e \in Got(c) : e <= at'[c],
         \A d \in Consumers \ {c} : Rests(d),
         \A e \in pending \ pending' :
            e \in Delivered \cup unheard \cup dropped' \/ Skipped(reader[e], e),
         UNCHANGED <<inbox, dropped>>, cursor' = cursor, made => made'
  PROVE  IInv'
<1>1. \A d \in Consumers : Got(d)' = Got(d)
  BY DEF Got
<1>2. Remembered'
  BY <1>1, RememberedKept DEF IInv
<1>3. GotOf(c)'
  <2>1. \A e \in Got(c) : e \in Ids /\ e <= cursor /\ reader[e] = c
    BY DEF IInv, TypeOK, LoopOf, GotOf, Got
  <2>2. \A e \in Got(c) : e <= cursor' /\ reader'[e] = c
    BY <2>1 DEF Grows, Ids
  <2> QED BY <1>1, <2>2 DEF IInv, LoopOf, GotOf
<1>4. \A d \in Consumers : LoopOf(d)'
  BY <1>3, LoopKept DEF IInv, LoopOf
<1> QED BY <1>2, <1>4 DEF IInv, GroupInv

LEMMA EmptyList == ASSUME NEW S PROVE <<>> \in Seq(S) /\ DOMAIN <<>> = {}
  OBVIOUS

LEMMA InvInit == Init => IInv
<1> SUFFICES ASSUME Init PROVE IInv
  OBVIOUS
<1>1. TypeOK
  <2>1. log \in Seq(Mail) /\ Len(log) = 0
    BY EmptyList DEF Init
  <2>2. inbox \in [Consumers -> Seq(Ids)]
    BY EmptyList DEF Init
  <2>3. /\ log \in Seq(Mail) /\ Len(log) <= MaxEntries
        /\ cursor \in Nat /\ cursor <= Len(log)
    BY <2>1, BoundsAssumption DEF Init
  <2>4. /\ at \in [Consumers -> Nat \ {0}] /\ upto \in [Consumers -> Nat]
        /\ stage \in [Consumers -> Stages]
    BY DEF Init, Stages
  <2> QED BY <2>2, <2>3, <2>4 DEF Init, TypeOK
<1>2. ASSUME NEW c \in Consumers PROVE LoopOf(c)
  <2>1. Got(c) = {} /\ Holding(c) = {} /\ DOMAIN inbox[c] = {}
    BY EmptyList DEF Init, Got, Holding, Ids
  <2> QED BY <2>1 DEF Init, LoopOf, BatchOf, GotOf, AckOf
<1>3. Remembered
  BY DEF Init, Remembered, Ids
<1> QED BY <1>1, <1>2, <1>3 DEF Init, IInv, GroupInv

(***************************************************************************)
(* Publishing, and the life of an instance.                                *)
(***************************************************************************)
LEMMA InvPublish ==
  ASSUME IInv, NEW entry \in Mail, Publish(entry)
  PROVE  IInv'
<1>1. /\ Len(log) < MaxEntries /\ log' = Append(log, entry)
      /\ UNCHANGED <<made, cursor, reader, pending, life, heard, stage, at, upto,
                     inbox, unheard, dropped>>
  BY DEF Publish
<1>2. /\ log' \in Seq(Mail) /\ Len(log') = Len(log) + 1
      /\ \A e \in 1..Len(log) : log'[e] = log[e]
  BY <1>1 DEF IInv, TypeOK
<1>3. TypeOK'
  BY <1>1, <1>2, BoundsAssumption DEF IInv, TypeOK
<1>4. Grows
  BY <1>1, <1>2 DEF IInv, TypeOK, Grows
<1>5. \A d \in Consumers : Rests(d) /\ Got(d)' = Got(d)
  BY <1>1 DEF Rests, Got
<1>6. Remembered'
  BY <1>1, <1>4, <1>5, RememberedKept DEF IInv
<1> QED BY <1>1, <1>3, <1>4, <1>5, <1>6, LoopKept DEF IInv, GroupInv

\* The loop of an instance starts when it is constructed.
NewOff == \A c \in Consumers : life[c] = "new" => stage[c] = "off"

LEMMA InvConstruct ==
  ASSUME IInv, NewOff, NEW c \in Consumers, Construct(c)
  PROVE  IInv'
<1>1. /\ stage[c] = "off" /\ stage' = [stage EXCEPT ![c] = "group"]
      /\ life' = [life EXCEPT ![c] = "running"]
      /\ UNCHANGED <<group, heard, at, upto, inbox, unheard, dropped>>
  BY DEF Construct, NewOff
<1>2. TypeOK'
  BY <1>1 DEF IInv, TypeOK, Stages, group
<1>3. stage'[c] = "group"
  BY <1>1 DEF IInv, TypeOK
<1>4. BatchOf(c)' /\ AckOf(c)'
  BY <1>1, <1>3 DEF IInv, LoopOf, BatchOf, AckOf, Holding, group
<1>5. Grows
  BY <1>1 DEF IInv, TypeOK, Grows, group
<1>6. \A d \in Consumers \ {c} : Rests(d)
  BY <1>1 DEF IInv, TypeOK, Rests
<1> QED BY <1>1, <1>2, <1>3, <1>4, <1>5, <1>6, InvStage DEF group

\* Whoever subscribes or disposes leaves the loops as they are.
LEMMA InvLife ==
  ASSUME IInv, NEW c \in Consumers,
         Subscribe(c) \/ Unsubscribe(c) \/ CloseGroup(c) \/ CloseConnection(c)
  PROVE  IInv'
<1>1. /\ UNCHANGED <<log, made, cursor, reader, stage, at, upto, inbox, unheard>>
      /\ dropped \subseteq dropped' /\ pending \ pending' \subseteq dropped'
  BY DEF Subscribe, Unsubscribe, CloseGroup, CloseConnection, group
<1>2. TypeOK'
  <2>1. CASE Subscribe(c)
    BY <2>1 DEF IInv, TypeOK, Subscribe, group
  <2>2. CASE Unsubscribe(c)
    BY <2>2 DEF IInv, TypeOK, Unsubscribe, group
  <2>3. CASE CloseGroup(c)
    <3>1. pending' \in SUBSET Ids /\ dropped' \in SUBSET Ids
      BY <2>3 DEF IInv, TypeOK, CloseGroup
    <3>2. life' \in [Consumers -> {"new", "running", "closing", "gone", "crashed"}]
      BY <2>3 DEF IInv, TypeOK, CloseGroup
    <3> QED BY <1>1, <2>3, <3>1, <3>2 DEF IInv, TypeOK, CloseGroup
  <2>4. CASE CloseConnection(c)
    BY <2>4 DEF IInv, TypeOK, CloseConnection, group
  <2> QED BY <2>1, <2>2, <2>3, <2>4
<1>3. Grows
  BY <1>1 DEF IInv, TypeOK, Grows
<1>4. \A d \in Consumers : Rests(d) /\ Got(d)' = Got(d)
  BY <1>1 DEF Rests, Got
<1>5. Remembered'
  BY <1>1, <1>3, <1>4, RememberedKept DEF IInv
<1> QED BY <1>1, <1>2, <1>3, <1>4, <1>5, LoopKept DEF IInv, GroupInv

LEMMA InvCrash ==
  ASSUME IInv, NEW c \in Consumers, Crash(c)
  PROVE  IInv'
<1>1. /\ stage' = [stage EXCEPT ![c] = "off"] /\ upto' = [upto EXCEPT ![c] = 0]
      /\ at' = [at EXCEPT ![c] = 1] /\ life' = [life EXCEPT ![c] = "crashed"]
      /\ heard' = [heard EXCEPT ![c] = FALSE]
      /\ UNCHANGED <<group, inbox, unheard, dropped>>
  BY DEF Crash
<1>2. TypeOK'
  BY <1>1 DEF IInv, TypeOK, Stages, group
<1>3. stage'[c] = "off" /\ upto'[c] = 0 /\ at'[c] = 1
  BY <1>1 DEF IInv, TypeOK
<1>4. Holding(c)' = {}
  BY <1>3 DEF Holding, Ids
<1>5. BatchOf(c)' /\ AckOf(c)'
  BY <1>1, <1>3, <1>4 DEF IInv, TypeOK, BatchOf, AckOf, group
<1>6. Grows
  BY <1>1 DEF IInv, TypeOK, Grows, group
<1>7. \A d \in Consumers \ {c} : Rests(d)
  BY <1>1 DEF IInv, TypeOK, Rests
<1> QED BY <1>1, <1>2, <1>3, <1>5, <1>6, <1>7, InvStage DEF group

(***************************************************************************)
(* The poll loop.                                                          *)
(***************************************************************************)
LEMMA InvCreateGroup ==
  ASSUME IInv, NEW c \in Consumers, CreateGroup(c)
  PROVE  IInv'
<1>1. /\ stage[c] = "group" /\ stage' = [stage EXCEPT ![c] = "loop"]
      /\ made' = TRUE /\ cursor' = cursor
      /\ UNCHANGED <<log, reader, pending, life, heard, at, upto, inbox, unheard, dropped>>
  BY DEF CreateGroup, IInv, GroupInv
<1>2. TypeOK'
  BY <1>1 DEF IInv, TypeOK, Stages
<1>3. stage'[c] = "loop"
  BY <1>1 DEF IInv, TypeOK
<1>4. BatchOf(c)' /\ AckOf(c)'
  BY <1>1, <1>3 DEF IInv, LoopOf, BatchOf, AckOf, Holding
<1>5. Grows
  BY <1>1 DEF IInv, TypeOK, Grows
<1>6. \A d \in Consumers \ {c} : Rests(d)
  BY <1>1 DEF IInv, TypeOK, Rests
<1> QED BY <1>1, <1>2, <1>3, <1>4, <1>5, <1>6, InvStage

LEMMA InvBetween ==
  ASSUME IInv, NEW c \in Consumers, LoopAgain(c) \/ ReadNothing(c)
  PROVE  IInv'
<1>1. PICK now \in {"read", "off", "loop"} :
        /\ stage[c] \in {"loop", "read"} /\ stage' = [stage EXCEPT ![c] = now]
        /\ UNCHANGED <<group, life, heard, at, upto, inbox, unheard, dropped>>
  BY DEF LoopAgain, ReadNothing
<1>2. TypeOK'
  BY <1>1 DEF IInv, TypeOK, Stages, group
<1>3. stage'[c] = now
  BY <1>1 DEF IInv, TypeOK
<1>4. BatchOf(c)' /\ AckOf(c)'
  BY <1>1, <1>3 DEF IInv, LoopOf, BatchOf, AckOf, Holding, group
<1>5. Grows
  BY <1>1 DEF IInv, TypeOK, Grows, group
<1>6. \A d \in Consumers \ {c} : Rests(d)
  BY <1>1 DEF IInv, TypeOK, Rests
<1> QED BY <1>1, <1>2, <1>3, <1>4, <1>5, <1>6, InvStage DEF group

\* Redis hands out the next n entries, and they are of the stream.
LEMMA Handed ==
  ASSUME IInv, NEW c \in Consumers, cursor < Len(log), HandOut(c, Available)
  PROVE  /\ Available \in Nat \ {0} /\ cursor + Available <= Len(log)
         /\ cursor' = cursor + Available
         /\ \A e \in Ids : e > cursor => (e <= cursor' => reader'[e] = c)
         /\ \A e \in Ids : e <= cursor => reader'[e] = reader[e]
         /\ \A e \in Ids : e > cursor' => reader'[e] = reader[e]
         /\ reader' \in [Ids -> Consumers \cup {None}] /\ pending' \in SUBSET Ids
         /\ pending \subseteq pending'
         /\ \A e \in Ids : e > cursor => (e <= cursor' => e \in pending')
         /\ UNCHANGED <<log, made>>
<1>1. Available \in Nat \ {0} /\ cursor + Available <= Len(log)
  BY BoundsAssumption DEF IInv, TypeOK, Available
<1>2. Len(log) \in Nat /\ cursor \in Nat /\ Len(log) <= MaxEntries
  BY DEF IInv, TypeOK
<1>3. PICK n \in Nat \ {0} : n = Available
  BY <1>1
<1> HIDE DEF Available
<1>4. cursor + 1..cursor + n \subseteq Ids
  BY <1>1, <1>2, <1>3, BoundsAssumption DEF Ids
<1>5. /\ cursor' = cursor + n /\ pending' = pending \cup (cursor + 1)..(cursor + n)
      /\ reader' = [e \in Ids |-> IF cursor < e /\ e <= cursor + n THEN c ELSE reader[e]]
      /\ UNCHANGED <<log, made>>
  BY <1>3 DEF HandOut
<1>6. reader' \in [Ids -> Consumers \cup {None}] /\ pending' \in SUBSET Ids
  BY <1>4, <1>5 DEF IInv, TypeOK
<1>7. \A e \in Ids : e \in Nat
  BY DEF Ids
<1> QED BY <1>1, <1>2, <1>3, <1>5, <1>6, <1>7

\* Entries that are handed out are pending, so nothing is forgotten with them.
LEMMA HandedRemembered ==
  ASSUME IInv, NEW c \in Consumers, cursor < Len(log), HandOut(c, Available),
         UNCHANGED <<inbox, unheard, dropped>>
  PROVE  Remembered'
<1> SUFFICES ASSUME NEW e \in Ids, e <= cursor', e \notin pending'
             PROVE  \/ e \in Delivered' \cup unheard' \cup dropped'
                    \/ Skipped(reader[e], e)'
  BY DEF Remembered
<1>1. e <= cursor /\ e \notin pending /\ reader'[e] = reader[e] /\ log' = log
  BY Handed DEF Ids, IInv, TypeOK
<1>2. Delivered' = Delivered
  BY DEF Delivered
<1> QED BY <1>1, <1>2 DEF IInv, Remembered, Skipped

LEMMA InvReadLost ==
  ASSUME IInv, NEW c \in Consumers, ReadLost(c)
  PROVE  IInv'
<1>1. /\ stage[c] = "read" /\ cursor < Len(log) /\ HandOut(c, Available)
      /\ stage' = [stage EXCEPT ![c] = "loop"]
      /\ UNCHANGED <<life, heard, at, upto, inbox, unheard, dropped>>
  BY DEF ReadLost
<1>2. TypeOK'
  BY <1>1, Handed DEF IInv, TypeOK, Stages
<1>3. /\ stage'[c] = "loop"
      /\ cursor \in Nat /\ cursor' \in Nat /\ cursor < cursor'
  BY <1>1, Handed DEF IInv, TypeOK
<1>4. Grows
  BY <1>1, Handed DEF IInv, TypeOK, Grows
<1>5. LoopOf(c)'
  <2>1. Got(c)' = Got(c) /\ \A e \in Got(c) : e \in Ids /\ e <= cursor /\ reader[e] = c
    BY <1>1 DEF IInv, TypeOK, LoopOf, GotOf, Got
  <2>2. ASSUME NEW e \in Got(c)
        PROVE  e <= cursor' /\ reader'[e] = c
    <3>1. e \in Ids /\ e \in Nat /\ e <= cursor /\ reader[e] = c
      BY <2>1 DEF Ids
    <3> QED BY <1>3, <1>4, <3>1 DEF Grows
  <2>3. GotOf(c)'
    BY <1>1, <1>3, <2>1, <2>2 DEF IInv, LoopOf, GotOf
  <2>4. BatchOf(c)' /\ AckOf(c)'
    <3>0. ~(at[c] <= upto[c]) /\ upto[c] <= cursor /\ made /\ upto[c] \in Nat
      BY <1>1 DEF IInv, TypeOK, LoopOf, BatchOf
    <3>a. made'
      BY <1>1, <3>0, Handed
    <3>1. ~(at[c] <= upto[c]) /\ upto[c] <= cursor' /\ made'
      BY <1>3, <3>0, <3>a
    <3>2. Holding(c)' = {}
      <4>1. at[c] \in Nat /\ at'[c] = at[c] /\ upto'[c] = upto[c]
        BY <1>1 DEF IInv, TypeOK
      <4>2. \A e \in Ids : ~(at[c] <= e /\ e <= upto[c])
        BY <3>0, <4>1 DEF Ids
      <4> QED BY <4>1, <4>2 DEF Holding
    <3> QED BY <1>1, <1>3, <3>1, <3>2 DEF BatchOf, AckOf
  <2> QED BY <2>3, <2>4 DEF LoopOf
<1>6. \A d \in Consumers \ {c} : LoopOf(d)'
  BY <1>1, <1>2, <1>4, LoopKept DEF IInv, TypeOK, Rests
<1>7. GroupInv'
  BY <1>1, Handed DEF IInv, GroupInv, LoopOf, BatchOf
<1> QED BY <1>1, <1>2, <1>5, <1>6, <1>7, HandedRemembered DEF IInv

LEMMA InvRead ==
  ASSUME IInv, NEW c \in Consumers, Read(c)
  PROVE  IInv'
<1>1. /\ stage[c] = "read" /\ cursor < Len(log) /\ HandOut(c, Available)
      /\ stage' = [stage EXCEPT ![c] = "entry"]
      /\ at' = [at EXCEPT ![c] = cursor + 1]
      /\ upto' = [upto EXCEPT ![c] = cursor + Available]
      /\ UNCHANGED <<life, heard, inbox, unheard, dropped>>
  BY DEF Read
<1>2. TypeOK'
  BY <1>1, Handed DEF IInv, TypeOK, Stages
<1>3. /\ stage'[c] = "entry" /\ at'[c] = cursor + 1 /\ upto'[c] = cursor'
      /\ cursor \in Nat /\ cursor' \in Nat /\ cursor < cursor'
  BY <1>1, Handed DEF IInv, TypeOK
<1>4. Grows
  BY <1>1, Handed DEF IInv, TypeOK, Grows
<1>5. LoopOf(c)'
  <2>1. Got(c)' = Got(c) /\ \A e \in Got(c) : e \in Ids /\ e <= cursor /\ reader[e] = c
    BY <1>1 DEF IInv, TypeOK, LoopOf, GotOf, Got
  <2>2. ASSUME NEW e \in Got(c)
        PROVE  e <= cursor' /\ reader'[e] = c /\ e < cursor + 1
    <3>1. e \in Ids /\ e \in Nat /\ e <= cursor /\ reader[e] = c
      BY <2>1 DEF Ids
    <3> QED BY <1>3, <1>4, <3>1 DEF Grows
  <2>3. GotOf(c)'
    BY <1>1, <1>3, <2>1, <2>2 DEF IInv, LoopOf, GotOf
  <2>4. BatchOf(c)' /\ AckOf(c)'
    <3>1. made'
      BY <1>1, Handed DEF IInv, LoopOf, BatchOf
    <3>2. \A e \in Holding(c)' : reader'[e] = c
      BY <1>1, <1>3, Handed DEF Holding, Ids
    <3> QED BY <1>3, <3>1, <3>2 DEF BatchOf, AckOf
  <2> QED BY <2>3, <2>4 DEF LoopOf
<1>6. \A d \in Consumers \ {c} : LoopOf(d)'
  BY <1>1, <1>2, <1>4, LoopKept DEF IInv, TypeOK, Rests
<1>7. GroupInv'
  BY <1>1, Handed DEF IInv, GroupInv, LoopOf, BatchOf
<1> QED BY <1>1, <1>2, <1>5, <1>6, <1>7, HandedRemembered DEF IInv

LEMMA EntryAt ==
  ASSUME IInv, NEW c \in Consumers, stage[c] \in {"entry", "ack"}
  PROVE  at[c] \in Ids /\ at[c] <= upto[c] /\ upto[c] <= cursor /\ reader[at[c]] = c
         /\ at[c] \in 1..Len(log)
<1>1. /\ at[c] \in Nat \ {0} /\ at[c] <= upto[c] /\ upto[c] <= cursor /\ upto[c] \in Nat
      /\ cursor \in Nat /\ cursor <= Len(log) /\ Len(log) <= MaxEntries /\ Len(log) \in Nat
  BY DEF IInv, TypeOK, LoopOf, BatchOf
<1>2. at[c] \in Ids /\ at[c] \in 1..Len(log)
  BY <1>1, BoundsAssumption DEF Ids
<1>3. at[c] \in Holding(c)
  BY <1>1, <1>2 DEF Holding
<1> QED BY <1>1, <1>2, <1>3 DEF IInv, LoopOf, BatchOf

LEMMA InvNextEntry ==
  ASSUME IInv, TypeOK', NEW c \in Consumers, stage[c] \in {"entry", "ack"}, NextEntry(c),
         \A e \in pending \ pending' :
            e \in Delivered \cup unheard \cup dropped' \/ Skipped(reader[e], e),
         UNCHANGED <<log, made, cursor, reader, inbox, unheard, dropped>>
  PROVE  IInv'
<1>1. /\ at' = [at EXCEPT ![c] = @ + 1] /\ upto' = upto
      /\ stage' = [stage EXCEPT ![c] = IF at[c] < upto[c] THEN "entry" ELSE "loop"]
  BY DEF NextEntry
<1>2. /\ at'[c] = at[c] + 1 /\ stage'[c] = IF at[c] < upto[c] THEN "entry" ELSE "loop"
      /\ at[c] \in Nat /\ upto[c] \in Nat
  BY <1>1 DEF IInv, TypeOK
<1>3. BatchOf(c)' /\ AckOf(c)'
  <2>1. /\ upto[c] <= cursor /\ at[c] <= upto[c] /\ made
        /\ \A e \in Holding(c) : reader[e] = c
    BY DEF IInv, LoopOf, BatchOf
  <2>2. \A e \in Holding(c)' : e \in Holding(c)
    BY <1>1, <1>2 DEF Holding, Ids
  <2> QED BY <1>1, <1>2, <2>1, <2>2 DEF BatchOf, AckOf
<1>4. \A e \in Got(c) : e < at'[c]
  <2>1. \A e \in Got(c) : e \in Nat /\ (e < at[c] \/ e <= at[c])
    BY GotType
  <2> QED BY <1>2, <2>1
<1>5. Grows
  BY DEF IInv, TypeOK, Grows
<1>6. \A d \in Consumers \ {c} : Rests(d)
  BY <1>1 DEF IInv, TypeOK, Rests
<1> QED BY <1>2, <1>3, <1>4, <1>5, <1>6, InvStage

LEMMA NextEntryType ==
  ASSUME TypeOK, NEW c \in Consumers, NextEntry(c)
  PROVE  /\ at' \in [Consumers -> Nat \ {0}] /\ upto' \in [Consumers -> Nat]
         /\ stage' \in [Consumers -> Stages]
  BY DEF TypeOK, NextEntry, Stages

LEMMA InvThrow ==
  ASSUME IInv, NEW c \in Consumers, Throw(c) \/ AcknowledgeFails(c)
  PROVE  IInv'
<1>1. /\ stage[c] \in {"entry", "ack"} /\ NextEntry(c)
      /\ UNCHANGED <<group, life, heard, inbox, unheard, dropped>>
  BY DEF Throw, AcknowledgeFails
<1>2. TypeOK'
  BY <1>1, NextEntryType DEF IInv, TypeOK, group
<1> QED BY <1>1, <1>2, InvNextEntry DEF group

LEMMA InvAcknowledge ==
  ASSUME IInv, NEW c \in Consumers, Acknowledge(c)
  PROVE  IInv'
<1>1. /\ stage[c] = "ack" /\ NextEntry(c) /\ pending' = pending \ {at[c]}
      /\ UNCHANGED <<log, made, cursor, reader, life, heard, inbox, unheard, dropped>>
  BY DEF Acknowledge
<1>2. TypeOK'
  BY <1>1, NextEntryType DEF IInv, TypeOK
<1>3. at[c] \in Delivered \cup unheard \/ Skipped(reader[at[c]], at[c])
  <2>1. at[c] \in Got(c) \cup unheard \/ Skipped(c, at[c])
    BY <1>1 DEF IInv, LoopOf, AckOf
  <2>2. at[c] \in Ids /\ reader[at[c]] = c
    BY <1>1, EntryAt
  <2> QED BY <2>1, <2>2 DEF Got, Delivered
<1> QED BY <1>1, <1>2, <1>3, InvNextEntry

LEMMA InvSkip ==
  ASSUME IInv, NEW c \in Consumers, Skip(c)
  PROVE  IInv'
<1>1. /\ stage[c] = "entry" /\ Skipped(c, at[c]) /\ stage' = [stage EXCEPT ![c] = "ack"]
      /\ UNCHANGED <<group, life, heard, at, upto, inbox, unheard, dropped>>
  BY DEF Skip
<1>2. TypeOK'
  BY <1>1 DEF IInv, TypeOK, Stages, group
<1>3. stage'[c] = "ack"
  BY <1>1 DEF IInv, TypeOK
<1>4. BatchOf(c)' /\ AckOf(c)'
  BY <1>1, <1>3 DEF IInv, LoopOf, BatchOf, AckOf, Holding, Skipped, group
<1>5. Grows
  BY <1>1 DEF IInv, TypeOK, Grows, group
<1>6. \A d \in Consumers \ {c} : Rests(d)
  BY <1>1 DEF IInv, TypeOK, Rests
<1>7. \A e \in Got(c) : e <= at'[c]
  <2>1. \A e \in Got(c) : e \in Nat /\ e < at[c] /\ at[c] \in Nat
    BY <1>1, GotType DEF IInv, TypeOK
  <2> QED BY <1>1, <2>1
<1> QED BY <1>1, <1>2, <1>3, <1>4, <1>5, <1>6, <1>7, InvStage DEF group

LEMMA Longer ==
  ASSUME NEW S, NEW q \in Seq(S), NEW x \in S
  PROVE  /\ Append(q, x) \in Seq(S) /\ DOMAIN q = 1..Len(q) /\ Len(q) \in Nat
         /\ DOMAIN Append(q, x) = 1..Len(q) + 1
         /\ \A i \in 1..Len(q) : Append(q, x)[i] = q[i]
         /\ Append(q, x)[Len(q) + 1] = x
  OBVIOUS

LEMMA InvEmit ==
  ASSUME IInv, NEW c \in Consumers, Emit(c)
  PROVE  IInv'
<1>1. /\ stage[c] = "entry" /\ stage' = [stage EXCEPT ![c] = "ack"]
      /\ UNCHANGED <<group, life, heard, at, upto, dropped>>
      /\ inbox' = IF heard[c] THEN [inbox EXCEPT ![c] = Append(@, at[c])] ELSE inbox
      /\ unheard' = IF heard[c] THEN unheard ELSE unheard \cup {at[c]}
  BY DEF Emit
<1>2. /\ at[c] \in Ids /\ at[c] <= cursor /\ reader[at[c]] = c /\ at[c] \in Nat
  BY <1>1, EntryAt DEF IInv, TypeOK
<1>3. TypeOK'
  <2>1. inbox' \in [Consumers -> Seq(Ids)]
    BY <1>1, <1>2 DEF IInv, TypeOK
  <2>2. unheard' \in SUBSET Ids /\ stage' \in [Consumers -> Stages]
    BY <1>1, <1>2 DEF IInv, TypeOK, Stages
  <2> QED BY <1>1, <2>1, <2>2 DEF IInv, TypeOK, group
<1>4. stage'[c] = "ack" /\ \A d \in Consumers \ {c} : Rests(d)
  BY <1>1 DEF IInv, TypeOK, Rests
<1>5. Grows
  BY <1>1 DEF IInv, TypeOK, Grows, group
<1>6. BatchOf(c)'
  BY <1>1, <1>4 DEF IInv, LoopOf, BatchOf, Holding, group
<1>7. PICK q \in Seq(Ids) : q = inbox[c]
  BY DEF IInv, TypeOK
<1>8. /\ \A e \in Got(c) : e < at[c] /\ e \in Nat /\ e <= cursor /\ reader[e] = c
      /\ \A i, j \in DOMAIN q : i < j => q[i] < q[j]
  BY <1>1, <1>7, GotType DEF IInv, LoopOf, GotOf
<1>9. GotOf(c)' /\ AckOf(c)' /\ Got(c) \subseteq Got(c)'
  <2>1. CASE heard[c]
    <3>1. inbox'[c] = Append(q, at[c])
      BY <1>1, <1>7, <2>1 DEF IInv, TypeOK
    <3>2. Got(c)' = Got(c) \cup {at[c]}
      BY <1>2, <1>7, <3>1, Longer DEF Got
    <3>3. \A i, j \in DOMAIN inbox'[c] : i < j => inbox'[c][i] < inbox'[c][j]
      <4> SUFFICES ASSUME NEW i \in 1..Len(q) + 1, NEW j \in 1..Len(q) + 1, i < j
                   PROVE  Append(q, at[c])[i] < Append(q, at[c])[j]
        BY <1>2, <3>1, Longer
      <4>1. i \in DOMAIN q /\ Append(q, at[c])[i] = q[i]
        BY <1>2, Longer
      <4>2. CASE j = Len(q) + 1
        <5>1. q[i] \in Got(c)
          BY <1>7, <4>1 DEF Got
        <5> QED BY <1>2, <1>8, <4>1, <4>2, <5>1, Longer
      <4>3. CASE j # Len(q) + 1
        <5>1. j \in DOMAIN q /\ Append(q, at[c])[j] = q[j]
          BY <1>2, <4>3, Longer
        <5> QED BY <1>8, <4>1, <5>1
      <4> QED BY <4>2, <4>3
    <3>4. \A e \in Got(c)' : e <= cursor' /\ reader'[e] = c /\ e <= at'[c]
      BY <1>1, <1>2, <1>8, <3>2 DEF group
    <3>5. GotOf(c)'
      BY <1>4, <3>3, <3>4 DEF GotOf
    <3>6. AckOf(c)'
      BY <1>1, <3>2 DEF AckOf
    <3> QED BY <3>2, <3>5, <3>6
  <2>2. CASE ~heard[c]
    <3>1. inbox' = inbox /\ at[c] \in unheard' /\ Got(c)' = Got(c)
      BY <1>1, <2>2 DEF Got
    <3>2. \A e \in Got(c) : e <= at[c]
      BY <1>2, <1>8
    <3>3. GotOf(c)'
      BY <1>1, <1>4, <3>1, <3>2 DEF IInv, LoopOf, GotOf, group
    <3>4. AckOf(c)'
      BY <1>1, <3>1 DEF AckOf
    <3> QED BY <3>1, <3>3, <3>4
  <2> QED BY <2>1, <2>2
<1>10. \A d \in Consumers : Got(d) \subseteq Got(d)'
  BY <1>4, <1>9 DEF Rests, Got
<1>11. Remembered'
  BY <1>1, <1>5, <1>10, RememberedKept DEF IInv, group
<1>12. \A d \in Consumers : LoopOf(d)'
  BY <1>3, <1>4, <1>5, <1>6, <1>9, LoopKept DEF IInv, LoopOf
<1> QED BY <1>1, <1>3, <1>11, <1>12 DEF IInv, GroupInv, group

LEMMA NewOffStep == NewOff /\ TypeOK /\ [Next]_vars => NewOff'
<1> SUFFICES ASSUME NewOff, TypeOK, [Next]_vars PROVE NewOff'
  OBVIOUS
<1> USE DEF NewOff, TypeOK
<1>1. CASE \E entry \in Mail : Publish(entry)
  BY <1>1 DEF Publish
<1>2. ASSUME NEW c \in Consumers, LifeStep(c) PROVE NewOff'
  BY <1>2
  DEF LifeStep, Construct, Subscribe, Unsubscribe, CloseGroup, CloseConnection, Crash
<1>3. ASSUME NEW c \in Consumers, PollStep(c) PROVE NewOff'
  <2>1. PICK now : /\ stage[c] # "off" /\ stage' = [stage EXCEPT ![c] = now]
                   /\ life' = life
    BY <1>3
    DEF PollStep, CreateGroup, LoopAgain, Read, ReadNothing, ReadLost, Skip, Throw,
        Emit, Acknowledge, AcknowledgeFails, NextEntry
  <2> QED BY <2>1
<1>4. CASE UNCHANGED vars
  BY <1>4 DEF vars
<1> QED BY <1>1, <1>2, <1>3, <1>4 DEF Next

LEMMA InvStutter ==
  ASSUME IInv, UNCHANGED vars PROVE IInv'
<1>1. TypeOK' /\ GroupInv'
  BY DEF IInv, TypeOK, GroupInv, vars, group
<1>2. Grows /\ \A c \in Consumers : Rests(c) /\ Got(c)' = Got(c)
  BY DEF IInv, TypeOK, Grows, Rests, Got, vars, group
<1>3. Remembered'
  BY <1>2, RememberedKept DEF IInv, vars, group
<1> QED BY <1>1, <1>2, <1>3, LoopKept DEF IInv

LEMMA InvStep == IInv /\ NewOff /\ [Next]_vars => IInv'
<1> SUFFICES ASSUME IInv, NewOff, [Next]_vars PROVE IInv'
  OBVIOUS
<1>1. ASSUME NEW entry \in Mail, Publish(entry) PROVE IInv'
  BY <1>1, InvPublish
<1>2. ASSUME NEW c \in Consumers, LifeStep(c) PROVE IInv'
  BY <1>2, InvConstruct, InvLife, InvCrash DEF LifeStep
<1>3. ASSUME NEW c \in Consumers, PollStep(c) PROVE IInv'
  BY <1>3, InvCreateGroup, InvBetween, InvRead, InvReadLost, InvSkip, InvThrow,
     InvEmit, InvAcknowledge
  DEF PollStep
<1>4. CASE UNCHANGED vars
  BY <1>4, InvStutter
<1> QED BY <1>1, <1>2, <1>3, <1>4 DEF Next

\* The inductive invariant of the stream's consumers, restarts included: the
\* theorems below and the refinement rest on it.
THEOREM Invariant == Spec => [](IInv /\ NewOff)
<1>1. Init => NewOff
  BY DEF Init, NewOff
<1>2. IInv => TypeOK
  BY DEF IInv
<1> QED BY <1>1, <1>2, InvInit, InvStep, NewOffStep, PTL DEF Spec

(***************************************************************************)
(* What follows.                                                           *)
(***************************************************************************)

\* Every variable keeps its type; the cursor never passes the end of the stream.
THEOREM TypeCorrect == Spec => []TypeOK
<1>1. IInv => TypeOK
  BY DEF IInv
<1> QED BY <1>1, Invariant, PTL

\* Whatever ids the instances have: what was handed out and is not pending any
\* more was dealt with, went with a consumer that was disposed, or was taken by
\* its reader for its own because the two have one id; a crash or a lost reply
\* takes nothing away.
THEOREM NothingIsForgotten == Spec => []NothingForgotten
<1>1. IInv => NothingForgotten
  BY DEF IInv, Remembered, Skipped, NothingForgotten, Mistaken
<1> QED BY <1>1, Invariant, PTL

\* No entry is delivered twice, and every consumer delivers in stream order.
THEOREM OnceInOrder == Spec => []DeliveredOnceInOrder
<1>1. IInv => DeliveredOnceInOrder
  <2> SUFFICES ASSUME IInv PROVE DeliveredOnceInOrder
    OBVIOUS
  <2>1. ASSUME NEW c \in Consumers, NEW i \in DOMAIN inbox[c],
               NEW j \in DOMAIN inbox[c], i < j
        PROVE  inbox[c][i] < inbox[c][j]
    BY <2>1 DEF IInv, LoopOf, GotOf
  <2>2. ASSUME NEW c \in Consumers, NEW d \in Consumers, NEW i \in DOMAIN inbox[c],
               NEW j \in DOMAIN inbox[d], c # d
        PROVE  inbox[c][i] # inbox[d][j]
    <3>1. inbox[c][i] \in Got(c) /\ inbox[d][j] \in Got(d)
      BY DEF Got
    <3>2. reader[inbox[c][i]] = c /\ reader[inbox[d][j]] = d
      BY <3>1, GotType
    <3> QED BY <2>2, <3>2
  <2> QED BY <2>1, <2>2 DEF DeliveredOnceInOrder
<1> QED BY <1>1, Invariant, PTL

(***************************************************************************)
(* RedisStream implements GroupDelivery. The fate of an entry follows from *)
(* the end of the stream, the cursor, and two disjoint sets below it: what *)
(* was delivered, and what some consumer has in hand and has not emitted.  *)
(***************************************************************************)
InHand == {e \in Ids : \E c \in Consumers : e \in Unemitted(c)}

LEMMA UnemittedType ==
  ASSUME IInv, NEW c \in Consumers, NEW e \in Unemitted(c)
  PROVE  e \in Ids /\ e <= cursor /\ reader[e] = c /\ e \notin Got(c)
<1>1. e \in Ids /\ e \in Nat /\ at[c] <= e /\ e <= upto[c] /\ (e = at[c] => stage[c] = "entry")
      /\ e \in Holding(c)
  BY DEF Unemitted, Holding, Ids
<1>2. at[c] \in Nat /\ upto[c] \in Nat /\ cursor \in Nat /\ BatchOf(c)
  BY DEF IInv, TypeOK, LoopOf
<1>3. e <= cursor /\ reader[e] = c /\ stage[c] \in {"entry", "ack"}
  BY <1>1, <1>2 DEF BatchOf
<1>4. e \notin Got(c)
  BY <1>1, <1>2, <1>3, GotType
<1> QED BY <1>1, <1>3, <1>4

LEMMA Divided ==
  ASSUME IInv
  PROVE  /\ \A e \in InHand \cup Delivered : e \in Ids /\ e <= cursor
         /\ InHand \cap Delivered = {}
         /\ \A c, d \in Consumers : c # d => Unemitted(c) \cap Unemitted(d) = {}
         /\ cursor \in Nat /\ Len(log) \in Nat /\ cursor <= Len(log)
<1>1. \A e \in Delivered : \E c \in Consumers : e \in Got(c)
  BY DEF Delivered, Got
<1>2. \A e \in Delivered : e \in Ids /\ e <= cursor
  BY <1>1, GotType
<1>3. \A e \in InHand : \E c \in Consumers : e \in Unemitted(c)
  BY DEF InHand
<1>4. \A e \in InHand : e \in Ids /\ e <= cursor
  BY <1>3, UnemittedType
<1>5. ASSUME NEW e \in InHand, e \in Delivered PROVE FALSE
  <2>1. PICK c \in Consumers : e \in Unemitted(c)
    BY <1>3
  <2>2. PICK d \in Consumers : e \in Got(d)
    BY <1>1, <1>5
  <2>3. c = d
    BY <2>1, <2>2, UnemittedType, GotType
  <2> QED BY <2>1, <2>2, <2>3, UnemittedType
<1>6. \A c, d \in Consumers : c # d => Unemitted(c) \cap Unemitted(d) = {}
  BY UnemittedType
<1> QED BY <1>2, <1>4, <1>5, <1>6 DEF IInv, TypeOK

FateSays(e) ==
  /\ fate[e] = "unpublished" <=> e > Len(log)
  /\ fate[e] = "waiting" <=> cursor < e /\ e <= Len(log)
  /\ fate[e] = "delivered" <=> e \in Delivered
  /\ fate[e] = "taken" <=> e \in InHand
  /\ fate[e] = "abandoned" <=> e <= cursor /\ e \notin Delivered /\ e \notin InHand
  /\ fate[e] \in {"unpublished", "waiting", "delivered", "taken", "abandoned"}

LEMMA FateIs == IInv => \A e \in Ids : FateSays(e)
<1> SUFFICES ASSUME IInv, NEW e \in Ids PROVE FateSays(e)
  OBVIOUS
<1>1. e \in Nat /\ cursor \in Nat /\ Len(log) \in Nat /\ cursor <= Len(log)
  BY Divided DEF Ids
<1>2. (e \in InHand \/ e \in Delivered) => e <= cursor
  BY Divided
<1>3. ~(e \in InHand /\ e \in Delivered)
  BY Divided
<1>4. fate[e] = IF e > Len(log) THEN "unpublished"
                ELSE IF e > cursor THEN "waiting"
                ELSE IF e \in Delivered THEN "delivered"
                ELSE IF e \in InHand THEN "taken"
                ELSE "abandoned"
  BY DEF fate, InHand
<1> HIDE DEF fate
<1>6. CASE e > Len(log)
  BY <1>1, <1>2, <1>4, <1>6 DEF FateSays
<1>7. CASE e <= Len(log) /\ e > cursor
  BY <1>1, <1>2, <1>4, <1>7 DEF FateSays
<1>8. CASE e <= cursor
  <2>1. ~(e > Len(log)) /\ ~(e > cursor)
    BY <1>1, <1>8
  <2> QED BY <1>3, <1>4, <1>8, <2>1 DEF FateSays
<1> QED BY <1>1, <1>6, <1>7, <1>8

LEMMA FateIsNext == IInv' => \A e \in Ids : FateSays(e)'
<1>1. (IInv => \A e \in Ids : FateSays(e))'
  BY FateIs, PTL
<1> QED BY <1>1

LEMMA FateDomain ==
  ASSUME NEW f, \A e \in Ids : fate'[e] = f[e]
  PROVE  fate' = [e \in Ids |-> f[e]]
  BY DEF fate

(***************************************************************************)
(* How the sets change, and which step of GroupDelivery that is.           *)
(***************************************************************************)
StreamRests == UNCHANGED <<cursor, Delivered>> /\ Len(log') = Len(log)

LEMMA MapSame ==
  ASSUME StreamRests, InHand' = InHand
  PROVE  UNCHANGED fate
<1>1. \A e \in Ids : (\E c \in Consumers : e \in Unemitted(c))
                    <=> (\E c \in Consumers : e \in Unemitted(c)')
  BY DEF InHand
<1> QED BY <1>1 DEF StreamRests, fate

LEMMA MapGiveUp ==
  ASSUME IInv, IInv', StreamRests, NEW B \in SUBSET InHand, InHand' = InHand \ B
  PROVE  Abstract!Next
<1>1. \A e \in Ids : FateSays(e) /\ FateSays(e)'
  BY FateIs, FateIsNext
<1>2. B \in SUBSET Ids
  BY DEF InHand
<1>3. \A e \in B : fate[e] = "taken"
  BY <1>1, <1>2 DEF FateSays
<1>4. ASSUME NEW e \in Ids
      PROVE  fate'[e] = IF e \in B THEN "abandoned" ELSE fate[e]
  <2>1. CASE e \in B
    BY <1>1, <2>1, Divided DEF FateSays, StreamRests
  <2>2. CASE e \notin B
    BY <1>1, <2>2 DEF FateSays, StreamRests
  <2> QED BY <2>1, <2>2
<1>5. fate' = [e \in Ids |-> IF e \in B THEN "abandoned" ELSE fate[e]]
  <2>1. PICK f : f = [e \in Ids |-> IF e \in B THEN "abandoned" ELSE fate[e]]
    OBVIOUS
  <2>2. \A e \in Ids : fate'[e] = f[e]
    BY <1>4, <2>1
  <2> HIDE DEF fate
  <2> QED BY <2>1, <2>2, FateDomain
<1> HIDE DEF fate
<1> QED
  BY <1>2, <1>3, <1>4, <1>5 DEF Abstract!Next, Abstract!GiveUp, Abstract!Entries, Ids

LEMMA MapDeliver ==
  ASSUME IInv, IInv', NEW e \in InHand, UNCHANGED cursor, Len(log') = Len(log),
         InHand' = InHand \ {e}, Delivered' = Delivered \cup {e}
  PROVE  Abstract!Next
<1>1. \A d \in Ids : FateSays(d) /\ FateSays(d)'
  BY FateIs, FateIsNext
<1>2. e \in Ids /\ fate[e] = "taken"
  BY <1>1 DEF InHand, FateSays
<1>3. PICK f : f = [fate EXCEPT ![e] = "delivered"]
  OBVIOUS
<1>4. f = [d \in Ids |-> IF d = e THEN "delivered" ELSE fate[d]]
  BY <1>3 DEF fate
<1>5. ASSUME NEW d \in Ids PROVE fate'[d] = f[d]
  <2>1. CASE d = e
    BY <1>1, <1>4, <2>1 DEF FateSays
  <2>2. CASE d # e
    BY <1>1, <1>4, <2>2 DEF FateSays
  <2> QED BY <2>1, <2>2
<1>6. fate' = [d \in Ids |-> f[d]]
  BY <1>5, FateDomain
<1>7. fate' = f
  BY <1>4, <1>6
<1> HIDE DEF fate
<1> QED BY <1>2, <1>3, <1>7 DEF Abstract!Next, Abstract!Deliver, Abstract!Entries, Ids

Batch == {e \in Ids : cursor < e /\ e <= cursor'}

LEMMA BatchFates ==
  ASSUME IInv, IInv', Len(log') = Len(log), Delivered' = Delivered, cursor <= cursor'
  PROVE  /\ \A e \in Batch : e \in Ids /\ fate[e] = "waiting"
         /\ \A e \in Batch : e \in InHand' => fate'[e] = "taken"
         /\ \A e \in Batch : e \notin InHand' => fate'[e] = "abandoned"
         /\ \A e \in Batch : \A f \in Ids : f < e => fate[f] # "waiting" \/ f \in Batch
         /\ \A e \in Ids \ Batch : (e \in InHand' <=> e \in InHand) => fate'[e] = fate[e]
<1>1. \A d \in Ids : FateSays(d) /\ FateSays(d)'
  BY FateIs, FateIsNext
<1>2. cursor \in Nat /\ cursor' \in Nat /\ cursor' <= Len(log) /\ Len(log) \in Nat
  BY DEF IInv, TypeOK
<1>3. \A e \in Ids : e \in Nat
  BY DEF Ids
<1>4. ASSUME NEW e \in Ids PROVE fate[e] = "waiting" <=> cursor < e /\ e <= Len(log)
  BY <1>1 DEF FateSays
<1>5. ASSUME NEW e \in Batch
      PROVE  /\ fate[e] = "waiting" /\ e \in Ids
             /\ e \in InHand' => fate'[e] = "taken"
             /\ e \notin InHand' => fate'[e] = "abandoned"
  <2>1. e \in Ids /\ cursor < e /\ e <= cursor' /\ e <= Len(log)
    BY <1>2, <1>3 DEF Batch
  <2>2. e \notin Delivered
    BY <1>2, <1>3, <2>1, Divided
  <2> QED BY <1>1, <1>4, <2>1, <2>2 DEF FateSays
<1>6. \A e \in Batch : \A f \in Ids : f < e => fate[f] # "waiting" \/ f \in Batch
  BY <1>2, <1>3, <1>4 DEF Batch
<1>7. ASSUME NEW e \in Ids \ Batch, e \in InHand' <=> e \in InHand
      PROVE  fate'[e] = fate[e]
  <2>1. (e <= cursor <=> e <= cursor') /\ (cursor < e <=> cursor' < e)
    BY <1>2, <1>3 DEF Batch
  <2> QED BY <1>1, <1>7, <2>1 DEF FateSays
<1> QED BY <1>5, <1>6, <1>7

LEMMA MapTaken ==
  ASSUME IInv, IInv', Len(log') = Len(log), Delivered' = Delivered, cursor <= cursor',
         InHand' = InHand \cup Batch
  PROVE  Abstract!Next
<1>1. ASSUME NEW e \in Batch PROVE fate[e] = "waiting" /\ fate'[e] = "taken"
  <2>1. e \in InHand'
    OBVIOUS
  <2>2. \A d \in Batch : d \in InHand' => fate'[d] = "taken"
    BY BatchFates
  <2>3. \A d \in Batch : fate[d] = "waiting"
    BY BatchFates
  <2> QED BY <2>1, <2>2, <2>3
<1>2. \A e \in Batch : \A f \in Ids : f < e => fate[f] # "waiting" \/ f \in Batch
  BY BatchFates
<1>3. PICK f : f = [e \in Ids |-> IF e \in Batch THEN "taken" ELSE fate[e]]
  OBVIOUS
<1>4. \A e \in Ids : fate'[e] = f[e]
  BY <1>1, <1>3, BatchFates
<1>5. fate' = f
  BY <1>3, <1>4, FateDomain
<1>6. Batch \in SUBSET Ids
  BY DEF Batch
<1> HIDE DEF fate
<1> QED
  BY <1>1, <1>2, <1>3, <1>5, <1>6 DEF Abstract!Next, Abstract!HandOut, Abstract!Entries, Ids

LEMMA MapLost ==
  ASSUME IInv, IInv', Len(log') = Len(log), Delivered' = Delivered, cursor <= cursor',
         InHand' = InHand
  PROVE  Abstract!Next
<1>0. \A e \in Batch : e \notin InHand
  BY Divided DEF Batch, IInv, TypeOK, Ids
<1>1. ASSUME NEW e \in Batch PROVE fate[e] = "waiting" /\ fate'[e] = "abandoned"
  <2>1. e \notin InHand'
    BY <1>0
  <2>2. \A d \in Batch : d \notin InHand' => fate'[d] = "abandoned"
    BY BatchFates
  <2>3. \A d \in Batch : fate[d] = "waiting"
    BY BatchFates
  <2> QED BY <2>1, <2>2, <2>3
<1>2. \A e \in Batch : \A f \in Ids : f < e => fate[f] # "waiting" \/ f \in Batch
  BY BatchFates
<1>3. PICK f : f = [e \in Ids |-> IF e \in Batch THEN "abandoned" ELSE fate[e]]
  OBVIOUS
<1>4. \A e \in Ids : fate'[e] = f[e]
  BY <1>1, <1>3, BatchFates
<1>5. fate' = f
  BY <1>3, <1>4, FateDomain
<1>6. Batch \in SUBSET Ids
  BY DEF Batch
<1> HIDE DEF fate
<1> QED
  BY <1>1, <1>2, <1>3, <1>5, <1>6 DEF Abstract!Next, Abstract!HandOut, Abstract!Entries, Ids

LEMMA MapPublish ==
  ASSUME IInv, IInv', cursor' = cursor, Delivered' = Delivered, InHand' = InHand,
         Len(log') = Len(log) + 1, Len(log') <= MaxEntries
  PROVE  Abstract!Next
<1>1. \A d \in Ids : FateSays(d) /\ FateSays(d)'
  BY FateIs, FateIsNext
<1>2. cursor \in Nat /\ cursor <= Len(log) /\ Len(log) \in Nat
  BY DEF IInv, TypeOK
<1>3. PICK e \in Ids : e = Len(log) + 1
  BY <1>2, BoundsAssumption DEF Ids
<1>4. \A d \in Ids : d \in Nat
  BY DEF Ids
<1>5. fate[e] = "unpublished" /\ \A d \in Ids : d < e => fate[d] # "unpublished"
  BY <1>1, <1>2, <1>3, <1>4 DEF FateSays
<1>6. PICK f : f = [fate EXCEPT ![e] = "waiting"]
  OBVIOUS
<1>7. f = [d \in Ids |-> IF d = e THEN "waiting" ELSE fate[d]]
  BY <1>6 DEF fate
<1>8. ASSUME NEW d \in Ids PROVE fate'[d] = f[d]
  <2>1. CASE d = e
    BY <1>1, <1>2, <1>3, <1>7, <2>1 DEF FateSays
  <2>2. CASE d # e
    <3>1. d > Len(log) <=> d > Len(log')
      BY <1>2, <1>3, <1>4, <2>2
    <3>2. d <= Len(log) <=> d <= Len(log')
      BY <1>2, <1>3, <1>4, <2>2
    <3>3. fate'[d] = fate[d]
      BY <1>1, <3>1, <3>2 DEF FateSays
    <3> QED BY <1>7, <2>2, <3>3
  <2> QED BY <2>1, <2>2
<1>9. fate' = f
  BY <1>7, <1>8, FateDomain
<1> HIDE DEF fate
<1> QED
  BY <1>3, <1>5, <1>6, <1>9 DEF Abstract!Next, Abstract!Publish, Abstract!Entries, Ids

(***************************************************************************)
(* What consumer c has in hand changes; the others' entries do not.        *)
(***************************************************************************)
LEMMA UnemittedRests ==
  ASSUME NEW c \in Consumers, Rests(c)
  PROVE  Unemitted(c)' = Unemitted(c)
  BY DEF Rests, Unemitted, Holding

LEMMA InHandSame ==
  ASSUME \A d \in Consumers : Unemitted(d)' = Unemitted(d)
  PROVE  InHand' = InHand
  BY DEF InHand

LEMMA InHandLess ==
  ASSUME IInv, NEW c \in Consumers, NEW B \in SUBSET Unemitted(c),
         Unemitted(c)' = Unemitted(c) \ B, \A d \in Consumers \ {c} : Rests(d)
  PROVE  B \in SUBSET InHand /\ InHand' = InHand \ B
<1>1. \A d \in Consumers \ {c} : Unemitted(d)' = Unemitted(d) /\ Unemitted(d) \cap B = {}
  BY Divided, UnemittedRests
<1>2. B \in SUBSET InHand
  BY DEF InHand, Unemitted, Holding
<1>3. ASSUME NEW e \in Ids
      PROVE  e \in InHand' <=> e \in InHand /\ e \notin B
  BY <1>1 DEF InHand
<1>4. InHand' \subseteq Ids /\ InHand \subseteq Ids
  BY DEF InHand
<1> HIDE DEF InHand
<1> QED BY <1>2, <1>3, <1>4

LEMMA NothingInHand ==
  ASSUME IInv, NEW c \in Consumers, stage[c] \notin {"entry", "ack"}
  PROVE  Holding(c) = {} /\ Unemitted(c) = {}
<1>1. at[c] \in Nat /\ upto[c] \in Nat /\ ~(at[c] <= upto[c])
  BY DEF IInv, TypeOK, LoopOf, BatchOf
<1> QED BY <1>1 DEF Holding, Unemitted, Ids

LEMMA DeliveredSame == ASSUME inbox' = inbox PROVE Delivered' = Delivered
  BY DEF Delivered

\* Steps between batches: nobody has more or less in hand.
LEMMA MapQuiet ==
  ASSUME IInv, NEW c \in Consumers,
         Construct(c) \/ Subscribe(c) \/ Unsubscribe(c) \/ CloseGroup(c) \/ CloseConnection(c)
         \/ CreateGroup(c) \/ LoopAgain(c) \/ ReadNothing(c),
         NewOff
  PROVE  UNCHANGED fate
<1>1. /\ UNCHANGED <<log, cursor, at, upto, inbox>>
      /\ stage' = stage \/ (/\ stage[c] \notin {"entry", "ack"} /\ stage'[c] \notin {"entry", "ack"}
                            /\ \A d \in Consumers \ {c} : stage'[d] = stage[d])
  <2>1. CASE Construct(c)
    BY <2>1 DEF Construct, NewOff, IInv, TypeOK, group
  <2>2. CASE Subscribe(c) \/ Unsubscribe(c) \/ CloseGroup(c) \/ CloseConnection(c)
    BY <2>2 DEF Subscribe, Unsubscribe, CloseGroup, CloseConnection, group
  <2>3. CASE CreateGroup(c)
    BY <2>3 DEF CreateGroup, IInv, TypeOK, GroupInv
  <2>4. CASE LoopAgain(c) \/ ReadNothing(c)
    BY <2>4 DEF LoopAgain, ReadNothing, IInv, TypeOK, group
  <2> QED BY <2>1, <2>2, <2>3, <2>4
<1>2. ASSUME NEW d \in Consumers PROVE Unemitted(d)' = Unemitted(d)
  <2>1. CASE stage'[d] = stage[d]
    BY <1>1, <2>1 DEF Unemitted, Holding
  <2>2. CASE stage'[d] # stage[d]
    <3>1. d = c /\ stage[c] \notin {"entry", "ack"}
      BY <1>1, <2>2
    <3>2. Holding(d) = {} /\ Holding(d)' = Holding(d)
      BY <1>1, <3>1, NothingInHand DEF Holding
    <3> QED BY <3>2 DEF Unemitted
  <2> QED BY <2>1, <2>2
<1>3. StreamRests
  BY <1>1, DeliveredSame DEF StreamRests
<1> QED BY <1>2, <1>3, InHandSame, MapSame

\* The step that leaves an entry behind it after it was emitted, or skipped.
LEMMA MapAcknowledge ==
  ASSUME IInv, NEW c \in Consumers, Acknowledge(c) \/ AcknowledgeFails(c)
  PROVE  UNCHANGED fate
<1>1. stage[c] = "ack" /\ NextEntry(c) /\ UNCHANGED <<log, cursor, inbox>>
  BY DEF Acknowledge, AcknowledgeFails, group
<1>2. /\ at'[c] = at[c] + 1 /\ upto'[c] = upto[c] /\ at[c] \in Nat /\ upto[c] \in Nat
      /\ stage'[c] = IF at[c] < upto[c] THEN "entry" ELSE "loop"
      /\ \A d \in Consumers \ {c} : Rests(d)
  BY <1>1 DEF NextEntry, IInv, TypeOK, Rests
<1>3. Unemitted(c)' = Unemitted(c)
  <2>1. ASSUME NEW e \in Ids PROVE e \in Unemitted(c)' <=> e \in Unemitted(c)
    BY <1>1, <1>2, <2>1 DEF Unemitted, Holding, Ids
  <2> QED BY <2>1 DEF Unemitted, Holding
<1>4. \A d \in Consumers : Unemitted(d)' = Unemitted(d)
  BY <1>2, <1>3, UnemittedRests
<1>5. StreamRests
  BY <1>1, DeliveredSame DEF StreamRests
<1> QED BY <1>4, <1>5, InHandSame, MapSame

\* The entry that c is at leaves its hands, and reaches nobody.
LEMMA AtLeaves ==
  ASSUME IInv, NEW c \in Consumers, stage[c] = "entry",
         \/ NextEntry(c)
         \/ UNCHANGED <<at, upto>> /\ stage' = [stage EXCEPT ![c] = "ack"],
         \A d \in Consumers \ {c} : inbox'[d] = inbox[d]
  PROVE  at[c] \in InHand /\ InHand' = InHand \ {at[c]}
<1>1. at[c] \in Ids /\ at[c] <= upto[c] /\ at[c] \in Nat /\ upto[c] \in Nat
  BY EntryAt DEF IInv, TypeOK
<1>2. at[c] \in Unemitted(c)
  BY <1>1 DEF Unemitted, Holding
<1>3. \A d \in Consumers \ {c} : Rests(d)
  BY DEF NextEntry, IInv, TypeOK, Rests
<1>4. /\ upto'[c] = upto[c]
      /\ \/ at'[c] = at[c] + 1 /\ stage'[c] = IF at[c] < upto[c] THEN "entry" ELSE "loop"
         \/ at'[c] = at[c] /\ stage'[c] = "ack"
  BY DEF NextEntry, IInv, TypeOK
<1>5. Unemitted(c)' = Unemitted(c) \ {at[c]}
  <2>1. ASSUME NEW e \in Ids
        PROVE  e \in Unemitted(c)' <=> e \in Unemitted(c) /\ e # at[c]
    BY <1>1, <1>4, <2>1 DEF Unemitted, Holding, Ids
  <2> QED BY <2>1 DEF Unemitted, Holding
<1>6. PICK B \in SUBSET Unemitted(c) : B = {at[c]}
  BY <1>2
<1>7. B \in SUBSET InHand /\ InHand' = InHand \ B
  BY <1>3, <1>5, <1>6, InHandLess
<1> QED BY <1>6, <1>7

LEMMA MapSkip ==
  ASSUME IInv, IInv', NEW c \in Consumers, Skip(c) \/ Throw(c)
  PROVE  Abstract!Next
<1>1. at[c] \in InHand /\ InHand' = InHand \ {at[c]}
  BY AtLeaves DEF Skip, Throw
<1>2. StreamRests
  BY DeliveredSame DEF Skip, Throw, group, StreamRests
<1> QED BY <1>1, <1>2, MapGiveUp

LEMMA MapEmit ==
  ASSUME IInv, IInv', NEW c \in Consumers, Emit(c)
  PROVE  Abstract!Next
<1>1. /\ stage[c] = "entry" /\ stage' = [stage EXCEPT ![c] = "ack"]
      /\ UNCHANGED <<log, cursor, at, upto>>
      /\ inbox' = IF heard[c] THEN [inbox EXCEPT ![c] = Append(@, at[c])] ELSE inbox
  BY DEF Emit, group
<1>2. \A d \in Consumers \ {c} : inbox'[d] = inbox[d]
  BY <1>1 DEF IInv, TypeOK
<1>3. at[c] \in InHand /\ InHand' = InHand \ {at[c]}
  BY <1>1, <1>2, AtLeaves
<1>4. CASE heard[c]
  <2>1. PICK q \in Seq(Ids) : q = inbox[c]
    BY DEF IInv, TypeOK
  <2>2. inbox'[c] = Append(q, at[c]) /\ at[c] \in Ids
    BY <1>1, <1>3, <1>4, <2>1 DEF IInv, TypeOK, InHand
  <2>3. Got(c)' = Got(c) \cup {at[c]}
    BY <2>1, <2>2, Longer DEF Got
  <2>4. \A d \in Consumers \ {c} : Got(d)' = Got(d)
    BY <1>2 DEF Got
  <2>5. ASSUME NEW e \in Ids PROVE e \in Delivered' <=> e \in Delivered \/ e = at[c]
    <3>1. e \in Delivered <=> \E d \in Consumers : e \in Got(d)
      BY DEF Delivered, Got
    <3>2. e \in Delivered' <=> \E d \in Consumers : e \in Got(d)'
      BY DEF Delivered, Got
    <3> QED BY <2>3, <2>4, <3>1, <3>2
  <2>6. Delivered' = Delivered \cup {at[c]}
    <3>1. Delivered' \subseteq Ids /\ Delivered \subseteq Ids
      BY DEF Delivered
    <3> QED BY <2>2, <2>5, <3>1
  <2> QED BY <1>1, <1>3, <2>6, MapDeliver
<1>5. CASE ~heard[c]
  <2>1. StreamRests
    BY <1>1, <1>5, DeliveredSame DEF StreamRests
  <2> QED BY <1>3, <2>1, MapGiveUp
<1> QED BY <1>4, <1>5

LEMMA MapCrash ==
  ASSUME IInv, IInv', NEW c \in Consumers, Crash(c)
  PROVE  Abstract!Next
<1>1. /\ at'[c] = 1 /\ upto'[c] = 0 /\ UNCHANGED <<log, cursor, inbox>>
      /\ \A d \in Consumers \ {c} : Rests(d)
  BY DEF Crash, IInv, TypeOK, Rests, group
<1>2. Unemitted(c)' = {}
  BY <1>1 DEF Unemitted, Holding, Ids
<1>3. Unemitted(c)' = Unemitted(c) \ Unemitted(c)
  BY <1>2
<1>4. PICK B \in SUBSET Unemitted(c) : B = Unemitted(c)
  OBVIOUS
<1>5. B \in SUBSET InHand /\ InHand' = InHand \ B
  BY <1>1, <1>3, <1>4, InHandLess
<1>6. StreamRests
  BY <1>1, DeliveredSame DEF StreamRests
<1> QED BY <1>5, <1>6, MapGiveUp

LEMMA MapReadLost ==
  ASSUME IInv, IInv', NEW c \in Consumers, ReadLost(c)
  PROVE  Abstract!Next
<1>1. /\ stage[c] = "read" /\ cursor < Len(log) /\ HandOut(c, Available)
      /\ stage' = [stage EXCEPT ![c] = "loop"] /\ UNCHANGED <<at, upto, inbox>>
  BY DEF ReadLost
<1>2. log' = log /\ cursor' = cursor + Available /\ Available \in Nat /\ cursor \in Nat
  BY <1>1, Handed DEF IInv, TypeOK
<1>3. Unemitted(c) = {} /\ Holding(c) = {}
  BY <1>1, NothingInHand
<1>4. Unemitted(c)' = Unemitted(c)
  BY <1>1, <1>3 DEF Unemitted, Holding
<1>5. \A d \in Consumers \ {c} : Rests(d)
  BY <1>1 DEF IInv, TypeOK, Rests
<1>6. InHand' = InHand
  BY <1>4, <1>5, UnemittedRests, InHandSame
<1>7. Delivered' = Delivered /\ Len(log') = Len(log) /\ cursor <= cursor'
  BY <1>1, <1>2, DeliveredSame
<1> QED BY <1>6, <1>7, MapLost

LEMMA MapRead ==
  ASSUME IInv, IInv', NEW c \in Consumers, Read(c)
  PROVE  Abstract!Next
<1>1. /\ stage[c] = "read" /\ cursor < Len(log) /\ HandOut(c, Available)
      /\ stage' = [stage EXCEPT ![c] = "entry"]
      /\ at' = [at EXCEPT ![c] = cursor + 1]
      /\ upto' = [upto EXCEPT ![c] = cursor + Available] /\ UNCHANGED inbox
  BY DEF Read
<1>2. log' = log /\ cursor' = cursor + Available /\ Available \in Nat /\ cursor \in Nat
  BY <1>1, Handed DEF IInv, TypeOK
<1>3. Unemitted(c) = {}
  BY <1>1, NothingInHand
<1>4. stage'[c] = "entry" /\ at'[c] = cursor + 1 /\ upto'[c] = cursor'
  BY <1>1, <1>2 DEF IInv, TypeOK
<1>5. Unemitted(c)' = Batch
  <2>1. ASSUME NEW e \in Ids PROVE e \in Unemitted(c)' <=> e \in Batch
    BY <1>2, <1>4, <2>1 DEF Unemitted, Holding, Ids, Batch
  <2> QED BY <2>1 DEF Unemitted, Holding, Batch
<1>6. \A d \in Consumers \ {c} : Unemitted(d)' = Unemitted(d)
  <2>1. \A d \in Consumers \ {c} : Rests(d)
    BY <1>1 DEF IInv, TypeOK, Rests
  <2> QED BY <2>1, UnemittedRests
<1>7. InHand' = InHand \cup Batch
  <2>1. ASSUME NEW e \in Ids PROVE e \in InHand' <=> e \in InHand \/ e \in Batch
    BY <1>3, <1>5, <1>6 DEF InHand
  <2>2. InHand' \subseteq Ids /\ InHand \subseteq Ids /\ Batch \subseteq Ids
    BY DEF InHand, Batch
  <2> HIDE DEF InHand, Batch
  <2> QED BY <2>1, <2>2
<1>8. Delivered' = Delivered /\ Len(log') = Len(log) /\ cursor <= cursor'
  BY <1>1, <1>2, DeliveredSame
<1> QED BY <1>7, <1>8, MapTaken

LEMMA MapPublished ==
  ASSUME IInv, IInv', NEW entry \in Mail, Publish(entry)
  PROVE  Abstract!Next
<1>1. UNCHANGED <<cursor, stage, at, upto, inbox>> /\ log' = Append(log, entry)
  BY DEF Publish
<1>2. \A d \in Consumers : Unemitted(d)' = Unemitted(d)
  BY <1>1 DEF Unemitted, Holding
<1>3. Len(log') = Len(log) + 1 /\ Len(log') <= MaxEntries
  BY <1>1 DEF IInv, TypeOK
<1>4. Delivered' = Delivered /\ InHand' = InHand
  BY <1>1, <1>2, DeliveredSame, InHandSame
<1> QED BY <1>1, <1>3, <1>4, MapPublish

LEMMA MapInit == Init => Abstract!Init
<1> SUFFICES ASSUME Init PROVE Abstract!Init
  OBVIOUS
<1>1. \A e \in Ids : fate[e] = "unpublished"
  BY DEF Init, fate, Ids
<1>2. fate = [e \in Ids |-> "unpublished"]
  BY <1>1 DEF fate
<1> HIDE DEF fate
<1> QED BY <1>2 DEF Abstract!Init, Abstract!Entries, Ids

LEMMA MapStep ==
  IInv /\ IInv' /\ NewOff /\ [Next]_vars => Abstract!Next \/ UNCHANGED fate
<1> SUFFICES ASSUME IInv, IInv', NewOff, [Next]_vars
             PROVE  Abstract!Next \/ UNCHANGED fate
  OBVIOUS
<1>1. ASSUME NEW entry \in Mail, Publish(entry) PROVE Abstract!Next
  BY <1>1, MapPublished
<1>2. ASSUME NEW c \in Consumers, LifeStep(c) PROVE Abstract!Next \/ UNCHANGED fate
  BY <1>2, MapQuiet, MapCrash DEF LifeStep
<1>3. ASSUME NEW c \in Consumers, PollStep(c) PROVE Abstract!Next \/ UNCHANGED fate
  BY <1>3, MapQuiet, MapRead, MapReadLost, MapSkip, MapEmit, MapAcknowledge DEF PollStep
<1>4. CASE UNCHANGED vars
  <2>1. UNCHANGED <<log, cursor, stage, at, upto, inbox>>
    BY <1>4 DEF vars, group
  <2>2. StreamRests /\ \A d \in Consumers : Unemitted(d)' = Unemitted(d)
    BY <2>1, DeliveredSame DEF StreamRests, Unemitted, Holding
  <2> QED BY <2>2, InHandSame, MapSame
<1> QED BY <1>1, <1>2, <1>3, <1>4 DEF Next

\* The poll loops, with the lost replies, crashes and failed acknowledgements,
\* do what a consumer group promises: each entry is handed out once, in order,
\* and delivered at most once or given up.
THEOREM Implements == Spec => ImplementsGroupDelivery
<1>1. IInv /\ IInv' /\ NewOff /\ [Next]_vars => [Abstract!Next]_(Abstract!vars)
  BY MapStep DEF Abstract!vars
<1> QED BY <1>1, MapInit, Invariant, PTL DEF Spec, ImplementsGroupDelivery, Abstract!Spec

================================================================================
