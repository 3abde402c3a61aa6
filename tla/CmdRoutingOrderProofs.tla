------------------------- MODULE CmdRoutingOrderProofs -------------------------
(***************************************************************************)
(* Where the commands of CmdRouting are: in one place each (OnePlace),     *)
(* sent in the order they were queued in (FlushedInOrder), and in boxes    *)
(* that keep what Mailboxes promises (ImplementsMailboxes).                *)
(***************************************************************************)
EXTENDS CmdRoutingProofs, FiniteSetTheorems

USE DestAssumption, MatchesAssumption, RoutesAssumption, NoneAssumption

Once(q) == \A i, j \in DOMAIN q : q[i] = q[j] => i = j

\* c stands before d wherever both are in q.
Ordered(q, c, d) == \A i, j \in DOMAIN q : q[i] = c /\ q[j] = d => i < j

(***************************************************************************)
(* Nothing is in two places, and what has been added is in one.            *)
(***************************************************************************)
Apart(c) ==
  /\ \A q, p \in Commands : Holds(queue[q], c) /\ Holds(queue[p], c) => q = p
  /\ \A f, g \in Flushers : Holds(drained[f], c) /\ Holds(drained[g], c) => f = g
  /\ \A q \in Commands, f \in Flushers : ~(Holds(queue[q], c) /\ Holds(drained[f], c))
  /\ \A q \in Commands : ~(Holds(queue[q], c) /\ Holds(sent, c))
  /\ \A f \in Flushers : ~(Holds(drained[f], c) /\ Holds(sent, c))

Somewhere(c) ==
  \/ \E q \in Commands : Holds(queue[q], c)
  \/ \E f \in Flushers : Holds(drained[f], c)
  \/ Holds(sent, c)

OnceInv ==
  /\ \A q \in Commands : Once(queue[q])
  /\ \A f \in Flushers : Once(drained[f])
  /\ Once(sent)

PlaceInv ==
  /\ OnceInv
  /\ \A c \in Commands : Apart(c)
  /\ \A c \in Commands : stage[c] = "done" => Somewhere(c)

(***************************************************************************)
(* A queue is taken by one flush and never again in _pending.              *)
(***************************************************************************)
TakerInv ==
  /\ \A f \in Flushers :
       flush[f] \in {"idle", "remove"} => taken[f] = None /\ drained[f] = <<>>
  /\ \A f, g \in Flushers : taken[f] # None /\ taken[f] = taken[g] => f = g
  /\ \A f \in Flushers : taken[f] # None =>
       Made(taken[f]) /\ \A n \in Names : pending[n] # taken[f]

(***************************************************************************)
(* What was put on a queue is there, or in the hands of the flush that     *)
(* took the queue, or sent.                                                *)
(***************************************************************************)
JoinedInv ==
  /\ \A q, c \in Commands : Holds(joined[q], c) => stage[c] = "done"
  /\ \A q, c \in Commands : Holds(queue[q], c) => Holds(joined[q], c)
  /\ \A q, p, c \in Commands : Holds(joined[q], c) /\ Holds(joined[p], c) => q = p
  /\ \A q, c \in Commands : \A f \in Flushers :
       Holds(joined[q], c) /\ Holds(drained[f], c) => taken[f] = q

(***************************************************************************)
(* d was queued after c: it is behind c on the queue, in the flush that    *)
(* has c or still on its queue, and sent after c.                          *)
(***************************************************************************)
Before(c, d) ==
  \E q \in Commands : \E i, j \in DOMAIN joined[q] :
    i < j /\ joined[q][i] = c /\ joined[q][j] = d

InOrder(c, d) ==
  /\ \A q \in Commands : Holds(queue[q], c) =>
       Holds(queue[q], d) /\ Ordered(queue[q], c, d)
  /\ \A f \in Flushers : Holds(drained[f], c) =>
       \/ Holds(queue[taken[f]], d)
       \/ Holds(drained[f], d) /\ Ordered(drained[f], c, d)
  /\ Holds(sent, d) => Holds(sent, c) /\ Ordered(sent, c, d)

OrderInv == \A c, d \in Commands : Before(c, d) => InOrder(c, d)

(***************************************************************************)
(* Sequences.                                                              *)
(***************************************************************************)
LEMMA AppendFacts ==
  ASSUME NEW S, NEW q \in Seq(S), NEW x \in S
  PROVE  /\ Len(q) \in Nat /\ DOMAIN q = 1..Len(q)
         /\ DOMAIN Append(q, x) = 1..Len(q) + 1
         /\ \A i \in 1..Len(q) : Append(q, x)[i] = q[i]
         /\ Append(q, x)[Len(q) + 1] = x
<1>1. Append(q, x) \in Seq(S) /\ Len(q) \in Nat /\ DOMAIN q = 1..Len(q)
  OBVIOUS
<1>2. Len(Append(q, x)) = Len(q) + 1
  OBVIOUS
<1>3. \A i \in 1..Len(q) : Append(q, x)[i] = q[i]
  OBVIOUS
<1>4. Append(q, x)[Len(q) + 1] = x
  OBVIOUS
<1> QED BY <1>1, <1>2, <1>3, <1>4

LEMMA AppendOrder ==
  ASSUME NEW S, NEW q \in Seq(S), NEW x \in S
  PROVE  /\ Once(q) /\ ~Holds(q, x) => Once(Append(q, x))
         /\ \A c, d : c # x /\ Ordered(q, c, d) => Ordered(Append(q, x), c, d)
<1>1. PICK n, r : n = Len(q) /\ n \in Nat /\ r = Append(q, x)
  BY AppendFacts
<1>2. /\ DOMAIN q = 1..n /\ DOMAIN r = 1..n + 1 /\ r[n + 1] = x
      /\ \A i \in 1..n : r[i] = q[i]
      /\ \A i \in 1..n + 1 : i \in 1..n \/ i = n + 1
  BY <1>1, AppendFacts
<1>3. ASSUME Once(q), ~Holds(q, x) PROVE Once(r)
  BY <1>2, <1>3 DEF Once, Holds, Positions
<1>4. ASSUME NEW c, NEW d, c # x, Ordered(q, c, d) PROVE Ordered(r, c, d)
  <2> SUFFICES ASSUME NEW i \in 1..n + 1, NEW j \in 1..n + 1, r[i] = c, r[j] = d
               PROVE  i < j
    BY <1>2 DEF Ordered
  <2>1. i \in 1..n
    BY <1>2, <1>4
  <2>2. CASE j = n + 1
    BY <1>1, <2>1, <2>2
  <2>3. CASE j \in 1..n
    BY <1>2, <1>4, <2>1, <2>3 DEF Ordered
  <2> QED BY <1>2, <2>2, <2>3
<1> QED BY <1>1, <1>3, <1>4

LEMMA TailFacts ==
  ASSUME NEW S, NEW q \in Seq(S), q # <<>>
  PROVE  /\ Len(q) \in Nat \ {0} /\ DOMAIN q = 1..Len(q) /\ Head(q) = q[1]
         /\ DOMAIN Tail(q) = 1..Len(q) - 1
         /\ \A i \in 1..Len(q) - 1 : Tail(q)[i] = q[i + 1]
<1>1. Len(q) \in Nat \ {0} /\ DOMAIN q = 1..Len(q) /\ Head(q) = q[1]
  OBVIOUS
<1>2. DOMAIN Tail(q) = 1..Len(q) - 1
  OBVIOUS
<1>3. \A i \in 1..Len(q) - 1 : Tail(q)[i] = q[i + 1]
  OBVIOUS
<1> QED BY <1>1, <1>2, <1>3

LEMMA TailOrder ==
  ASSUME NEW S, NEW q \in Seq(S), q # <<>>
  PROVE  /\ Once(q) => Once(Tail(q)) /\ ~Holds(Tail(q), Head(q))
         /\ \A c, d : Ordered(q, c, d) => Ordered(Tail(q), c, d)
         /\ \A c : Ordered(q, c, Head(q)) => ~Holds(q, c)
<1>1. PICK n, r, x : n = Len(q) /\ n \in Nat \ {0} /\ r = Tail(q) /\ x = Head(q)
  BY TailFacts
<1>2. /\ DOMAIN q = 1..n /\ DOMAIN r = 1..n - 1 /\ x = q[1] /\ 1 \in 1..n
      /\ \A i \in 1..n - 1 : r[i] = q[i + 1] /\ i + 1 \in 1..n /\ i + 1 # 1
      /\ \A i, j \in 1..n - 1 : (i + 1 = j + 1 => i = j) /\ (i + 1 < j + 1 => i < j)
  BY <1>1, TailFacts
<1>3. ASSUME Once(q) PROVE Once(r) /\ ~Holds(r, x)
  BY <1>2, <1>3 DEF Once, Holds, Positions
<1>4. ASSUME NEW c, NEW d, Ordered(q, c, d) PROVE Ordered(r, c, d)
  BY <1>2, <1>4 DEF Ordered
<1>5. ASSUME NEW c, Ordered(q, c, x) PROVE ~Holds(q, c)
  <2>1. \A i \in 1..n : ~(i < 1)
    OBVIOUS
  <2> QED BY <1>2, <1>5, <2>1 DEF Ordered, Holds, Positions
<1> QED BY <1>1, <1>3, <1>4, <1>5

LEMMA NotThere ==
  ASSUME NEW q, NEW c, NEW d, ~Holds(q, c) \/ ~Holds(q, d)
  PROVE  Ordered(q, c, d)
  BY DEF Ordered, Holds, Positions

\* t is s with x at the end, and s is t with x in front.
Pushed(s, t, x) ==
  /\ \A c : Holds(t, c) <=> Holds(s, c) \/ c = x
  /\ Once(s) /\ ~Holds(s, x) => Once(t)
  /\ \A c, d : c # x /\ Ordered(s, c, d) => Ordered(t, c, d)

Popped(s, t, x) ==
  /\ \A c : Holds(s, c) <=> Holds(t, c) \/ c = x
  /\ Once(s) => Once(t) /\ ~Holds(t, x)
  /\ \A c, d : Ordered(s, c, d) => Ordered(t, c, d)
  /\ \A c : Ordered(s, c, x) => ~Holds(s, c)

LEMMA AppendPushes ==
  ASSUME NEW S, NEW q \in Seq(S), NEW x \in S PROVE Pushed(q, Append(q, x), x)
  BY Appended, AppendOrder DEF Pushed

LEMMA TailPops ==
  ASSUME NEW S, NEW q \in Seq(S), q # <<>> PROVE Popped(q, Tail(q), Head(q))
  BY HeadTaken, TailOrder DEF Popped

(***************************************************************************)
(* What the three moving steps do.                                         *)
(***************************************************************************)
Added(c) ==
  /\ stage[c] # "done"
  /\ \A d \in Commands : stage'[d] = "done" <=> stage[d] = "done" \/ d = c

LEMMA EnqueueStep ==
  ASSUME TypeOK, NEW c \in Commands, Enqueue(c)
  PROVE  /\ held[c] \in Commands /\ Added(c)
         /\ UNCHANGED <<pending, flush, taken, drained, sent>>
         /\ Pushed(queue[held[c]], queue'[held[c]], c)
         /\ Pushed(joined[held[c]], joined'[held[c]], c)
         /\ \A q \in Commands : q # held[c] => queue'[q] = queue[q] /\ joined'[q] = joined[q]
         /\ \A a, b : Before(a, b)' => Before(a, b) \/ (b = c /\ Holds(joined[held[c]], a))
<1>1. /\ held[c] \in Commands
      /\ queue \in [Commands -> Seq(Commands)] /\ joined \in [Commands -> Seq(Commands)]
      /\ queue' = [queue EXCEPT ![held[c]] = Append(@, c)]
      /\ joined' = [joined EXCEPT ![held[c]] = Append(@, c)]
  BY DEF TypeOK, Enqueue
<1>2. Added(c) /\ UNCHANGED <<pending, flush, taken, drained, sent>>
  BY DEF TypeOK, Enqueue, Added, flushing
<1>3. /\ queue'[held[c]] = Append(queue[held[c]], c)
      /\ joined'[held[c]] = Append(joined[held[c]], c)
      /\ \A q \in Commands : q # held[c] => queue'[q] = queue[q] /\ joined'[q] = joined[q]
  BY <1>1
<1>4. Pushed(queue[held[c]], queue'[held[c]], c) /\ Pushed(joined[held[c]], joined'[held[c]], c)
  BY <1>1, <1>3, AppendPushes
<1>5. ASSUME NEW a, NEW b, Before(a, b)'
      PROVE  Before(a, b) \/ (b = c /\ Holds(joined[held[c]], a))
  <2>1. PICK q \in Commands : \E i, j \in DOMAIN joined'[q] :
           i < j /\ joined'[q][i] = a /\ joined'[q][j] = b
    BY <1>5 DEF Before
  <2>2. CASE q # held[c]
    BY <1>3, <2>1, <2>2 DEF Before
  <2>3. CASE q = held[c]
    <3>1. PICK n \in Nat, r \in Seq(Commands) : r = joined[q] /\ n = Len(r)
      <4>1. joined[q] \in Seq(Commands)
        BY <1>1
      <4>2. Len(joined[q]) \in Nat
        BY <4>1
      <4> QED BY <4>1, <4>2
    <3>2. /\ DOMAIN r = 1..n /\ DOMAIN joined'[q] = 1..n + 1 /\ joined'[q][n + 1] = c
          /\ \A i \in 1..n : joined'[q][i] = r[i]
      <4>1. joined'[q] = Append(r, c)
        BY <1>3, <2>3, <3>1
      <4>2. /\ DOMAIN r = 1..Len(r) /\ DOMAIN Append(r, c) = 1..Len(r) + 1
            /\ Append(r, c)[Len(r) + 1] = c
            /\ \A i \in 1..Len(r) : Append(r, c)[i] = r[i]
        BY <3>1, AppendFacts
      <4> QED BY <3>1, <4>1, <4>2
    <3>3. PICK i \in 1..n + 1, j \in 1..n + 1 : i < j /\ joined'[q][i] = a /\ joined'[q][j] = b
      BY <2>1, <3>2
    <3>4. i \in 1..n /\ r[i] = a
      BY <3>2, <3>3
    <3>5. CASE j \in 1..n
      BY <3>1, <3>2, <3>3, <3>4, <3>5 DEF Before
    <3>6. CASE j = n + 1
      BY <2>3, <3>1, <3>2, <3>3, <3>4, <3>6 DEF Holds, Positions
    <3> QED BY <3>3, <3>5, <3>6
  <2> QED BY <2>2, <2>3
<1> QED BY <1>1, <1>2, <1>3, <1>4, <1>5

LEMMA DequeueStep ==
  ASSUME TypeOK, NEW f \in Flushers, FlushDequeue(f)
  PROVE  \E x \in Commands :
           /\ taken[f] \in Commands /\ flush[f] = "drain"
           /\ UNCHANGED <<pending, stage, flush, taken, sent, joined>>
           /\ Popped(queue[taken[f]], queue'[taken[f]], x)
           /\ \A q \in Commands : q # taken[f] => queue'[q] = queue[q]
           /\ Pushed(drained[f], drained'[f], x)
           /\ \A g \in Flushers : g # f => drained'[g] = drained[g]
<1>1. /\ taken[f] \in Commands /\ queue \in [Commands -> Seq(Commands)]
      /\ drained \in [Flushers -> Seq(Commands)] /\ queue[taken[f]] # <<>>
      /\ drained' = [drained EXCEPT ![f] = Append(@, Head(queue[taken[f]]))]
      /\ queue' = [queue EXCEPT ![taken[f]] = Tail(@)] /\ flush[f] = "drain"
      /\ UNCHANGED <<pending, stage, flush, taken, sent, joined>>
  BY DEF TypeOK, FlushDequeue, history
<1>2. Head(queue[taken[f]]) \in Commands
  BY <1>1, HeadTaken
<1>3. /\ Popped(queue[taken[f]], queue'[taken[f]], Head(queue[taken[f]]))
      /\ \A q \in Commands : q # taken[f] => queue'[q] = queue[q]
  BY <1>1, TailPops
<1>4. /\ Pushed(drained[f], drained'[f], Head(queue[taken[f]]))
      /\ \A g \in Flushers : g # f => drained'[g] = drained[g]
  BY <1>1, <1>2, AppendPushes
<1> QED BY <1>1, <1>2, <1>3, <1>4

LEMMA SendStep ==
  ASSUME TypeOK, NEW f \in Flushers, FlushSend(f)
  PROVE  \E x \in Commands :
           /\ flush[f] = "send"
           /\ UNCHANGED <<pending, stage, flush, taken, queue, joined>>
           /\ Popped(drained[f], drained'[f], x)
           /\ \A g \in Flushers : g # f => drained'[g] = drained[g]
           /\ Pushed(sent, sent', x)
<1>1. /\ drained \in [Flushers -> Seq(Commands)] /\ drained[f] # <<>> /\ sent \in Seq(Commands)
      /\ sent' = Append(sent, Head(drained[f]))
      /\ drained' = [drained EXCEPT ![f] = Tail(@)] /\ flush[f] = "send"
      /\ UNCHANGED <<pending, stage, flush, taken, queue, joined>>
  BY DEF TypeOK, FlushSend, history
<1>2. Head(drained[f]) \in Commands
  BY <1>1, HeadTaken
<1>3. /\ Popped(drained[f], drained'[f], Head(drained[f]))
      /\ \A g \in Flushers : g # f => drained'[g] = drained[g]
  BY <1>1, TailPops
<1>4. Pushed(sent, sent', Head(drained[f]))
  BY <1>1, <1>2, AppendPushes
<1> QED BY <1>1, <1>2, <1>3, <1>4

LEMMA DispatchStep ==
  ASSUME TypeOK, NEW c \in Commands, NEW ch \in Channels, NEW r \in Routes, Dispatch(c, ch, r)
  PROVE  /\ Added(c) /\ UNCHANGED <<pending, taken, queue, drained, joined>>
         /\ Pushed(sent, sent', c)
<1>1. Added(c) /\ UNCHANGED <<pending, taken, queue, drained, joined>>
  BY DEF TypeOK, Dispatch, Added, StartFlush, Channels, history
<1>2. sent \in Seq(Commands) /\ sent' = Append(sent, c)
  BY DEF TypeOK, Dispatch
<1> QED BY <1>1, <1>2, AppendPushes

(***************************************************************************)
(* Places.                                                                 *)
(***************************************************************************)
LEMMA PlaceStill ==
  ASSUME PlaceInv, UNCHANGED <<queue, drained, sent>>,
         \A d \in Commands : stage'[d] = "done" => stage[d] = "done"
  PROVE  PlaceInv'
<1>1. OnceInv'
  BY DEF PlaceInv, OnceInv
<1>2. \A c \in Commands : Apart(c)'
  BY DEF PlaceInv, Apart
<1>3. \A c \in Commands : stage'[c] = "done" => Somewhere(c)'
  BY DEF PlaceInv, Somewhere
<1> QED BY <1>1, <1>2, <1>3 DEF PlaceInv

LEMMA PlaceEnqueue ==
  ASSUME TypeOK, DoneInv, PlaceInv, NEW c \in Commands, Enqueue(c) PROVE PlaceInv'
<1>1. PICK h \in Commands : h = held[c]
  BY EnqueueStep
<1>2. /\ Added(c) /\ drained' = drained /\ sent' = sent
      /\ Pushed(queue[h], queue'[h], c)
      /\ \A q \in Commands : q # h => queue'[q] = queue[q]
  BY <1>1, EnqueueStep
<1>3. /\ \A q \in Commands : ~Holds(queue[q], c)
      /\ \A f \in Flushers : ~Holds(drained[f], c)
      /\ ~Holds(sent, c)
  BY <1>2 DEF DoneInv, Added
<1>4. \A q, d \in Commands : Holds(queue'[q], d) <=> Holds(queue[q], d) \/ (q = h /\ d = c)
  BY <1>2 DEF Pushed
<1>5. OnceInv'
  BY <1>2, <1>3 DEF PlaceInv, OnceInv, Pushed
<1>6. \A d \in Commands : Apart(d)'
  BY <1>2, <1>3, <1>4 DEF PlaceInv, Apart
<1>7. \A d \in Commands : stage'[d] = "done" => Somewhere(d)'
  BY <1>2, <1>4 DEF PlaceInv, Somewhere, Added
<1> QED BY <1>5, <1>6, <1>7 DEF PlaceInv

LEMMA PlaceDequeue ==
  ASSUME TypeOK, PlaceInv, NEW f \in Flushers, FlushDequeue(f) PROVE PlaceInv'
<1>1. PICK x \in Commands, t \in Commands :
        /\ t = taken[f] /\ stage' = stage /\ sent' = sent
        /\ Popped(queue[t], queue'[t], x)
        /\ \A q \in Commands : q # t => queue'[q] = queue[q]
        /\ Pushed(drained[f], drained'[f], x)
        /\ \A g \in Flushers : g # f => drained'[g] = drained[g]
  BY DequeueStep
<1>2. /\ \A q, d \in Commands : Holds(queue[q], d) <=> Holds(queue'[q], d) \/ (q = t /\ d = x)
      /\ \A g \in Flushers : \A d \in Commands :
           Holds(drained'[g], d) <=> Holds(drained[g], d) \/ (g = f /\ d = x)
  BY <1>1 DEF Popped, Pushed
<1>3. /\ Holds(queue[t], x) /\ \A q \in Commands : ~Holds(queue'[q], x)
      /\ \A g \in Flushers : ~Holds(drained[g], x)
      /\ ~Holds(sent, x)
  <2>1. Holds(queue[t], x) /\ ~Holds(queue'[t], x)
    BY <1>1 DEF Popped, PlaceInv, OnceInv
  <2> QED BY <1>2, <2>1 DEF PlaceInv, Apart
<1>4. OnceInv'
  BY <1>1, <1>3 DEF PlaceInv, OnceInv, Popped, Pushed
<1>5. \A d \in Commands : Apart(d)'
  BY <1>1, <1>2, <1>3 DEF PlaceInv, Apart
<1>6. \A d \in Commands : stage'[d] = "done" => Somewhere(d)'
  BY <1>1, <1>2 DEF PlaceInv, Somewhere
<1> QED BY <1>4, <1>5, <1>6 DEF PlaceInv

LEMMA PlaceSend ==
  ASSUME TypeOK, PlaceInv, NEW f \in Flushers, FlushSend(f) PROVE PlaceInv'
<1>1. PICK x \in Commands :
        /\ stage' = stage /\ queue' = queue
        /\ Popped(drained[f], drained'[f], x)
        /\ \A g \in Flushers : g # f => drained'[g] = drained[g]
        /\ Pushed(sent, sent', x)
  BY SendStep
<1>2. /\ \A g \in Flushers : \A d \in Commands :
           Holds(drained[g], d) <=> Holds(drained'[g], d) \/ (g = f /\ d = x)
      /\ \A d \in Commands : Holds(sent', d) <=> Holds(sent, d) \/ d = x
  BY <1>1 DEF Popped, Pushed
<1>3. /\ Holds(drained[f], x) /\ \A g \in Flushers : ~Holds(drained'[g], x)
      /\ \A q \in Commands : ~Holds(queue[q], x)
      /\ ~Holds(sent, x)
  <2>1. Holds(drained[f], x) /\ ~Holds(drained'[f], x)
    BY <1>1 DEF Popped, PlaceInv, OnceInv
  <2> QED BY <1>2, <2>1 DEF PlaceInv, Apart
<1>4. OnceInv'
  BY <1>1, <1>3 DEF PlaceInv, OnceInv, Popped, Pushed
<1>5. \A d \in Commands : Apart(d)'
  BY <1>1, <1>2, <1>3 DEF PlaceInv, Apart
<1>6. \A d \in Commands : stage'[d] = "done" => Somewhere(d)'
  BY <1>1, <1>2 DEF PlaceInv, Somewhere
<1> QED BY <1>4, <1>5, <1>6 DEF PlaceInv

LEMMA PlaceDispatch ==
  ASSUME TypeOK, DoneInv, PlaceInv, NEW c \in Commands, NEW ch \in Channels, NEW r \in Routes,
         Dispatch(c, ch, r)
  PROVE  PlaceInv'
<1>1. Added(c) /\ queue' = queue /\ drained' = drained /\ Pushed(sent, sent', c)
  BY DispatchStep
<1>2. /\ \A q \in Commands : ~Holds(queue[q], c)
      /\ \A f \in Flushers : ~Holds(drained[f], c)
      /\ ~Holds(sent, c)
  BY <1>1 DEF DoneInv, Added
<1>3. \A d \in Commands : Holds(sent', d) <=> Holds(sent, d) \/ d = c
  BY <1>1 DEF Pushed
<1>4. OnceInv'
  BY <1>1, <1>2 DEF PlaceInv, OnceInv, Pushed
<1>5. \A d \in Commands : Apart(d)'
  BY <1>1, <1>2, <1>3 DEF PlaceInv, Apart
<1>6. \A d \in Commands : stage'[d] = "done" => Somewhere(d)'
  BY <1>1, <1>3 DEF PlaceInv, Somewhere, Added
<1> QED BY <1>4, <1>5, <1>6 DEF PlaceInv

(***************************************************************************)
(* Joined, and the order.                                                  *)
(***************************************************************************)
LEMMA OrderStill ==
  ASSUME JoinedInv, OrderInv, UNCHANGED <<queue, drained, sent, joined>>,
         \A d \in Commands : stage[d] = "done" => stage'[d] = "done",
         \A g \in Flushers : taken'[g] = taken[g] \/ drained[g] = <<>>
  PROVE  JoinedInv' /\ OrderInv'
<1>1. \A g \in Flushers : \A c : Holds(drained[g], c) => taken'[g] = taken[g]
  BY EmptyHolds
<1>2. JoinedInv'
  BY <1>1 DEF JoinedInv
<1>3. ASSUME NEW c \in Commands, NEW d \in Commands, Before(c, d)' PROVE InOrder(c, d)'
  <2>1. Before(c, d)
    BY <1>3 DEF Before
  <2>2. InOrder(c, d)
    BY <2>1 DEF OrderInv
  <2> QED BY <1>1, <2>2 DEF InOrder
<1> QED BY <1>2, <1>3 DEF OrderInv

LEMMA BeforeHolds ==
  ASSUME NEW c, NEW d, Before(c, d)
  PROVE  \E q \in Commands : Holds(joined[q], c) /\ Holds(joined[q], d)
  BY DEF Before, Holds, Positions

LEMMA OrderEnqueue ==
  ASSUME TypeOK, DoneInv, JoinedInv, OrderInv, NEW c \in Commands, Enqueue(c)
  PROVE  JoinedInv' /\ OrderInv'
<1>1. PICK h \in Commands : h = held[c]
  BY EnqueueStep
<1>2. /\ Added(c) /\ UNCHANGED <<taken, drained, sent>>
      /\ Pushed(queue[h], queue'[h], c) /\ Pushed(joined[h], joined'[h], c)
      /\ \A q \in Commands : q # h => queue'[q] = queue[q] /\ joined'[q] = joined[q]
      /\ \A a, b : Before(a, b)' => Before(a, b) \/ (b = c /\ Holds(joined[h], a))
  BY <1>1, EnqueueStep
<1>3. /\ \A q \in Commands : ~Holds(queue[q], c) /\ ~Holds(joined[q], c)
      /\ \A f \in Flushers : ~Holds(drained[f], c)
      /\ ~Holds(sent, c)
  BY <1>2 DEF DoneInv, JoinedInv, Added
<1>4. \A q, d \in Commands :
        /\ Holds(queue'[q], d) <=> Holds(queue[q], d) \/ (q = h /\ d = c)
        /\ Holds(joined'[q], d) <=> Holds(joined[q], d) \/ (q = h /\ d = c)
  BY <1>2 DEF Pushed
<1>5. JoinedInv'
  BY <1>2, <1>3, <1>4 DEF JoinedInv, Added
<1>6. \A q \in Commands : \A a, b : a # c /\ Ordered(queue[q], a, b) => Ordered(queue'[q], a, b)
  BY <1>2 DEF Pushed
<1>7. ASSUME NEW a \in Commands, NEW b \in Commands, Before(a, b)' PROVE InOrder(a, b)'
  <2>1. CASE Before(a, b)
    <3>1. InOrder(a, b) /\ a # c /\ b # c
      BY <1>3, <2>1, BeforeHolds DEF OrderInv
    <3>2. \A q \in Commands : Holds(queue'[q], a) =>
            Holds(queue'[q], b) /\ Ordered(queue'[q], a, b)
      BY <1>4, <1>6, <3>1 DEF InOrder
    <3>3. \A f \in Flushers : Holds(drained[f], a) =>
            Holds(queue'[taken[f]], b) \/ (Holds(drained[f], b) /\ Ordered(drained[f], a, b))
      <4> SUFFICES ASSUME NEW f \in Flushers, Holds(drained[f], a), Holds(queue[taken[f]], b)
                   PROVE  Holds(queue'[taken[f]], b)
        BY <3>1 DEF InOrder
      <4>1. taken[f] \in Commands
        BY <2>1, BeforeHolds DEF JoinedInv
      <4> QED BY <1>4, <4>1
    <3> QED BY <1>2, <3>1, <3>2, <3>3 DEF InOrder
  <2>2. CASE b = c /\ Holds(joined[h], a)
    <3>1. a # c
      BY <1>3, <2>2
    <3>2. \A q \in Commands : Holds(queue'[q], a) => q = h
      BY <1>4, <2>2, <3>1 DEF JoinedInv
    <3>3. Holds(queue'[h], c) /\ Ordered(queue'[h], a, c)
      BY <1>3, <1>4, <1>6, <3>1, NotThere
    <3>4. \A f \in Flushers : Holds(drained[f], a) => taken[f] = h
      BY <2>2 DEF JoinedInv
    <3> QED BY <1>2, <1>3, <2>2, <3>2, <3>3, <3>4 DEF InOrder
  <2> QED BY <1>2, <1>7, <2>1, <2>2
<1> QED BY <1>5, <1>7 DEF OrderInv

LEMMA OrderDequeue ==
  ASSUME TypeOK, PlaceInv, TakerInv, JoinedInv, OrderInv, NEW f \in Flushers, FlushDequeue(f)
  PROVE  JoinedInv' /\ OrderInv'
<1>1. PICK x \in Commands, t \in Commands :
        /\ t = taken[f] /\ UNCHANGED <<stage, taken, sent, joined>>
        /\ Popped(queue[t], queue'[t], x)
        /\ \A q \in Commands : q # t => queue'[q] = queue[q]
        /\ Pushed(drained[f], drained'[f], x)
        /\ \A g \in Flushers : g # f => drained'[g] = drained[g]
  BY DequeueStep
<1>2. /\ \A q, d \in Commands : Holds(queue[q], d) <=> Holds(queue'[q], d) \/ (q = t /\ d = x)
      /\ \A g \in Flushers : \A d \in Commands :
           Holds(drained'[g], d) <=> Holds(drained[g], d) \/ (g = f /\ d = x)
  BY <1>1 DEF Popped, Pushed
<1>3. Holds(queue[t], x) /\ ~Holds(queue'[t], x) /\ ~Holds(drained[f], x)
  <2>1. Holds(queue[t], x) /\ ~Holds(queue'[t], x)
    BY <1>1 DEF Popped, PlaceInv, OnceInv
  <2> QED BY <2>1 DEF PlaceInv, Apart
<1>4. JoinedInv'
  <2>1. Holds(joined[t], x) /\ \A q \in Commands : Holds(joined[q], x) => q = t
    BY <1>3 DEF JoinedInv
  <2> QED BY <1>1, <1>2, <2>1 DEF JoinedInv
<1>5. \A g \in Flushers : g # f => taken[g] # t
  BY <1>1 DEF TakerInv, TypeOK
<1>6. ASSUME NEW c \in Commands, NEW d \in Commands, Before(c, d)' PROVE InOrder(c, d)'
  <2>1. InOrder(c, d)
    BY <1>1, <1>6 DEF OrderInv, Before
  <2>2. ASSUME NEW q \in Commands, Holds(queue'[q], c)
        PROVE  Holds(queue'[q], d) /\ Ordered(queue'[q], c, d)
    <3>1. Holds(queue[q], c) /\ Holds(queue[q], d) /\ Ordered(queue[q], c, d)
      BY <1>2, <2>1, <2>2 DEF InOrder
    <3>2. q = t => d # x
      BY <1>1, <3>1 DEF Popped
    <3> QED BY <1>1, <1>2, <3>1, <3>2 DEF Popped
  <2>3. ASSUME NEW g \in Flushers, Holds(drained'[g], c)
        PROVE  Holds(queue'[taken[g]], d) \/ (Holds(drained'[g], d) /\ Ordered(drained'[g], c, d))
    <3>1. CASE g # f
      <4>1. taken[g] \in Commands
        <5>1. Before(c, d)
          BY <1>1, <1>6 DEF Before
        <5>2. PICK q \in Commands : Holds(joined[q], c)
          BY <5>1, BeforeHolds
        <5>3. Holds(drained[g], c)
          BY <1>1, <2>3, <3>1
        <5> QED BY <5>2, <5>3 DEF JoinedInv
      <4>2. queue'[taken[g]] = queue[taken[g]] /\ drained'[g] = drained[g]
        BY <1>1, <1>5, <3>1, <4>1
      <4> QED BY <2>1, <2>3, <4>2 DEF InOrder
    <3>2. CASE g = f /\ c = x
      <4>1. Holds(queue[t], d) /\ d # x
        BY <1>1, <1>3, <2>1, <3>2 DEF InOrder, Popped
      <4> QED BY <1>1, <1>2, <3>2, <4>1
    <3>3. CASE g = f /\ c # x
      <4>1. Holds(drained[f], c)
        BY <1>2, <2>3, <3>3
      <4>2. CASE Holds(queue[t], d) /\ d # x
        BY <1>1, <1>2, <3>3, <4>2
      <4>3. CASE d = x
        BY <1>1, <1>2, <1>3, <3>3, <4>3, NotThere DEF Pushed
      <4>4. CASE Holds(drained[f], d) /\ Ordered(drained[f], c, d)
        BY <1>1, <1>2, <3>3, <4>4 DEF Pushed
      <4> QED BY <1>1, <2>1, <4>1, <4>2, <4>3, <4>4 DEF InOrder
    <3> QED BY <3>1, <3>2, <3>3
  <2> QED BY <1>1, <2>1, <2>2, <2>3 DEF InOrder
<1> QED BY <1>4, <1>6 DEF OrderInv

LEMMA OrderSend ==
  ASSUME TypeOK, PlaceInv, TakerInv, JoinedInv, OrderInv, NEW f \in Flushers, FlushSend(f)
  PROVE  JoinedInv' /\ OrderInv'
<1>1. PICK x \in Commands :
        /\ UNCHANGED <<stage, taken, queue, joined>>
        /\ Popped(drained[f], drained'[f], x)
        /\ \A g \in Flushers : g # f => drained'[g] = drained[g]
        /\ Pushed(sent, sent', x)
  BY SendStep
<1>2. /\ \A g \in Flushers : \A d \in Commands :
           Holds(drained[g], d) <=> Holds(drained'[g], d) \/ (g = f /\ d = x)
      /\ \A d \in Commands : Holds(sent', d) <=> Holds(sent, d) \/ d = x
  BY <1>1 DEF Popped, Pushed
<1>3. /\ Holds(drained[f], x) /\ ~Holds(sent, x)
      /\ \A q \in Commands : ~Holds(queue[q], x)
  <2>1. Holds(drained[f], x)
    BY <1>1 DEF Popped
  <2> QED BY <2>1 DEF PlaceInv, Apart
<1>4. JoinedInv'
  BY <1>1, <1>2 DEF JoinedInv
<1>5. ASSUME NEW c \in Commands, NEW d \in Commands, Before(c, d)' PROVE InOrder(c, d)'
  <2>1. Before(c, d) /\ InOrder(c, d)
    BY <1>1, <1>5 DEF OrderInv, Before
  <2>2. ASSUME NEW g \in Flushers, Holds(drained'[g], c)
        PROVE  Holds(queue[taken[g]], d) \/ (Holds(drained'[g], d) /\ Ordered(drained'[g], c, d))
    <3>1. CASE g # f
      BY <1>1, <2>1, <2>2, <3>1 DEF InOrder
    <3>2. CASE g = f
      <4>1. Holds(drained[f], c)
        BY <1>2, <2>2, <3>2
      <4>2. CASE Holds(drained[f], d) /\ Ordered(drained[f], c, d)
        BY <1>1, <1>2, <3>2, <4>1, <4>2 DEF Popped
      <4> QED BY <2>1, <3>2, <4>1, <4>2 DEF InOrder
    <3> QED BY <3>1, <3>2
  <2>3. ASSUME Holds(sent', d) PROVE Holds(sent', c) /\ Ordered(sent', c, d)
    <3>1. CASE Holds(sent, d)
      <4>1. Holds(sent, c) /\ Ordered(sent, c, d) /\ c # x
        BY <1>3, <2>1, <3>1 DEF InOrder
      <4> QED BY <1>1, <1>2, <4>1 DEF Pushed
    <3>2. CASE d = x
      <4>1. PICK q \in Commands : Holds(joined[q], c) /\ Holds(joined[q], x)
        BY <2>1, <3>2, BeforeHolds
      <4>2. taken[f] = q
        BY <1>3, <4>1 DEF JoinedInv
      <4>3. Somewhere(c)
        BY <4>1 DEF JoinedInv, PlaceInv
      <4>4. \A p \in Commands : ~Holds(queue[p], c)
        BY <1>3, <2>1, <3>2 DEF InOrder
      <4>5. \A g \in Flushers : ~Holds(drained[g], c)
        <5> SUFFICES ASSUME NEW g \in Flushers, Holds(drained[g], c) PROVE FALSE
          OBVIOUS
        <5>1. taken[g] = q
          BY <4>1 DEF JoinedInv
        <5>2. g = f
          BY <4>2, <5>1 DEF TakerInv
        <5>3. Ordered(drained[f], c, x)
          BY <1>3, <2>1, <3>2, <4>2, <5>2 DEF InOrder
        <5> QED BY <1>1, <5>2, <5>3 DEF Popped
      <4>6. Holds(sent, c) /\ c # x
        BY <1>3, <4>3, <4>4, <4>5 DEF Somewhere
      <4>7. Ordered(sent, c, x)
        BY <1>3, NotThere
      <4> QED BY <1>1, <1>2, <3>2, <4>6, <4>7 DEF Pushed
    <3> QED BY <1>2, <2>3, <3>1, <3>2
  <2> QED BY <1>1, <2>1, <2>2, <2>3 DEF InOrder
<1> QED BY <1>4, <1>5 DEF OrderInv

LEMMA OrderDispatch ==
  ASSUME TypeOK, DoneInv, JoinedInv, OrderInv, NEW c \in Commands, NEW ch \in Channels,
         NEW r \in Routes, Dispatch(c, ch, r)
  PROVE  JoinedInv' /\ OrderInv'
<1>1. Added(c) /\ UNCHANGED <<taken, queue, drained, joined>> /\ Pushed(sent, sent', c)
  BY DispatchStep
<1>2. JoinedInv'
  BY <1>1 DEF JoinedInv, Added
<1>3. ASSUME NEW a \in Commands, NEW b \in Commands, Before(a, b)' PROVE InOrder(a, b)'
  <2>1. Before(a, b) /\ InOrder(a, b)
    BY <1>1, <1>3 DEF OrderInv, Before
  <2>2. a # c /\ b # c
    BY <1>1, <2>1, BeforeHolds DEF JoinedInv, Added
  <2>3. Holds(sent', b) => Holds(sent', a) /\ Ordered(sent', a, b)
    BY <1>1, <2>1, <2>2 DEF InOrder, Pushed
  <2> QED BY <1>1, <2>1, <2>3 DEF InOrder
<1> QED BY <1>2, <1>3 DEF OrderInv

(***************************************************************************)
(* Who takes queues.                                                       *)
(***************************************************************************)
LEMMA TakerStill ==
  ASSUME TakerInv, UNCHANGED taken,
         \A q \in Commands : Made(q) => MadeNext(q),
         \A n \in Names : pending'[n] # pending[n] => ~Made(pending'[n]),
         \A g \in Flushers : drained[g] = <<>> => drained'[g] = <<>> \/ flush'[g] = "drain",
         \A g \in Flushers : flush'[g] \in {"idle", "remove"} => flush[g] \in {"idle", "remove"},
         \A g \in Flushers : taken[g] # None => taken[g] \in Commands
  PROVE  TakerInv'
<1>1. \A f \in Flushers : taken[f] # None =>
        MadeNext(taken[f]) /\ \A n \in Names : pending'[n] # taken[f]
  BY DEF TakerInv
<1> QED BY <1>1 DEF TakerInv, Made, MadeNext

LEMMA TakerAdd ==
  ASSUME TypeOK, AddInv, TakerInv, NEW c \in Commands, Track(c) \/ Add(c) PROVE TakerInv'
<1> USE DEF TypeOK, Made, MadeNext
<1>1. CASE Track(c) \/ \E ch \in Channels : NoRoute(c, ch)
  <2>1. UNCHANGED <<pending, flush, taken, drained>>
    BY <1>1 DEF Track, NoRoute, flushing
  <2>2. \A q \in Commands : Made(q) => MadeNext(q)
    BY <1>1 DEF Track, NoRoute, Channels
  <2> QED BY <2>1, <2>2, TakerStill
<1>2. ASSUME NEW ch \in Channels, NEW r \in Routes, Dispatch(c, ch, r) PROVE TakerInv'
  <2>1. UNCHANGED <<pending, taken, drained>>
    BY <1>2, DispatchStep
  <2>2. \A q \in Commands : Made(q) => MadeNext(q)
    BY <1>2 DEF Dispatch
  <2>3. /\ stage[c] # "done" /\ <<"add", c>> \in Flushers
        /\ flush' = [flush EXCEPT ![<<"add", c>>] = "remove"]
    BY <1>2, FlusherKinds DEF Dispatch, StartFlush, Channels
  <2>4. flush[<<"add", c>>] = "idle"
    BY <2>3 DEF AddInv
  <2>5. \A g \in Flushers : flush'[g] \in {"idle", "remove"} => flush[g] \in {"idle", "remove"}
    BY <2>3, <2>4
  <2> QED BY <2>1, <2>2, <2>5, TakerStill
<1>3. CASE GetOrAddQueue(c)
  <2>1. UNCHANGED <<flush, taken, drained>>
    BY <1>3 DEF GetOrAddQueue, flushing
  <2>2. \A q \in Commands : Made(q) => MadeNext(q)
    BY <1>3 DEF GetOrAddQueue
  <2>3. \A n \in Names : pending'[n] # pending[n] => ~Made(pending'[n])
    BY <1>3 DEF GetOrAddQueue
  <2> QED BY <2>1, <2>2, <2>3, TakerStill
<1>4. CASE Enqueue(c)
  <2>1. UNCHANGED <<pending, flush, taken, drained>>
    BY <1>4 DEF Enqueue, flushing
  <2>2. \A q \in Commands : Made(q) => MadeNext(q)
    BY <1>4 DEF Enqueue
  <2> QED BY <2>1, <2>2, TakerStill
<1> QED BY <1>1, <1>2, <1>3, <1>4 DEF Add

LEMMA TakerFlush ==
  ASSUME TypeOK, QueueInv, TakerInv, NEW f \in Flushers, FlushCommands(f) PROVE TakerInv'
<1>1. CASE FlushRemove(f)
  <2>1. PICK t \in Commands : t = pending[key[f]]
    BY <1>1 DEF FlushRemove, TypeOK
  <2>2. /\ key[f] \in Names /\ flush[f] = "remove"
        /\ stage' = stage /\ drained' = drained
        /\ taken'[f] = t /\ \A g \in Flushers : g # f => taken'[g] = taken[g]
        /\ flush'[f] = "drain" /\ \A g \in Flushers : g # f => flush'[g] = flush[g]
        /\ pending'[key[f]] = None /\ \A n \in Names : n # key[f] => pending'[n] = pending[n]
    BY <1>1, <2>1 DEF FlushRemove, TypeOK
  <2>3. Made(t) /\ \A n \in Names : pending[n] = t => n = key[f]
    BY <2>1, <2>2 DEF QueueInv
  <2>4. \A g \in Flushers : taken[g] # t
    BY <2>1, <2>2 DEF TakerInv
  <2>5. \A n \in Names : pending'[n] # t
    BY <2>2, <2>3
  <2>6. \A g \in Flushers : taken[g] # None =>
          Made(taken[g]) /\ \A n \in Names : pending'[n] # taken[g]
    BY <2>2 DEF TakerInv
  <2>7. \A q : Made(q) => Made(q)'
    BY <2>2 DEF Made
  <2>8. \A g \in Flushers : flush'[g] \in {"idle", "remove"} => taken'[g] = None /\ drained'[g] = <<>>
    BY <2>2 DEF TakerInv
  <2>9. \A g, h \in Flushers : taken'[g] # None /\ taken'[g] = taken'[h] => g = h
    BY <2>2, <2>4 DEF TakerInv
  <2>10. \A g \in Flushers : taken'[g] # None =>
           Made(taken'[g]) /\ \A n \in Names : pending'[n] # taken'[g]
    BY <2>2, <2>3, <2>5, <2>6
  <2> QED BY <2>2, <2>8, <2>9, <2>10 DEF TakerInv, Made
<1>2. CASE FlushNothing(f) \/ FlushDequeue(f) \/ FlushEmpty(f) \/ FlushSend(f)
  <2>1. UNCHANGED <<pending, taken, stage>>
    BY <1>2 DEF FlushNothing, FlushDequeue, FlushEmpty, FlushSend
  <2>2. \A g \in Flushers : /\ drained[g] = <<>> => drained'[g] = <<>> \/ flush'[g] = "drain"
                            /\ flush'[g] \in {"idle", "remove"} => flush[g] \in {"idle", "remove"}
    BY <1>2 DEF FlushNothing, FlushDequeue, FlushEmpty, FlushSend, TypeOK
  <2>3. \A g \in Flushers : taken[g] # None => taken[g] \in Commands
    BY DEF TypeOK
  <2>4. \A q \in Commands : Made(q) => MadeNext(q)
    BY <2>1 DEF Made, MadeNext
  <2> QED BY <2>1, <2>2, <2>3, <2>4, TakerStill
<1>3. CASE FlushEnd(f)
  <2>1. /\ UNCHANGED <<pending, stage, drained>> /\ drained[f] = <<>>
        /\ taken'[f] = None /\ flush'[f] = "idle"
        /\ \A g \in Flushers : g # f => taken'[g] = taken[g] /\ flush'[g] = flush[g]
    BY <1>3 DEF FlushEnd, TypeOK
  <2> QED BY <2>1 DEF TakerInv, Made
<1> QED BY <1>1, <1>2, <1>3 DEF FlushCommands

\* What the other steps do to what is proved here: nothing.
Aside ==
  /\ UNCHANGED <<pending, stage, queue, taken, drained, sent, joined>>
  /\ \A g \in Flushers : flush'[g] \in {"idle", "remove"} => flush[g] \in {"idle", "remove"}

LEMMA AsideSteps ==
  ASSUME TypeOK
  PROVE  /\ \A c \in Asked : ResolveAndForget(c) => Aside
         /\ \A r \in OnSignalR : RegisterSignalR(r) => Aside
         /\ \A r \in OnRedis : RegisterRedis(r) => Aside
         /\ \A ch, r : RemoveRoute(ch, r) => Aside
         /\ \A r \in Polled : Poll(r) => Aside
         /\ UNCHANGED vars => Aside
<1>1. ASSUME NEW f \in Flushers, NEW r \in Names, flush[f] = "idle", StartFlush(f, r)
      PROVE  /\ UNCHANGED <<taken, drained>>
             /\ \A g \in Flushers :
                  flush'[g] \in {"idle", "remove"} => flush[g] \in {"idle", "remove"}
  BY <1>1 DEF StartFlush, TypeOK
<1>2. ASSUME NEW r \in OnSignalR, RegisterSignalR(r) PROVE Aside
  BY <1>1, <1>2, FlusherKinds DEF RegisterSignalR, Aside
<1>3. ASSUME NEW r \in Polled, Poll(r) PROVE Aside
  BY <1>1, <1>3, FlusherKinds DEF Poll, Aside, history
<1>4. /\ \A c \in Asked : ResolveAndForget(c) => Aside
      /\ \A r \in OnRedis : RegisterRedis(r) => Aside
      /\ \A ch, r : RemoveRoute(ch, r) => Aside
      /\ UNCHANGED vars => Aside
  BY DEF ResolveAndForget, RegisterRedis, RemoveRoute, vars, Aside, flushing, history
<1> QED BY <1>2, <1>3, <1>4

LEMMA OtherSteps ==
  /\ \A c : Track(c) \/ GetOrAddQueue(c) \/ (\E ch \in Channels : NoRoute(c, ch))
       => UNCHANGED <<queue, taken, drained, sent, joined>>
  /\ \A f : FlushRemove(f) \/ FlushNothing(f) \/ FlushEmpty(f) \/ FlushEnd(f)
       => UNCHANGED <<queue, stage, drained, sent, joined>>
  BY DEF Track, GetOrAddQueue, NoRoute, FlushRemove, FlushNothing, FlushEmpty, FlushEnd,
         flushing, history

\* What the moving of commands has to keep.
MoveInv == PlaceInv /\ JoinedInv /\ OrderInv

LEMMA MoveStep == IInv /\ TakerInv /\ MoveInv /\ [Next]_vars => MoveInv'
<1> SUFFICES ASSUME TypeOK, DoneInv, TakerInv, PlaceInv, JoinedInv, OrderInv, [Next]_vars
             PROVE  MoveInv'
  BY DEF IInv, MoveInv
<1>1. ASSUME NEW c \in Commands,
             Track(c) \/ GetOrAddQueue(c) \/ (\E ch \in Channels : NoRoute(c, ch))
      PROVE  MoveInv'
  <2>1. \A d \in Commands : stage[d] = "done" <=> stage'[d] = "done"
    BY <1>1 DEF Track, GetOrAddQueue, NoRoute, TypeOK, Channels
  <2> QED BY <1>1, <2>1, OtherSteps, PlaceStill, OrderStill DEF MoveInv
<1>2. ASSUME NEW c \in Commands, NEW ch \in Channels, NEW r \in Routes, Dispatch(c, ch, r)
      PROVE  MoveInv'
  BY <1>2, PlaceDispatch, OrderDispatch DEF MoveInv
<1>3. ASSUME NEW c \in Commands, Enqueue(c) PROVE MoveInv'
  BY <1>3, PlaceEnqueue, OrderEnqueue DEF MoveInv
<1>4. ASSUME NEW f \in Flushers, FlushDequeue(f) PROVE MoveInv'
  BY <1>4, PlaceDequeue, OrderDequeue DEF MoveInv
<1>5. ASSUME NEW f \in Flushers, FlushSend(f) PROVE MoveInv'
  BY <1>5, PlaceSend, OrderSend DEF MoveInv
<1>6. ASSUME NEW f \in Flushers, FlushRemove(f) \/ FlushNothing(f) \/ FlushEmpty(f) \/ FlushEnd(f)
      PROVE  MoveInv'
  <2>1. UNCHANGED <<queue, stage, drained, sent, joined>>
    BY <1>6, OtherSteps
  <2>2. \A g \in Flushers : taken'[g] = taken[g] \/ drained[g] = <<>>
    BY <1>6 DEF FlushRemove, FlushNothing, FlushEmpty, FlushEnd, TypeOK, TakerInv
  <2> QED BY <2>1, <2>2, PlaceStill, OrderStill DEF MoveInv
<1>7. CASE Aside
  <2>1. UNCHANGED <<queue, taken, stage, drained, sent, joined>>
    BY <1>7 DEF Aside
  <2> QED BY <2>1, PlaceStill, OrderStill DEF MoveInv
<1> QED BY <1>1, <1>2, <1>3, <1>4, <1>5, <1>6, <1>7, AsideSteps DEF Next, Add, FlushCommands

LEMMA TakerStep == IInv /\ TakerInv /\ [Next]_vars => TakerInv'
<1> SUFFICES ASSUME TypeOK, AddInv, QueueInv, TakerInv, [Next]_vars PROVE TakerInv'
  BY DEF IInv
<1>1. CASE Aside
  <2>1. \A g \in Flushers : taken[g] # None => taken[g] \in Commands
    BY DEF TypeOK
  <2> QED BY <1>1, <2>1, TakerStill DEF Aside, Made, MadeNext
<1> QED BY <1>1, TakerAdd, TakerFlush, AsideSteps DEF Next

(***************************************************************************)
(* Theorems.                                                               *)
(***************************************************************************)
FullInv == IInv /\ TakerInv /\ MoveInv

LEMMA InitFull == Init => FullInv
<1> SUFFICES ASSUME Init PROVE FullInv
  OBVIOUS
<1>1. /\ \A q \in Commands : queue[q] = <<>> /\ joined[q] = <<>> /\ stage[q] = "new"
      /\ \A f \in Flushers : drained[f] = <<>> /\ taken[f] = None
      /\ sent = <<>> /\ DOMAIN <<>> = {}
  BY DEF Init
<1>2. TakerInv
  BY <1>1 DEF TakerInv
<1>3. PlaceInv
  BY <1>1, EmptyHolds DEF PlaceInv, OnceInv, Once, Apart
<1>4. JoinedInv /\ OrderInv
  BY <1>1, EmptyHolds DEF JoinedInv, OrderInv, Before
<1> QED BY <1>2, <1>3, <1>4, InitInv DEF FullInv, MoveInv

\* Where commands are, who has taken which queue, and the order on both.
THEOREM InvariantOfOrder == Spec => []FullInv
<1>1. FullInv /\ IInv' /\ [Next]_vars => FullInv'
  BY TakerStep, MoveStep DEF FullInv
<1> QED BY InitFull, Invariant, <1>1, PTL DEF Spec

\* FlushedInOrder: commands that were put on the queue of a route leave it, and
\* go out, in that order, whichever flush takes the queue and whatever is sent
\* and flushed next to it.
THEOREM SentInOrder == Spec => []FlushedInOrder
<1>1. FullInv => FlushedInOrder
  <2> SUFFICES ASSUME FullInv, NEW q \in Commands,
                      NEW i \in DOMAIN joined[q], NEW j \in DOMAIN joined[q], i < j,
                      NEW n \in Positions(sent, joined[q][j])
               PROVE  \E m \in Positions(sent, joined[q][i]) : m < n
    BY DEF FlushedInOrder
  <2>1. PICK r \in Seq(Commands) : r = joined[q]
    BY DEF FullInv, IInv, TypeOK
  <2>2. r[i] \in Commands /\ r[j] \in Commands
    BY <2>1
  <2>3. Before(r[i], r[j])
    BY <2>1 DEF Before
  <2>4. Holds(sent, r[j]) => Holds(sent, r[i]) /\ Ordered(sent, r[i], r[j])
    BY <2>2, <2>3 DEF FullInv, MoveInv, OrderInv, InOrder
  <2> QED BY <2>1, <2>4 DEF Holds, Ordered, Positions
<1> QED BY InvariantOfOrder, <1>1, PTL

LEMMA PairSets ==
  /\ \A a, b : {a} \X {b} = {<<a, b>>}
  /\ \A a : {a} \X {} = {}
  OBVIOUS

\* Those that have c, with its positions there.
Found(A, q, c) == UNION {{a} \X Positions(q[a], c) : a \in A}

LEMMA FoundNowhere ==
  ASSUME NEW A, NEW q, NEW c, \A a \in A : ~Holds(q[a], c)
  PROVE  Found(A, q, c) = {}
<1>1. \A a \in A : {a} \X Positions(q[a], c) = {}
  BY PairSets DEF Holds
<1> QED BY <1>1 DEF Found

LEMMA OnePosition ==
  ASSUME NEW q, NEW c, Once(q), Holds(q, c)
  PROVE  \E i : Positions(q, c) = {i}
<1>1. PICK i : i \in Positions(q, c)
  BY DEF Holds
<1>2. Positions(q, c) = {i}
  BY <1>1 DEF Once, Positions
<1> QED BY <1>2

LEMMA QueueFound ==
  ASSUME OnceInv, NEW c \in Commands, Apart(c), NEW q \in Commands, Holds(queue[q], c)
  PROVE  \E x : Found(Commands, queue, c) = {x}
<1>1. PICK i : Positions(queue[q], c) = {i}
  BY OnePosition DEF OnceInv
<1>2. /\ {q} \X Positions(queue[q], c) = {<<q, i>>}
      /\ \A p \in Commands : p # q => {p} \X Positions(queue[p], c) = {}
  BY <1>1, PairSets DEF Apart, Holds
<1>3. Found(Commands, queue, c) = {<<q, i>>}
  BY <1>2 DEF Found
<1> QED BY <1>3

LEMMA DrainedFound ==
  ASSUME OnceInv, NEW c \in Commands, Apart(c), NEW f \in Flushers, Holds(drained[f], c)
  PROVE  \E x : Found(Flushers, drained, c) = {x}
<1>1. PICK i : Positions(drained[f], c) = {i}
  BY OnePosition DEF OnceInv
<1>2. /\ {f} \X Positions(drained[f], c) = {<<f, i>>}
      /\ \A g \in Flushers : g # f => {g} \X Positions(drained[g], c) = {}
  BY <1>1, PairSets DEF Apart, Holds
<1>3. Found(Flushers, drained, c) = {<<f, i>>}
  BY <1>2 DEF Found
<1> QED BY <1>3

LEMMA PlacesFound ==
  ASSUME NEW c \in Commands
  PROVE  Places(c) = ({"queue"} \X Found(Commands, queue, c))
                     \cup ({"drained"} \X Found(Flushers, drained, c))
                     \cup ({"sent"} \X ({"all"} \X Positions(sent, c)))
  BY DEF Places, Found

\* OnePlace: of the adds, registrations and polls that take the pending queues
\* apart, none loses a command and no two send it.
THEOREM NeitherLostNorDoubled == Spec => []OnePlace
<1>1. FullInv => OnePlace
  <2> SUFFICES ASSUME FullInv, NEW c \in Commands
               PROVE  Cardinality(Places(c)) = IF stage[c] = "done" THEN 1 ELSE 0
    BY DEF OnePlace
  <2>1. DoneInv /\ OnceInv /\ Apart(c) /\ (stage[c] = "done" => Somewhere(c))
    BY DEF FullInv, IInv, MoveInv, PlaceInv
  <2>2. (\A q \in Commands : ~Holds(queue[q], c)) => Found(Commands, queue, c) = {}
    BY FoundNowhere
  <2>3. (\A f \in Flushers : ~Holds(drained[f], c)) => Found(Flushers, drained, c) = {}
    BY FoundNowhere
  <2>4. CASE stage[c] # "done"
    <3>1. /\ Found(Commands, queue, c) = {} /\ Found(Flushers, drained, c) = {}
          /\ Positions(sent, c) = {}
      BY <2>1, <2>2, <2>3, <2>4 DEF DoneInv, Holds
    <3>2. Places(c) = {}
      BY <3>1, PlacesFound, PairSets
    <3> QED BY <2>4, <3>2, FS_EmptySet
  <2>5. CASE stage[c] = "done"
    <3>1. ASSUME NEW q \in Commands, Holds(queue[q], c) PROVE \E x : Places(c) = {x}
      <4>1. Found(Flushers, drained, c) = {} /\ Positions(sent, c) = {}
        BY <2>1, <2>3, <3>1 DEF Apart, Holds
      <4>2. PICK x : Found(Commands, queue, c) = {x}
        BY <2>1, <3>1, QueueFound
      <4>3. Places(c) = {<<"queue", x>>}
        BY <4>1, <4>2, PlacesFound, PairSets
      <4> QED BY <4>3
    <3>2. ASSUME NEW f \in Flushers, Holds(drained[f], c) PROVE \E x : Places(c) = {x}
      <4>1. Found(Commands, queue, c) = {} /\ Positions(sent, c) = {}
        BY <2>1, <2>2, <3>2 DEF Apart, Holds
      <4>2. PICK x : Found(Flushers, drained, c) = {x}
        BY <2>1, <3>2, DrainedFound
      <4>3. Places(c) = {<<"drained", x>>}
        BY <4>1, <4>2, PlacesFound, PairSets
      <4> QED BY <4>3
    <3>3. ASSUME Holds(sent, c) PROVE \E x : Places(c) = {x}
      <4>1. Found(Commands, queue, c) = {} /\ Found(Flushers, drained, c) = {}
        BY <2>1, <2>2, <2>3, <3>3 DEF Apart
      <4>2. PICK i : Positions(sent, c) = {i}
        BY <2>1, <3>3, OnePosition DEF OnceInv
      <4>3. Places(c) = {<<"sent", <<"all", i>>>>}
        BY <4>1, <4>2, PlacesFound, PairSets
      <4> QED BY <4>3
    <3>4. PICK x : Places(c) = {x}
      BY <2>1, <2>5, <3>1, <3>2, <3>3 DEF Somewhere
    <3> QED BY <2>5, <3>4, FS_Singleton
  <2> QED BY <2>4, <2>5
<1> QED BY InvariantOfOrder, <1>1, PTL

(***************************************************************************)
(* What a flush has drained goes where the queue's maker goes.             *)
(***************************************************************************)
DrainedInv ==
  \A f \in Flushers : \A c \in Commands : Holds(drained[f], c) =>
    taken[f] \in Commands /\ Dest[c] = Dest[taken[f]]

MailInv == FullInv /\ DrainedInv

LEMMA DrainedStep == IInv /\ TakerInv /\ DrainedInv /\ [Next]_vars => DrainedInv'
<1> SUFFICES ASSUME TypeOK, QueueInv, TakerInv, DrainedInv, [Next]_vars PROVE DrainedInv'
  BY DEF IInv
<1>1. CASE UNCHANGED <<taken, drained>>
  BY <1>1 DEF DrainedInv
<1>2. ASSUME NEW f \in Flushers, FlushDequeue(f) PROVE DrainedInv'
  <2>1. PICK x \in Commands :
          /\ taken[f] \in Commands /\ UNCHANGED taken
          /\ Popped(queue[taken[f]], queue'[taken[f]], x)
          /\ Pushed(drained[f], drained'[f], x)
          /\ \A g \in Flushers : g # f => drained'[g] = drained[g]
    BY <1>2, DequeueStep
  <2>2. Holds(queue[taken[f]], x) /\ \A d : Holds(drained'[f], d) <=> Holds(drained[f], d) \/ d = x
    BY <2>1 DEF Popped, Pushed
  <2>3. Dest[x] = Dest[taken[f]]
    BY <2>1, <2>2 DEF QueueInv
  <2> QED BY <2>1, <2>2, <2>3 DEF DrainedInv
<1>3. ASSUME NEW f \in Flushers, FlushSend(f) PROVE DrainedInv'
  <2>1. PICK x \in Commands :
          /\ UNCHANGED taken /\ Popped(drained[f], drained'[f], x)
          /\ \A g \in Flushers : g # f => drained'[g] = drained[g]
    BY <1>3, SendStep
  <2> QED BY <2>1 DEF DrainedInv, Popped
<1>4. ASSUME NEW f \in Flushers, FlushRemove(f) \/ FlushNothing(f) \/ FlushEmpty(f) \/ FlushEnd(f)
      PROVE  DrainedInv'
  <2>1. drained' = drained
    BY <1>4, OtherSteps
  <2>2. \A g \in Flushers : taken'[g] = taken[g] \/ drained[g] = <<>>
    BY <1>4 DEF FlushRemove, FlushNothing, FlushEmpty, FlushEnd, TypeOK, TakerInv
  <2> QED BY <2>1, <2>2, EmptyHolds DEF DrainedInv
<1>5. ASSUME NEW c \in Commands, Track(c) \/ Add(c) PROVE UNCHANGED <<taken, drained>>
  BY <1>5 DEF Track, Add, NoRoute, Dispatch, StartFlush, GetOrAddQueue, Enqueue, flushing
<1> QED BY <1>1, <1>2, <1>3, <1>4, <1>5, AsideSteps DEF Next, FlushCommands, Aside

\* FullInv, and that whoever flushes a route's queue sends nothing elsewhere.
THEOREM InvariantOfMail == Spec => []MailInv
<1>1. Init => DrainedInv
  BY EmptyHolds DEF Init, DrainedInv
<1>2. MailInv /\ FullInv' /\ [Next]_vars => MailInv'
  BY DrainedStep DEF MailInv, FullInv
<1> QED BY <1>1, <1>2, InvariantOfOrder, PTL DEF Spec, MailInv

(***************************************************************************)
(* Boxes, as functions of who took what, what is drained and what is left. *)
(***************************************************************************)
Behind(d, q) == d \o q

BoxOf(tk, dr, qu, q) ==
  Behind(IF \E f \in Flushers : tk[f] = q THEN dr[CHOOSE f \in Flushers : tk[f] = q] ELSE <<>>,
         qu[q])

OneTaker(tk) == \A f, g \in Flushers : tk[f] \in Commands /\ tk[f] = tk[g] => f = g

LEMMA BoxIs ==
  /\ \A q : Box(q) = BoxOf(taken, drained, queue, q)
  /\ \A q : Box(q)' = BoxOf(taken', drained', queue', q)
  BY DEF Box, InHand, Taker, BoxOf, Behind

LEMMA BoxTaken ==
  ASSUME NEW tk, NEW dr, NEW qu, NEW q \in Commands, NEW f \in Flushers,
         OneTaker(tk), tk[f] = q
  PROVE  BoxOf(tk, dr, qu, q) = Behind(dr[f], qu[q])
<1>1. f = CHOOSE g \in Flushers : tk[g] = q
  BY DEF OneTaker
<1> QED BY <1>1 DEF BoxOf

\* Who has taken q, if anyone, has nothing of it in hand.
NoneInHand(tk, dr, q) == \A f \in Flushers : tk[f] = q => dr[f] = <<>>

LEMMA BoxFree ==
  ASSUME NEW tk, NEW dr, NEW qu, NEW q, qu[q] \in Seq(Commands), NoneInHand(tk, dr, q)
  PROVE  BoxOf(tk, dr, qu, q) = qu[q]
<1>1. qu[q] \in Seq(Commands) /\ \A f \in Flushers : tk[f] = q => dr[f] = <<>>
  BY DEF NoneInHand
<1>2. Behind(<<>>, qu[q]) = qu[q]
  BY <1>1 DEF Behind
<1>3. CASE \E f \in Flushers : tk[f] = q
  <2>1. PICK f \in Flushers : f = CHOOSE g \in Flushers : tk[g] = q
    BY <1>3
  <2>2. tk[f] = q
    BY <1>3, <2>1
  <2> QED BY <1>1, <1>2, <1>3, <2>1, <2>2 DEF BoxOf
<1> QED BY <1>2, <1>3 DEF BoxOf

LEMMA BehindEnd ==
  ASSUME NEW S, NEW d \in Seq(S), NEW q \in Seq(S), NEW x \in S
  PROVE  Behind(d, Append(q, x)) = Append(Behind(d, q), x)
  BY DEF Behind

LEMMA BehindMoves ==
  ASSUME NEW S, NEW d \in Seq(S), NEW q \in Seq(S), q # <<>>
  PROVE  Behind(Append(d, Head(q)), Tail(q)) = Behind(d, q)
  BY DEF Behind

\* b is x with t behind it.
Starts(b, x, t) == b # <<>> /\ Head(b) = x /\ Tail(b) = t

LEMMA BehindStarts ==
  ASSUME NEW S, NEW d \in Seq(S), NEW q \in Seq(S), d # <<>>
  PROVE  Starts(Behind(d, q), Head(d), Behind(Tail(d), q))
  BY DEF Behind, Starts

LEMMA BehindHolds ==
  ASSUME NEW S, NEW d \in Seq(S), NEW q \in Seq(S), NEW i \in DOMAIN Behind(d, q)
  PROVE  /\ Behind(d, q)[i] \in S
         /\ Holds(d, Behind(d, q)[i]) \/ Holds(q, Behind(d, q)[i])
<1> USE DEF Behind
<1>1. /\ Len(d) \in Nat /\ Len(q) \in Nat /\ DOMAIN d = 1..Len(d) /\ DOMAIN q = 1..Len(q)
      /\ i \in 1..Len(d) + Len(q)
  OBVIOUS
<1>2. CASE i <= Len(d)
  <2>1. Behind(d, q)[i] = d[i] /\ i \in 1..Len(d)
    BY <1>1, <1>2
  <2> QED BY <1>1, <2>1 DEF Holds, Positions
<1>3. CASE i > Len(d)
  <2>1. Behind(d, q)[i] = q[i - Len(d)] /\ i - Len(d) \in 1..Len(q)
    BY <1>1, <1>3
  <2> QED BY <1>1, <2>1 DEF Holds, Positions
<1> QED BY <1>1, <1>2, <1>3

(***************************************************************************)
(* What each step does to the boxes.                                       *)
(***************************************************************************)
\* Nothing, when whoever takes or gives up a queue has drained nothing.
LEMMA BoxesStill ==
  ASSUME TypeOK, TakerInv, TypeOK', TakerInv', UNCHANGED <<queue, drained>>,
         \A f \in Flushers : taken'[f] = taken[f] \/ drained[f] = <<>>
  PROVE  \A q \in Commands : Box(q)' = Box(q)
<1> SUFFICES ASSUME NEW q \in Commands
             PROVE  BoxOf(taken', drained', queue', q) = BoxOf(taken, drained, queue, q)
  BY BoxIs
<1>1. OneTaker(taken) /\ OneTaker(taken') /\ queue \in [Commands -> Seq(Commands)]
  BY DEF TakerInv, OneTaker, TypeOK
<1>2. CASE \A f \in Flushers : taken[f] = q => drained[f] = <<>>
  <2>1. \A f \in Flushers : taken'[f] = q => drained[f] = <<>>
    BY <1>2
  <2>2. NoneInHand(taken, drained, q) /\ NoneInHand(taken', drained, q)
    BY <1>2, <2>1 DEF NoneInHand
  <2>3. BoxOf(taken, drained, queue, q) = queue[q] /\ BoxOf(taken', drained, queue, q) = queue[q]
    BY <1>1, <2>2, BoxFree
  <2> QED BY <2>2, <2>3
<1>3. ASSUME NEW f \in Flushers, taken[f] = q, drained[f] # <<>>
      PROVE  BoxOf(taken', drained, queue, q) = BoxOf(taken, drained, queue, q)
  <2>1. taken'[f] = q
    BY <1>3
  <2>2. BoxOf(taken, drained, queue, q) = Behind(drained[f], queue[q])
    BY <1>1, <1>3, BoxTaken
  <2>3. BoxOf(taken', drained, queue, q) = Behind(drained[f], queue[q])
    BY <1>1, <2>1, BoxTaken
  <2> QED BY <2>2, <2>3
<1> QED BY <1>2, <1>3

\* Nothing, for a box of which neither the queue nor what was drained moved.
LEMMA OtherBox ==
  ASSUME NEW tk, NEW dr, NEW ds, NEW qu, NEW qv, NEW q, qv[q] = qu[q],
         \A f \in Flushers : tk[f] = q => ds[f] = dr[f]
  PROVE  BoxOf(tk, ds, qv, q) = BoxOf(tk, dr, qu, q)
<1>1. CASE \E f \in Flushers : tk[f] = q
  <2>1. PICK f \in Flushers : f = CHOOSE g \in Flushers : tk[g] = q
    BY <1>1
  <2>2. tk[f] = q
    BY <1>1, <2>1
  <2> QED BY <1>1, <2>1, <2>2 DEF BoxOf
<1> QED BY <1>1 DEF BoxOf

LEMMA BoxesEnqueue ==
  ASSUME TypeOK, TakerInv, NEW c \in Commands, Enqueue(c)
  PROVE  \E h \in Commands : /\ h = held[c] /\ Box(h)' = Append(Box(h), c)
                             /\ \A q \in Commands : q # h => Box(q)' = Box(q)
<1>1. PICK h \in Commands : h = held[c]
  BY EnqueueStep
<1>2. /\ UNCHANGED <<taken, drained>> /\ OneTaker(taken)
      /\ queue'[h] = Append(queue[h], c) /\ queue[h] \in Seq(Commands)
      /\ \A q \in Commands : q # h => queue'[q] = queue[q]
      /\ drained \in [Flushers -> Seq(Commands)]
  BY <1>1 DEF Enqueue, flushing, TypeOK, TakerInv, OneTaker
<1>3. ASSUME NEW q \in Commands, q # h PROVE Box(q)' = Box(q)
  <2>1. BoxOf(taken, drained, queue', q) = BoxOf(taken, drained, queue, q)
    BY <1>2, <1>3, OtherBox
  <2> QED BY <1>2, <2>1, BoxIs
<1>4. BoxOf(taken, drained, queue', h) = Append(BoxOf(taken, drained, queue, h), c)
  <2>0. OneTaker(taken)
    BY <1>2
  <2>1. PICK b, a : b = queue[h] /\ a = queue'[h]
    OBVIOUS
  <2>2. b \in Seq(Commands) /\ a = Append(b, c) /\ a \in Seq(Commands)
    BY <1>2, <2>1, Appended
  <2>3. CASE \E f \in Flushers : taken[f] = h
    <3>1. PICK f \in Flushers : taken[f] = h
      BY <2>3
    <3>2. /\ BoxOf(taken, drained, queue, h) = Behind(drained[f], b)
          /\ BoxOf(taken, drained, queue', h) = Behind(drained[f], a)
      BY <2>1, <2>0, <3>1, BoxTaken
    <3>3. Behind(drained[f], a) = Append(Behind(drained[f], b), c)
      BY <1>2, <2>2, BehindEnd
    <3> QED BY <3>2, <3>3
  <2>4. CASE ~ \E f \in Flushers : taken[f] = h
    <3>1. NoneInHand(taken, drained, h)
      BY <2>4 DEF NoneInHand
    <3>2. queue[h] \in Seq(Commands) /\ queue'[h] \in Seq(Commands)
      BY <2>1, <2>2
    <3>3. /\ BoxOf(taken, drained, queue, h) = queue[h]
          /\ BoxOf(taken, drained, queue', h) = queue'[h]
      BY <3>1, <3>2, BoxFree
    <3> QED BY <2>1, <2>2, <3>3
  <2> QED BY <2>3, <2>4
<1>5. Box(h)' = Append(Box(h), c)
  BY <1>2, <1>4, BoxIs
<1> QED BY <1>1, <1>3, <1>5

LEMMA BoxesDequeue ==
  ASSUME TypeOK, TakerInv, NEW f \in Flushers, FlushDequeue(f)
  PROVE  \A q \in Commands : Box(q)' = Box(q)
<1>1. PICK t \in Commands : t = taken[f]
  BY DEF FlushDequeue, TypeOK
<1>2. /\ taken' = taken /\ OneTaker(taken) /\ queue[t] \in Seq(Commands) /\ queue[t] # <<>>
      /\ drained[f] \in Seq(Commands)
      /\ drained'[f] = Append(drained[f], Head(queue[t])) /\ queue'[t] = Tail(queue[t])
      /\ \A q \in Commands : q # t => queue'[q] = queue[q]
      /\ \A g \in Flushers : g # f => drained'[g] = drained[g]
  BY <1>1 DEF FlushDequeue, TypeOK, TakerInv, OneTaker
<1>3. BoxOf(taken, drained', queue', t) = BoxOf(taken, drained, queue, t)
  <2>1. Behind(Append(drained[f], Head(queue[t])), Tail(queue[t])) = Behind(drained[f], queue[t])
    BY <1>2, BehindMoves
  <2>2. Behind(drained'[f], queue'[t]) = Behind(drained[f], queue[t])
    BY <1>2, <2>1
  <2>3. /\ BoxOf(taken, drained, queue, t) = Behind(drained[f], queue[t])
        /\ BoxOf(taken, drained', queue', t) = Behind(drained'[f], queue'[t])
    <3>1. OneTaker(taken) /\ taken[f] = t
      BY <1>1, <1>2
    <3> QED BY <3>1, BoxTaken
  <2> QED BY <2>2, <2>3
<1>4. ASSUME NEW q \in Commands, q # t
      PROVE  BoxOf(taken, drained', queue', q) = BoxOf(taken, drained, queue, q)
  <2>1. \A g \in Flushers : taken[g] = q => drained'[g] = drained[g]
    BY <1>1, <1>2, <1>4
  <2> QED BY <1>2, <1>4, <2>1, OtherBox
<1> QED BY <1>2, <1>3, <1>4, BoxIs

LEMMA BoxesSend ==
  ASSUME TypeOK, TakerInv, DrainedInv, NEW f \in Flushers, FlushSend(f)
  PROVE  \E t \in Commands : /\ Starts(Box(t), Head(drained[f]), Box(t)')
                             /\ sent' = Append(sent, Head(drained[f]))
                             /\ \A q \in Commands : q # t => Box(q)' = Box(q)
<1>1. /\ taken' = taken /\ queue' = queue /\ OneTaker(taken)
      /\ drained[f] \in Seq(Commands) /\ drained[f] # <<>>
      /\ queue \in [Commands -> Seq(Commands)]
      /\ sent' = Append(sent, Head(drained[f])) /\ drained'[f] = Tail(drained[f])
      /\ \A g \in Flushers : g # f => drained'[g] = drained[g]
  BY DEF FlushSend, TypeOK, TakerInv, OneTaker
<1>2. PICK t \in Commands : t = taken[f]
  <2>1. Head(drained[f]) \in Commands /\ Holds(drained[f], Head(drained[f]))
    BY <1>1, HeadTaken
  <2> QED BY <2>1 DEF DrainedInv
<1>3. Starts(BoxOf(taken, drained, queue, t), Head(drained[f]), BoxOf(taken, drained', queue, t))
  <2>1. queue[t] \in Seq(Commands)
    BY <1>1
  <2>2. Starts(Behind(drained[f], queue[t]), Head(drained[f]), Behind(Tail(drained[f]), queue[t]))
    BY <1>1, <2>1, BehindStarts
  <2>3. /\ BoxOf(taken, drained, queue, t) = Behind(drained[f], queue[t])
        /\ BoxOf(taken, drained', queue, t) = Behind(drained'[f], queue[t])
    BY <1>1, <1>2, BoxTaken
  <2> QED BY <1>1, <2>2, <2>3
<1>4. ASSUME NEW q \in Commands, q # t
      PROVE  BoxOf(taken, drained', queue, q) = BoxOf(taken, drained, queue, q)
  <2>1. \A g \in Flushers : taken[g] = q => drained'[g] = drained[g]
    BY <1>1, <1>2, <1>4
  <2> QED BY <2>1, OtherBox
<1>5. Starts(Box(t), Head(drained[f]), Box(t)')
  BY <1>1, <1>3, BoxIs
<1>6. \A q \in Commands : q # t => Box(q)' = Box(q)
  BY <1>1, <1>4, BoxIs
<1> QED BY <1>1, <1>5, <1>6

\* All that is in a box goes where its maker goes.
LEMMA BoxDest ==
  ASSUME TypeOK, QueueInv, TakerInv, DrainedInv, NEW q \in Commands,
         NEW i \in DOMAIN Box(q)
  PROVE  Dest[Box(q)[i]] = Dest[q]
<1>1. OneTaker(taken) /\ queue[q] \in Seq(Commands) /\ drained \in [Flushers -> Seq(Commands)]
  BY DEF TakerInv, OneTaker, TypeOK
<1>2. \A x \in Commands : Holds(queue[q], x) => Dest[x] = Dest[q]
  BY DEF QueueInv
<1>3. ASSUME NEW f \in Flushers, taken[f] = q PROVE Dest[Box(q)[i]] = Dest[q]
  <2>1. OneTaker(taken)
    BY <1>1
  <2>2. Box(q) = Behind(drained[f], queue[q])
    BY <1>3, <2>1, BoxTaken, BoxIs
  <2>3. PICK x : x = Box(q)[i]
    OBVIOUS
  <2>4. x \in Commands /\ (Holds(drained[f], x) \/ Holds(queue[q], x))
    BY <1>1, <2>2, <2>3, BehindHolds
  <2>5. Holds(drained[f], x) => Dest[x] = Dest[q]
    BY <1>3, <2>4 DEF DrainedInv
  <2> QED BY <1>2, <2>3, <2>4, <2>5
<1>4. CASE ~ \E f \in Flushers : taken[f] = q
  <2>1. NoneInHand(taken, drained, q)
    BY <1>4 DEF NoneInHand
  <2>2. Box(q) = queue[q]
    BY <1>1, <2>1, BoxFree, BoxIs
  <2>3. Box(q)[i] \in Commands /\ Holds(queue[q], Box(q)[i])
    BY <1>1, <2>2 DEF Holds, Positions
  <2> QED BY <1>2, <2>3
<1> QED BY <1>3, <1>4

(***************************************************************************)
(* Each step maps to a step of Mailboxes, or to none.                      *)
(***************************************************************************)
Fresh == {c \in Commands : stage[c] # "done"}
Boxed == [q \in Commands |-> Box(q)]

LEMMA MailVars == Mail!vars = <<Fresh, Boxed, sent, replied>>
  BY DEF Mail!vars, Fresh, Boxed

LEMMA MapStutter ==
  ASSUME UNCHANGED <<sent, replied>>, \A q \in Commands : Box(q)' = Box(q),
         \A d \in Commands : stage'[d] = "done" <=> stage[d] = "done"
  PROVE  UNCHANGED Mail!vars
<1>1. Boxed' = Boxed
  BY DEF Boxed
<1>2. Fresh' = Fresh
  BY DEF Fresh
<1> QED BY <1>1, <1>2, MailVars DEF Mail!vars, Fresh, Boxed

LEMMA MapPut ==
  ASSUME TypeOK, QueueInv, TakerInv, DrainedInv, NEW c \in Commands, Enqueue(c)
  PROVE  \E b \in Commands : Mail!Put(c, b)
<1>1. PICK h \in Commands : /\ h = held[c] /\ Box(h)' = Append(Box(h), c)
                            /\ \A q \in Commands : q # h => Box(q)' = Box(q)
  BY BoxesEnqueue
<1>2. Dest[h] = Dest[c] /\ UNCHANGED <<sent, replied>>
  BY <1>1 DEF QueueInv, Enqueue, replies
<1>3. c \in Fresh /\ Fresh' = Fresh \ {c}
  BY EnqueueStep DEF Fresh, Added
<1>4. \A i \in DOMAIN Boxed[h] : Dest[Boxed[h][i]] = Dest[c]
  BY <1>2, BoxDest DEF Boxed
<1>5. Boxed' = [Boxed EXCEPT ![h] = Append(@, c)]
  <2>1. PICK b, a : b = Box(h) /\ a = Append(Box(h), c)
    OBVIOUS
  <2>2. Boxed' = [Boxed EXCEPT ![h] = a]
    BY <1>1, <2>1 DEF Boxed
  <2>3. Boxed[h] = b
    BY <2>1 DEF Boxed
  <2> QED BY <2>1, <2>2, <2>3
<1> QED BY <1>2, <1>3, <1>4, <1>5 DEF Mail!Put, Fresh, Boxed

LEMMA MapSendFirst ==
  ASSUME TypeOK, TakerInv, DrainedInv, NEW f \in Flushers, FlushSend(f)
  PROVE  \E b \in Commands : Mail!SendFirst(b)
<1>1. PICK t \in Commands : /\ Starts(Box(t), Head(drained[f]), Box(t)')
                            /\ sent' = Append(sent, Head(drained[f]))
                            /\ \A q \in Commands : q # t => Box(q)' = Box(q)
  BY BoxesSend
<1>2. stage' = stage /\ replied' = replied
  BY DEF FlushSend, replies
<1>3. Boxed[t] = Box(t)
  BY DEF Boxed
<1>4. Boxed[t] # <<>> /\ sent' = Append(sent, Head(Boxed[t]))
  BY <1>1, <1>3 DEF Starts
<1>5. Boxed' = [Boxed EXCEPT ![t] = Tail(@)]
  <2>1. PICK a : a = Box(t)'
    OBVIOUS
  <2>2. Boxed' = [Boxed EXCEPT ![t] = a]
    BY <1>1, <2>1 DEF Boxed
  <2>3. a = Tail(Boxed[t])
    BY <1>1, <1>3, <2>1 DEF Starts
  <2> QED BY <2>2, <2>3
<1>6. Fresh' = Fresh
  BY <1>2 DEF Fresh
<1> QED BY <1>2, <1>4, <1>5, <1>6 DEF Mail!SendFirst, Fresh, Boxed

LEMMA MapSendNow ==
  ASSUME TypeOK, TakerInv, TypeOK', TakerInv', NEW c \in Commands, NEW ch \in Channels,
         NEW r \in Routes, Dispatch(c, ch, r)
  PROVE  Mail!SendNow(c)
<1>1. Added(c) /\ UNCHANGED <<taken, queue, drained>>
  BY DispatchStep
<1>2. sent' = Append(sent, c) /\ replied' = replied
  BY DEF Dispatch, replies
<1>3. \A q \in Commands : Box(q)' = Box(q)
  BY <1>1, BoxesStill
<1>4. Boxed' = Boxed
  BY <1>3 DEF Boxed
<1>5. c \in Fresh /\ Fresh' = Fresh \ {c}
  BY <1>1 DEF Fresh, Added
<1> QED BY <1>2, <1>4, <1>5 DEF Mail!SendNow, Fresh, Boxed

LEMMA MapReply ==
  ASSUME TypeOK, TakerInv, TypeOK', TakerInv', ReplyInv, NEW c \in Asked, ResolveAndForget(c)
  PROVE  Mail!Reply(c) \/ UNCHANGED Mail!vars
<1>1. /\ UNCHANGED <<stage, queue, taken, drained, sent>>
      /\ c \in Commands /\ \E i \in DOMAIN sent : sent[i] = c
      /\ replied \in [Commands -> Nat]
      /\ replied' = [replied EXCEPT ![c] = IF c \in originators THEN @ + 1 ELSE @]
  BY DEF ResolveAndForget, flushing, TypeOK
<1>2. \A q \in Commands : Box(q)' = Box(q)
  BY <1>1, BoxesStill
<1>3. CASE c \in originators
  <2>1. heard[c] = 0
    <3>1. heard[c] \in Nat
      <4>1. c \in Commands
        BY <1>1
      <4>2. heard \in [Commands -> 0..2]
        BY DEF TypeOK, Paths
      <4> QED BY <4>1, <4>2
    <3>2. ~(heard[c] > 0)
      BY <1>3 DEF ReplyInv, ReplyOf
    <3> QED BY <3>1, <3>2
  <2>2. replied[c] = 0
    BY <2>1 DEF ReplyInv, ReplyOf
  <2>3. replied' = [replied EXCEPT ![c] = 1]
    BY <1>1, <1>3, <2>2
  <2>4. Boxed' = Boxed /\ Fresh' = Fresh
    BY <1>1, <1>2 DEF Boxed, Fresh
  <2> QED BY <1>1, <2>2, <2>3, <2>4 DEF Mail!Reply, Fresh, Boxed
<1>4. CASE c \notin originators
  <2>1. replied' = replied
    BY <1>1, <1>4
  <2> QED BY <1>1, <1>2, <2>1, MapStutter
<1> QED BY <1>3, <1>4

LEMMA MapInit == Init => Mail!Init
<1> SUFFICES ASSUME Init PROVE Mail!Init
  OBVIOUS
<1>1. /\ queue = [q \in Commands |-> <<>>] /\ sent = <<>>
      /\ \A f \in Flushers : taken[f] = None
      /\ replied = [c \in Commands |-> 0] /\ \A c \in Commands : stage[c] = "new"
  BY DEF Init
<1>2. ASSUME NEW q \in Commands PROVE Box(q) = <<>>
  <2>1. NoneInHand(taken, drained, q)
    BY <1>1 DEF NoneInHand
  <2>2. queue[q] = <<>> /\ queue[q] \in Seq(Commands)
    BY <1>1
  <2>3. queue[q] \in Seq(Commands)
    BY <2>2
  <2>4. Box(q) = queue[q]
    BY <2>1, <2>3, BoxFree, BoxIs
  <2> QED BY <2>2, <2>4
<1>3. Boxed = [b \in Commands |-> <<>>]
  BY <1>2 DEF Boxed
<1>4. Fresh = Commands
  BY <1>1 DEF Fresh
<1> QED BY <1>1, <1>3, <1>4 DEF Mail!Init, Fresh, Boxed

LEMMA MapStep == MailInv /\ MailInv' /\ [Next]_vars => [Mail!Next]_(Mail!vars)
<1> SUFFICES ASSUME MailInv, MailInv', [Next]_vars
             PROVE  Mail!Next \/ UNCHANGED Mail!vars
  OBVIOUS
<1>a. TypeOK /\ QueueInv /\ TakerInv /\ DrainedInv /\ ReplyInv
  BY DEF MailInv, FullInv, IInv
<1>b. TypeOK' /\ TakerInv'
  BY DEF MailInv, FullInv, IInv
<1>1. ASSUME NEW c \in Commands,
             Track(c) \/ GetOrAddQueue(c) \/ (\E ch \in Channels : NoRoute(c, ch))
      PROVE  UNCHANGED Mail!vars
  <2>1. UNCHANGED <<queue, taken, drained, sent, replied>>
    BY <1>1, OtherSteps DEF Track, GetOrAddQueue, NoRoute, replies
  <2>2. \A d \in Commands : stage'[d] = "done" <=> stage[d] = "done"
    BY <1>a, <1>1 DEF Track, GetOrAddQueue, NoRoute, TypeOK, Channels
  <2>3. \A q \in Commands : Box(q)' = Box(q)
    BY <1>a, <1>b, <2>1, BoxesStill
  <2> QED BY <2>1, <2>2, <2>3, MapStutter
<1>2. ASSUME NEW c \in Commands, NEW ch \in Channels, NEW r \in Routes, Dispatch(c, ch, r)
      PROVE  Mail!Next
  BY <1>a, <1>b, <1>2, MapSendNow DEF Mail!Next
<1>3. ASSUME NEW c \in Commands, Enqueue(c) PROVE Mail!Next
  BY <1>a, <1>b, <1>3, MapPut DEF Mail!Next
<1>4. ASSUME NEW f \in Flushers, FlushDequeue(f) PROVE UNCHANGED Mail!vars
  <2>1. UNCHANGED <<stage, sent, replied>>
    BY <1>4 DEF FlushDequeue, replies
  <2> QED BY <1>a, <1>b, <1>4, <2>1, BoxesDequeue, MapStutter
<1>5. ASSUME NEW f \in Flushers, FlushSend(f) PROVE Mail!Next
  BY <1>a, <1>b, <1>5, MapSendFirst DEF Mail!Next
<1>6. ASSUME NEW f \in Flushers, FlushRemove(f) \/ FlushNothing(f) \/ FlushEmpty(f) \/ FlushEnd(f)
      PROVE  UNCHANGED Mail!vars
  <2>1. UNCHANGED <<queue, stage, drained, sent, replied>>
    BY <1>6, OtherSteps DEF FlushRemove, FlushNothing, FlushEmpty, FlushEnd, replies
  <2>2. \A g \in Flushers : taken'[g] = taken[g] \/ drained[g] = <<>>
    BY <1>a, <1>6 DEF FlushRemove, FlushNothing, FlushEmpty, FlushEnd, TypeOK, TakerInv
  <2>3. \A q \in Commands : Box(q)' = Box(q)
    BY <1>a, <1>b, <2>1, <2>2, BoxesStill
  <2> QED BY <2>1, <2>3, MapStutter
<1>7. ASSUME NEW c \in Asked, ResolveAndForget(c) PROVE Mail!Next \/ UNCHANGED Mail!vars
  BY <1>a, <1>b, <1>7, MapReply DEF Mail!Next
<1>8. ASSUME Aside, replied' = replied PROVE UNCHANGED Mail!vars
  <2>1. \A q \in Commands : Box(q)' = Box(q)
    BY <1>a, <1>b, <1>8, BoxesStill DEF Aside
  <2> QED BY <1>8, <2>1, MapStutter DEF Aside
<1>9. /\ \A r \in OnSignalR : RegisterSignalR(r) => Aside /\ replied' = replied
      /\ \A r \in OnRedis : RegisterRedis(r) => Aside /\ replied' = replied
      /\ \A ch, r : RemoveRoute(ch, r) => Aside /\ replied' = replied
      /\ \A r \in Polled : Poll(r) => Aside /\ replied' = replied
      /\ UNCHANGED vars => Aside /\ replied' = replied
  BY <1>a, AsideSteps DEF RegisterSignalR, RegisterRedis, RemoveRoute, Poll, vars, replies
<1> QED BY <1>1, <1>2, <1>3, <1>4, <1>5, <1>6, <1>7, <1>8, <1>9 DEF Next, Add, FlushCommands

\* ImplementsMailboxes: whatever adds, registrations, polls and flushes do to
\* the dictionaries and queues they share, access by access, the commands of
\* RoutableAppCmdManager are sent at once or boxed, leave each box first in,
\* first out, and are answered once.
THEOREM Implements == Spec => ImplementsMailboxes
<1>1. Init => Mail!Init
  BY MapInit
<1>2. MailInv /\ MailInv' /\ [Next]_vars => [Mail!Next]_(Mail!vars)
  BY MapStep
<1> QED BY <1>1, <1>2, InvariantOfMail, PTL DEF Spec, ImplementsMailboxes, Mail!Spec

================================================================================
