----------------------------- MODULE TaskPoolProofs -----------------------------
(***************************************************************************)
(* What TLAPS proves of TaskPool, for any schedulers, limits, tasks,       *)
(* waits and threads.                                                      *)
(***************************************************************************)
EXTENDS TaskPool, FiniteSetTheorems, SequenceTheorems, TLAPS

Once(q) == \A i, j \in DOMAIN q : q[i] = q[j] => i = j

(***************************************************************************)
(* A list holds tasks of its scheduler that are queued, and each once.     *)
(***************************************************************************)
ListOf(s) ==
  /\ Once(tasks[s])
  /\ \A t \in Range(tasks[s]) : status[t] = "queued" /\ SchedulerOf[t] = s

(***************************************************************************)
(* A thread that runs no delegate executes nothing; one that does executes *)
(* tasks of its delegate's scheduler and tasks that it was lent for: those *)
(* of every closed set of schedulers that holds its delegate's.            *)
(***************************************************************************)
Lends(s, t) ==
  \A H \in SUBSET Schedulers : Closed(H) /\ SchedulerOf[t] \in H => s \in H

StackOf(d) ==
  /\ Once(stack[d])
  /\ pool[d] = None => stack[d] = <<>>
  /\ \A t \in Range(stack[d]) :
        status[t] = "running" /\ Lends(pool[d], t)

Apart == \A d, e \in Threads : d # e => Range(stack[d]) \cap Range(stack[e]) = {}

PlaceInv ==
  /\ \A s \in Schedulers : ListOf(s)
  /\ \A d \in Threads : StackOf(d)
  /\ Apart

(***************************************************************************)
(* _delegatesQueuedOrRunning counts the delegates that are queued and the  *)
(* threads that run one, up to the limit.                                  *)
(***************************************************************************)
OnPool(s) == {d \in Threads : pool[d] = s}

CountOf(s) ==
  /\ delegates[s] = notified[s] + Cardinality(OnPool(s))
  /\ delegates[s] <= Limit[s]

CountInv == \A s \in Schedulers : CountOf(s)

IInv == TypeOK /\ PlaceInv /\ CountInv /\ ListIsServed

(***************************************************************************)
(* Lists and stacks as sequences.                                          *)
(***************************************************************************)
LEMMA EmptyList ==
  ASSUME NEW S PROVE <<>> \in Seq(S) /\ Range(<<>>) = {} /\ Once(<<>>)
<1>1. DOMAIN <<>> = {} /\ <<>> \in Seq(S)
  OBVIOUS
<1> QED BY <1>1 DEF Range, Once

LEMMA Appended ==
  ASSUME NEW S, NEW q \in Seq(S), NEW x \in S
  PROVE  /\ Append(q, x) \in Seq(S) /\ Append(q, x) # <<>>
         /\ Range(Append(q, x)) = Range(q) \cup {x}
         /\ Once(q) /\ x \notin Range(q) => Once(Append(q, x))
  BY DEF Range, Once

LEMMA HeadTaken ==
  ASSUME NEW S, NEW q \in Seq(S), q # <<>>
  PROVE  /\ Head(q) \in S /\ Head(q) \in Range(q) /\ Tail(q) \in Seq(S)
         /\ Range(Tail(q)) \subseteq Range(q)
         /\ Once(q) => Once(Tail(q)) /\ Head(q) \notin Range(Tail(q))
<1>1. /\ Head(q) = q[1] /\ 1 \in 1..Len(q) /\ Tail(q) \in Seq(S)
      /\ Len(Tail(q)) = Len(q) - 1
      /\ \A i \in 1..Len(Tail(q)) : i + 1 \in 1..Len(q) /\ Tail(q)[i] = q[i + 1]
  OBVIOUS
<1> QED BY <1>1 DEF Range, Once

LEMMA Prefix ==
  ASSUME NEW S, NEW q \in Seq(S), NEW n \in Nat, n <= Len(q)
  PROVE  /\ SubSeq(q, 1, n) \in Seq(S) /\ Len(SubSeq(q, 1, n)) = n
         /\ \A i \in 1..n : SubSeq(q, 1, n)[i] = q[i]
<1>1. \A i \in 1..n : q[i] \in S
  OBVIOUS
<1>2. /\ SubSeq(q, 1, n) \in Seq(S)
      /\ Len(SubSeq(q, 1, n)) = IF 1 <= n THEN n - 1 + 1 ELSE 0
      /\ \A i \in 1..n - 1 + 1 : SubSeq(q, 1, n)[i] = q[1 + i - 1]
  BY <1>1, SubSeqProperties
<1> QED BY <1>2

LEMMA LastTaken ==
  ASSUME NEW S, NEW q \in Seq(S), q # <<>>
  PROVE  /\ Last(q) \in S /\ Last(q) \in Range(q) /\ Front(q) \in Seq(S)
         /\ Range(Front(q)) \subseteq Range(q)
         /\ Once(q) => Once(Front(q)) /\ Last(q) \notin Range(Front(q))
<1>1. Len(q) \in 1..Len(q) /\ Last(q) = q[Len(q)] /\ \A i \in 1..Len(q) : q[i] \in S
  BY DEF Last
<1>2. Front(q) = SubSeq(q, 1, Len(q) - 1)
  BY DEF Front
<1>3. /\ Front(q) \in Seq(S) /\ Len(Front(q)) = Len(q) - 1
      /\ \A i \in 1..Len(q) - 1 : Front(q)[i] = q[i]
  <2>1. Len(q) - 1 \in Nat /\ Len(q) - 1 <= Len(q)
    BY <1>1
  <2> QED BY <1>2, <2>1, Prefix
<1> HIDE DEF Front
<1>4. DOMAIN q = 1..Len(q) /\ DOMAIN Front(q) = 1..Len(q) - 1 /\ Len(q) \in Nat
  BY <1>3
<1>5. Range(Front(q)) \subseteq Range(q) /\ Last(q) \in Range(q)
  BY <1>1, <1>3, <1>4 DEF Range
<1>6. ASSUME Once(q) PROVE Once(Front(q)) /\ Last(q) \notin Range(Front(q))
  BY <1>1, <1>3, <1>4, <1>6 DEF Range, Once
<1> QED BY <1>1, <1>3, <1>5, <1>6

LEMMA Suffix ==
  ASSUME NEW S, NEW q \in Seq(S), NEW k \in 1..Len(q)
  PROVE  /\ SubSeq(q, k + 1, Len(q)) \in Seq(S)
         /\ Len(SubSeq(q, k + 1, Len(q))) = Len(q) - k
         /\ \A i \in 1..Len(q) - k : SubSeq(q, k + 1, Len(q))[i] = q[k + i]
<1>1. PICK m \in Int, n \in Int : m = k + 1 /\ n = Len(q)
  OBVIOUS
<1>2. \A i \in m..n : q[i] \in S
  BY <1>1
<1>3. PICK v : v = SubSeq(q, m, n)
  OBVIOUS
<1>4. /\ v \in Seq(S) /\ Len(v) = IF m <= n THEN n - m + 1 ELSE 0
      /\ \A i \in 1..n - m + 1 : v[i] = q[m + i - 1]
  BY <1>2, <1>3, SubSeqProperties
<1>5. Len(v) = Len(q) - k
  BY <1>1, <1>4
<1>6. ASSUME NEW i \in 1..Len(q) - k PROVE v[i] = q[k + i]
  <2>1. i \in 1..n - m + 1 /\ m + i - 1 = k + i
    BY <1>1
  <2> QED BY <1>4, <2>1
<1> QED BY <1>1, <1>3, <1>4, <1>5, <1>6

\* Position k is left out.
Skips(r, q, k) ==
  /\ Len(r) = Len(q) - 1
  /\ \A i \in 1..Len(q) - 1 : r[i] = IF i < k THEN q[i] ELSE q[i + 1]

LEMMA RemoveAtSkips ==
  ASSUME NEW S, NEW q \in Seq(S), NEW k \in 1..Len(q)
  PROVE  RemoveAt(q, k) \in Seq(S) /\ Skips(RemoveAt(q, k), q, k)
<1>1. PICK u \in Seq(S) :
        /\ u = SubSeq(q, 1, k - 1) /\ Len(u) = k - 1
        /\ \A i \in 1..k - 1 : u[i] = q[i]
  <2>1. PICK n \in Nat : n = k - 1 /\ n <= Len(q)
    OBVIOUS
  <2>2. PICK u : u = SubSeq(q, 1, n)
    OBVIOUS
  <2>3. u \in Seq(S) /\ Len(u) = n /\ \A i \in 1..n : u[i] = q[i]
    BY <2>1, <2>2, Prefix
  <2> QED BY <2>1, <2>2, <2>3
<1>2. PICK v \in Seq(S) :
        /\ v = SubSeq(q, k + 1, Len(q)) /\ Len(v) = Len(q) - k
        /\ \A i \in 1..Len(q) - k : v[i] = q[k + i]
  <2>1. PICK v : v = SubSeq(q, k + 1, Len(q))
    OBVIOUS
  <2>2. /\ v \in Seq(S) /\ Len(v) = Len(q) - k
        /\ \A i \in 1..Len(q) - k : v[i] = q[k + i]
    BY <2>1, Suffix
  <2> QED BY <2>1, <2>2
<1>3. PICK r : r = u \o v
  OBVIOUS
<1>4. /\ r \in Seq(S) /\ Len(r) = Len(u) + Len(v)
      /\ \A i \in 1..Len(u) + Len(v) :
            r[i] = IF i <= Len(u) THEN u[i] ELSE v[i - Len(u)]
  BY <1>3, ConcatProperties
<1>5. Len(r) = Len(q) - 1
  BY <1>1, <1>2, <1>4
<1>6. ASSUME NEW i \in 1..Len(q) - 1
      PROVE  r[i] = IF i < k THEN q[i] ELSE q[i + 1]
  <2>1. i \in 1..Len(u) + Len(v)
    BY <1>1, <1>2
  <2>2. CASE i < k
    BY <1>1, <1>4, <2>1, <2>2
  <2>3. CASE ~(i < k)
    <3>1. r[i] = v[i - Len(u)]
      BY <1>1, <1>4, <2>1, <2>3
    <3>2. i - Len(u) \in 1..Len(q) - k /\ k + (i - Len(u)) = i + 1
      BY <1>1, <2>3
    <3>3. v[i - Len(u)] = q[k + (i - Len(u))]
      BY <1>2, <3>2
    <3> QED BY <2>3, <3>1, <3>2, <3>3
  <2> QED BY <2>2, <2>3
<1>7. Skips(r, q, k)
  BY <1>5, <1>6 DEF Skips
<1>8. RemoveAt(q, k) = r
  <2>1. Len(q) \in Nat /\ k \in Nat
    OBVIOUS
  <2> QED BY <1>1, <1>2, <1>3 DEF RemoveAt
<1> QED BY <1>4, <1>7, <1>8

LEMMA SkippedOnce ==
  ASSUME NEW S, NEW q \in Seq(S), NEW r \in Seq(S), NEW k \in 1..Len(q),
         Skips(r, q, k), Once(q)
  PROVE  Range(r) \subseteq Range(q) \ {q[k]} /\ Once(r)
<1> DEFINE At(i) == IF i < k THEN i ELSE i + 1
<1>1. DOMAIN q = 1..Len(q) /\ DOMAIN r = 1..Len(q) - 1
  BY DEF Skips
<1>2. ASSUME NEW i \in DOMAIN r
      PROVE  At(i) \in DOMAIN q /\ At(i) # k /\ r[i] = q[At(i)]
  BY <1>1 DEF Skips
<1>3. ASSUME NEW i \in DOMAIN r, NEW j \in DOMAIN r, At(i) = At(j) PROVE i = j
  BY <1>1, <1>3
<1> HIDE DEF At
<1>4. Range(r) \subseteq Range(q) \ {q[k]}
  BY <1>1, <1>2 DEF Range, Once
<1>5. Once(r)
  BY <1>2, <1>3 DEF Once
<1> QED BY <1>4, <1>5

LEMMA Removed ==
  ASSUME NEW S, NEW q \in Seq(S), NEW x \in S, Once(q)
  PROVE  /\ RemoveFirst(q, x) \in Seq(S)
         /\ Range(RemoveFirst(q, x)) \subseteq Range(q) \ {x}
         /\ Once(RemoveFirst(q, x))
<1>1. CASE x \notin Range(q)
  <2>1. RemoveFirst(q, x) = q
    BY <1>1 DEF RemoveFirst, Range
  <2> QED BY <1>1, <2>1
<1>2. CASE x \in Range(q)
  <2>1. PICK k \in 1..Len(q) : q[k] = x
    BY <1>2 DEF Range
  <2>2. {i \in 1..Len(q) : q[i] = x} = {k}
    BY <2>1 DEF Once
  <2>3. Min({k}) = k
    BY DEF Min
  <2>4. RemoveFirst(q, x) = RemoveAt(q, k)
    BY <2>1, <2>2, <2>3 DEF RemoveFirst, SelectInSeq
  <2> HIDE DEF RemoveFirst
  <2> QED BY <2>1, <2>4, RemoveAtSkips, SkippedOnce
<1> QED BY <1>1, <1>2

(***************************************************************************)
(* The delegates that run.                                                 *)
(***************************************************************************)
LEMMA PoolFinite ==
  ASSUME NEW s PROVE IsFiniteSet(OnPool(s)) /\ Cardinality(OnPool(s)) \in Nat
  BY ThreadsAssumption, FS_Subset, FS_CardinalityType DEF OnPool

LEMMA PoolJoined ==
  ASSUME TypeOK, NEW d \in Threads, NEW s \in Schedulers, pool[d] = None,
         pool' = [pool EXCEPT ![d] = s]
  PROVE  /\ Cardinality(OnPool(s))' = Cardinality(OnPool(s)) + 1
         /\ \A r \in Schedulers \ {s} : OnPool(r)' = OnPool(r)
<1>1. OnPool(s)' = OnPool(s) \cup {d} /\ d \notin OnPool(s)
  BY NoneAssumption DEF TypeOK, OnPool
<1>2. Cardinality(OnPool(s) \cup {d}) = Cardinality(OnPool(s)) + 1
  BY <1>1, PoolFinite, FS_AddElement
<1>3. \A r \in Schedulers \ {s} : OnPool(r)' = OnPool(r)
  BY NoneAssumption DEF TypeOK, OnPool
<1> QED BY <1>1, <1>2, <1>3

LEMMA PoolLeft ==
  ASSUME TypeOK, NEW d \in Threads, NEW s \in Schedulers, pool[d] = s,
         pool' = [pool EXCEPT ![d] = None]
  PROVE  /\ Cardinality(OnPool(s))' = Cardinality(OnPool(s)) - 1
         /\ Cardinality(OnPool(s)) > 0
         /\ \A r \in Schedulers \ {s} : OnPool(r)' = OnPool(r)
<1>1. OnPool(s)' = OnPool(s) \ {d} /\ d \in OnPool(s)
  BY NoneAssumption DEF TypeOK, OnPool
<1>2. Cardinality(OnPool(s) \ {d}) = Cardinality(OnPool(s)) - 1
  BY <1>1, PoolFinite, FS_RemoveElement
<1>3. Cardinality(OnPool(s)) > 0
  <2>1. Cardinality(OnPool(s) \ {d}) \in Nat
    BY PoolFinite, FS_Subset, FS_CardinalityType
  <2> QED BY <1>2, <2>1, PoolFinite
<1>4. \A r \in Schedulers \ {s} : OnPool(r)' = OnPool(r)
  BY NoneAssumption DEF TypeOK, OnPool
<1> QED BY <1>1, <1>2, <1>3, <1>4

LEMMA CountKept ==
  ASSUME CountInv, UNCHANGED <<delegates, notified, pool>>
  PROVE  CountInv'
  BY DEF CountInv, CountOf, OnPool

(***************************************************************************)
(* The initial states.                                                     *)
(***************************************************************************)
LEMMA InvInit == Init => IInv
<1> SUFFICES ASSUME Init PROVE IInv
  OBVIOUS
<1>1. TypeOK
  BY EmptyList, NoneAssumption DEF Init, TypeOK
<1>2. PlaceInv
  <2>1. \A s \in Schedulers : ListOf(s)
    BY EmptyList DEF Init, ListOf
  <2>2. \A d \in Threads : Once(stack[d]) /\ stack[d] = <<>> /\ Range(stack[d]) = {}
    BY EmptyList DEF Init
  <2> QED BY <2>1, <2>2 DEF PlaceInv, StackOf, Apart
<1>3. CountInv
  <2> SUFFICES ASSUME NEW s \in Schedulers PROVE CountOf(s)
    BY DEF CountInv
  <2>1. OnPool(s) = {}
    BY NoneAssumption DEF Init, OnPool
  <2>2. Cardinality(OnPool(s)) = 0
    BY <2>1, FS_EmptySet
  <2> QED BY <2>2, LimitAssumption DEF Init, CountOf
<1>4. ListIsServed
  BY DEF Init, ListIsServed
<1> QED BY <1>1, <1>2, <1>3, <1>4 DEF IInv

(***************************************************************************)
(* Tasks are started and cancelled.                                        *)
(***************************************************************************)
LEMMA InvQueueTask ==
  ASSUME IInv, NEW t \in Tasks, QueueTask(t)
  PROVE  IInv'
<1> DEFINE s == SchedulerOf[t]
<1> USE DEF IInv
<1>1. /\ s \in Schedulers /\ status[t] = "new"
      /\ status' = [status EXCEPT ![t] = "queued"]
      /\ tasks' = [tasks EXCEPT ![s] = Append(@, t)]
      /\ UNCHANGED <<pool, stack, waits>>
  BY SchedulerOfAssumption DEF QueueTask
<1>2. /\ delegates' \in [Schedulers -> Nat] /\ notified' \in [Schedulers -> Nat]
      /\ \A r \in Schedulers : CountOf(r)'
      /\ delegates'[s] > 0
      /\ \A r \in Schedulers \ {s} : delegates'[r] = delegates[r]
  <2> USE DEF TypeOK
  <2>1. CountOf(s) /\ Limit[s] \in Nat \ {0} /\ delegates[s] \in Nat
        /\ notified[s] \in Nat /\ Cardinality(OnPool(s)) \in Nat
    BY <1>1, LimitAssumption, PoolFinite DEF CountInv
  <2>2. \A r \in Schedulers : OnPool(r)' = OnPool(r)
    BY <1>1 DEF OnPool
  <2>3. CASE MayNotify(s)
    <3>1. /\ delegates' = [delegates EXCEPT ![s] = @ + 1]
          /\ notified' = [notified EXCEPT ![s] = @ + 1]
      BY <2>3 DEF QueueTask
    <3>a. /\ delegates'[s] = delegates[s] + 1 /\ notified'[s] = notified[s] + 1
          /\ Cardinality(OnPool(s))' = Cardinality(OnPool(s))
      BY <1>1, <2>2, <3>1
    <3>b. delegates[s] + 1 <= Limit[s]
      BY <2>1, <2>3 DEF MayNotify
    <3>2. CountOf(s)'
      BY <2>1, <3>a, <3>b DEF CountOf
    <3>3. \A r \in Schedulers \ {s} : CountOf(r)'
      BY <2>2, <3>1 DEF CountInv, CountOf
    <3> QED BY <1>1, <2>1, <3>1, <3>2, <3>3
  <2>4. CASE ~MayNotify(s)
    <3>1. UNCHANGED <<delegates, notified>>
      BY <2>4 DEF QueueTask
    <3>2. delegates[s] > 0
      BY <2>1, <2>4 DEF MayNotify
    <3> QED BY <1>1, <2>2, <3>1, <3>2 DEF CountInv, CountOf
  <2> QED BY <2>3, <2>4
<1>3. /\ Append(tasks[s], t) \in Seq(Tasks)
      /\ Range(Append(tasks[s], t)) = Range(tasks[s]) \cup {t}
      /\ t \notin Range(tasks[s]) /\ Once(Append(tasks[s], t))
  <2>1. ListOf(s) /\ tasks[s] \in Seq(Tasks)
    BY <1>1 DEF PlaceInv, TypeOK
  <2>2. t \notin Range(tasks[s]) /\ Once(tasks[s])
    BY <1>1, <2>1 DEF ListOf
  <2> QED BY <2>1, <2>2, Appended
<1> HIDE DEF s
<1>4. TypeOK'
  BY <1>1, <1>2, <1>3 DEF TypeOK
<1>5. PlaceInv'
  <2>1. ASSUME NEW r \in Schedulers PROVE ListOf(r)'
    <3>1. CASE r = s
      <4>1. tasks'[s] = Append(tasks[s], t)
        BY <1>1 DEF TypeOK
      <4>2. ListOf(s) /\ SchedulerOf[t] = s
        BY <1>1 DEF PlaceInv, s
      <4>3. ASSUME NEW u \in Range(tasks'[s])
            PROVE  status'[u] = "queued" /\ SchedulerOf[u] = s
        <5>1. u \in Range(tasks[s]) \cup {t}
          BY <1>3, <4>1
        <5> QED BY <1>1, <4>2, <5>1 DEF ListOf, TypeOK
      <4> QED BY <1>3, <3>1, <4>1, <4>3 DEF ListOf
    <3>2. CASE r # s
      BY <1>1, <3>2 DEF PlaceInv, ListOf, TypeOK
    <3> QED BY <3>1, <3>2
  <2>2. ASSUME NEW d \in Threads PROVE StackOf(d)'
    BY <1>1 DEF PlaceInv, StackOf, TypeOK
  <2>3. Apart'
    BY <1>1 DEF PlaceInv, Apart
  <2> QED BY <2>1, <2>2, <2>3 DEF PlaceInv
<1>6. ListIsServed'
  BY <1>1, <1>2 DEF ListIsServed, TypeOK
<1> QED BY <1>2, <1>4, <1>5, <1>6 DEF CountInv

\* A queued task is taken off its list, and is running or cancelled now.
LEMMA ListsShrink ==
  ASSUME TypeOK, PlaceInv, NEW t \in Tasks, status[t] = "queued",
         NEW s \in Schedulers,
         NEW q \in Seq(Tasks), tasks' = [tasks EXCEPT ![s] = q],
         Once(q), Range(q) \subseteq Range(tasks[s]) \ {t}, s = SchedulerOf[t],
         NEW now, now # "queued", status' = [status EXCEPT ![t] = now]
  PROVE  /\ tasks' \in [Schedulers -> Seq(Tasks)]
         /\ \A r \in Schedulers : ListOf(r)'
<1>1. tasks' \in [Schedulers -> Seq(Tasks)]
  BY DEF TypeOK
<1>2. ASSUME NEW r \in Schedulers PROVE ListOf(r)'
  <2>1. ListOf(r) /\ (r # s => t \notin Range(tasks[r]))
    BY DEF PlaceInv, ListOf
  <2>2. Once(tasks'[r]) /\ Range(tasks'[r]) \subseteq Range(tasks[r]) \ {t}
    BY <2>1 DEF TypeOK, ListOf
  <2>3. \A u \in Range(tasks'[r]) : status'[u] = "queued" /\ SchedulerOf[u] = r
    BY <2>1, <2>2 DEF ListOf, TypeOK
  <2> QED BY <2>2, <2>3 DEF ListOf
<1> QED BY <1>1, <1>2

LEMMA ServedStill ==
  ASSUME TypeOK, ListIsServed, NEW s \in Schedulers, NEW q,
         tasks[s] = <<>> => q = <<>>, tasks' = [tasks EXCEPT ![s] = q], UNCHANGED delegates
  PROVE  ListIsServed'
  BY DEF TypeOK, ListIsServed

LEMMA NotOnStack ==
  ASSUME PlaceInv, NEW t \in Tasks, status[t] # "running", NEW d \in Threads
  PROVE  t \notin Range(stack[d])
  BY DEF PlaceInv, StackOf

LEMMA InvCancel ==
  ASSUME IInv, NEW t \in Tasks, Cancel(t)
  PROVE  IInv'
<1> DEFINE s == SchedulerOf[t]
           q == RemoveFirst(tasks[s], t)
<1> USE DEF IInv
<1>1. /\ s \in Schedulers /\ status[t] = "queued"
      /\ status' = [status EXCEPT ![t] = "cancelled"]
      /\ tasks' = [tasks EXCEPT ![s] = q]
      /\ UNCHANGED <<delegates, notified, pool, stack, waits>>
  BY SchedulerOfAssumption DEF Cancel
<1>2. tasks[s] \in Seq(Tasks) /\ Once(tasks[s])
  BY <1>1 DEF TypeOK, PlaceInv, ListOf
<1>3. q \in Seq(Tasks) /\ Range(q) \subseteq Range(tasks[s]) \ {t} /\ Once(q)
  BY <1>2, Removed
<1>4. s = SchedulerOf[t] /\ (tasks[s] = <<>> => q = <<>>)
  BY DEF RemoveFirst
<1> HIDE DEF s, q
<1>5. tasks' \in [Schedulers -> Seq(Tasks)] /\ \A r \in Schedulers : ListOf(r)'
  BY <1>1, <1>3, <1>4, ListsShrink
<1>6. TypeOK'
  BY <1>1, <1>5 DEF TypeOK, Ended
<1>7. PlaceInv'
  <2>1. ASSUME NEW d \in Threads PROVE StackOf(d)'
    BY <1>1, NotOnStack DEF PlaceInv, StackOf, TypeOK
  <2> QED BY <1>1, <1>5, <2>1 DEF PlaceInv, Apart
<1>8. ListIsServed'
  BY <1>1, <1>4 DEF ListIsServed, TypeOK
<1> QED BY <1>1, <1>6, <1>7, <1>8, CountKept

(***************************************************************************)
(* Delegates start and leave.                                              *)
(***************************************************************************)
LEMMA InvStartDelegate ==
  ASSUME IInv, NEW d \in Threads, NEW s \in Schedulers, StartDelegate(d, s)
  PROVE  IInv'
<1> USE DEF IInv
<1>1. /\ notified[s] > 0 /\ pool[d] = None
      /\ notified' = [notified EXCEPT ![s] = @ - 1]
      /\ pool' = [pool EXCEPT ![d] = s]
      /\ UNCHANGED <<status, tasks, delegates, stack, waits>>
  BY DEF StartDelegate
<1>2. TypeOK'
  BY <1>1 DEF TypeOK
<1>3. CountInv'
  <2> SUFFICES ASSUME NEW r \in Schedulers PROVE CountOf(r)'
    BY DEF CountInv
  <2>1. CASE r = s
    <3>1. /\ CountOf(s) /\ notified[s] \in Nat /\ Cardinality(OnPool(s)) \in Nat
          /\ notified'[s] = notified[s] - 1
      BY <1>1, PoolFinite DEF CountInv, TypeOK
    <3>2. Cardinality(OnPool(s))' = Cardinality(OnPool(s)) + 1
      BY <1>1, PoolJoined
    <3> QED BY <1>1, <2>1, <3>1, <3>2 DEF CountOf
  <2>2. CASE r # s
    BY <1>1, <2>2, PoolJoined DEF CountInv, CountOf, TypeOK
  <2> QED BY <2>1, <2>2
<1>4. PlaceInv'
  <2>1. stack[d] = <<>> /\ Range(stack[d]) = {}
    BY <1>1, EmptyList DEF PlaceInv, StackOf
  <2>2. ASSUME NEW e \in Threads PROVE StackOf(e)'
    <3>1. StackOf(e) /\ (e # d => pool'[e] = pool[e])
      BY <1>1 DEF PlaceInv, TypeOK
    <3> QED BY <1>1, <2>1, <3>1 DEF StackOf
  <2> QED BY <1>1, <2>2 DEF PlaceInv, ListOf, Apart
<1>5. ListIsServed'
  BY <1>1 DEF ListIsServed
<1> QED BY <1>2, <1>3, <1>4, <1>5

LEMMA InvLeave ==
  ASSUME IInv, NEW d \in Threads, Leave(d)
  PROVE  IInv'
<1> USE DEF IInv
<1>0. PICK s \in Schedulers : s = pool[d]
  BY DEF Leave, TypeOK
<1>1. /\ stack[d] = <<>> /\ tasks[s] = <<>> /\ pool[d] = s
      /\ delegates' = [delegates EXCEPT ![s] = @ - 1]
      /\ pool' = [pool EXCEPT ![d] = None]
      /\ UNCHANGED <<status, tasks, notified, stack, waits>>
  BY <1>0 DEF Leave
<1>2. delegates[s] - 1 \in Nat /\ CountInv'
  <2>1. CountOf(s) /\ delegates[s] \in Nat /\ notified[s] \in Nat
        /\ Limit[s] \in Nat /\ Cardinality(OnPool(s)) \in Nat
    BY PoolFinite, LimitAssumption DEF CountInv, TypeOK
  <2>2. /\ Cardinality(OnPool(s))' = Cardinality(OnPool(s)) - 1
        /\ Cardinality(OnPool(s)) > 0
        /\ \A r \in Schedulers \ {s} : OnPool(r)' = OnPool(r)
    BY <1>1, PoolLeft
  <2>3. delegates[s] - 1 \in Nat
    BY <2>1, <2>2 DEF CountOf
  <2>4. delegates'[s] = delegates[s] - 1
        /\ \A r \in Schedulers \ {s} : delegates'[r] = delegates[r]
    BY <1>1 DEF TypeOK
  <2>5. CountOf(s)'
    BY <1>1, <2>1, <2>2, <2>4 DEF CountOf
  <2>6. \A r \in Schedulers \ {s} : CountOf(r)'
    BY <1>1, <2>2, <2>4 DEF CountInv, CountOf
  <2> QED BY <2>3, <2>5, <2>6 DEF CountInv
<1>3. TypeOK'
  BY <1>1, <1>2 DEF TypeOK
<1>4. PlaceInv'
  <2>1. Range(stack[d]) = {}
    BY <1>1, EmptyList
  <2>2. ASSUME NEW e \in Threads PROVE StackOf(e)'
    <3>1. StackOf(e) /\ (e # d => pool'[e] = pool[e])
      BY <1>1 DEF PlaceInv, TypeOK
    <3> QED BY <1>1, <2>1, <3>1 DEF StackOf
  <2> QED BY <1>1, <2>2 DEF PlaceInv, ListOf, Apart
<1>5. ListIsServed'
  BY <1>1 DEF ListIsServed, TypeOK
<1> QED BY <1>2, <1>3, <1>4, <1>5

(***************************************************************************)
(* Tasks are executed.                                                     *)
(***************************************************************************)

\* A task that was started or not is put on a thread's stack; the lists are as
\* they should be without it.
LEMMA InvExecute ==
  ASSUME IInv, NEW d \in Threads, NEW t \in Tasks, status[t] \in {"new", "queued"},
         tasks' \in [Schedulers -> Seq(Tasks)], \A r \in Schedulers : ListOf(r)',
         ListIsServed', pool[d] # None, Lends(pool[d], t), Execute(d, t),
         UNCHANGED <<delegates, notified, pool, waits>>
  PROVE  IInv'
<1> USE DEF IInv
<1>1. /\ status' = [status EXCEPT ![t] = "running"]
      /\ stack' = [stack EXCEPT ![d] = Append(@, t)]
  BY DEF Execute
<1>2. \A e \in Threads : t \notin Range(stack[e])
  BY NotOnStack
<1>3. /\ stack'[d] \in Seq(Tasks) /\ Once(stack'[d]) /\ stack'[d] # <<>>
      /\ Range(stack'[d]) = Range(stack[d]) \cup {t}
      /\ \A e \in Threads \ {d} : stack'[e] = stack[e]
  <2>1. stack[d] \in Seq(Tasks) /\ Once(stack[d]) /\ stack'[d] = Append(stack[d], t)
    BY <1>1 DEF TypeOK, PlaceInv, StackOf
  <2> QED BY <1>1, <1>2, <2>1, Appended DEF TypeOK
<1>4. TypeOK'
  BY <1>1, <1>3 DEF TypeOK
<1>5. ASSUME NEW e \in Threads PROVE StackOf(e)'
  <2>1. StackOf(e)
    BY DEF PlaceInv
  <2>2. CASE e = d
    <3>1. ASSUME NEW u \in Range(stack'[d])
          PROVE  status'[u] = "running" /\ Lends(pool'[d], u)
      BY <1>1, <1>3, <2>1, <2>2 DEF StackOf, TypeOK
    <3> QED BY <1>3, <2>2, <3>1 DEF StackOf
  <2>3. CASE e # d
    BY <1>1, <1>2, <1>3, <2>1, <2>3 DEF StackOf, TypeOK
  <2> QED BY <2>2, <2>3
<1>6. Apart'
  <2> SUFFICES ASSUME NEW a \in Threads, NEW b \in Threads, a # b
               PROVE  Range(stack'[a]) \cap Range(stack'[b]) = {}
    BY DEF Apart
  <2>1. Range(stack[a]) \cap Range(stack[b]) = {}
    BY DEF PlaceInv, Apart
  <2> QED BY <1>2, <1>3, <2>1
<1> QED BY <1>4, <1>5, <1>6, CountKept DEF PlaceInv

\* What the task on top of d waits for, or runs, d is lent for.
LEMMA LendsOn ==
  ASSUME IInv, NEW d \in Threads, Executing(d), NEW u, <<Top(d), u>> \in Awaits \cup Runs
  PROVE  Lends(pool[d], u) /\ pool[d] # None
<1>1. stack[d] \in Seq(Tasks) /\ stack[d] # <<>> /\ StackOf(d)
  BY DEF Executing, IInv, TypeOK, PlaceInv
<1>2. Top(d) \in Range(stack[d])
  BY <1>1, LastTaken DEF Top
<1>3. Lends(pool[d], Top(d)) /\ pool[d] # None
  BY <1>1, <1>2 DEF StackOf
<1>4. ASSUME NEW H \in SUBSET Schedulers, Closed(H), SchedulerOf[u] \in H
      PROVE  SchedulerOf[Top(d)] \in H
  BY <1>4 DEF Closed
<1> QED BY <1>3, <1>4 DEF Lends

LEMMA InvTakeTask ==
  ASSUME IInv, NEW d \in Threads, TakeTask(d)
  PROVE  IInv'
<1>1. PICK s \in Schedulers : s = pool[d] /\ tasks[s] \in Seq(Tasks) /\ ListOf(s)
  BY DEF TakeTask, IInv, TypeOK, PlaceInv
<1>2. PICK t \in Tasks, q \in Seq(Tasks) :
        /\ t = Head(tasks[s]) /\ q = Tail(tasks[s]) /\ t \in Range(tasks[s])
        /\ Once(q) /\ Range(q) \subseteq Range(tasks[s]) \ {t}
  <2>1. tasks[s] # <<>>
    BY <1>1 DEF TakeTask
  <2>2. PICK t, q : t = Head(tasks[s]) /\ q = Tail(tasks[s])
    OBVIOUS
  <2>3. /\ t \in Tasks /\ q \in Seq(Tasks) /\ t \in Range(tasks[s])
        /\ Range(q) \subseteq Range(tasks[s]) /\ Once(q) /\ t \notin Range(q)
    BY <1>1, <2>1, <2>2, HeadTaken DEF ListOf
  <2> QED BY <2>2, <2>3
<1>3. status[t] = "queued" /\ s = SchedulerOf[t]
  BY <1>1, <1>2 DEF ListOf
<1>4. /\ tasks[s] # <<>> /\ tasks' = [tasks EXCEPT ![s] = q] /\ pool[d] # None
      /\ Execute(d, t) /\ UNCHANGED <<delegates, notified, pool, waits>>
  BY <1>1, <1>2 DEF TakeTask
<1>5. tasks' \in [Schedulers -> Seq(Tasks)] /\ \A r \in Schedulers : ListOf(r)'
  BY <1>2, <1>3, <1>4, ListsShrink DEF Execute, IInv
<1>6. ListIsServed'
  BY <1>4, ServedStill DEF IInv
<1>7. Lends(pool[d], t)
  BY <1>1, <1>3 DEF Lends
<1> QED BY <1>3, <1>4, <1>5, <1>6, <1>7, InvExecute

LEMMA InvInline ==
  ASSUME IInv, NEW d \in Threads, NEW u \in Tasks, Inline(d, u)
  PROVE  IInv'
<1>1. PICK s \in Schedulers :
        s = SchedulerOf[u] /\ tasks[s] \in Seq(Tasks) /\ ListOf(s)
  BY SchedulerOfAssumption DEF IInv, TypeOK, PlaceInv
<1>2. PICK q \in Seq(Tasks) :
        /\ q = RemoveFirst(tasks[s], u)
        /\ Once(q) /\ Range(q) \subseteq Range(tasks[s]) \ {u}
  BY <1>1, Removed DEF ListOf
<1>3. Lends(pool[d], u) /\ pool[d] # None
  BY LendsOn DEF Inline
<1>4. /\ status[u] = "queued" /\ tasks' = [tasks EXCEPT ![s] = q]
      /\ Execute(d, u) /\ UNCHANGED <<delegates, notified, pool, waits>>
  BY <1>1, <1>2 DEF Inline
<1>5. tasks' \in [Schedulers -> Seq(Tasks)] /\ \A r \in Schedulers : ListOf(r)'
  BY <1>1, <1>2, <1>4, ListsShrink DEF Execute, IInv
<1>6. ListIsServed'
  <2>1. tasks[s] = <<>> => q = <<>>
    BY <1>2 DEF RemoveFirst
  <2> QED BY <1>4, <2>1, ServedStill DEF IInv
<1> QED BY <1>3, <1>4, <1>5, <1>6, InvExecute

LEMMA InvInlineUnqueued ==
  ASSUME IInv, NEW d \in Threads, NEW u \in Tasks, InlineUnqueued(d, u)
  PROVE  IInv'
<1>1. Lends(pool[d], u) /\ pool[d] # None
  BY LendsOn DEF InlineUnqueued
<1>2. /\ status[u] = "new" /\ status' = [status EXCEPT ![u] = "running"]
      /\ Execute(d, u) /\ UNCHANGED <<tasks, delegates, notified, pool, waits>>
  BY DEF InlineUnqueued, Execute
<1>3. tasks' \in [Schedulers -> Seq(Tasks)] /\ ListIsServed'
  BY <1>2 DEF IInv, TypeOK, ListIsServed
<1>4. \A r \in Schedulers : ListOf(r)'
  BY <1>2 DEF IInv, PlaceInv, ListOf, TypeOK
<1> QED BY <1>1, <1>2, <1>3, <1>4, InvExecute

LEMMA InvFinish ==
  ASSUME IInv, NEW d \in Threads, Finish(d)
  PROVE  IInv'
<1> USE DEF IInv
<1>1. PICK t \in Tasks, q \in Seq(Tasks) :
        /\ t = Top(d) /\ q = Front(stack[d])
        /\ t \in Range(stack[d]) /\ t \notin Range(q)
        /\ Once(q) /\ Range(q) \subseteq Range(stack[d])
  <2>1. stack[d] \in Seq(Tasks) /\ stack[d] # <<>> /\ StackOf(d)
    BY DEF Finish, Executing, TypeOK, PlaceInv
  <2>2. PICK t, q : t = Top(d) /\ q = Front(stack[d])
    OBVIOUS
  <2>3. /\ t \in Tasks /\ q \in Seq(Tasks) /\ t \in Range(stack[d])
        /\ Range(q) \subseteq Range(stack[d]) /\ Once(q) /\ t \notin Range(q)
    BY <2>1, <2>2, LastTaken DEF StackOf, Top
  <2> QED BY <2>2, <2>3
<1>2. /\ status[t] = "running" /\ pool[d] # None
      /\ status' = [status EXCEPT ![t] = "done"]
      /\ stack' = [stack EXCEPT ![d] = q]
      /\ UNCHANGED <<tasks, delegates, notified, pool, waits>>
  <2>1. StackOf(d) /\ Range(stack[d]) # {} /\ stack[d] # <<>>
    BY <1>1 DEF PlaceInv, Finish, Executing
  <2> QED BY <1>1, <2>1 DEF Finish, StackOf
<1>3. TypeOK'
  BY <1>2 DEF TypeOK, Ended
<1>4. ASSUME NEW e \in Threads PROVE StackOf(e)'
  <2>1. StackOf(e)
    BY DEF PlaceInv
  <2>2. CASE e = d
    <3>1. stack'[d] = q
      BY <1>2 DEF TypeOK
    <3> QED BY <1>1, <1>2, <2>1, <2>2, <3>1 DEF StackOf, TypeOK
  <2>3. CASE e # d
    <3>1. stack'[e] = stack[e] /\ t \notin Range(stack[e])
      BY <1>1, <1>2, <2>3 DEF TypeOK, PlaceInv, Apart
    <3> QED BY <1>2, <2>1, <3>1 DEF StackOf, TypeOK
  <2> QED BY <2>2, <2>3
<1>5. \A s \in Schedulers : ListOf(s)'
  BY <1>2 DEF PlaceInv, ListOf, TypeOK
<1>6. Apart'
  <2> SUFFICES ASSUME NEW a \in Threads, NEW b \in Threads, a # b
               PROVE  Range(stack'[a]) \cap Range(stack'[b]) = {}
    BY DEF Apart
  <2>1. \A e \in Threads : Range(stack'[e]) \subseteq Range(stack[e])
    BY <1>1, <1>2 DEF TypeOK
  <2> QED BY <2>1 DEF PlaceInv, Apart
<1>7. ListIsServed'
  BY <1>2 DEF ListIsServed
<1> QED BY <1>2, <1>3, <1>4, <1>5, <1>6, <1>7, CountKept DEF PlaceInv

LEMMA InvWait ==
  ASSUME IInv, NEW d \in Threads,
         Unblock(d) \/ \E u \in Tasks : Block(d, u)
  PROVE  IInv'
<1> USE DEF IInv
<1>1. /\ waits' \in [Threads -> Tasks \cup {None}]
      /\ UNCHANGED <<status, tasks, delegates, notified, pool, stack>>
  BY DEF Unblock, Block, TypeOK
<1>2. TypeOK' /\ ListIsServed'
  BY <1>1 DEF TypeOK, ListIsServed
<1>3. PlaceInv'
  BY <1>1 DEF PlaceInv, ListOf, StackOf, Apart
<1> QED BY <1>1, <1>2, <1>3, CountKept

LEMMA InvStutter ==
  ASSUME IInv, UNCHANGED vars
  PROVE  IInv'
<1>1. TypeOK' /\ ListIsServed'
  BY DEF IInv, TypeOK, ListIsServed, vars
<1>2. PlaceInv'
  BY DEF IInv, PlaceInv, ListOf, StackOf, Apart, vars
<1> QED BY <1>1, <1>2, CountKept DEF IInv, vars

LEMMA InvStep == IInv /\ [Next]_vars => IInv'
<1> SUFFICES ASSUME IInv, [Next]_vars PROVE IInv'
  OBVIOUS
<1>1. ASSUME NEW t \in Tasks, QueueTask(t) \/ Cancel(t) PROVE IInv'
  BY <1>1, InvQueueTask, InvCancel
<1>2. ASSUME NEW s \in Schedulers, StartSome(s) PROVE IInv'
  BY <1>2, InvStartDelegate DEF StartSome
<1>3. ASSUME NEW d \in Threads, ThreadStep(d) PROVE IInv'
  BY <1>3, InvTakeTask, InvLeave, InvFinish, InvWait, InvInline,
     InvInlineUnqueued DEF ThreadStep
<1>4. CASE UNCHANGED vars
  BY <1>4, InvStutter
<1> QED BY <1>1, <1>2, <1>3, <1>4 DEF Next

\* The inductive invariant of the limiter's pool and queues: the theorems below
\* follow from it.
THEOREM Invariant == Spec => []IInv
  BY InvInit, InvStep, PTL DEF Spec

(***************************************************************************)
(* What follows.                                                           *)
(***************************************************************************)

\* Every variable keeps its type; the count of delegates never goes below zero.
THEOREM TypeCorrect == Spec => []TypeOK
<1>1. IInv => TypeOK
  BY DEF IInv
<1> QED BY <1>1, Invariant, PTL

\* A list that is not empty has a delegate that was queued or runs: the check
\* of the limit and the departure of a delegate cannot miss each other.
THEOREM ListServed == Spec => []ListIsServed
<1>1. IInv => ListIsServed
  BY DEF IInv
<1> QED BY <1>1, Invariant, PTL

\* A task is on one list or one thread's stack, once, whoever takes it off:
\* a delegate, a wait that inlines it, or a cancellation.
THEOREM TaskInOnePlace == Spec => []OnePlace
<1>1. IInv => OnePlace
  BY DEF IInv, PlaceInv, ListOf, StackOf, Apart, OnePlace, Once
<1> QED BY <1>1, Invariant, PTL

\* No more tasks of a scheduler run at once than its limit and the threads that
\* it is lent by the schedulers whose tasks wait for its tasks or run them.
THEOREM LimitKept == Spec => []ConcurrencyLimited
<1>1. IInv => ConcurrencyLimited
  <2> SUFFICES ASSUME IInv, NEW s \in Schedulers, NEW H \in SUBSET Schedulers,
                      s \in H, Closed(H)
               PROVE  Cardinality(Busy(s)) <=
                        Limit[s] + Cardinality({d \in Threads : pool[d] \in H \ {s}})
    BY DEF ConcurrencyLimited
  <2> DEFINE Lent == {d \in Threads : pool[d] \in H \ {s}}
  <2>1. Busy(s) \subseteq OnPool(s) \cup Lent
    <3> SUFFICES ASSUME NEW d \in Threads, Executing(d), SchedulerOf[Top(d)] = s
                 PROVE  pool[d] \in H
      BY DEF Busy, OnPool
    <3>1. stack[d] \in Seq(Tasks) /\ stack[d] # <<>> /\ StackOf(d)
      BY DEF Executing, IInv, TypeOK, PlaceInv
    <3>2. Top(d) \in Range(stack[d])
      BY <3>1, LastTaken DEF Top
    <3> QED BY <3>1, <3>2 DEF StackOf, Lends
  <2>2. IsFiniteSet(Lent) /\ Cardinality(Lent) \in Nat
    BY ThreadsAssumption, FS_Subset, FS_CardinalityType
  <2>3. OnPool(s) \cap Lent = {}
    BY DEF OnPool
  <2> HIDE DEF Lent
  <2>4. /\ IsFiniteSet(OnPool(s) \cup Lent)
        /\ Cardinality(OnPool(s) \cup Lent) = Cardinality(OnPool(s)) + Cardinality(Lent)
    <3>1. /\ IsFiniteSet(OnPool(s) \cup Lent)
          /\ Cardinality(OnPool(s) \cup Lent) =
               Cardinality(OnPool(s)) + Cardinality(Lent) - Cardinality(OnPool(s) \cap Lent)
      BY <2>2, PoolFinite, FS_Union
    <3>2. Cardinality(OnPool(s) \cap Lent) = 0
      BY <2>3, FS_EmptySet
    <3> QED BY <2>2, <3>1, <3>2, PoolFinite
  <2>5. Cardinality(Busy(s)) <= Cardinality(OnPool(s) \cup Lent) /\ Cardinality(Busy(s)) \in Nat
    BY <2>1, <2>4, FS_Subset, FS_CardinalityType
  <2>6. Cardinality(OnPool(s)) <= Limit[s] /\ Limit[s] \in Nat
    BY PoolFinite, LimitAssumption DEF IInv, TypeOK, CountInv, CountOf
  <2>7. Cardinality(Busy(s)) <= Limit[s] + Cardinality(Lent)
    BY <2>2, <2>4, <2>5, <2>6, PoolFinite
  <2> QED BY <2>7 DEF Lent
<1> QED BY <1>1, Invariant, PTL

================================================================================
