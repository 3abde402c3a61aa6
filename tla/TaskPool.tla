-------------------------------- MODULE TaskPool --------------------------------
(***************************************************************************)
(* TaskPoolSchedulerWithLimiter: schedulers that run at most Limit[s]      *)
(* delegates each on the threads of one shared thread pool, a delegate     *)
(* that takes tasks off its scheduler's list until the list is empty, and  *)
(* the inlining of a task into the thread of a task that waits for it or   *)
(* runs it with RunSynchronously.                                          *)
(*                                                                         *)
(* _currentThreadIsProcessingItems is a thread-static: it is true on every *)
(* thread that runs a delegate, of whichever scheduler.  Tasks, Task.Wait  *)
(* and the thread pool belong to the .NET library and are modelled from    *)
(* how it calls the scheduler.  _taskQueue, which nothing reads, and       *)
(* _onCompleted, a thread-static that is null on the pool's threads, are   *)
(* left out.                                                               *)
(***************************************************************************)
EXTENDS Naturals, Sequences, FiniteSets, SequencesExt

CONSTANTS
  Schedulers,   \* instances of the scheduler
  Limit,        \* Limit[s]: maxDegreeOfParallelism
  Tasks,        \* the tasks that are ever started
  SchedulerOf,  \* SchedulerOf[t]: the scheduler t is started on
  Awaits,       \* <<t, u>>: t calls Wait on u
  Runs,         \* <<t, u>>: t calls RunSynchronously on u
  Threads,      \* threads of the pool
  None          \* no scheduler, no task

ASSUME LimitAssumption == Limit \in [Schedulers -> Nat \ {0}]
ASSUME SchedulerOfAssumption == SchedulerOf \in [Tasks -> Schedulers]
ASSUME AwaitsAssumption == Awaits \subseteq Tasks \X Tasks
ASSUME RunsAssumption == Runs \subseteq Tasks \X Tasks
ASSUME ThreadsAssumption == IsFiniteSet(Threads)
ASSUME NoneAssumption == None \notin Schedulers /\ None \notin Tasks

VARIABLES
  status,       \* status[t]: new, queued, running, done or cancelled
  tasks,        \* tasks[s]: _tasks, the list of s
  delegates,    \* delegates[s]: _delegatesQueuedOrRunning
  notified,     \* notified[s]: delegates that the pool has yet to start
  pool,         \* pool[d]: the scheduler whose delegate runs on thread d
  stack,        \* stack[d]: the tasks on d, each inlined into the one before
  waits         \* waits[d]: the task that the last one of stack[d] waits for

vars == <<status, tasks, delegates, notified, pool, stack, waits>>

Ended == {"done", "cancelled"}
Top(d) == Last(stack[d])
Executing(d) == stack[d] # <<>> /\ waits[d] = None

Init ==
  /\ status = [t \in Tasks |-> "new"]
  /\ tasks = [s \in Schedulers |-> <<>>]
  /\ delegates = [s \in Schedulers |-> 0]
  /\ notified = [s \in Schedulers |-> 0]
  /\ pool = [d \in Threads |-> None]
  /\ stack = [d \in Threads |-> <<>>]
  /\ waits = [d \in Threads |-> None]

-------------------------------------------------------------------------------

\* Mutant: the limit is compared with <=.
MayNotifyAtLimit(s) == delegates[s] <= Limit[s]

MayNotify(s) == delegates[s] < Limit[s]

\* Mutant: a new delegate is started and not counted.
QueueTaskUncounted(t) ==
  LET s == SchedulerOf[t] IN
  /\ status[t] = "new"
  /\ status' = [status EXCEPT ![t] = "queued"]
  /\ tasks' = [tasks EXCEPT ![s] = Append(@, t)]
  /\ notified' = [notified EXCEPT ![s] = IF MayNotify(s) THEN @ + 1 ELSE @]
  /\ UNCHANGED <<delegates, pool, stack, waits>>

\* QueueTask, under the lock: one more delegate unless the limit is reached.
QueueTask(t) ==
  LET s == SchedulerOf[t] IN
  /\ status[t] = "new"
  /\ status' = [status EXCEPT ![t] = "queued"]
  /\ tasks' = [tasks EXCEPT ![s] = Append(@, t)]
  /\ IF MayNotify(s)
       THEN /\ delegates' = [delegates EXCEPT ![s] = @ + 1]
            /\ notified' = [notified EXCEPT ![s] = @ + 1]
       ELSE UNCHANGED <<delegates, notified>>
  /\ UNCHANGED <<pool, stack, waits>>

\* The pool runs a delegate on a free thread.
StartDelegate(d, s) ==
  /\ notified[s] > 0
  /\ pool[d] = None
  /\ notified' = [notified EXCEPT ![s] = @ - 1]
  /\ pool' = [pool EXCEPT ![d] = s]
  /\ UNCHANGED <<status, tasks, delegates, stack, waits>>

\* A thread of s starts to execute t, on top of what it was executing.
Execute(d, t) ==
  /\ status' = [status EXCEPT ![t] = "running"]
  /\ stack' = [stack EXCEPT ![d] = Append(@, t)]

\* The delegate takes the first task of the list.
TakeTask(d) ==
  /\ pool[d] # None
  /\ stack[d] = <<>>
  /\ tasks[pool[d]] # <<>>
  /\ tasks' = [tasks EXCEPT ![pool[d]] = Tail(@)]
  /\ Execute(d, Head(tasks[pool[d]]))
  /\ UNCHANGED <<delegates, notified, pool, waits>>

\* Mutant: the delegate ends after its task without a look at the list.
LeaveAfterTask(d) ==
  /\ pool[d] # None
  /\ stack[d] = <<>>
  /\ delegates' = [delegates EXCEPT ![pool[d]] = @ - 1]
  /\ pool' = [pool EXCEPT ![d] = None]
  /\ UNCHANGED <<status, tasks, notified, stack, waits>>

\* The list is empty: the delegate is counted off and ends.
Leave(d) ==
  /\ pool[d] # None
  /\ stack[d] = <<>>
  /\ tasks[pool[d]] = <<>>
  /\ delegates' = [delegates EXCEPT ![pool[d]] = @ - 1]
  /\ pool' = [pool EXCEPT ![d] = None]
  /\ UNCHANGED <<status, tasks, notified, stack, waits>>

\* TryExecuteTask returns: the task has waited for all that it waits for, and
\* run what it runs, unless somebody else had started that.
Finish(d) ==
  /\ Executing(d)
  /\ \A u \in Tasks : <<Top(d), u>> \in Awaits => status[u] \in Ended
  /\ \A u \in Tasks : <<Top(d), u>> \in Runs => status[u] # "new"
  /\ status' = [status EXCEPT ![Top(d)] = "done"]
  /\ stack' = [stack EXCEPT ![d] = Front(@)]
  /\ UNCHANGED <<tasks, delegates, notified, pool, waits>>

\* Mutant: the inlined task stays on the list.
InlineQueued(d, u) ==
  /\ Executing(d)
  /\ <<Top(d), u>> \in Awaits
  /\ status[u] = "queued"
  /\ Execute(d, u)
  /\ UNCHANGED <<tasks, delegates, notified, pool, waits>>

\* Wait on a task that is on a list: TryExecuteTaskInline, which succeeds on
\* any thread that processes items, takes it off and executes it here.
Inline(d, u) ==
  /\ Executing(d)
  /\ <<Top(d), u>> \in Awaits
  /\ status[u] = "queued"
  /\ tasks' = [tasks EXCEPT ![SchedulerOf[u]] = RemoveFirst(@, u)]
  /\ Execute(d, u)
  /\ UNCHANGED <<delegates, notified, pool, waits>>

\* RunSynchronously of a task that was never queued: TryExecuteTaskInline
\* executes it at once on any thread that processes items.  No list and no
\* count of its scheduler has to do with it.  A continuation that is to run
\* synchronously comes the same way at the end of the task it continues, which
\* is taken to run it as the last thing it does.
InlineUnqueued(d, u) ==
  /\ Executing(d)
  /\ <<Top(d), u>> \in Runs
  /\ status[u] = "new"
  /\ Execute(d, u)
  /\ UNCHANGED <<tasks, delegates, notified, pool, waits>>

\* Wait on a task that is not on a list blocks the thread.
Block(d, u) ==
  /\ Executing(d)
  /\ <<Top(d), u>> \in Awaits
  /\ status[u] \in {"new", "running"}
  /\ waits' = [waits EXCEPT ![d] = u]
  /\ UNCHANGED <<status, tasks, delegates, notified, pool, stack>>

Unblock(d) ==
  /\ waits[d] # None
  /\ status[waits[d]] \in Ended
  /\ waits' = [waits EXCEPT ![d] = None]
  /\ UNCHANGED <<status, tasks, delegates, notified, pool, stack>>

\* A task that is cancelled before it ran is taken off with TryDequeue.
Cancel(t) ==
  /\ status[t] = "queued"
  /\ status' = [status EXCEPT ![t] = "cancelled"]
  /\ tasks' = [tasks EXCEPT ![SchedulerOf[t]] = RemoveFirst(@, t)]
  /\ UNCHANGED <<delegates, notified, pool, stack, waits>>

ThreadStep(d) ==
  \/ TakeTask(d) \/ Leave(d) \/ Finish(d) \/ Unblock(d)
  \/ \E u \in Tasks : Inline(d, u) \/ InlineUnqueued(d, u) \/ Block(d, u)

StartSome(s) == \E d \in Threads : StartDelegate(d, s)

Next ==
  \/ \E t \in Tasks : QueueTask(t) \/ Cancel(t)
  \/ \E s \in Schedulers : StartSome(s)
  \/ \E d \in Threads : ThreadStep(d)

\* The thread pool starts what it was given, and its threads go on; nothing
\* makes anybody start or cancel a task.
Fairness ==
  /\ \A s \in Schedulers : WF_vars(StartSome(s))
  /\ \A d \in Threads : WF_vars(ThreadStep(d))

Spec == Init /\ [][Next]_vars /\ Fairness

-------------------------------------------------------------------------------
(* Properties. *)

TypeOK ==
  /\ status \in [Tasks -> {"new", "queued", "running"} \cup Ended]
  /\ tasks \in [Schedulers -> Seq(Tasks)]
  /\ delegates \in [Schedulers -> Nat]
  /\ notified \in [Schedulers -> Nat]
  /\ pool \in [Threads -> Schedulers \cup {None}]
  /\ stack \in [Threads -> Seq(Tasks)]
  /\ waits \in [Threads -> Tasks \cup {None}]

\* No task of another scheduler waits for, or runs, a task of one in H.
Closed(H) ==
  \A w \in Awaits \cup Runs : SchedulerOf[w[2]] \in H => SchedulerOf[w[1]] \in H

\* Threads that execute a task of s, not counting tasks that wait.
Busy(s) == {d \in Threads : Executing(d) /\ SchedulerOf[Top(d)] = s}

\* How far the "maximum concurrency level" goes: the tasks of s that run are no
\* more than its limit and the threads that other schedulers lend it, those
\* whose tasks wait for or run a task of s, or do so by way of others.  If only
\* tasks of s do, H is {s} and the limit holds; if others do, it is exceeded,
\* since a task is inlined into a thread that is not counted against the limit
\* of its scheduler: the thread-static does not say whose delegate a thread runs.
ConcurrencyLimited ==
  \A s \in Schedulers, H \in SUBSET Schedulers :
    s \in H /\ Closed(H) =>
      Cardinality(Busy(s)) <= Limit[s] + Cardinality({d \in Threads : pool[d] \in H \ {s}})

\* A task on a list has a delegate to come for it: the last one cannot leave
\* while QueueTask counts on it.
ListIsServed ==
  \A s \in Schedulers : tasks[s] # <<>> => delegates[s] > 0

\* A task is queued or executed in one place at most, although delegates,
\* inlining and cancellation all take tasks off the same list.
OnePlace ==
  /\ \A s \in Schedulers : \A i, j \in DOMAIN tasks[s] :
        tasks[s][i] = tasks[s][j] => i = j
  /\ \A s \in Schedulers : \A t \in Range(tasks[s]) : status[t] = "queued"
  /\ \A d \in Threads : \A t \in Range(stack[d]) : status[t] = "running"
  /\ \A d, e \in Threads : d # e => Range(stack[d]) \cap Range(stack[e]) = {}

\* Nobody waits for a task that was not started when the wait began.
NoEarlyWait == \A d \in Threads : waits[d] # None => status[waits[d]] # "new"

\* A task that was started ends, if tasks wait only for what was started: a
\* limit of one or a blocked thread does not hold up a list for ever.
EveryTaskEnds ==
  []NoEarlyWait => \A t \in Tasks : (status[t] = "queued") ~> (status[t] \in Ended)

================================================================================
