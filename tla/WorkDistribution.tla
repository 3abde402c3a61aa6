--------------------------- MODULE WorkDistribution ---------------------------
(***************************************************************************)
(* What a fanout strategy (IClusterFanout: PullFanout, CompeteFanout)      *)
(* promises about the work items given to it, whatever it does with        *)
(* queues, semaphores, reservations and threads: an item that was fanned   *)
(* out waits in the pool until one holder takes it; it is never taken      *)
(* twice, never leaves the pool by itself, and is given up without an      *)
(* outcome only by a holder that was told to stop.                         *)
(*                                                                         *)
(* This module models no code. It is the specification that the fanout     *)
(* modules are shown to implement.                                         *)
(***************************************************************************)
CONSTANTS
  Work,       \* the work items
  Holders,    \* the things that run work: a read loop, a worker connection
  Eligible,   \* Eligible[w]: the holders that may run w
  Exclusive,  \* TRUE: a holder runs at most one item at a time
  None        \* no holder

VARIABLES
  stage,      \* stage[w]: where item w is
  holder,     \* holder[w]: who runs w, while stage[w] = "held"
  stopped     \* the holders that were told to stop

vars == <<stage, holder, stopped>>

Stages == {"new", "pooled", "held", "completed", "failed", "abandoned"}

Idle(h) == \A w \in Work : holder[w] # h

Init ==
  /\ stage = [w \in Work |-> "new"]
  /\ holder = [w \in Work |-> None]
  /\ stopped = {}

\* The item enters the pool.
Submit(w) ==
  /\ stage[w] = "new"
  /\ stage' = [stage EXCEPT ![w] = "pooled"]
  /\ UNCHANGED <<holder, stopped>>

\* One eligible holder takes the item.
Take(w, h) ==
  /\ stage[w] = "pooled"
  /\ h \in Eligible[w]
  /\ Exclusive => Idle(h)
  /\ stage' = [stage EXCEPT ![w] = "held"]
  /\ holder' = [holder EXCEPT ![w] = h]
  /\ UNCHANGED stopped

\* The holder is done with the item, for better or worse.
Settle(w, result) ==
  /\ stage[w] = "held"
  /\ result = "abandoned" => holder[w] \in stopped
  /\ stage' = [stage EXCEPT ![w] = result]
  /\ holder' = [holder EXCEPT ![w] = None]
  /\ UNCHANGED stopped

Stop(h) ==
  /\ stopped' = stopped \cup {h}
  /\ UNCHANGED <<stage, holder>>

Next ==
  \/ \E w \in Work :
        \/ Submit(w)
        \/ \E h \in Holders : Take(w, h)
        \/ \E result \in {"completed", "failed", "abandoned"} : Settle(w, result)
  \/ \E h \in Holders : Stop(h)

Spec == Init /\ [][Next]_vars

===============================================================================
