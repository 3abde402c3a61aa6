----------------------------- MODULE GroupDelivery -----------------------------
(***************************************************************************)
(* What a consumer group promises about the entries of a stream, whatever  *)
(* its consumers do with batches, acknowledgements and restarts: entries   *)
(* are handed out in the order they were published, each one once; the     *)
(* one who got an entry delivers it at most once or gives it up, and an    *)
(* entry that was given up never comes back.                               *)
(*                                                                         *)
(* This module models no code.  It is the specification that RedisStream   *)
(* is shown to implement.                                                  *)
(***************************************************************************)
EXTENDS Naturals

CONSTANT MaxEntries     \* how many entries are ever published

VARIABLE fate           \* fate[e]: what has become of the e-th entry

vars == <<fate>>

Entries == 1..MaxEntries
Fates == {"unpublished", "waiting", "taken", "delivered", "abandoned"}

Init == fate = [e \in Entries |-> "unpublished"]

\* The next entry of the stream is published.
Publish(e) ==
  /\ fate[e] = "unpublished"
  /\ \A f \in Entries : f < e => fate[f] # "unpublished"
  /\ fate' = [fate EXCEPT ![e] = "waiting"]

\* The oldest waiting entries, a batch of them, are handed out; a batch may
\* be lost on the way to the one who asked for it.
HandOut(B, next) ==
  /\ \A e \in B : fate[e] = "waiting"
  /\ \A e \in B : \A f \in Entries : f < e => fate[f] # "waiting" \/ f \in B
  /\ fate' = [e \in Entries |-> IF e \in B THEN next ELSE fate[e]]

Deliver(e) ==
  /\ fate[e] = "taken"
  /\ fate' = [fate EXCEPT ![e] = "delivered"]

GiveUp(B) ==
  /\ \A e \in B : fate[e] = "taken"
  /\ fate' = [e \in Entries |-> IF e \in B THEN "abandoned" ELSE fate[e]]

Next ==
  \/ \E e \in Entries : Publish(e) \/ Deliver(e)
  \/ \E B \in SUBSET Entries :
        \/ \E next \in {"taken", "abandoned"} : HandOut(B, next)
        \/ GiveUp(B)

Spec == Init /\ [][Next]_vars

================================================================================
