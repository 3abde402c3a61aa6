----------------------------- MODULE MCRedisStream -----------------------------
(***************************************************************************)
(* Two instances of the channel, which are two pods or a process and its   *)
(* restart; events of another publisher and of c1 itself, and entries that *)
(* cannot be deserialised.  On hosts with long names the two instances     *)
(* have one id, on others each has its own.                                *)
(***************************************************************************)
EXTENDS RedisStream

CONSTANTS c1, c2, id1, id2, id3

MCMail == {[from |-> Other, kind |-> "event"],
           [from |-> c1, kind |-> "event"],
           [from |-> Other, kind |-> "broken"]}

LongNames == [i \in {c1, c2, Other} |-> IF i = Other THEN id3 ELSE id1]
ShortNames == [i \in {c1, c2, Other} |-> IF i = Other THEN id3 ELSE IF i = c1 THEN id1 ELSE id2]

================================================================================
