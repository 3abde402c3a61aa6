------------------------------- MODULE MCTaskPool -------------------------------
(***************************************************************************)
(* A scheduler with a limit of two and three tasks, of which one waits for *)
(* another and for a task of a second scheduler, and the other runs the    *)
(* third; the second has a limit of one and two tasks.  Three threads.     *)
(***************************************************************************)
EXTENDS TaskPool, TLC

CONSTANTS s1, s2, t1, t2, t3, u1, u2, d1, d2, d3

MCLimit == (s1 :> 2) @@ (s2 :> 1)
MCSchedulerOf == [t \in Tasks |-> IF t \in {u1, u2} THEN s2 ELSE s1]
MCAwaits == {<<t1, u1>>, <<t1, t2>>}
MCRuns == {<<t2, t3>>}

================================================================================
