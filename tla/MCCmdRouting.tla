------------------------------ MODULE MCCmdRouting ------------------------------
(***************************************************************************)
(* Two commands for the worker that registers with SignalR, and polls, as  *)
(* W1: its root route is spelled w1.  The third command names no           *)
(* destination and is for whichever route is found, that of the Redis      *)
(* worker w10 among them; when there is none it waits where nobody looks.  *)
(***************************************************************************)
EXTENDS CmdRouting, TLC

CONSTANTS c1, c2, c3, w1, W1, w10

MCDest == (c1 :> W1) @@ (c2 :> W1) @@ (c3 :> Blank)
MCRoot == (W1 :> w1) @@ (w10 :> w10)
MCMatches ==
  (w1 :> {w1}) @@ (W1 :> {w1}) @@ (w10 :> {w1, w10}) @@ (Blank :> {w1, w10})

================================================================================
