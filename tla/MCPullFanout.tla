----------------------------- MODULE MCPullFanout -----------------------------
(***************************************************************************)
(* Two registrations under one worker name, l1 subscribed to key a and l2  *)
(* to both keys; two items of key a and one of key b.                      *)
(***************************************************************************)
EXTENDS PullFanout, TLC

CONSTANTS w1, w2, w3, a, b, n, l1, l2

MCKeyOf == (w1 :> a) @@ (w2 :> a) @@ (w3 :> b)
MCSubscribed == (l1 :> {a}) @@ (l2 :> {a, b})
MCNameOf == (l1 :> n) @@ (l2 :> n)
===============================================================================
