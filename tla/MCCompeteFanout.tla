---------------------------- MODULE MCCompeteFanout ----------------------------
(***************************************************************************)
(* Two workers, n and m, of which m does not match the tags of item w2;    *)
(* DoWork may fail on w1. With a third connection, c3, worker n registers  *)
(* a second time.                                                          *)
(***************************************************************************)
EXTENDS CompeteFanout, TLC

CONSTANTS w1, w2, w3, n, m, c1, c2, c3

MCNameOf == (c1 :> n) @@ (c2 :> m) @@ (c3 :> n)
MCNameOf2 == (c1 :> n) @@ (c2 :> m)
MCEligible == (w1 :> {n, m}) @@ (w2 :> {n}) @@ (w3 :> {n, m})
===============================================================================
