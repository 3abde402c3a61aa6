------------------------------- MODULE MCAiBubble -------------------------------
(***************************************************************************)
(* Two engines.  Of the first the server may say: two models and a default *)
(* that is one of them, a model and a default that is not in the list, a   *)
(* model and no default, or, while it is offline, nothing at all; of the   *)
(* second: only a default, or nothing.  The page remembers a model of the  *)
(* first that is never offered.                                            *)
(***************************************************************************)
EXTENDS AiBubble, TLC

CONSTANTS e1, e2, a, b, c

Offer(models, default) == [models |-> models, default |-> default]

MCAnswers ==
  (e1 :> {Offer({a, b}, a), Offer({b}, a), Offer({b}, None), Offer({}, None)})
    @@ (e2 :> {Offer({}, c), Offer({}, None)})
MCSaved == {(e1 :> c) @@ (e2 :> None)}

================================================================================
