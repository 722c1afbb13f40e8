------------------------------ MODULE MCEvents ------------------------------
(* EventDelivery with two rules of one pair before a rule of another. *)
EXTENDS EventDelivery, TLC

TwoPairs == (1 :> 7) @@ (2 :> 7) @@ (3 :> 9)
=============================================================================
