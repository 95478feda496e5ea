----------------------------- MODULE MCDelivery -----------------------------
(***************************************************************************)
(* Delivery on small instances, with its properties.                       *)
(***************************************************************************)
EXTENDS Delivery

\* One command of each class; the two smaller ones for the single questions.
ClassMixed == <<"order", "signOut", "forged", "unreadable">>
ClassUnreadable == <<"unreadable", "order">>
ClassOrders == <<"order", "order">>
=============================================================================
