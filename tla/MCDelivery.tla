----------------------------- MODULE MCDelivery -----------------------------
(* One criterion of each kind and one review thread. *)
EXTENDS Delivery
=============================================================================
