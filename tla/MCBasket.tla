------------------------------- MODULE MCBasket -------------------------------
(* basket.cfg gives the constants their values.                              *)
EXTENDS Basket
=============================================================================
