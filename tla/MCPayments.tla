----------------------------- MODULE MCPayments -----------------------------
(* Instances of Payments: one or two clicks, a request and the cron. *)
EXTENDS Payments, TLC

CONSTANTS p1, p2, h1, cron
=============================================================================
