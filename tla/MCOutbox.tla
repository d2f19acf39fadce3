------------------------------ MODULE MCOutbox ------------------------------
(* Instances of Outbox: one order's notices, an announcement, two runs and *)
(* one request.                                                            *)
EXTENDS Outbox, TLC

CONSTANTS n1, n2, a1, r1, r2, q1
=============================================================================
