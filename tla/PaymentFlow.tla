---------------------------- MODULE PaymentFlow ----------------------------
(* What the payment state machine promises about a card payment: it only   *)
(* ever advances, its outcome is final, and only money that was taken can  *)
(* be given back.  Payments implements this while events are applied one   *)
(* at a time.                                                              *)
EXTENDS Integers

CONSTANT Payments

VARIABLE status

Outcomes == {"captured", "failed", "cancelled"}

\* How far a status is along its life.
Stage(s) == CASE s = "none"       -> 0
              [] s = "initiated"  -> 1
              [] s = "pending"    -> 2
              [] s = "authorized" -> 3
              [] s \in Outcomes   -> 4
              [] s = "refunded"   -> 5

Open(p) == /\ status[p] = "none"
           /\ status' = [status EXCEPT ![p] = "initiated"]

Advance(p) == /\ status[p] \in {"initiated", "pending", "authorized"}
              /\ \E s \in {"pending", "authorized"} \cup Outcomes :
                    /\ Stage(s) > Stage(status[p])
                    /\ status' = [status EXCEPT ![p] = s]

Return(p) == /\ status[p] = "captured"
             /\ status' = [status EXCEPT ![p] = "refunded"]

Init == status = [p \in Payments |-> "none"]
Next == \E p \in Payments : Open(p) \/ Advance(p) \/ Return(p)
Spec == Init /\ [][Next]_status
============================================================================
