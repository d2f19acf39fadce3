------------------------------- MODULE Shelf -------------------------------
(* What the stock ledger promises a shop: units leave the shelf for an     *)
(* order exactly once, an order is only given units that are there, and    *)
(* what it gives up comes back.  OrderStock and SizeStock do.            *)
EXTENDS Integers

CONSTANTS Orders, Products,
          Want,       \* Want[o][p]: units of p that order o asks for
          Opening     \* Opening[p]: units on the shelf at the start

VARIABLES shelf,      \* shelf[p]: units of p free to be promised
          effect      \* effect[o]: what order o does to the shelf

Effects == {"none", "hold", "sale"}

Init == /\ shelf = Opening
        /\ effect = [o \in Orders |-> "none"]

\* The whole basket is taken, and only if all of it is there.
Hold(o) == /\ effect[o] = "none"
           /\ \A p \in Products : Want[o][p] <= shelf[p]
           /\ shelf' = [p \in Products |-> shelf[p] - Want[o][p]]
           /\ effect' = [effect EXCEPT ![o] = "hold"]

\* A hold becomes a sale without a unit moving.
Sell(o) == /\ effect[o] = "hold"
           /\ effect' = [effect EXCEPT ![o] = "sale"]
           /\ UNCHANGED shelf

\* A hold or a sale is given back whole.
Free(o) == /\ effect[o] \in {"hold", "sale"}
           /\ shelf' = [p \in Products |-> shelf[p] + Want[o][p]]
           /\ effect' = [effect EXCEPT ![o] = "none"]

\* Somebody counts one shelf.
Count(p) == /\ shelf'[p] \in Nat
            /\ shelf' = [shelf EXCEPT ![p] = shelf'[p]]
            /\ UNCHANGED effect

Next == \/ \E o \in Orders : Hold(o) \/ Sell(o) \/ Free(o)
        \/ \E p \in Products : Count(p)

Spec == Init /\ [][Next]_<<shelf, effect>>
============================================================================
