-------------------------------- MODULE Basket --------------------------------
(* A shopper's basket, kept in the browser and shared by its tabs, and the   *)
(* checkout that turns it into an order over a connection that may fail.     *)
(* The server inserts the order, then holds its units or takes the order     *)
(* back (OrderStock has these steps in full); a known key is answered at     *)
(* once with the order that it made.                                         *)
EXTENDS Integers, FiniteSets

CONSTANTS
  Items, Tabs,
  MaxQty,        \* bound on a quantity
  MaxKeys,       \* bound on attempts, and so on baskets
  Interference   \* "lost": a request, its answer or the server at it is lost;
                 \* "reload": the checkout is reloaded when the order may have
                 \* been made

ASSUME BoundsAssumption == MaxQty \in Nat \ {0} /\ MaxKeys \in Nat \ {0}
ASSUME InterferenceAssumption == Interference \subseteq {"lost", "reload"}

VARIABLES
  qty, stock,    \* the lines: how many, and the ceiling written on them
  round,         \* history: how many baskets were cleared before this one
  key, checkout, \* the attempt key of each tab, and where its checkout is
  lastKey,       \* how many keys were minted
  wire, work,    \* requests on their way, and those with units still to hold
  orders,        \* orders by the key that made them
  touched,       \* history: tabs whose basket changed under an attempt of theirs
  early          \* history: keys answered with an order whose units are not held

basketVars == <<qty, stock, round, key, checkout, lastKey, wire, work, orders, touched, early>>
server == <<wire, work, orders, early>>
lines == <<qty, stock, touched>>

Unknown == MaxQty + 1    \* no ceiling is known: Infinity
Least(a, b) == IF a < b THEN a ELSE b
Most(a, b) == IF a > b THEN a ELSE b

Order == [key : 1..MaxKeys, items : [Items -> 0..MaxQty], round : 0..MaxKeys]
Request == [tab : Tabs, order : Order]

BasketTypeOK ==
  /\ qty \in [Items -> 0..MaxQty] /\ stock \in [Items -> 0..Unknown]
  /\ \A i \in Items : qty[i] = 0 => stock[i] = Unknown  \* no line of nothing
  /\ round \in 0..MaxKeys /\ lastKey \in 0..MaxKeys
  /\ key \in [Tabs -> 0..MaxKeys]
  /\ checkout \in [Tabs -> {"idle", "placing", "placed", "refused"}]
  /\ wire \subseteq Request /\ work \subseteq Request /\ orders \subseteq Order
  /\ touched \subseteq Tabs /\ early \subseteq 1..MaxKeys

BasketInit ==
  /\ qty = [i \in Items |-> 0] /\ stock = [i \in Items |-> Unknown] /\ round = 0
  /\ key = [t \in Tabs |-> 0] /\ checkout = [t \in Tabs |-> "idle"] /\ lastKey = 0
  /\ wire = {} /\ work = {} /\ orders = {} /\ touched = {} /\ early = {}

------------------------------------------------------------------------------
(* Changing the basket. Each is one read and write of the browser's storage, *)
(* by any tab and at any time, also while an order is awaited.               *)

\* The key of this tab may have made an order, or may still.
Pending(t) == \/ \E r \in wire : r.order.key = key[t]
              \/ \E o \in orders : o.key = key[t]

\* A change of quantities is one under every attempt that is pending.
Touch == touched' = IF qty' = qty THEN touched ELSE touched \cup {t \in Tabs : Pending(t)}

SetLine(i, q, c) ==
  /\ qty' = [qty EXCEPT ![i] = q] /\ stock' = [stock EXCEPT ![i] = c] /\ Touch
  /\ UNCHANGED <<round, key, checkout, lastKey, server>>

ClampQty(ceiling, q) == Most(1, Least(ceiling, q))

MergedQty(i, q, c) == Most(1, Least(MaxQty, Least(Least(stock[i], c), qty[i] + q)))

Add(i) ==
  \E q \in 1..MaxQty, c \in 0..Unknown :
    IF qty[i] = 0 THEN SetLine(i, ClampQty(c, q), c)
    ELSE SetLine(i, MergedQty(i, q, c), IF c = Unknown THEN stock[i] ELSE c)

\* The buttons beside a line: no more than its ceiling, no less than one.
SetQty(i) ==
  /\ qty[i] # 0
  /\ \E q \in {qty[i] - 1, qty[i] + 1} \cap 1..MaxQty :
       (q > qty[i] => q <= stock[i]) /\ SetLine(i, ClampQty(stock[i], q), stock[i])

RemoveLine(i) == qty[i] # 0 /\ SetLine(i, 0, Unknown)

\* A line that is sold out is pulled down like any other.
MutantFreshQty(i, c) == Least(c, qty[i])

\* Only ever less; a line that is sold out is left for the shopper to see.
FreshQty(i, c) == IF c = 0 THEN qty[i] ELSE Least(c, qty[i])

\* Today's ceilings, for the lines that the catalogue answers for.
ApplyFacts ==
  /\ \E told \in SUBSET {i \in Items : qty[i] # 0} : \E fresh \in [told -> 0..MaxQty] :
       /\ stock' = [i \in Items |-> IF i \in told THEN fresh[i] ELSE stock[i]]
       /\ qty' = [i \in Items |-> IF i \in told THEN FreshQty(i, fresh[i]) ELSE qty[i]]
  /\ Touch
  /\ UNCHANGED <<round, key, checkout, lastKey, server>>

------------------------------------------------------------------------------
(* The checkout.                                                             *)

\* A key for every try.
MutantAttemptKey(t) == lastKey + 1

\* Minted on the first submit, kept until an order was made.
AttemptKey(t) == IF key[t] = 0 THEN lastKey + 1 ELSE key[t]

Submit(t) ==
  /\ checkout[t] = "idle" /\ \E i \in Items : qty[i] # 0
  /\ AttemptKey(t) <= MaxKeys
  /\ key' = [key EXCEPT ![t] = AttemptKey(t)]
  /\ lastKey' = Most(lastKey, AttemptKey(t))
  /\ wire' = wire \cup {[tab |-> t, order |->
                           [key |-> AttemptKey(t), items |-> qty, round |-> round]]}
  /\ checkout' = [checkout EXCEPT ![t] = "placing"]
  /\ touched' = IF Pending(t) THEN touched ELSE touched \ {t}
  /\ UNCHANGED <<qty, stock, round, work, orders, early>>

\* Any answer is taken for an order.
MutantHear(r, answer) ==
  checkout' = IF checkout[r.tab] = "placing" /\ key[r.tab] = r.order.key
          THEN [checkout EXCEPT ![r.tab] = "placed"] ELSE checkout

\* The answer is heard by a tab that still waits for it.
Hear(r, answer) ==
  checkout' = IF checkout[r.tab] = "placing" /\ key[r.tab] = r.order.key
          THEN [checkout EXCEPT ![r.tab] = answer] ELSE checkout

\* placeOrder: the key is looked up, and the order inserted under a unique
\* index on it, or refused for what it asks.
Serve(r) ==
  /\ r \in wire
  /\ wire' = wire \ {r}
  /\ IF \E o \in orders : o.key = r.order.key
       THEN /\ Hear(r, "placed")
            /\ early' = IF \E w \in work : w.order.key = r.order.key
                          THEN early \cup {r.order.key} ELSE early
            /\ UNCHANGED <<work, orders>>
       ELSE /\ \/ orders' = orders \cup {r.order} /\ work' = work \cup {r} /\ UNCHANGED checkout
               \/ Hear(r, "refused") /\ UNCHANGED <<work, orders>>
            /\ UNCHANGED early
  /\ UNCHANGED <<lines, round, key, lastKey>>

\* reserve_order_stock held its units ...
Reserve(r) ==
  /\ r \in work
  /\ work' = work \ {r} /\ early' = early \ {r.order.key}
  /\ Hear(r, "placed")
  /\ UNCHANGED <<lines, round, key, lastKey, wire, orders>>

\* ... or refused them, and the order is deleted.
Unwind(r) ==
  /\ r \in work
  /\ work' = work \ {r} /\ orders' = orders \ {r.order}
  /\ Hear(r, "refused")
  /\ UNCHANGED <<lines, round, key, lastKey, wire, early>>

Placed(t) ==
  /\ checkout[t] = "placed"
  /\ key' = [key EXCEPT ![t] = 0] /\ checkout' = [checkout EXCEPT ![t] = "idle"]
  /\ qty' = [i \in Items |-> 0] /\ stock' = [i \in Items |-> Unknown] /\ Touch
  /\ round' = Least(round + 1, MaxKeys)
  /\ UNCHANGED <<lastKey, server>>

Failed(t) ==
  /\ checkout[t] = "refused" \/ (checkout[t] \in {"placing", "placed"} /\ "lost" \in Interference)
  /\ checkout' = [checkout EXCEPT ![t] = "idle"]
  /\ UNCHANGED <<lines, round, key, lastKey, server>>

Drop(r) ==
  /\ r \in wire /\ "lost" \in Interference
  /\ wire' = wire \ {r}
  /\ UNCHANGED <<lines, round, key, checkout, lastKey, work, orders, early>>

\* The server dies before its order holds anything: the order stays.
Die(r) ==
  /\ r \in work /\ "lost" \in Interference
  /\ work' = work \ {r}
  /\ UNCHANGED <<lines, round, key, checkout, lastKey, wire, orders, early>>

\* The page, and its ref with it, is made anew.
Reload(t) ==
  /\ key[t] # 0
  /\ "reload" \in Interference \/ (checkout[t] = "idle" /\ ~Pending(t))
  /\ key' = [key EXCEPT ![t] = 0] /\ checkout' = [checkout EXCEPT ![t] = "idle"]
  /\ UNCHANGED <<lines, round, lastKey, server>>

------------------------------------------------------------------------------
BasketNext ==
  \/ \E i \in Items : Add(i) \/ SetQty(i) \/ RemoveLine(i)
  \/ ApplyFacts
  \/ \E t \in Tabs : Submit(t) \/ Placed(t) \/ Failed(t) \/ Reload(t)
  \/ \E r \in wire : Serve(r) \/ Drop(r)
  \/ \E r \in work : Reserve(r) \/ Unwind(r) \/ Die(r)

BasketSpec == BasketInit /\ [][BasketNext]_basketVars

------------------------------------------------------------------------------
(* Properties.                                                               *)

\* When a checkout is told that its order was placed, and empties the basket,
\* that order stands and holds what is in the basket, whatever was lost, tried
\* again or taken back, in any tab: no line is thrown away unordered. But a
\* basket that was changed under the attempt, by the shopper, another tab or
\* fresh facts, is cleared for an order of what it was (CheckoutForm.tsx:249);
\* and a retry is answered with an order whose units are not held, which may
\* still be taken back (orders.ts:237-239, 565-567).
BoughtIsBasket ==
  \A t \in Tabs \ touched : checkout[t] = "placed" /\ key[t] \notin early =>
    \E o \in orders : o.key = key[t] /\ o.items = qty

\* A basket is ordered once, however often its checkout is tried.
OneOrderPerBasket == \A o, p \in orders : o.round = p.round => o = p

------------------------------------------------------------------------------
(* The inductive strengthening.                                              *)

\* What was submitted and is not lost, made or not.
Sent == orders \cup {r.order : r \in wire}

\* Who waits for an answer has a key; keys are minted in order, and make one
\* order each, with one request at it.
KeysInv ==
  /\ \A t \in Tabs : key[t] <= lastKey /\ (checkout[t] # "idle" => key[t] # 0)
  /\ \A x \in Sent : x.key <= lastKey
  /\ \A o, p \in orders : o.key = p.key => o = p
  /\ \A r \in work : r.order \in orders
  /\ \A r, w \in work : r.order = w.order => r = w

\* What bears the key of this page is about this basket; all else is about one
\* that was cleared, each by a key of its own. A basket has one key.
RoundsInv ==
  /\ round <= lastKey
  /\ \A t \in Tabs : key[t] # 0 => round < lastKey
  /\ \A t \in Tabs : \A x \in Sent :
       IF x.key = key[t] THEN x.round = round ELSE x.round < round
  /\ \A x, y \in Sent : x.round = y.round => x.key = y.key

\* What may still be answered holds what a basket that was left alone holds;
\* an order that was told as placed, with its units held, stands.
ItemsInv ==
  \A t \in Tabs :
    /\ t \notin touched => \A x \in Sent : x.key = key[t] => x.items = qty
    /\ checkout[t] = "placed" /\ key[t] \notin early =>
         /\ \E o \in orders : o.key = key[t]
         /\ \A r \in work : r.order.key # key[t]
=============================================================================
