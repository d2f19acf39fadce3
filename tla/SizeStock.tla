------------------------------ MODULE SizeStock ------------------------------
(* The shelf of one product that is sold in sizes.  The ledger sums its     *)
(* movements by size, and what was never given a size backs every size.     *)
(* Statuses, crashes and the expiry of orders are in OrderStock; here each  *)
(* function of the database is one step, and the question is which size.    *)
EXTENDS Integers, FiniteSets, Functions

CONSTANTS
  Orders,      \* checkouts that reach the reservation
  Sizes,
  NoSize,      \* '': goods whose size nobody recorded
  Want,        \* Want[o]: how many of each size the order's lines ask for
  Deliveries,  \* what a receipt, or goods that came back, may bring
  Figures,     \* totals that whoever counts the shelf may type
  Parcels,     \* how many units may be sent back to a supplier
  MaxMoves     \* bound on deliveries, counts and parcels

Labels == Sizes \cup {NoSize}
Amounts == [Labels -> Nat]
Units(f) == FoldFunction(+, 0, f)

ASSUME NoSizeAssumption == NoSize \notin Sizes
ASSUME SizesAssumption == IsFiniteSet(Sizes)
ASSUME WantAssumption == Want \in [Orders -> Amounts]
ASSUME GoodsAssumption ==
  Deliveries \subseteq Amounts /\ Figures \subseteq Nat /\ Parcels \subseteq Nat
ASSUME UnitsAssumption ==
  \A f \in {Want[o] : o \in Orders} \cup Deliveries : Units(f) \in Nat
ASSUME MaxMovesAssumption == MaxMoves \in Nat

VARIABLES
  qty,      \* products.qty, which the trigger moves with every movement
  bal,      \* product_size_stock: the sum of the movements under each label
  state,    \* what each order's movements come to
  counts,   \* counts between their read and their write
  loose,    \* history: units that left without a size and are still gone
  lost,     \* history: of these, what was counted away or sent back
  moves     \* history: deliveries, counts and parcels

vars == <<qty, bal, state, counts, loose, lost, moves>>

TypeOK ==
  /\ qty \in Int
  /\ bal \in [Labels -> Int]
  /\ state \in [Orders -> {"absent", "reserved", "sold", "released"}]
  /\ counts \subseteq [at : Nat, saw : Int, to : Nat]
  /\ loose \in Int
  /\ lost \in Nat
  /\ moves \in 0..MaxMoves

\* A product with an empty ledger.
Init ==
  /\ qty = 0
  /\ bal = [l \in Labels |-> 0]
  /\ state = [o \in Orders |-> "absent"]
  /\ counts = {} /\ loose = 0 /\ lost = 0 /\ moves = 0

------------------------------------------------------------------------------

\* size_available
Available(s) == bal[s] + bal[NoSize]

\* The total is not checked.
MutantFits(o) == \A s \in Sizes : Want[o][s] > 0 => Want[o][s] <= Available(s)

\* The sizes are not checked.
MutantFitsTotal(o) == Units(Want[o]) <= qty

\* reserve_order_stock: the total first, then each size a line names.
Fits(o) ==
  /\ Units(Want[o]) <= qty
  /\ \A s \in Sizes : Want[o][s] > 0 => Want[o][s] <= Available(s)

\* Each status writes its whole effect again.
MutantSyncOrderStockState(o, to) ==
  LET sign == IF to \in {"reserved", "sold"} THEN 1 ELSE -1
  IN /\ state' = [state EXCEPT ![o] = to]
     /\ bal' = [l \in Labels |-> bal[l] - sign * Want[o][l]]
     /\ qty' = qty - sign * Units(Want[o])
     /\ loose' = loose + sign * Want[o][NoSize]

\* sync_order_stock_state: the difference, written under each line's size.
SyncOrderStockState(o, to) ==
  LET was == state[o] \in {"reserved", "sold"}
      is == to \in {"reserved", "sold"}
      sign == IF was = is THEN 0 ELSE IF is THEN 1 ELSE -1
  IN /\ state' = [state EXCEPT ![o] = to]
     /\ bal' = [l \in Labels |-> bal[l] - sign * Want[o][l]]
     /\ qty' = qty - sign * Units(Want[o])
     /\ loose' = loose + sign * Want[o][NoSize]

\* An order that does not fit is refused, and nothing of it stays.
Reserve(o) ==
  /\ state[o] = "absent"
  /\ Fits(o)
  /\ SyncOrderStockState(o, "reserved")
  /\ UNCHANGED <<counts, lost, moves>>

\* A status that sells or releases; a cancelled order is not pulled back.
Settle(o, to) ==
  /\ state[o] \in {"reserved", "sold"}
  /\ SyncOrderStockState(o, to)
  /\ UNCHANGED <<counts, lost, moves>>

Busy == moves < MaxMoves /\ moves' = moves + 1

\* applyReceipt writes a movement for each size of a line; what a buyer sends
\* back comes in under no size.
Receive(d) ==
  /\ Busy
  /\ bal' = [l \in Labels |-> bal[l] + d[l]]
  /\ qty' = qty + Units(d)
  /\ UNCHANGED <<state, counts, loose, lost>>

\* setStock and markOutOfStock: moveStockTo reads the total ...
BeginCount(to) ==
  /\ Busy
  /\ counts' = counts \cup {[at |-> moves, saw |-> qty, to |-> to]}
  /\ UNCHANGED <<qty, bal, state, loose, lost>>

\* ... and writes the difference, under no size.
FinishCount(c) ==
  /\ c \in counts
  /\ counts' = counts \ {c}
  /\ bal' = [bal EXCEPT ![NoSize] = @ + (c.to - c.saw)]
  /\ qty' = qty + (c.to - c.saw)
  /\ LET gone == IF c.saw > c.to THEN c.saw - c.to ELSE 0
     IN lost' = lost + gone /\ loose' = loose + gone
  /\ UNCHANGED <<state, moves>>

\* recordSupplierReturn: a line that leaves the shelf leaves it under no size.
SendBack(n) ==
  /\ Busy
  /\ bal' = [bal EXCEPT ![NoSize] = @ - n]
  /\ qty' = qty - n
  /\ lost' = lost + n /\ loose' = loose + n
  /\ UNCHANGED <<state, counts>>

Next ==
  \/ \E o \in Orders : Reserve(o)
  \/ \E o \in Orders, to \in {"sold", "released"} : Settle(o, to)
  \/ \E d \in Deliveries : Receive(d)
  \/ \E to \in Figures : BeginCount(to)
  \/ \E c \in counts : FinishCount(c)
  \/ \E n \in Parcels : SendBack(n)

Spec == Init /\ [][Next]_vars

------------------------------------------------------------------------------
\* What is promised

\* No size is sold further than its own units and the unsized ones go: what it
\* is short of left without a size, by a line that named none, a count or a
\* parcel (reserve_order_stock, size_available).
NoSizeOversold == \A s \in Sizes : Available(s) >= -loose

\* All sizes together are not sold further than the shelf goes: it is short of
\* no more than was counted away or sent back under orders that stood.
NothingOversold == qty >= -lost

\* What an order does to the shelf.
EffectOf(o) == CASE state[o] = "reserved" -> "hold"
                 [] state[o] = "sold" -> "sale"
                 [] state[o] \in {"absent", "released"} -> "none"

\* All sizes together are one shelf, from which nothing is lost.
Promise == INSTANCE Shelf WITH
  Products <- {NoSize},
  Want <- [o \in Orders |-> [p \in {NoSize} |-> Units(Want[o])]],
  Opening <- [p \in {NoSize} |-> 0],
  shelf <- [p \in {NoSize} |-> qty + lost],
  effect <- [o \in Orders |-> EffectOf(o)]

\* Each order is given all of its units at once, when they are there, and gives
\* all of them back, once: in whatever sizes it asks, they come and are counted.
KeepsShelf == Promise!Spec

=============================================================================
