----------------------------- MODULE OrderStock -----------------------------
(* Orders against the stock ledger: placeOrder() and its reservation, the  *)
(* staff moving an order through its statuses, the sweep that expires      *)
(* holds, and a shelf being counted -- each split where the code awaits.   *)
(*                                                                         *)
(* Lines are unsized (size '' of the ledger); SizeStock adds the sizes.    *)
(* A ledger row moves held, sold or orphan together with qty in one step,  *)
(* because the trigger on stock_movements runs in the same transaction.    *)
EXTENDS Integers, Sequences

CONSTANTS
  Attempts,       \* submissions of a checkout; each inserts at most one row,
                  \* and the row is known by the attempt that inserted it
  Products,
  Staff,          \* admin or seller sessions that move orders
  Key,            \* Key[a]: idempotency key of the attempt, or NoKey
  NoKey,
  NoOrder,        \* the answer of an attempt that has none
  Want,           \* Want[a][p]: units of p in the basket of a
  Opening,        \* Opening[p]: the opening balance
  Preorderable,   \* products with preorder_enabled
  Targets,        \* the statuses staff ask for
  CountTo,        \* the figures a person may count on a shelf
  MaxCounts,      \* bound on the number of counts
  Interference    \* which overlaps the environment may produce:
                  \*   "early"  staff act on a row whose placement is unfinished
                  \*   "stale"  a decision is written after what it read changed
                  \*   "crash"  a server dies between two awaits of placeOrder
                  \*   "lost"   the reply of a committed reservation is lost

Flow == <<"new", "confirmed", "preparing", "out", "arrived", "completed">>
FlowStatus == {Flow[i] : i \in 1..6}
Status == FlowStatus \cup {"cancelled", "absent"}
Rank(s) == CHOOSE i \in 1..6 : Flow[i] = s

Baskets == [Attempts -> [Products -> Nat]]

ASSUME WantAssumption ==
  /\ Want \in Baskets
  /\ \A a \in Attempts : \E p \in Products : Want[a][p] > 0
ASSUME NoOrderAssumption == NoOrder \notin Attempts
ASSUME OpeningAssumption == Opening \in [Products -> Nat]
ASSUME TargetsAssumption == Targets \subseteq Status \ {"absent"}
ASSUME CountAssumption == CountTo \subseteq Nat /\ MaxCounts \in Nat
ASSUME InterferenceAssumption ==
  Interference \subseteq {"early", "stale", "crash", "lost"}

VARIABLES
  pc,         \* pc[a]: where placeOrder() of attempt a is
  answer,     \* answer[a]: the row whose reference the buyer was given
  unheard,    \* history: attempts whose reservation committed unheard of
  status,     \* status[o]: orders.status, "absent" when there is no row
  pre,        \* pre[o]: orders.is_preorder
  held,       \* held[o][p]: sum of o's 'reservation' movements of p
  sold,       \* sold[o][p]: sum of o's 'sale' and 'return' movements of p
  qty,        \* qty[p]: products.qty
  orphan,     \* orphan[o][p]: sum of o's movements once their order_id is null
  aged,       \* orders older than the reservation window
  moves,      \* status changes read and not yet written
  sweeping,   \* rows the sweep's cursor still has to cancel
  counts,     \* shelf counts read and not yet written
  counted,    \* number of counts begun
  hurried     \* history: rows whose status was last written by staff while
              \* the placement was still going on

placing == <<pc, answer, unheard>>
ledger == <<held, sold, qty, orphan>>
rows == <<status, pre, aged>>
decisions == <<moves, sweeping, counts, counted, hurried>>
vars == <<placing, ledger, rows, decisions>>

PlacePC == {"idle", "pricing", "inserting", "conflict", "reserving",
            "unwinding", "told", "refused", "crashed"}
Zero == [p \in Products |-> 0]
Move == [by : Staff, order : Attempts, saw : Status, to : Targets]
Counting == [no : Nat, of : Products, from : Int, to : Nat]

TypeOK ==
  /\ pc \in [Attempts -> PlacePC]
  /\ answer \in [Attempts -> Attempts \cup {NoOrder}]
  /\ status \in [Attempts -> Status]
  /\ pre \in [Attempts -> BOOLEAN]
  /\ held \in [Attempts -> [Products -> Int]]
  /\ sold \in [Attempts -> [Products -> Int]]
  /\ qty \in [Products -> Int]
  /\ orphan \in [Attempts -> [Products -> Int]]
  /\ aged \subseteq Attempts
  /\ moves \subseteq Move
  /\ sweeping \subseteq Attempts
  /\ counts \subseteq Counting
  /\ counted \in Nat
  /\ hurried \subseteq Attempts
  /\ unheard \subseteq Attempts

Init ==
  /\ pc = [a \in Attempts |-> "idle"]
  /\ answer = [a \in Attempts |-> NoOrder]
  /\ status = [o \in Attempts |-> "absent"]
  /\ pre = [o \in Attempts |-> FALSE]
  /\ held = [o \in Attempts |-> Zero]
  /\ sold = [o \in Attempts |-> Zero]
  /\ qty = Opening
  /\ orphan = [o \in Attempts |-> Zero]
  /\ aged = {}
  /\ moves = {}
  /\ sweeping = {}
  /\ counts = {}
  /\ counted = 0
  /\ hurried = {}
  /\ unheard = {}

------------------------------------------------------------------------------
\* The ledger

\* (Definitions named Mutant... are the bugs the runs are seen to catch.)

\* sync_order_stock_state: write the difference between what the order's
\* movements sum to and what the target state asks for.
HeldIn(o, state) == [p \in Products |-> IF state = "reserved" THEN -Want[o][p] ELSE 0]
SoldIn(o, state) == [p \in Products |-> IF state = "sold" THEN -Want[o][p] ELSE 0]

\* The sale is left out of the difference.
MutantSyncOrderStockState(o, state) ==
  /\ held' = [held EXCEPT ![o] = HeldIn(o, state)]
  /\ sold' = [sold EXCEPT ![o] = SoldIn(o, state)]
  /\ qty' = [p \in Products |-> qty[p] + (HeldIn(o, state)[p] - held[o][p])]

SyncOrderStockState(o, state) ==
  /\ held' = [held EXCEPT ![o] = HeldIn(o, state)]
  /\ sold' = [sold EXCEPT ![o] = SoldIn(o, state)]
  /\ qty' = [p \in Products |-> qty[p] + (HeldIn(o, state)[p] - held[o][p])
                                       + (SoldIn(o, state)[p] - sold[o][p])]

\* decrement_stock_on_confirm: which of the three states a status asks for.
StateFor(s) == CASE s = "cancelled" -> "released"
                 [] s = "new"       -> "reserved"
                 [] OTHER           -> "sold"

\* The trigger only knows confirmation and cancellation.
MutantUpdateStatus(o, s) ==
  /\ status' = [status EXCEPT ![o] = s]
  /\ IF pre[o] \/ s \notin {"confirmed", "cancelled"}
       THEN UNCHANGED <<held, sold, qty>>
       ELSE SyncOrderStockState(o, StateFor(s))
  /\ UNCHANGED orphan

\* An UPDATE that names orders.status: the stock trigger runs with it.
UpdateStatus(o, s) ==
  /\ status' = [status EXCEPT ![o] = s]
  /\ IF pre[o] THEN UNCHANGED <<held, sold, qty>>
               ELSE SyncOrderStockState(o, StateFor(s))
  /\ UNCHANGED orphan

------------------------------------------------------------------------------
\* placeOrder

RowFor(k) == {o \in Attempts : status[o] # "absent" /\ Key[o] = k /\ k # NoKey}

Tell(a, o) == /\ pc' = [pc EXCEPT ![a] = "told"]
              /\ answer' = [answer EXCEPT ![a] = o]
              /\ UNCHANGED unheard

Go(a, l) == pc' = [pc EXCEPT ![a] = l] /\ UNCHANGED <<answer, unheard>>

\* The fast path: an order this key already made is the answer.
FindByKey(a) ==
  /\ pc[a] = "idle"
  /\ \/ RowFor(Key[a]) = {} /\ Go(a, "pricing")
     \/ \E o \in RowFor(Key[a]) : Tell(a, o)
  /\ UNCHANGED <<ledger, rows, decisions>>

InBasket(a) == {p \in Products : Want[a][p] > 0}
Out(p) == qty[p] <= 0

\* Re-read the live products: an empty shelf makes the order a pre-order if
\* the product allows it, and every other line has to fit.
Reprice(a) ==
  /\ pc[a] = "pricing"
  /\ \/ /\ \A p \in InBasket(a) : IF Out(p) THEN p \in Preorderable
                                            ELSE Want[a][p] <= qty[p]
        /\ pre' = [pre EXCEPT ![a] = \E p \in InBasket(a) : Out(p)]
        /\ Go(a, "inserting")
     \/ /\ \E p \in InBasket(a) : IF Out(p) THEN p \notin Preorderable
                                            ELSE Want[a][p] > qty[p]
        /\ Go(a, "refused")
        /\ UNCHANGED pre
  /\ UNCHANGED <<ledger, status, aged, decisions>>

\* Insert the row; the unique index on the key may refuse it.
InsertOrder(a) ==
  /\ pc[a] = "inserting"
  /\ \/ /\ RowFor(Key[a]) = {}
        /\ status' = [status EXCEPT ![a] = "new"]
        /\ Go(a, "reserving")
     \/ RowFor(Key[a]) # {} /\ Go(a, "conflict") /\ UNCHANGED status
  /\ UNCHANGED <<ledger, pre, aged, decisions>>

\* 23505: hand over the order that won, if it is still there.
ReadBack(a) ==
  /\ pc[a] = "conflict"
  /\ \/ RowFor(Key[a]) = {} /\ Go(a, "refused")
     \/ \E o \in RowFor(Key[a]) : Tell(a, o)
  /\ UNCHANGED <<ledger, rows, decisions>>

\* The shelf is only looked at when pricing.
MutantFits(o) == TRUE

Fits(o) == \A p \in InBasket(o) : Want[o][p] <= qty[p]

\* The movements are written before the check that may refuse them.
MutantReserve(a) ==
  /\ pc[a] = "reserving"
  /\ IF pre[a] \/ Fits(a) THEN Tell(a, a) ELSE Go(a, "unwinding")
  /\ IF ~pre[a] THEN SyncOrderStockState(a, "reserved")
                ELSE UNCHANGED <<held, sold, qty>>
  /\ UNCHANGED <<orphan, rows, decisions>>

\* reserve_order_stock under its row locks. It does not look at the status.
Reserve(a) ==
  /\ pc[a] = "reserving"
  /\ IF pre[a] \/ Fits(a)
       THEN \/ Tell(a, a)
            \/ /\ "lost" \in Interference
               /\ pc' = [pc EXCEPT ![a] = "unwinding"]
               /\ unheard' = unheard \cup {a}
               /\ UNCHANGED answer
       ELSE Go(a, "unwinding")
  /\ IF Fits(a) /\ ~pre[a] THEN SyncOrderStockState(a, "reserved")
                           ELSE UNCHANGED <<held, sold, qty>>
  /\ UNCHANGED <<orphan, rows, decisions>>

\* The reservation failed: delete the row. Its movements stay behind with
\* a null order_id.
Unwind(a) ==
  /\ pc[a] = "unwinding"
  /\ Go(a, "refused")
  /\ status' = [status EXCEPT ![a] = "absent"]
  /\ orphan' = [orphan EXCEPT ![a] = [p \in Products |-> held[a][p] + sold[a][p]]]
  /\ held' = [held EXCEPT ![a] = Zero]
  /\ sold' = [sold EXCEPT ![a] = Zero]
  /\ UNCHANGED <<qty, pre, aged, decisions>>

\* The server handling the attempt dies between two awaits.
Crash(a) ==
  /\ "crash" \in Interference
  /\ pc[a] \in {"pricing", "inserting", "conflict", "reserving", "unwinding"}
  /\ Go(a, "crashed")
  /\ UNCHANGED <<ledger, rows, decisions>>

InFlight(o) == pc[o] \in {"reserving", "unwinding"}

------------------------------------------------------------------------------
\* setOrderStatus and setOrderStatusAsSeller

\* checkOrderTransition: cancelled is terminal, completed cannot be
\* cancelled, and otherwise an order never goes back.
MayMove(from, to) ==
  /\ from # "cancelled"
  /\ IF to = "cancelled" THEN from # "completed" ELSE Rank(from) <= Rank(to)

\* Somebody is part-way through a decision about this row.
Busy(o) == o \in sweeping \/ \E m \in moves : m.order = o

BeginMove(s, o, to) ==
  /\ \A m \in moves : m.by # s
  /\ status[o] # "absent"
  /\ "early" \in Interference \/ ~InFlight(o)
  /\ "stale" \in Interference \/ ~Busy(o)
  /\ MayMove(status[o], to)
  /\ moves' = moves \cup {[by |-> s, order |-> o, saw |-> status[o], to |-> to]}
  /\ UNCHANGED <<placing, ledger, rows, sweeping, counts, counted, hurried>>

\* block_edit_completed_order raises; a row that is gone is not updated.
Refused(m) == \/ status[m.order] = "absent"
              \/ status[m.order] = "completed" /\ m.to # "completed"

FinishMove(m) ==
  /\ m \in moves
  /\ moves' = moves \ {m}
  /\ IF Refused(m)
       THEN UNCHANGED <<status, ledger, hurried>>
       ELSE /\ UpdateStatus(m.order, m.to)
            /\ hurried' = IF InFlight(m.order) THEN hurried \cup {m.order}
                                               ELSE hurried \ {m.order}
  /\ UNCHANGED <<placing, pre, aged, sweeping, counts, counted>>

------------------------------------------------------------------------------
\* release_stale_reservations

\* Two days pass over a row whose request is long over.
Age(o) ==
  /\ status[o] # "absent" /\ ~InFlight(o) /\ o \notin aged
  /\ aged' = aged \cup {o}
  /\ UNCHANGED <<placing, ledger, status, pre, decisions>>

\* The sweep looks for the wrong kind of movement.
MutantStale ==
  {o \in aged : status[o] = "new" /\ \E p \in Products : sold[o][p] < 0}

Stale == {o \in aged : status[o] = "new" /\ \E p \in Products : held[o][p] < 0}

\* The cursor's snapshot: the stale rows ...
OpenSweep ==
  /\ sweeping = {} /\ Stale # {}
  /\ "stale" \in Interference \/ \A o \in Stale : ~Busy(o)
  /\ sweeping' = Stale
  /\ UNCHANGED <<placing, ledger, rows, moves, counts, counted, hurried>>

\* Expired orders are cleared away: the units come back and the row goes.
MutantSweepRow(o) ==
  /\ o \in sweeping
  /\ sweeping' = sweeping \ {o}
  /\ status' = [status EXCEPT ![o] = "absent"]
  /\ IF status[o] = "absent" THEN UNCHANGED <<held, sold, qty>>
                             ELSE SyncOrderStockState(o, "released")
  /\ UNCHANGED <<placing, orphan, pre, aged, moves, counts, counted, hurried>>

\* ... and, per row of it, an UPDATE that does not look at the status again.
\* A completed row makes the trigger raise, which drops the rest of the sweep.
\* (The rows of one cursor commit together.  Stepping through them is the
\* same as sweeping them one cursor each, which is also a run of the code.)
SweepRow(o) ==
  /\ o \in sweeping
  /\ sweeping' = IF status[o] = "completed" THEN {} ELSE sweeping \ {o}
  /\ IF status[o] \in {"absent", "completed"}
       THEN UNCHANGED <<status, ledger, hurried>>
       ELSE UpdateStatus(o, "cancelled") /\ hurried' = hurried \ {o}
  /\ UNCHANGED <<placing, pre, aged, moves, counts, counted>>

------------------------------------------------------------------------------
\* moveStockTo: setStock, markOutOfStock, the product forms

BeginCount(p, to) ==
  /\ counted < MaxCounts
  /\ "stale" \in Interference \/ counts = {}
  /\ counted' = counted + 1
  /\ counts' = counts \cup {[no |-> counted, of |-> p, from |-> qty[p], to |-> to]}
  /\ UNCHANGED <<placing, ledger, rows, moves, sweeping, hurried>>

FinishCount(c) ==
  /\ c \in counts
  /\ "stale" \in Interference \/ qty[c.of] = c.from
  /\ counts' = counts \ {c}
  /\ qty' = [qty EXCEPT ![c.of] = @ + (c.to - c.from)]
  /\ UNCHANGED <<placing, held, sold, orphan, rows, moves, sweeping, counted, hurried>>

------------------------------------------------------------------------------
Place(a) == FindByKey(a) \/ Reprice(a) \/ InsertOrder(a) \/ ReadBack(a)
              \/ Reserve(a) \/ Unwind(a) \/ Crash(a)
Manage == \/ \E s \in Staff, o \in Attempts, to \in Targets : BeginMove(s, o, to)
          \/ \E m \in moves : FinishMove(m)
Sweep == OpenSweep \/ \E o \in Attempts : SweepRow(o)
CountShelf == \/ \E p \in Products, to \in CountTo : BeginCount(p, to)
              \/ \E c \in counts : FinishCount(c)

Next == \/ \E a \in Attempts : Place(a) \/ Age(a)
        \/ Manage \/ Sweep \/ CountShelf

Spec == Init /\ [][Next]_vars

\* The cron runs every hour, and a request that has begun its write ends,
\* unless it dies.
Fairness == /\ \A o \in Attempts : /\ WF_vars(Age(o)) /\ WF_vars(SweepRow(o))
                                  /\ WF_vars(Unwind(o))
            /\ WF_vars(OpenSweep)
            /\ WF_vars(\E m \in moves : FinishMove(m))
FairSpec == Spec /\ Fairness

------------------------------------------------------------------------------
\* Safety

\* Order o's movements sum to exactly what the state asks for.
InState(o, state) == held[o] = HeldIn(o, state) /\ sold[o] = SoldIn(o, state)

\* A stock effect in step with its status: new holds, the live states have
\* sold, cancelled has nothing (decrement_stock_on_confirm).  There are two
\* exceptions and no more: a new row whose placeOrder has not reserved, or
\* never will; and a row staff moved while it was still being placed, since
\* reserve_order_stock then puts it on hold whatever its status says, until
\* the status is next written.
EffectMatchesStatus ==
  \A o \in Attempts :
     IF status[o] = "absent" \/ pre[o] THEN InState(o, "released")
     ELSE \/ InState(o, StateFor(status[o]))
          \/ o \in hurried
          \/ /\ status[o] = "new" /\ InState(o, "released")
             /\ pc[o] \in {"reserving", "unwinding", "crashed"}

\* No product is promised beyond what is on its shelf (reserve_order_stock).
NoOversell == \A p \in Products : qty[p] >= 0

\* Whatever overlaps, an order never has more units out than its basket:
\* it is not held and sold at once (sync_order_stock_state).
NeverTakenTwice ==
  \A o \in Attempts, p \in Products : -(held[o][p] + sold[o][p]) \in 0 .. Want[o][p]

\* At any time at most one row stands for a key (orders_idempotency_key_uq).
OneOrderPerKey ==
  \A a, b \in Attempts :
     status[a] # "absent" /\ status[b] # "absent" /\ Key[a] = Key[b] /\ Key[a] # NoKey
       => a = b

\* One checkout buys once, however often it is submitted and whatever became
\* of the order: of the attempts with one key at most one was ever given a
\* reference of its own, or has units out -- also when the retry comes after
\* the order was cancelled or has expired, because a row that was answered
\* for is never taken away again (the fast path and the conflict handler of
\* placeOrder, release_stale_reservations cancelling and not deleting).
Bought(a) == answer[a] = a \/ held[a] # Zero \/ sold[a] # Zero
KeyBuysOnce ==
  \A a, b \in Attempts :
     Bought(a) /\ Bought(b) /\ Key[a] = Key[b] /\ Key[a] # NoKey => a = b

\* Deleting a refused order leaves movements behind it only if the reply of
\* its reservation was lost after the commit, or staff had moved the row
\* meanwhile; and then never more than its basket (placeOrder's unwind).
NoOrphanedUnits ==
  \A a \in Attempts :
     /\ orphan[a] # Zero => a \in unheard \cup hurried
     /\ \A p \in Products : -orphan[a][p] \in 0 .. Want[a][p]

------------------------------------------------------------------------------
\* The inductive strengthening of the above.  What holds whatever overlaps:
StockStates == {"reserved", "sold", "released"}
OneEffect == \A o \in Attempts : \E st \in StockStates : InState(o, st)
NoRowNoEffect ==
  \A o \in Attempts : status[o] = "absent" \/ pre[o] => InState(o, "released")
RowsArePlaced ==
  \A o \in Attempts :
     /\ InFlight(o) => status[o] # "absent"
     /\ status[o] # "absent" => pc[o] \in {"reserving", "unwinding", "told", "crashed"}
AnyInv == OneEffect /\ NoRowNoEffect /\ RowsArePlaced

\* ... and, still whatever overlaps, what makes a row's effect its status's:
Settled(o) == status[o] # "absent" /\ ~InFlight(o)
SweptRowsSettled == \A o \in aged \cup sweeping : Settled(o)
InFlightIsNew ==
  \A o \in Attempts \ hurried : InFlight(o) =>
     status[o] = "new" /\ (pc[o] = "reserving" => InState(o, "released"))
SettledInv == SweptRowsSettled /\ InFlightIsNew /\ EffectMatchesStatus

\* ... what deleting a refused order can leave:
UnwindsNothing ==
  \A a \in Attempts \ (hurried \cup unheard) :
     pc[a] = "unwinding" => InState(a, "released")
OrphansHaveNoRow ==
  \A a \in Attempts : orphan[a] # Zero => status[a] = "absent" /\ pc[a] = "refused"
UnwindInv == UnwindsNothing /\ OrphansHaveNoRow /\ NoOrphanedUnits

\* ... what one key buys:
AnsweredRowsStand ==
  \A a \in Attempts : answer[a] = a => status[a] # "absent" /\ ~InFlight(a)
KeyInv == AnsweredRowsStand /\ OneOrderPerKey

\* ... what holds when staff wait for a placement to end and nothing is
\* decided on stale news:
FreshDecisions ==
  /\ hurried = {}
  /\ \A m \in moves : /\ Settled(m.order) /\ m.order \notin sweeping
                      /\ m.saw = status[m.order] /\ MayMove(m.saw, m.to)
  /\ \A m, n \in moves : m.order = n.order => m = n
  /\ \A o \in sweeping : status[o] = "new"

\* ... and what holds when nobody dies either.
NobodyDied == \A a \in Attempts : pc[a] # "crashed"
CalmInv == FreshDecisions /\ NoOversell /\ NobodyDied

------------------------------------------------------------------------------
\* Liveness

Holding(o) == \E p \in Products : held[o][p] < 0

\* "A hold has a lifetime" (release_stale_reservations): no order keeps units
\* on hold for ever, except the one staff moved while it was being placed:
\* its hold is under a status the sweep does not look at.
HoldsExpire == \A o \in Attempts : Holding(o) ~> ~Holding(o) \/ o \in hurried

------------------------------------------------------------------------------
\* Refinement: without interference this is Shelf.

EffectOf(o) == IF held[o] # Zero THEN "hold" ELSE IF sold[o] # Zero THEN "sale" ELSE "none"

Promise == INSTANCE Shelf WITH Orders <- Attempts, shelf <- qty,
                               effect <- [o \in Attempts |-> EffectOf(o)]

\* Reserving, confirming, cancelling, expiring and counting are steps of the
\* shelf's promise; everything else leaves it alone.
KeepsPromise == Promise!Spec
=============================================================================
