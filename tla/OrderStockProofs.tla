-------------------------- MODULE OrderStockProofs --------------------------
(* Theorems of OrderStock, for any number of attempts, products and staff. *)
EXTENDS OrderStock, TLAPS

LEMMA StatusFacts ==
  /\ FlowStatus = {"new", "confirmed", "preparing", "out", "arrived", "completed"}
  /\ Status = FlowStatus \cup {"cancelled", "absent"}
BY SMT DEF FlowStatus, Flow, Status

LEMMA TargetTypes ==
  ASSUME NEW o \in Attempts, NEW st
  PROVE  /\ HeldIn(o, st) \in [Products -> Int]
         /\ SoldIn(o, st) \in [Products -> Int]
BY WantAssumption DEF HeldIn, SoldIn, Baskets

LEMMA ZeroType == Zero \in [Products -> Int]
BY DEF Zero

\* What the reconciliation writes is typed.
LEMMA SyncTypes ==
  ASSUME TypeOK, NEW o \in Attempts, NEW st, SyncOrderStockState(o, st)
  PROVE  /\ held' \in [Attempts -> [Products -> Int]]
         /\ sold' \in [Attempts -> [Products -> Int]]
         /\ qty' \in [Products -> Int]
<1>1. /\ HeldIn(o, st) \in [Products -> Int]
      /\ SoldIn(o, st) \in [Products -> Int]
  BY TargetTypes
<1>2. qty' \in [Products -> Int]
  BY <1>1 DEF SyncOrderStockState, TypeOK
<1> QED BY <1>1, <1>2 DEF SyncOrderStockState, TypeOK

------------------------------------------------------------------------------
\* Writing a status keeps the types of what it writes.
LEMMA UpdateTypes ==
  ASSUME TypeOK, NEW o \in Attempts, NEW s \in Status, UpdateStatus(o, s)
  PROVE  /\ status' \in [Attempts -> Status]
         /\ held' \in [Attempts -> [Products -> Int]]
         /\ sold' \in [Attempts -> [Products -> Int]]
         /\ qty' \in [Products -> Int]
         /\ orphan' \in [Attempts -> [Products -> Int]]
<1>1. CASE pre[o]
  BY <1>1 DEF UpdateStatus, TypeOK
<1>2. CASE ~pre[o]
  BY <1>2, SyncTypes DEF UpdateStatus, TypeOK
<1> QED BY <1>1, <1>2

\* Every variable keeps its type.
THEOREM TypeCorrect == Spec => []TypeOK
<1>1. Init => TypeOK
  BY NoOrderAssumption, OpeningAssumption, ZeroType, StatusFacts
  DEF Init, TypeOK, PlacePC
<1>2. TypeOK /\ [Next]_vars => TypeOK'
  <2> SUFFICES ASSUME TypeOK, [Next]_vars PROVE TypeOK'
    OBVIOUS
  <2> USE DEF TypeOK
  <2>1. CASE UNCHANGED vars
    BY <2>1 DEF vars, placing, ledger, rows, decisions
  <2>2. ASSUME NEW a \in Attempts, Place(a) PROVE TypeOK'
    <3> USE DEF ledger, rows, decisions, Go, Tell, PlacePC
    <3>0. RowFor(Key[a]) \subseteq Attempts
      BY DEF RowFor
    <3>1. CASE FindByKey(a)
      <4>1. /\ pc' \in [Attempts -> PlacePC] /\ UNCHANGED unheard
            /\ answer' \in [Attempts -> Attempts \cup {NoOrder}]
        <5>1. CASE Go(a, "pricing")
          BY <5>1
        <5>2. ASSUME NEW o \in RowFor(Key[a]), Tell(a, o)
              PROVE  /\ pc' \in [Attempts -> PlacePC] /\ UNCHANGED unheard
                     /\ answer' \in [Attempts -> Attempts \cup {NoOrder}]
          BY <3>0, <5>2
        <5> QED BY <3>1, <5>1, <5>2 DEF FindByKey
      <4> QED BY <3>1, <4>1 DEF FindByKey
    <3>2. CASE Reprice(a)
      BY <3>2 DEF Reprice
    <3>3. CASE InsertOrder(a)
      BY <3>3, StatusFacts DEF InsertOrder
    <3>4. CASE ReadBack(a)
      <4>1. /\ pc' \in [Attempts -> PlacePC] /\ UNCHANGED unheard
            /\ answer' \in [Attempts -> Attempts \cup {NoOrder}]
        <5>1. CASE Go(a, "refused")
          BY <5>1
        <5>2. ASSUME NEW o \in RowFor(Key[a]), Tell(a, o)
              PROVE  /\ pc' \in [Attempts -> PlacePC] /\ UNCHANGED unheard
                     /\ answer' \in [Attempts -> Attempts \cup {NoOrder}]
          BY <3>0, <5>2
        <5> QED BY <3>4, <5>1, <5>2 DEF ReadBack
      <4> QED BY <3>4, <4>1 DEF ReadBack
    <3>5. CASE Reserve(a)
      <4>2. /\ held' \in [Attempts -> [Products -> Int]]
            /\ sold' \in [Attempts -> [Products -> Int]]
            /\ qty' \in [Products -> Int]
        <5>1. CASE Fits(a) /\ ~pre[a]
          BY <3>5, <5>1, SyncTypes DEF Reserve
        <5>2. CASE ~(Fits(a) /\ ~pre[a])
          BY <3>5, <5>2 DEF Reserve
        <5> QED BY <5>1, <5>2
      <4>3. /\ pc' \in [Attempts -> PlacePC]
            /\ answer' \in [Attempts -> Attempts \cup {NoOrder}]
            /\ unheard' \subseteq Attempts
        BY <3>5 DEF Reserve
      <4> QED BY <3>5, <4>2, <4>3 DEF Reserve
    <3>6. CASE Unwind(a)
      <4>1. [p \in Products |-> held[a][p] + sold[a][p]] \in [Products -> Int]
        OBVIOUS
      <4> QED BY <3>6, <4>1, ZeroType, StatusFacts DEF Unwind
    <3>7. CASE Crash(a)
      BY <3>7 DEF Crash
    <3> QED BY <2>2, <3>1, <3>2, <3>3, <3>4, <3>5, <3>6, <3>7 DEF Place
  <2>3. ASSUME NEW o \in Attempts, Age(o) PROVE TypeOK'
    BY <2>3 DEF Age, placing, ledger, decisions
  <2>4. ASSUME NEW s \in Staff, NEW o \in Attempts, NEW to \in Targets,
               BeginMove(s, o, to)
        PROVE  TypeOK'
    BY <2>4, TargetsAssumption DEF BeginMove, Move, placing, ledger, rows
  <2>5. ASSUME NEW m \in moves, FinishMove(m) PROVE TypeOK'
    <3>1. m.order \in Attempts /\ m.to \in Status
      BY TargetsAssumption DEF Move
    <3>2. CASE Refused(m)
      BY <2>5, <3>2 DEF FinishMove, placing, ledger
    <3>3. CASE ~Refused(m)
      <4>1. UpdateStatus(m.order, m.to)
        BY <2>5, <3>3 DEF FinishMove
      <4> QED BY <2>5, <3>1, <4>1, UpdateTypes DEF FinishMove, placing
    <3> QED BY <3>2, <3>3
  <2>6. CASE OpenSweep
    BY <2>6 DEF OpenSweep, Stale, placing, ledger, rows
  <2>7. ASSUME NEW o \in Attempts, SweepRow(o) PROVE TypeOK'
    <3>1. CASE status[o] \in {"absent", "completed"}
      BY <2>7, <3>1 DEF SweepRow, placing, ledger
    <3>2. CASE status[o] \notin {"absent", "completed"}
      <4>1. UpdateStatus(o, "cancelled")
        BY <2>7, <3>2 DEF SweepRow
      <4>2. "cancelled" \in Status
        BY StatusFacts
      <4> QED BY <2>7, <4>1, <4>2, UpdateTypes DEF SweepRow, placing
    <3> QED BY <3>1, <3>2
  <2>8. ASSUME NEW p \in Products, NEW to \in CountTo, BeginCount(p, to)
        PROVE  TypeOK'
    BY <2>8, CountAssumption DEF BeginCount, Counting, placing, ledger, rows
  <2>9. ASSUME NEW c \in counts, FinishCount(c) PROVE TypeOK'
    BY <2>9 DEF FinishCount, Counting, placing, rows
  <2> QED BY <2>1, <2>2, <2>3, <2>4, <2>5, <2>6, <2>7, <2>8, <2>9
          DEF Next, Manage, Sweep, CountShelf
<1> QED BY <1>1, <1>2, PTL DEF Spec

------------------------------------------------------------------------------
\* The reconciliation leaves its order in the state it was asked for, and
\* touches no other order.
LEMMA SyncEffect ==
  ASSUME TypeOK, NEW o \in Attempts, NEW st, SyncOrderStockState(o, st)
  PROVE  /\ InState(o, st)'
         /\ \A x \in Attempts \ {o} : held'[x] = held[x] /\ sold'[x] = sold[x]
BY DEF SyncOrderStockState, InState, TypeOK

LEMMA UpdateEffect ==
  ASSUME TypeOK, NEW o \in Attempts, NEW s, UpdateStatus(o, s)
  PROVE  /\ ~pre[o] => InState(o, StateFor(s))'
         /\ pre[o] => held'[o] = held[o] /\ sold'[o] = sold[o]
         /\ \A x \in Attempts \ {o} : held'[x] = held[x] /\ sold'[x] = sold[x]
         /\ status' = [status EXCEPT ![o] = s]
BY SyncEffect DEF UpdateStatus

LEMMA StatesAreKnown ==
  ASSUME NEW s \in Status \ {"absent"} PROVE StateFor(s) \in StockStates
BY DEF StateFor, StockStates

\* An UPDATE of the status of a row that exists keeps the invariant.
LEMMA UpdateAnyInv ==
  ASSUME TypeOK, AnyInv, NEW o \in Attempts, NEW s \in Status \ {"absent"},
         status[o] # "absent", UpdateStatus(o, s), UNCHANGED <<pc, pre>>
  PROVE  AnyInv'
<1>1. OneEffect'
  <2> SUFFICES ASSUME NEW x \in Attempts
               PROVE  \E st \in StockStates : InState(x, st)'
    BY DEF OneEffect
  <2>1. CASE x = o /\ ~pre[o]
    BY <2>1, UpdateEffect, StatesAreKnown
  <2>2. CASE x # o \/ pre[o]
    <3>1. held'[x] = held[x] /\ sold'[x] = sold[x]
      BY <2>2, UpdateEffect
    <3> QED BY <3>1 DEF AnyInv, OneEffect, InState
  <2> QED BY <2>1, <2>2
<1>2. NoRowNoEffect'
  <2> SUFFICES ASSUME NEW x \in Attempts, status'[x] = "absent" \/ pre'[x]
               PROVE  InState(x, "released")'
    BY DEF NoRowNoEffect
  <2>1. status[x] = "absent" \/ pre[x]
    BY UpdateEffect DEF TypeOK
  <2>2. held'[x] = held[x] /\ sold'[x] = sold[x]
    BY <2>1, UpdateEffect
  <2> QED BY <2>1, <2>2 DEF AnyInv, NoRowNoEffect, InState
<1>3. RowsArePlaced'
  BY UpdateEffect DEF AnyInv, RowsArePlaced, InFlight, TypeOK
<1> QED BY <1>1, <1>2, <1>3 DEF AnyInv

\* A step that moves no unit and no row keeps it too.
LEMMA SameRowsAnyInv ==
  ASSUME AnyInv, UNCHANGED <<status, pre, held, sold>>,
         \A x \in Attempts : pc'[x] = pc[x] \/ (status[x] = "absent" /\ ~InFlight(x)')
  PROVE  AnyInv'
BY DEF AnyInv, OneEffect, NoRowNoEffect, RowsArePlaced, InFlight, InState

LEMMA PlaceAnyInv ==
  ASSUME TypeOK, AnyInv, NEW a \in Attempts, Place(a)
  PROVE  AnyInv'
<1> USE DEF ledger, rows, Go, Tell
<1>1. CASE FindByKey(a)
  <2>1. status[a] = "absent"
    BY <1>1 DEF FindByKey, AnyInv, RowsArePlaced, TypeOK
  <2> QED BY <1>1, <2>1, SameRowsAnyInv DEF FindByKey, InFlight, TypeOK
<1>2. CASE Reprice(a)
  <2>1. status[a] = "absent"
    BY <1>2 DEF Reprice, AnyInv, RowsArePlaced, TypeOK
  <2> QED BY <1>2, <2>1 DEF Reprice, TypeOK,
          AnyInv, OneEffect, NoRowNoEffect, RowsArePlaced, InFlight, InState
<1>3. CASE InsertOrder(a)
  <2>1. status[a] = "absent"
    BY <1>3 DEF InsertOrder, AnyInv, RowsArePlaced, TypeOK
  <2> QED BY <1>3, <2>1 DEF InsertOrder, TypeOK,
          AnyInv, OneEffect, NoRowNoEffect, RowsArePlaced, InFlight, InState
<1>4. CASE ReadBack(a)
  <2>1. status[a] = "absent"
    BY <1>4 DEF ReadBack, AnyInv, RowsArePlaced, TypeOK
  <2> QED BY <1>4, <2>1, SameRowsAnyInv DEF ReadBack, InFlight, TypeOK
<1>5. CASE Reserve(a)
  <2>1. status[a] # "absent" /\ UNCHANGED <<status, pre>>
    BY <1>5 DEF Reserve, AnyInv, RowsArePlaced, InFlight, TypeOK
  <2>2. RowsArePlaced'
    BY <1>5, <2>1 DEF Reserve, AnyInv, RowsArePlaced, InFlight, TypeOK
  <2>3. CASE Fits(a) /\ ~pre[a]
    <3>1. SyncOrderStockState(a, "reserved")
      BY <1>5, <2>3 DEF Reserve
    <3>2. OneEffect'
      BY <3>1, SyncEffect DEF AnyInv, OneEffect, InState, StockStates
    <3>3. NoRowNoEffect'
      BY <2>1, <2>3, <3>1, SyncEffect DEF AnyInv, NoRowNoEffect, InState
    <3> QED BY <2>2, <3>2, <3>3 DEF AnyInv
  <2>4. CASE ~(Fits(a) /\ ~pre[a])
    <3>1. UNCHANGED <<held, sold>>
      BY <1>5, <2>4 DEF Reserve
    <3> QED BY <2>1, <2>2, <3>1 DEF AnyInv, OneEffect, NoRowNoEffect, InState
  <2> QED BY <2>3, <2>4
<1>6. CASE Unwind(a)
  <2>1. InState(a, "released")'
    BY <1>6 DEF Unwind, InState, HeldIn, SoldIn, Zero, TypeOK
  <2>2. \A x \in Attempts \ {a} :
          held'[x] = held[x] /\ sold'[x] = sold[x] /\ status'[x] = status[x]
            /\ pc'[x] = pc[x]
    BY <1>6 DEF Unwind, TypeOK
  <2>3. OneEffect'
    BY <2>1, <2>2 DEF AnyInv, OneEffect, InState, StockStates
  <2>4. NoRowNoEffect'
    BY <1>6, <2>1, <2>2 DEF Unwind, AnyInv, NoRowNoEffect, InState
  <2>5. RowsArePlaced'
    BY <1>6, <2>2 DEF Unwind, AnyInv, RowsArePlaced, InFlight, TypeOK
  <2> QED BY <2>3, <2>4, <2>5 DEF AnyInv
<1>7. CASE Crash(a)
  <2>1. UNCHANGED <<status, pre, held, sold>> /\ RowsArePlaced'
    BY <1>7 DEF Crash, AnyInv, RowsArePlaced, InFlight, TypeOK
  <2> QED BY <2>1 DEF AnyInv, OneEffect, NoRowNoEffect, InState
<1> QED BY <1>1, <1>2, <1>3, <1>4, <1>5, <1>6, <1>7 DEF Place

\* Whatever overlaps, every order is in one of the three stock states, and a
\* row that does not exist has no effect.
THEOREM AnyInvariant == Spec => [](TypeOK /\ AnyInv)
<1>1. Init => AnyInv
  BY DEF Init, AnyInv, OneEffect, NoRowNoEffect, RowsArePlaced, InFlight,
         InState, HeldIn, SoldIn, StockStates, Zero
<1>2. TypeOK /\ AnyInv /\ [Next]_vars => AnyInv'
  <2> SUFFICES ASSUME TypeOK, AnyInv, [Next]_vars PROVE AnyInv'
    OBVIOUS
  <2> USE DEF placing, ledger, rows
  <2>1. ASSUME NEW a \in Attempts, Place(a) PROVE AnyInv'
    BY <2>1, PlaceAnyInv
  <2>2. ASSUME NEW o \in Attempts, Age(o) PROVE AnyInv'
    BY <2>2, SameRowsAnyInv DEF Age
  <2>3. ASSUME NEW s \in Staff, NEW o \in Attempts, NEW to \in Targets,
               BeginMove(s, o, to)
        PROVE  AnyInv'
    BY <2>3, SameRowsAnyInv DEF BeginMove
  <2>4. ASSUME NEW m \in moves, FinishMove(m) PROVE AnyInv'
    <3>1. /\ m.order \in Attempts /\ m.to \in Status \ {"absent"}
          /\ UNCHANGED <<pc, pre>>
      BY <2>4, TargetsAssumption DEF TypeOK, Move, FinishMove
    <3>2. CASE Refused(m)
      BY <2>4, <3>2, SameRowsAnyInv DEF FinishMove
    <3>3. CASE ~Refused(m)
      <4>1. UpdateStatus(m.order, m.to) /\ status[m.order] # "absent"
        BY <2>4, <3>3 DEF FinishMove, Refused
      <4> QED BY <3>1, <4>1, UpdateAnyInv
    <3> QED BY <3>2, <3>3
  <2>5. CASE OpenSweep
    BY <2>5, SameRowsAnyInv DEF OpenSweep
  <2>6. ASSUME NEW o \in Attempts, SweepRow(o) PROVE AnyInv'
    <3>1. CASE status[o] \in {"absent", "completed"}
      BY <2>6, <3>1, SameRowsAnyInv DEF SweepRow
    <3>2. CASE status[o] \notin {"absent", "completed"}
      <4>1. UpdateStatus(o, "cancelled") /\ UNCHANGED <<pc, pre>>
        BY <2>6, <3>2 DEF SweepRow
      <4>2. "cancelled" \in Status \ {"absent"}
        BY StatusFacts
      <4> QED BY <3>2, <4>1, <4>2, UpdateAnyInv
    <3> QED BY <3>1, <3>2
  <2>7. ASSUME NEW p \in Products, NEW to \in CountTo, BeginCount(p, to)
        PROVE  AnyInv'
    BY <2>7, SameRowsAnyInv DEF BeginCount
  <2>8. ASSUME NEW c \in counts, FinishCount(c) PROVE AnyInv'
    BY <2>8, SameRowsAnyInv DEF FinishCount
  <2>9. CASE UNCHANGED vars
    BY <2>9, SameRowsAnyInv DEF vars
  <2> QED BY <2>1, <2>2, <2>3, <2>4, <2>5, <2>6, <2>7, <2>8, <2>9
          DEF Next, Manage, Sweep, CountShelf
<1> QED BY <1>1, <1>2, TypeCorrect, PTL DEF Spec

LEMMA TakenOnceNow == TypeOK /\ AnyInv => NeverTakenTwice
<1> SUFFICES ASSUME TypeOK, AnyInv, NEW o \in Attempts, NEW p \in Products
             PROVE  -(held[o][p] + sold[o][p]) \in 0 .. Want[o][p]
  BY DEF NeverTakenTwice
<1>1. Want[o][p] \in Nat
  BY WantAssumption DEF Baskets
<1>2. PICK st \in StockStates : InState(o, st)
  BY DEF AnyInv, OneEffect
<1> QED BY <1>1, <1>2 DEF InState, HeldIn, SoldIn, StockStates

\* NeverTakenTwice (sync_order_stock_state): under every interference, an
\* order's movements never add up to more than its basket.
THEOREM TakenOnce == Spec => []NeverTakenTwice
BY TakenOnceNow, AnyInvariant, PTL

\* A basket is not empty, so the three stock states are told apart.
LEMMA StatesDiffer ==
  ASSUME NEW o \in Attempts
  PROVE  /\ HeldIn(o, "reserved") # Zero /\ SoldIn(o, "sold") # Zero
         /\ HeldIn(o, "sold") = Zero
         /\ HeldIn(o, "released") = Zero /\ SoldIn(o, "released") = Zero
<1>1. PICK p \in Products : Want[o][p] > 0
  BY WantAssumption
<1>2. Want[o] \in [Products -> Nat]
  BY WantAssumption DEF Baskets
<1>3. [q \in Products |-> -Want[o][q]] # Zero
  BY <1>1, <1>2 DEF Zero
<1> QED BY <1>3 DEF HeldIn, SoldIn, Zero

\* OneOrderPerKey (orders_idempotency_key_uq): however the submissions of one
\* checkout race, and whoever else writes the rows, at most one row has its
\* key.  Only an insertion makes a row, and the index lets none pass that has a
\* twin.
THEOREM OneRowPerKey == Spec => []OneOrderPerKey
<1>1. Init => OneOrderPerKey
  BY DEF Init, OneOrderPerKey
<1>2. TypeOK /\ OneOrderPerKey /\ [Next]_vars => OneOrderPerKey'
  <2> SUFFICES ASSUME TypeOK, OneOrderPerKey, [Next]_vars PROVE OneOrderPerKey'
    OBVIOUS
  <2>1. ASSUME \A o \in Attempts : status'[o] # "absent" => status[o] # "absent"
        PROVE  OneOrderPerKey'
    BY <2>1 DEF OneOrderPerKey
  <2>2. ASSUME NEW a \in Attempts, Place(a) PROVE OneOrderPerKey'
    <3>1. CASE InsertOrder(a) /\ RowFor(Key[a]) = {} /\ status' = [status EXCEPT ![a] = "new"]
      <4>1. \A o \in Attempts :
              status[o] # "absent" /\ Key[o] = Key[a] => Key[a] = NoKey
        BY <3>1 DEF RowFor
      <4>2. \A o \in Attempts \ {a} : status'[o] = status[o]
        BY <3>1 DEF TypeOK
      <4> QED BY <4>1, <4>2 DEF OneOrderPerKey
    <3>2. CASE ~(InsertOrder(a) /\ RowFor(Key[a]) = {}
                   /\ status' = [status EXCEPT ![a] = "new"])
      <4>1. \A o \in Attempts : status'[o] # "absent" => status[o] # "absent"
        BY <2>2, <3>2
        DEF Place, FindByKey, Reprice, InsertOrder, ReadBack, Reserve, Unwind, Crash,
            ledger, rows, TypeOK
      <4> QED BY <2>1, <4>1
    <3> QED BY <3>1, <3>2
  <2>3. ASSUME NEW o \in Attempts, status[o] # "absent", NEW s, UpdateStatus(o, s)
        PROVE  OneOrderPerKey'
    BY <2>1, <2>3, UpdateEffect DEF TypeOK
  <2>4. ASSUME NEW m \in moves, FinishMove(m) PROVE OneOrderPerKey'
    <3>1. m.order \in Attempts
      BY DEF TypeOK, Move
    <3> QED BY <2>1, <2>3, <2>4, <3>1 DEF FinishMove, Refused
  <2>5. ASSUME NEW o \in Attempts, SweepRow(o) PROVE OneOrderPerKey'
    BY <2>1, <2>3, <2>5 DEF SweepRow
  <2>6. ASSUME UNCHANGED status PROVE OneOrderPerKey'
    BY <2>1, <2>6
  <2> QED BY <2>2, <2>4, <2>5, <2>6
          DEF Next, Manage, Sweep, CountShelf, Age, BeginMove, OpenSweep, BeginCount,
              FinishCount, rows, vars
<1> QED BY <1>1, <1>2, TypeCorrect, PTL DEF Spec

\* A row an attempt was given as its own is never taken away: only a placement
\* still under way deletes its row, and it has told nobody it is the buyer's.
THEOREM AnsweredStands == Spec => []AnsweredRowsStand
<1>1. Init => AnsweredRowsStand
  BY NoOrderAssumption DEF Init, AnsweredRowsStand
<1>2. TypeOK /\ AnyInv /\ AnsweredRowsStand /\ [Next]_vars => AnsweredRowsStand'
  <2> SUFFICES ASSUME TypeOK, AnyInv, AnsweredRowsStand, [Next]_vars
               PROVE  AnsweredRowsStand'
    OBVIOUS
  <2>1. ASSUME UNCHANGED <<answer, pc>>,
               \A o \in Attempts : status[o] # "absent" => status'[o] # "absent"
        PROVE  AnsweredRowsStand'
    BY <2>1 DEF AnsweredRowsStand, InFlight
  <2>2. ASSUME NEW a \in Attempts, Place(a) PROVE AnsweredRowsStand'
    <3>1. \A x \in Attempts \ {a} :
            answer'[x] = answer[x] /\ pc'[x] = pc[x] /\ status'[x] = status[x]
      BY <2>2 DEF Place, FindByKey, Reprice, InsertOrder, ReadBack, Reserve, Unwind, Crash,
                  rows, Go, Tell, TypeOK
    <3>2. pc[a] \in {"idle", "pricing", "inserting", "conflict"} => status[a] = "absent"
      BY DEF AnyInv, RowsArePlaced
    <3>3. answer'[a] = a => status'[a] # "absent" /\ ~InFlight(a)'
      <4>1. CASE FindByKey(a) \/ ReadBack(a)
        <5>1. answer'[a] = a => answer[a] = a
          BY <3>2, <4>1 DEF FindByKey, ReadBack, RowFor, Go, Tell, TypeOK
        <5> QED BY <3>2, <4>1, <5>1 DEF FindByKey, ReadBack, AnsweredRowsStand
      <4>2. CASE Reprice(a) \/ InsertOrder(a)
        BY <3>2, <4>2 DEF Reprice, InsertOrder, Go, AnsweredRowsStand
      <4>3. CASE Reserve(a)
        <5>1. status[a] # "absent" /\ answer[a] # a
          BY <4>3 DEF Reserve, AnyInv, RowsArePlaced, InFlight, AnsweredRowsStand
        <5> QED BY <4>3, <5>1 DEF Reserve, Go, Tell, InFlight, rows, TypeOK
      <4>4. CASE Unwind(a)
        BY <4>4 DEF Unwind, Go, AnsweredRowsStand, InFlight
      <4>5. CASE Crash(a)
        BY <3>2, <4>5 DEF Crash, Go, AnsweredRowsStand, InFlight, rows, TypeOK
      <4> QED BY <2>2, <4>1, <4>2, <4>3, <4>4, <4>5 DEF Place
    <3> QED BY <3>1, <3>3 DEF AnsweredRowsStand, InFlight
  <2>3. ASSUME NEW m \in moves, FinishMove(m) PROVE AnsweredRowsStand'
    <3>1. m.order \in Attempts /\ m.to # "absent"
      BY TargetsAssumption DEF TypeOK, Move
    <3> QED BY <2>1, <2>3, <3>1, UpdateEffect DEF FinishMove, placing, TypeOK
  <2>4. ASSUME NEW o \in Attempts, SweepRow(o) PROVE AnsweredRowsStand'
    BY <2>1, <2>4, UpdateEffect DEF SweepRow, placing, TypeOK
  <2>5. ASSUME UNCHANGED <<placing, status>> PROVE AnsweredRowsStand'
    BY <2>1, <2>5 DEF placing
  <2> QED BY <2>2, <2>3, <2>4, <2>5
          DEF Next, Manage, Sweep, CountShelf, Age, BeginMove, OpenSweep, BeginCount,
              FinishCount, rows, vars
<1> QED BY <1>1, <1>2, AnyInvariant, PTL DEF Spec

\* KeyBuysOnce (the unique index, the fast path and the conflict handler of
\* placeOrder): of the submissions with one key at most one is given a
\* reference of its own or has units out, whatever overlaps and however late
\* the retry.
THEOREM KeyBoughtOnce == Spec => []KeyBuysOnce
<1>1. AnyInv /\ AnsweredRowsStand /\ OneOrderPerKey => KeyBuysOnce
  <2> SUFFICES ASSUME AnyInv, AnsweredRowsStand, OneOrderPerKey PROVE KeyBuysOnce
    OBVIOUS
  <2>1. ASSUME NEW a \in Attempts, Bought(a) PROVE status[a] # "absent"
    BY <2>1, StatesDiffer DEF Bought, AnsweredRowsStand, AnyInv, NoRowNoEffect, InState
  <2> QED BY <2>1 DEF KeyBuysOnce, OneOrderPerKey
<1> QED BY <1>1, AnyInvariant, AnsweredStands, OneRowPerKey, PTL

------------------------------------------------------------------------------
\* A row's effect and its status.

LEMMA StateForNew == StateFor("new") = "reserved" /\ StateFor("cancelled") = "released"
BY DEF StateFor

\* A step that moves no unit, no row and no program counter, and ages or sweeps
\* only settled rows.
LEMMA SameRowsSettled ==
  ASSUME SettledInv, UNCHANGED <<pc, status, pre, held, sold, hurried>>,
         SweptRowsSettled'
  PROVE  SettledInv'
BY DEF SettledInv, InFlightIsNew, EffectMatchesStatus, InFlight, InState

\* Writing the status of a row leaves its effect in step with it, or marks it.
LEMMA UpdateSettled ==
  ASSUME TypeOK, AnyInv, SettledInv, NEW o \in Attempts, status[o] # "absent",
         NEW s \in Status \ {"absent"}, UpdateStatus(o, s),
         UNCHANGED <<pc, pre, aged>>, sweeping' \subseteq sweeping,
         hurried' = IF InFlight(o) THEN hurried \cup {o} ELSE hurried \ {o}
  PROVE  SettledInv'
<1>1. \A x \in Attempts : Settled(x) => Settled(x)'
  BY UpdateEffect DEF Settled, InFlight, TypeOK
<1>2. SweptRowsSettled'
  BY <1>1 DEF SettledInv, SweptRowsSettled, TypeOK
<1>3. InFlightIsNew'
  BY UpdateEffect DEF SettledInv, InFlightIsNew, InFlight, InState, TypeOK
<1>4. EffectMatchesStatus'
  <2> SUFFICES ASSUME NEW x \in Attempts
               PROVE  IF status'[x] = "absent" \/ pre'[x] THEN InState(x, "released")'
                      ELSE \/ InState(x, StateFor(status[x]))'
                           \/ x \in hurried'
                           \/ /\ status'[x] = "new" /\ InState(x, "released")'
                              /\ pc'[x] \in {"reserving", "unwinding", "crashed"}
    BY DEF EffectMatchesStatus
  <2>1. CASE x # o
    BY <2>1, UpdateEffect DEF SettledInv, EffectMatchesStatus, InState, TypeOK
  <2>2. CASE x = o /\ pre[o]
    BY <2>2, UpdateEffect DEF AnyInv, NoRowNoEffect, InState
  <2>3. CASE x = o /\ ~pre[o]
    <3>1. status'[o] = s
      BY UpdateEffect DEF TypeOK
    <3> QED BY <2>3, <3>1, UpdateEffect DEF InState
  <2> QED BY <2>1, <2>2, <2>3
<1> QED BY <1>2, <1>3, <1>4 DEF SettledInv

\* Placement steps: the attempt's own row is not one the sweep looks at.
LEMMA PlaceSettled ==
  ASSUME TypeOK, AnyInv, SettledInv, NEW a \in Attempts, Place(a)
  PROVE  SettledInv'
<1> USE DEF ledger, rows, decisions, Go, Tell
<1> DEFINE Others == \A x \in Attempts \ {a} :
             /\ pc'[x] = pc[x] /\ status'[x] = status[x] /\ pre'[x] = pre[x]
             /\ held'[x] = held[x] /\ sold'[x] = sold[x]
<1>1. ASSUME Others, ~Settled(a), UNCHANGED <<aged, sweeping, hurried>>
      PROVE  SweptRowsSettled'
  BY <1>1 DEF SettledInv, SweptRowsSettled, Settled, InFlight, TypeOK
<1>2. ASSUME Others, UNCHANGED <<aged, sweeping, hurried>>, ~Settled(a), ~InFlight(a)',
             status'[a] = "absent", InState(a, "released")'
      PROVE  SettledInv'
  <2>1. InFlightIsNew'
    BY <1>2 DEF SettledInv, InFlightIsNew, InFlight, InState
  <2>2. EffectMatchesStatus'
    BY <1>2 DEF SettledInv, EffectMatchesStatus, InState
  <2> QED BY <1>1, <1>2, <2>1, <2>2 DEF SettledInv
<1>3. ASSUME pc[a] \in {"idle", "pricing", "inserting", "conflict"}
      PROVE  status[a] = "absent" /\ ~Settled(a) /\ InState(a, "released")
  BY <1>3 DEF AnyInv, RowsArePlaced, NoRowNoEffect, Settled
<1>4. CASE FindByKey(a) \/ ReadBack(a)
  <2>1. /\ Others /\ UNCHANGED <<aged, sweeping, hurried, status, held, sold>>
        /\ ~InFlight(a)'
    BY <1>4 DEF FindByKey, ReadBack, InFlight, TypeOK
  <2>2. status[a] = "absent" /\ ~Settled(a) /\ InState(a, "released")
    BY <1>3, <1>4 DEF FindByKey, ReadBack
  <2> QED BY <1>2, <2>1, <2>2 DEF InState
<1>5. CASE Reprice(a)
  <2>1. /\ Others /\ UNCHANGED <<aged, sweeping, hurried, status, held, sold>>
        /\ ~InFlight(a)'
    BY <1>5 DEF Reprice, InFlight, TypeOK
  <2>2. status[a] = "absent" /\ ~Settled(a) /\ InState(a, "released")
    BY <1>3, <1>5 DEF Reprice
  <2> QED BY <1>2, <2>1, <2>2 DEF InState
<1>6. CASE InsertOrder(a)
  <2>1. /\ Others /\ UNCHANGED <<aged, sweeping, hurried, held, sold>>
    BY <1>6 DEF InsertOrder, TypeOK
  <2>2. status[a] = "absent" /\ ~Settled(a) /\ InState(a, "released")
    BY <1>3, <1>6 DEF InsertOrder
  <2>3. CASE status'[a] = "absent"
    <3>1. ~InFlight(a)'
      BY <1>6, <2>3 DEF InsertOrder, InFlight, TypeOK
    <3> QED BY <1>2, <2>1, <2>2, <2>3, <3>1 DEF InState
  <2>4. CASE status'[a] = "new" /\ pc'[a] = "reserving"
    <3>1. InFlightIsNew'
      BY <2>1, <2>2, <2>4 DEF SettledInv, InFlightIsNew, InFlight, InState
    <3>2. EffectMatchesStatus'
      BY <2>1, <2>2, <2>4 DEF SettledInv, EffectMatchesStatus, InState
    <3> QED BY <1>1, <2>1, <2>2, <3>1, <3>2 DEF SettledInv
  <2> QED BY <1>6, <2>2, <2>3, <2>4 DEF InsertOrder, TypeOK
<1>7. CASE Reserve(a)
  <2>1. /\ status[a] # "absent" /\ ~Settled(a)
        /\ a \notin hurried => status[a] = "new" /\ InState(a, "released")
    BY <1>7 DEF Reserve, SettledInv, InFlightIsNew, AnyInv, RowsArePlaced, InFlight, Settled
  <2>2. UNCHANGED <<aged, sweeping, hurried, status, pre>> /\ Others
    BY <1>7, SyncEffect DEF Reserve, TypeOK
  <2>3. pc'[a] \in {"told", "unwinding"} /\ (pc'[a] = "told" => pre[a] \/ Fits(a))
    BY <1>7 DEF Reserve, TypeOK
  <2>4. IF Fits(a) /\ ~pre[a] THEN InState(a, "reserved")' ELSE UNCHANGED <<held, sold>>
    BY <1>7, SyncEffect DEF Reserve
  <2>5. InFlightIsNew'
    BY <2>1, <2>2, <2>3 DEF SettledInv, InFlightIsNew, InFlight, InState
  <2>6. EffectMatchesStatus'
    <3> SUFFICES ASSUME NEW x \in Attempts
                 PROVE  IF status[x] = "absent" \/ pre[x] THEN InState(x, "released")'
                        ELSE \/ InState(x, StateFor(status[x]))'
                             \/ x \in hurried
                             \/ /\ status[x] = "new" /\ InState(x, "released")'
                                /\ pc'[x] \in {"reserving", "unwinding", "crashed"}
      BY <2>2 DEF EffectMatchesStatus, InState
    <3>1. CASE x # a
      BY <2>2, <3>1 DEF SettledInv, EffectMatchesStatus, InState
    <3>2. CASE x = a /\ Fits(a) /\ ~pre[a]
      BY <2>1, <2>2, <2>4, <3>2, StateForNew DEF InState
    <3>3. CASE x = a /\ pre[a]
      BY <2>4, <3>3 DEF AnyInv, NoRowNoEffect, InState
    <3>4. CASE x = a /\ ~Fits(a) /\ ~pre[a]
      BY <2>1, <2>3, <2>4, <3>4 DEF InState
    <3> QED BY <3>1, <3>2, <3>3, <3>4
  <2> QED BY <1>1, <2>1, <2>2, <2>5, <2>6 DEF SettledInv
<1>8. CASE Unwind(a)
  <2>1. /\ Others /\ UNCHANGED <<aged, sweeping, hurried>> /\ status'[a] = "absent"
        /\ ~InFlight(a)' /\ ~Settled(a)
    BY <1>8 DEF Unwind, InFlight, Settled, TypeOK
  <2>2. InState(a, "released")'
    BY <1>8 DEF Unwind, InState, HeldIn, SoldIn, Zero, TypeOK
  <2> QED BY <1>2, <2>1, <2>2
<1>9. CASE Crash(a)
  <2>1. /\ Others /\ UNCHANGED <<aged, sweeping, hurried, status, pre, held, sold>>
        /\ pc'[a] = "crashed" /\ ~Settled(a)
    BY <1>9, <1>3 DEF Crash, TypeOK, Settled, InFlight
  <2>2. InFlightIsNew'
    BY <2>1 DEF SettledInv, InFlightIsNew, InFlight, InState
  <2>3. EffectMatchesStatus'
    BY <2>1 DEF SettledInv, EffectMatchesStatus, InState
  <2> QED BY <1>1, <2>1, <2>2, <2>3 DEF SettledInv
<1> QED BY <1>4, <1>5, <1>6, <1>7, <1>8, <1>9 DEF Place

\* Every row's effect on the stock is the one its status asks for, but for the
\* rows staff moved too early -- whatever crashes, is lost, or is decided late.
THEOREM SettledInvariant == Spec => [](TypeOK /\ AnyInv /\ SettledInv)
<1>1. Init => SettledInv
  BY DEF Init, SettledInv, SweptRowsSettled, InFlightIsNew, EffectMatchesStatus,
         InFlight, InState, HeldIn, SoldIn, Zero
<1>2. TypeOK /\ AnyInv /\ SettledInv /\ [Next]_vars => SettledInv'
  <2> SUFFICES ASSUME TypeOK, AnyInv, SettledInv, [Next]_vars PROVE SettledInv'
    OBVIOUS
  <2> USE DEF placing, ledger, rows
  <2>1. ASSUME NEW a \in Attempts, Place(a) PROVE SettledInv'
    BY <2>1, PlaceSettled
  <2>2. ASSUME NEW o \in Attempts, Age(o) PROVE SettledInv'
    <3>1. Settled(o)
      BY <2>2 DEF Age, Settled
    <3>2. SweptRowsSettled'
      BY <2>2, <3>1 DEF Age, decisions, SettledInv, SweptRowsSettled, Settled, InFlight
    <3> QED BY <2>2, <3>2, SameRowsSettled DEF Age, decisions
  <2>3. ASSUME UNCHANGED <<placing, held, sold, rows, sweeping, hurried>> PROVE SettledInv'
    BY <2>3, SameRowsSettled DEF SettledInv, SweptRowsSettled, Settled, InFlight
  <2>4. ASSUME NEW m \in moves, FinishMove(m) PROVE SettledInv'
    <3>1. /\ m.order \in Attempts /\ m.to \in Status \ {"absent"}
          /\ UNCHANGED <<pc, pre, aged, sweeping>>
      BY <2>4, TargetsAssumption DEF TypeOK, Move, FinishMove
    <3>2. CASE Refused(m)
      BY <2>3, <2>4, <3>2 DEF FinishMove
    <3>3. CASE ~Refused(m)
      <4>1. /\ UpdateStatus(m.order, m.to) /\ status[m.order] # "absent"
            /\ hurried' = IF InFlight(m.order) THEN hurried \cup {m.order}
                                               ELSE hurried \ {m.order}
        BY <2>4, <3>3 DEF FinishMove, Refused
      <4> QED BY <3>1, <4>1, UpdateSettled
    <3> QED BY <3>2, <3>3
  <2>5. CASE OpenSweep
    <3>1. SweptRowsSettled'
      BY <2>5 DEF OpenSweep, Stale, SettledInv, SweptRowsSettled, Settled, InFlight
    <3> QED BY <2>5, <3>1, SameRowsSettled DEF OpenSweep
  <2>6. ASSUME NEW o \in Attempts, SweepRow(o) PROVE SettledInv'
    <3>1. /\ UNCHANGED <<pc, pre, aged>> /\ sweeping' \subseteq sweeping
          /\ Settled(o) /\ "cancelled" \in Status \ {"absent"}
      BY <2>6, StatusFacts DEF SweepRow, SettledInv, SweptRowsSettled
    <3>2. CASE status[o] \in {"absent", "completed"}
      <4>1. SweptRowsSettled'
        BY <2>6, <3>1, <3>2
        DEF SweepRow, SettledInv, SweptRowsSettled, Settled, InFlight
      <4> QED BY <2>6, <3>2, <4>1, SameRowsSettled DEF SweepRow
    <3>3. CASE status[o] \notin {"absent", "completed"}
      <4>1. /\ UpdateStatus(o, "cancelled") /\ status[o] # "absent" /\ ~InFlight(o)
            /\ hurried' = IF InFlight(o) THEN hurried \cup {o} ELSE hurried \ {o}
        BY <2>6, <3>1, <3>3 DEF SweepRow, Settled
      <4> QED BY <3>1, <4>1, UpdateSettled
    <3> QED BY <3>2, <3>3
  <2> QED BY <2>1, <2>2, <2>3, <2>4, <2>5, <2>6
          DEF Next, Manage, Sweep, CountShelf, BeginMove, BeginCount, FinishCount,
              decisions, vars
<1> QED BY <1>1, <1>2, AnyInvariant, PTL DEF Spec

\* EffectMatchesStatus (decrement_stock_on_confirm): the stock follows the
\* status, whatever overlaps; out of step is only a row whose status staff
\* wrote last while it was being placed.
THEOREM EffectInStep == Spec => []EffectMatchesStatus
<1>1. SettledInv => EffectMatchesStatus
  BY DEF SettledInv
<1> QED BY <1>1, SettledInvariant, PTL

------------------------------------------------------------------------------
\* What a deleted order leaves behind.

\* Writing a status touches no row that is being unwound unless it marks it.
LEMMA UpdateUnwinds ==
  ASSUME TypeOK, UnwindInv, NEW o \in Attempts, status[o] # "absent",
         NEW s \in Status \ {"absent"}, UpdateStatus(o, s), UNCHANGED placing,
         hurried' = IF InFlight(o) THEN hurried \cup {o} ELSE hurried \ {o}
  PROVE  UnwindInv'
<1>1. UNCHANGED <<pc, unheard, orphan>> /\ orphan[o] = Zero
  BY DEF UpdateStatus, placing, UnwindInv, OrphansHaveNoRow
<1>2. UnwindsNothing'
  BY <1>1, UpdateEffect DEF UnwindInv, UnwindsNothing, InFlight, InState
<1>3. OrphansHaveNoRow'
  BY <1>1, UpdateEffect DEF UnwindInv, OrphansHaveNoRow, TypeOK
<1>4. NoOrphanedUnits'
  BY <1>1 DEF UnwindInv, NoOrphanedUnits
<1> QED BY <1>2, <1>3, <1>4 DEF UnwindInv

LEMMA PlaceUnwinds ==
  ASSUME TypeOK, AnyInv, SettledInv, UnwindInv, NEW a \in Attempts, Place(a)
  PROVE  UnwindInv'
<1> USE DEF ledger, rows, decisions, Go, Tell
<1>1. CASE Unwind(a)
  <2>1. a \notin hurried \cup unheard => held[a] = Zero /\ sold[a] = Zero
    BY <1>1, StatesDiffer DEF Unwind, UnwindInv, UnwindsNothing, InState
  <2>2. /\ orphan' = [orphan EXCEPT ![a] = [p \in Products |-> held[a][p] + sold[a][p]]]
        /\ UNCHANGED <<hurried, unheard>>
    BY <1>1 DEF Unwind
  <2>3. a \notin hurried \cup unheard => orphan'[a] = Zero
    BY <2>1, <2>2 DEF TypeOK, Zero
  <2>4. \A p \in Products : -orphan'[a][p] \in 0 .. Want[a][p]
    BY <2>2, TakenOnceNow DEF TypeOK, NeverTakenTwice
  <2>5. NoOrphanedUnits'
    BY <2>2, <2>3, <2>4 DEF UnwindInv, NoOrphanedUnits, TypeOK
  <2>6. UnwindsNothing'
    BY <1>1 DEF Unwind, UnwindInv, UnwindsNothing, InState, TypeOK
  <2>7. OrphansHaveNoRow'
    BY <1>1 DEF Unwind, UnwindInv, OrphansHaveNoRow, TypeOK
  <2> QED BY <2>5, <2>6, <2>7 DEF UnwindInv
<1>2. CASE Reserve(a)
  <2>1. /\ a \notin hurried => InState(a, "released")
        /\ status[a] # "absent"
    BY <1>2 DEF Reserve, SettledInv, InFlightIsNew, InFlight, AnyInv, RowsArePlaced
  <2>2. /\ pc'[a] = "unwinding" /\ a \notin unheard' => UNCHANGED <<held, sold>>
        /\ UNCHANGED <<hurried, orphan, status>> /\ unheard \subseteq unheard'
    BY <1>2 DEF Reserve, TypeOK
  <2>3. \A x \in Attempts \ {a} :
          pc'[x] = pc[x] /\ held'[x] = held[x] /\ sold'[x] = sold[x]
    BY <1>2, SyncEffect DEF Reserve, TypeOK
  <2>4. UnwindsNothing'
    BY <2>1, <2>2, <2>3 DEF UnwindInv, UnwindsNothing, InState
  <2>5. OrphansHaveNoRow'
    BY <2>1, <2>2, <2>3 DEF UnwindInv, OrphansHaveNoRow
  <2>6. NoOrphanedUnits'
    BY <2>2 DEF UnwindInv, NoOrphanedUnits
  <2> QED BY <2>4, <2>5, <2>6 DEF UnwindInv
<1>3. CASE ~Unwind(a) /\ ~Reserve(a)
  <2>1. UNCHANGED <<held, sold, orphan, hurried, unheard>>
    BY <1>3 DEF Place, FindByKey, Reprice, InsertOrder, ReadBack, Crash
  <2>2. \A x \in Attempts : pc'[x] = "unwinding" => pc[x] = "unwinding"
    BY <1>3 DEF Place, FindByKey, Reprice, InsertOrder, ReadBack, Crash, TypeOK
  <2>3. \A x \in Attempts :
          pc[x] = "refused" => pc'[x] = "refused" /\ status'[x] = status[x]
    BY <1>3 DEF Place, FindByKey, Reprice, InsertOrder, ReadBack, Crash, TypeOK
  <2> QED BY <2>1, <2>2, <2>3
          DEF UnwindInv, UnwindsNothing, OrphansHaveNoRow, InState, NoOrphanedUnits
<1> QED BY <1>1, <1>2, <1>3

\* A placement that fails has moved nothing by the time its row is deleted, or
\* it is one of the two kinds that are named.
THEOREM UnwindInvariant == Spec => []UnwindInv
<1>1. Init => UnwindInv
  BY WantAssumption
  DEF Init, UnwindInv, UnwindsNothing, OrphansHaveNoRow, NoOrphanedUnits, Zero, Baskets
<1>2. TypeOK /\ AnyInv /\ SettledInv /\ UnwindInv /\ [Next]_vars => UnwindInv'
  <2> SUFFICES ASSUME TypeOK, AnyInv, SettledInv, UnwindInv, [Next]_vars
               PROVE  UnwindInv'
    OBVIOUS
  <2>1. ASSUME NEW a \in Attempts, Place(a) PROVE UnwindInv'
    BY <2>1, PlaceUnwinds
  <2>2. ASSUME UNCHANGED <<placing, status, ledger, hurried>> PROVE UnwindInv'
    BY <2>2 DEF UnwindInv, UnwindsNothing, OrphansHaveNoRow, NoOrphanedUnits, InState,
                placing, ledger
  <2>3. ASSUME NEW m \in moves, FinishMove(m) PROVE UnwindInv'
    <3>1. m.order \in Attempts /\ m.to \in Status \ {"absent"}
      BY TargetsAssumption DEF TypeOK, Move
    <3> QED BY <2>2, <2>3, <3>1, UpdateUnwinds DEF FinishMove, Refused
  <2>4. ASSUME NEW o \in Attempts, SweepRow(o) PROVE UnwindInv'
    <3>1. ~InFlight(o) /\ "cancelled" \in Status \ {"absent"}
      BY <2>4, StatusFacts DEF SweepRow, SettledInv, SweptRowsSettled, Settled
    <3> QED BY <2>2, <2>4, <3>1, UpdateUnwinds DEF SweepRow
  <2>5. ASSUME UNCHANGED <<placing, status, held, sold, orphan, hurried>> PROVE UnwindInv'
    BY <2>5 DEF UnwindInv, UnwindsNothing, OrphansHaveNoRow, NoOrphanedUnits, InState,
                placing
  <2> QED BY <2>1, <2>3, <2>4, <2>5
          DEF Next, Manage, Sweep, CountShelf, Age, BeginMove, OpenSweep, BeginCount,
              FinishCount, ledger, rows, decisions, vars
<1> QED BY <1>1, <1>2, SettledInvariant, PTL DEF Spec

\* NoOrphanedUnits (placeOrder's unwind): a deleted order leaves movements only
\* if the reply of its reservation was lost, or staff had moved it before its
\* placement was over; and then at most its basket.
THEOREM NothingOrphaned == Spec => []NoOrphanedUnits
<1>1. UnwindInv => NoOrphanedUnits
  BY DEF UnwindInv
<1> QED BY <1>1, UnwindInvariant, PTL

------------------------------------------------------------------------------
\* When staff wait for a placement to end and decide on no stale news.

\* Of an attempt whose placement is under way nobody has decided anything.
LEMMA PlaceFresh ==
  ASSUME TypeOK, AnyInv, SettledInv, FreshDecisions, NEW a \in Attempts, Place(a)
  PROVE  FreshDecisions'
<1>1. ~Settled(a)
  BY DEF Place, FindByKey, Reprice, InsertOrder, ReadBack, Reserve, Unwind, Crash,
         AnyInv, RowsArePlaced, Settled, InFlight, TypeOK
<1>2. /\ UNCHANGED <<moves, sweeping, hurried>>
      /\ \A x \in Attempts \ {a} : status'[x] = status[x] /\ pc'[x] = pc[x]
  BY DEF Place, FindByKey, Reprice, InsertOrder, ReadBack, Reserve, Unwind, Crash,
         ledger, rows, decisions, Go, Tell, TypeOK
<1> QED BY <1>1, <1>2 DEF FreshDecisions, Settled, InFlight, SettledInv, SweptRowsSettled, TypeOK, Move

\* What is written of a row is written as it was decided: allowed, of the status
\* that was read, and known to nobody else who has decided about the row.
LEMMA FinishFresh ==
  ASSUME TypeOK, SettledInv, FreshDecisions, NEW m \in moves, FinishMove(m)
  PROVE  /\ m.order \in Attempts /\ m.to \in Status \ {"absent"} /\ Settled(m.order)
         /\ MayMove(status[m.order], m.to)
         /\ FreshDecisions'
<1>1. /\ m.order \in Attempts /\ m.to \in Status \ {"absent"}
      /\ Settled(m.order) /\ MayMove(status[m.order], m.to)
  BY TargetsAssumption
  DEF TypeOK, Move, FreshDecisions
<1>2. CASE Refused(m)
  BY <1>1, <1>2 DEF FinishMove, FreshDecisions, Settled, InFlight, placing
<1>3. CASE ~Refused(m)
  <2>1. UpdateStatus(m.order, m.to)
    BY <1>3 DEF FinishMove
  <2>2. hurried' = {}
    BY <1>1, <1>3 DEF FinishMove, FreshDecisions, Settled
  <2>3. FreshDecisions'
    BY <1>1, <2>1, <2>2, UpdateEffect
    DEF FinishMove, FreshDecisions, Settled, InFlight, placing, TypeOK, Move
  <2> QED BY <1>1, <2>3
<1> QED BY <1>1, <1>2, <1>3

LEMMA SweepFresh ==
  ASSUME TypeOK, SettledInv, FreshDecisions, NEW o \in Attempts, SweepRow(o)
  PROVE  /\ status[o] = "new" /\ Settled(o) /\ MayMove("new", "cancelled")
         /\ UpdateStatus(o, "cancelled") /\ UNCHANGED pc
         /\ FreshDecisions'
<1>1. o \in sweeping /\ status[o] = "new" /\ Settled(o)
  BY DEF SweepRow, FreshDecisions, SettledInv, SweptRowsSettled
<1>2. /\ UpdateStatus(o, "cancelled") /\ UNCHANGED <<pc, moves>>
      /\ sweeping' = sweeping \ {o} /\ hurried' = {}
  BY <1>1 DEF SweepRow, placing, FreshDecisions
<1>3. FreshDecisions'
  BY <1>1, <1>2, UpdateEffect DEF FreshDecisions, Settled, InFlight, TypeOK, Move
<1> QED BY <1>1, <1>2, <1>3, StatusFacts DEF MayMove

LEMMA FreshStep ==
  ASSUME "early" \notin Interference, "stale" \notin Interference, TypeOK, AnyInv, SettledInv, FreshDecisions,
         [Next]_vars
  PROVE  FreshDecisions'
<1> USE DEF rows
<1>1. ASSUME NEW a \in Attempts, Place(a) PROVE FreshDecisions'
  BY <1>1, PlaceFresh
<1>2. ASSUME NEW s \in Staff, NEW o \in Attempts, NEW to \in Targets,
             BeginMove(s, o, to)
      PROVE  FreshDecisions'
  BY <1>2 DEF BeginMove, Busy, FreshDecisions, Settled, InFlight, placing
<1>3. ASSUME NEW m \in moves, FinishMove(m) PROVE FreshDecisions'
  BY <1>3, FinishFresh
<1>4. CASE OpenSweep
  BY <1>4 DEF OpenSweep, Stale, Busy, FreshDecisions, Settled, InFlight, placing
<1>5. ASSUME NEW o \in Attempts, SweepRow(o) PROVE FreshDecisions'
  BY <1>5, SweepFresh
<1>6. ASSUME UNCHANGED <<placing, status, moves, sweeping, hurried>> PROVE FreshDecisions'
  BY <1>6 DEF FreshDecisions, Settled, InFlight, placing
<1> QED BY <1>1, <1>2, <1>3, <1>4, <1>5, <1>6
        DEF Next, Manage, Sweep, CountShelf, Age, BeginCount, FinishCount, decisions, vars

LEMMA FreshInit == Init => FreshDecisions
BY DEF Init, FreshDecisions

------------------------------------------------------------------------------
\* When nobody dies either: no oversell; and, with every reply heard, the
\* shelf's promise is kept.

\* The three stock states of an order, seen as the promise's effect on it.
LEMMA EffectIs ==
  ASSUME NEW o \in Attempts
  PROVE  /\ InState(o, "reserved") => EffectOf(o) = "hold"
         /\ InState(o, "sold") => EffectOf(o) = "sale"
         /\ InState(o, "released") => EffectOf(o) = "none"
BY StatesDiffer DEF InState, EffectOf

LEMMA EffectWillBe ==
  ASSUME NEW o \in Attempts
  PROVE  /\ InState(o, "reserved")' => EffectOf(o)' = "hold"
         /\ InState(o, "sold")' => EffectOf(o)' = "sale"
         /\ InState(o, "released")' => EffectOf(o)' = "none"
BY StatesDiffer DEF InState, EffectOf

\* What an allowed status change does to the shelf: a sale of what was held,
\* the whole basket back, or nothing.
LEMMA UpdateShelf ==
  ASSUME TypeOK, NEW o \in Attempts, NEW s \in Status \ {"absent"}, ~pre[o],
         status[o] # "absent", InState(o, StateFor(status[o])),
         MayMove(status[o], s), UpdateStatus(o, s)
  PROVE  /\ InState(o, StateFor(s))'
         /\ qty' = IF s = "cancelled" THEN [p \in Products |-> qty[p] + Want[o][p]]
                                     ELSE qty
         /\ StateFor(status[o]) \in {"reserved", "sold"}
         /\ s # "cancelled" /\ StateFor(s) = "reserved" => StateFor(status[o]) = "reserved"
<1>1. Want[o] \in [Products -> Nat]
  BY WantAssumption DEF Baskets
<1>2. InState(o, StateFor(s))'
  BY UpdateEffect
<1>3. StateFor(status[o]) \in {"reserved", "sold"}
  BY DEF StateFor, MayMove
<1>4. qty' = [p \in Products |->
         qty[p] + (HeldIn(o, StateFor(s))[p] - HeldIn(o, StateFor(status[o]))[p])
                + (SoldIn(o, StateFor(s))[p] - SoldIn(o, StateFor(status[o]))[p])]
  BY DEF UpdateStatus, SyncOrderStockState, InState
<1>5. CASE s = "cancelled"
  <2>1. StateFor(s) = "released"
    BY <1>5, StateForNew
  <2>2. \A p \in Products : qty'[p] = qty[p] + Want[o][p]
    BY <1>1, <1>3, <1>4, <2>1 DEF HeldIn, SoldIn, TypeOK
  <2>3. qty' = [p \in Products |-> qty[p] + Want[o][p]]
    BY <1>4, <2>2
  <2> QED BY <1>2, <1>3, <1>5, <2>3
<1>6. CASE s # "cancelled"
  <2>1. StateFor(s) \in {"reserved", "sold"}
    BY <1>6 DEF StateFor
  <2>2. \A p \in Products : qty'[p] = qty[p]
    BY <1>1, <1>3, <1>4, <2>1 DEF HeldIn, SoldIn, TypeOK
  <2>3. qty' = qty
    BY <1>4, <2>2 DEF TypeOK
  <2>4. StateFor(s) = "reserved" => s = "new"
    BY DEF StateFor
  <2>5. Rank("new") = 1 /\ \A i \in FlowStatus : Rank(i) <= 1 => i = "new"
    BY StatusFacts DEF Rank, Flow
  <2>6. status[o] \in FlowStatus
    BY StatusFacts DEF TypeOK, MayMove
  <2>7. StateFor(s) = "reserved" => StateFor(status[o]) = "reserved"
    BY <1>6, <2>4, <2>5, <2>6 DEF MayMove
  <2> QED BY <1>2, <1>3, <1>6, <2>3, <2>7
<1> QED BY <1>5, <1>6

\* Every reservation that committed was heard of.
AllHeard == unheard = {}

EffectVector == [o \in Attempts |-> EffectOf(o)]
PromiseStep == [Promise!Next]_<<qty, EffectVector>>

\* A step that moves no unit is a stutter of the promise.
LEMMA StutterStep ==
  ASSUME UNCHANGED <<held, sold, qty>>
  PROVE  PromiseStep /\ (NoOversell => NoOversell')
BY DEF PromiseStep, EffectVector, EffectOf, NoOversell

\* Writing an allowed status sells, frees or leaves alone.
LEMMA UpdateKeeps ==
  ASSUME TypeOK, AnyInv, SettledInv, CalmInv, NEW o \in Attempts, Settled(o),
         NEW s \in Status \ {"absent"}, MayMove(status[o], s), UpdateStatus(o, s)
  PROVE  PromiseStep /\ NoOversell'
<1>1. CASE pre[o]
  BY <1>1, StutterStep DEF UpdateStatus, CalmInv
<1>2. CASE ~pre[o]
  <2>1. InState(o, StateFor(status[o]))
    <3>1. status[o] # "absent" /\ pc[o] \notin {"reserving", "unwinding", "crashed"}
      <4>1. pc[o] # "crashed"
        BY DEF CalmInv, NobodyDied
      <4> QED BY <4>1 DEF Settled, InFlight
    <3>2. IF status[o] = "absent" \/ pre[o] THEN InState(o, "released")
          ELSE \/ InState(o, StateFor(status[o]))
               \/ o \in hurried
               \/ /\ status[o] = "new" /\ InState(o, "released")
                  /\ pc[o] \in {"reserving", "unwinding", "crashed"}
      BY DEF SettledInv, EffectMatchesStatus
    <3> QED BY <1>2, <3>1, <3>2 DEF CalmInv, FreshDecisions
  <2>2. status[o] # "absent"
    BY DEF Settled
  <2>3. /\ InState(o, StateFor(s))'
        /\ qty' = IF s = "cancelled" THEN [p \in Products |-> qty[p] + Want[o][p]]
                                    ELSE qty
        /\ StateFor(status[o]) \in {"reserved", "sold"}
        /\ s # "cancelled" /\ StateFor(s) = "reserved" => StateFor(status[o]) = "reserved"
    BY <1>2, <2>1, <2>2, UpdateShelf
  <2>4. /\ EffectOf(o) = IF StateFor(status[o]) = "reserved" THEN "hold" ELSE "sale"
        /\ EffectOf(o)' = CASE StateFor(s) = "reserved" -> "hold"
                            [] StateFor(s) = "sold"     -> "sale"
                            [] StateFor(s) = "released" -> "none"
    <3>1. EffectOf(o) = IF StateFor(status[o]) = "reserved" THEN "hold" ELSE "sale"
      BY <2>1, <2>3, EffectIs
    <3>2. /\ InState(o, "reserved")' => EffectOf(o)' = "hold"
          /\ InState(o, "sold")' => EffectOf(o)' = "sale"
          /\ InState(o, "released")' => EffectOf(o)' = "none"
      BY EffectWillBe
    <3>3. StateFor(s) \in StockStates
      BY StatesAreKnown
    <3> QED BY <2>3, <3>1, <3>2, <3>3 DEF StockStates, InState
  <2>5. \A x \in Attempts \ {o} : EffectOf(x)' = EffectOf(x)
    BY UpdateEffect DEF EffectOf
  <2>6. EffectVector' = [EffectVector EXCEPT ![o] = EffectOf(o)']
    BY <2>5 DEF EffectVector
  <2>7. CASE s = "cancelled"
    <3>1. Promise!Free(o)
      BY <2>3, <2>4, <2>6, <2>7, StateForNew DEF Promise!Free, EffectVector
    <3>2. NoOversell'
      BY <2>3, <2>7, WantAssumption DEF Baskets, CalmInv, NoOversell, TypeOK
    <3> QED BY <3>1, <3>2 DEF PromiseStep, Promise!Next, EffectVector
  <2>8. CASE s # "cancelled"
    <3>1. qty' = qty /\ NoOversell'
      BY <2>3, <2>8 DEF CalmInv, NoOversell
    <3>2. StateFor(s) \in {"reserved", "sold"}
      BY <2>8 DEF StateFor
    <3>3. CASE EffectOf(o)' = EffectOf(o)
      BY <2>6, <3>1, <3>3 DEF PromiseStep, EffectVector
    <3>4. CASE EffectOf(o)' # EffectOf(o)
      <4>1. Promise!Sell(o)
        BY <2>3, <2>4, <2>6, <2>8, <3>1, <3>2, <3>4 DEF Promise!Sell, EffectVector
      <4> QED BY <3>1, <4>1 DEF PromiseStep, Promise!Next, EffectVector
    <3> QED BY <3>1, <3>3, <3>4
  <2> QED BY <2>7, <2>8
<1> QED BY <1>1, <1>2

\* A placement step holds a basket that fits, or moves no unit, or deletes a
\* row: which the promise does not notice when there is nothing behind it.
LEMMA PlaceKeeps ==
  ASSUME Interference \subseteq {"lost"}, TypeOK, AnyInv, SettledInv, CalmInv,
         NEW a \in Attempts, Place(a)
  PROVE  (AllHeard /\ UnwindsNothing => PromiseStep) /\ CalmInv'
<1> USE DEF ledger, rows, decisions, Go, Tell
<1>1. NobodyDied'
  BY DEF Place, FindByKey, Reprice, InsertOrder, ReadBack, Reserve, Unwind, Crash,
         CalmInv, NobodyDied, TypeOK, PlacePC
<1>2. FreshDecisions'
  BY PlaceFresh DEF CalmInv
<1>3. CASE Reserve(a) /\ Fits(a) /\ ~pre[a]
  <2>1. SyncOrderStockState(a, "reserved")
    BY <1>3 DEF Reserve, TypeOK
  <2>2. InState(a, "released")
    BY <1>3 DEF Reserve, SettledInv, InFlightIsNew, InFlight, CalmInv, FreshDecisions
  <2>3. Want[a] \in [Products -> Nat]
    BY WantAssumption DEF Baskets
  <2>0. \A p \in Products : Want[a][p] <= qty[p]
    BY <1>3, <2>3 DEF Fits, InBasket, CalmInv, NoOversell, TypeOK
  <2>4. \A p \in Products : qty'[p] = qty[p] - Want[a][p]
    BY <2>1, <2>2, <2>3 DEF SyncOrderStockState, InState, HeldIn, SoldIn, TypeOK
  <2>5. qty' = [p \in Products |-> qty[p] - Want[a][p]]
    BY <2>1, <2>4 DEF SyncOrderStockState
  <2>6. EffectOf(a) = "none" /\ EffectOf(a)' = "hold"
    BY <2>1, <2>2, SyncEffect, EffectIs, EffectWillBe
  <2>7. \A x \in Attempts \ {a} : EffectOf(x)' = EffectOf(x)
    BY <2>1, SyncEffect DEF EffectOf
  <2>8. EffectVector' = [EffectVector EXCEPT ![a] = "hold"]
    BY <2>6, <2>7 DEF EffectVector
  <2>9. Promise!Hold(a)
    <3>2. EffectVector[a] = "none"
      BY <2>6 DEF EffectVector
    <3> QED BY <2>0, <2>5, <2>8, <3>2 DEF Promise!Hold, EffectVector
  <2>10. NoOversell'
    BY <2>0, <2>3, <2>4 DEF NoOversell, TypeOK
  <2> QED BY <1>1, <1>2, <2>9, <2>10
          DEF PromiseStep, Promise!Next, EffectVector, CalmInv
<1>4. CASE Unwind(a)
  <2>1. AllHeard /\ UnwindsNothing => UNCHANGED <<held, sold, qty>>
    <3>1. ASSUME AllHeard, UnwindsNothing PROVE held[a] = Zero /\ sold[a] = Zero
      BY <1>4, <3>1, StatesDiffer
      DEF Unwind, UnwindsNothing, InState, CalmInv, FreshDecisions, AllHeard
    <3> QED BY <1>4, <3>1 DEF Unwind, TypeOK
  <2>2. NoOversell'
    BY <1>4 DEF Unwind, CalmInv, NoOversell
  <2> QED BY <1>1, <1>2, <2>1, <2>2, StutterStep DEF CalmInv
<1>5. CASE ~(Reserve(a) /\ Fits(a) /\ ~pre[a]) /\ ~Unwind(a)
  <2>1. UNCHANGED <<held, sold, qty>>
    BY <1>5 DEF Place, FindByKey, Reprice, InsertOrder, ReadBack, Reserve, Crash
  <2> QED BY <1>1, <1>2, <2>1, StutterStep DEF CalmInv
<1> QED BY <1>3, <1>4, <1>5

LEMMA CalmStep ==
  ASSUME Interference \subseteq {"lost"}, TypeOK, AnyInv, SettledInv, CalmInv,
         [Next]_vars
  PROVE  (AllHeard /\ UnwindsNothing => PromiseStep) /\ CalmInv'
<1> USE DEF placing, ledger, rows
<1>1. ASSUME NEW a \in Attempts, Place(a)
      PROVE  (AllHeard /\ UnwindsNothing => PromiseStep) /\ CalmInv'
  BY <1>1, PlaceKeeps
<1>2. FreshDecisions'
  BY FreshStep DEF CalmInv
<1>3. ASSUME UNCHANGED <<pc, held, sold, qty>> PROVE PromiseStep /\ CalmInv'
  BY <1>2, <1>3, StutterStep DEF CalmInv, NobodyDied
<1>4. ASSUME NEW m \in moves, FinishMove(m) PROVE PromiseStep /\ CalmInv'
  <2>1. /\ m.order \in Attempts /\ m.to \in Status \ {"absent"}
        /\ Settled(m.order) /\ MayMove(status[m.order], m.to)
    BY <1>4, FinishFresh DEF CalmInv
  <2>2. CASE Refused(m)
    BY <1>3, <1>4, <2>2 DEF FinishMove
  <2>3. CASE ~Refused(m)
    <3>1. UpdateStatus(m.order, m.to) /\ UNCHANGED pc
      BY <1>4, <2>3 DEF FinishMove
    <3> QED BY <1>2, <2>1, <3>1, UpdateKeeps DEF CalmInv, NobodyDied
  <2> QED BY <2>2, <2>3
<1>5. ASSUME NEW o \in Attempts, SweepRow(o) PROVE PromiseStep /\ CalmInv'
  <2>1. /\ status[o] = "new" /\ Settled(o) /\ MayMove("new", "cancelled")
        /\ UpdateStatus(o, "cancelled") /\ UNCHANGED pc
    BY <1>5, SweepFresh DEF CalmInv
  <2>2. "cancelled" \in Status \ {"absent"}
    BY StatusFacts
  <2> QED BY <1>2, <2>1, <2>2, UpdateKeeps DEF CalmInv, NobodyDied
<1>6. ASSUME NEW c \in counts, FinishCount(c) PROVE PromiseStep /\ CalmInv'
  <2>1. c.of \in Products /\ c.to \in Nat /\ c.from = qty[c.of]
    BY <1>6 DEF FinishCount, TypeOK, Counting
  <2>2. qty' = [qty EXCEPT ![c.of] = c.to] /\ UNCHANGED <<held, sold, pc>>
    <3>1. qty[c.of] + (c.to - c.from) = c.to
      BY <2>1 DEF TypeOK
    <3>2. qty' = [qty EXCEPT ![c.of] = qty[c.of] + (c.to - c.from)]
      BY <1>6 DEF FinishCount
    <3> QED BY <1>6, <3>1, <3>2 DEF FinishCount
  <2>3. Promise!Count(c.of)
    BY <2>1, <2>2 DEF Promise!Count, EffectVector, EffectOf, TypeOK
  <2>4. NoOversell' /\ NobodyDied'
    BY <2>1, <2>2 DEF CalmInv, NoOversell, NobodyDied, TypeOK
  <2>5. PromiseStep
    BY <2>1, <2>3 DEF PromiseStep, Promise!Next, EffectVector
  <2> QED BY <1>2, <2>4, <2>5 DEF CalmInv
<1>7. CASE UNCHANGED vars
  BY <1>3, <1>7 DEF vars
<1> QED BY <1>1, <1>3, <1>4, <1>5, <1>6, <1>7
        DEF Next, Manage, Sweep, CountShelf, Age, BeginMove, OpenSweep, BeginCount

LEMMA CalmInit == Init => CalmInv
BY OpeningAssumption, FreshInit DEF Init, CalmInv, NoOversell, NobodyDied

\* NoOversell (reserve_order_stock): as long as nobody dies in a placement and
\* staff decide on what is so, no product is promised beyond its shelf -- also
\* when the answer of a reservation is lost.
THEOREM NeverOversold ==
  ASSUME Interference \subseteq {"lost"}
  PROVE  Spec => []NoOversell
<1>1. TypeOK /\ AnyInv /\ SettledInv /\ CalmInv /\ [Next]_vars => CalmInv'
  BY CalmStep
<1>2. CalmInv => NoOversell
  BY DEF CalmInv
<1>3. Spec => [](TypeOK /\ AnyInv /\ SettledInv)
  BY SettledInvariant
<1> QED BY <1>1, <1>2, <1>3, CalmInit, PTL DEF Spec

\* KeepsPromise: without interference the orders, the ledger, the sweep and
\* the counts together implement the shelf's promise.
THEOREM OrderStockKeepsPromise ==
  ASSUME Interference = {}
  PROVE  Spec => KeepsPromise
<1>1. Init => Promise!Init
  BY DEF Init, Promise!Init, EffectOf, Zero
<1>2. TypeOK /\ AnyInv /\ SettledInv /\ CalmInv /\ [Next]_vars => CalmInv'
  BY CalmStep
<1>3. AllHeard /\ [Next]_vars => AllHeard'
  BY DEF AllHeard, Next, Place, FindByKey, Reprice, InsertOrder, ReadBack, Reserve, Unwind, Crash,
         Go, Tell, Manage, Sweep, CountShelf, Age, BeginMove, FinishMove, OpenSweep,
         SweepRow, BeginCount, FinishCount, placing, vars
<1>4. TypeOK /\ AnyInv /\ SettledInv /\ UnwindInv /\ CalmInv /\ AllHeard /\ [Next]_vars
        => [Promise!Next]_<<qty, [o \in Attempts |-> EffectOf(o)]>>
  BY CalmStep DEF PromiseStep, EffectVector, UnwindInv
<1>5. Init => AllHeard
  BY DEF AllHeard, Init
<1>6. Spec => [](TypeOK /\ AnyInv /\ SettledInv)
  BY SettledInvariant
<1>7. Spec => []UnwindInv
  BY UnwindInvariant
<1> QED BY <1>1, <1>2, <1>3, <1>4, <1>5, <1>6, <1>7, CalmInit, PTL
        DEF Spec, KeepsPromise, Promise!Spec
=============================================================================
