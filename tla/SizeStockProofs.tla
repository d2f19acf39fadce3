--------------------------- MODULE SizeStockProofs ---------------------------
(* Proofs about SizeStock, for any sizes, orders, deliveries and counts.    *)
EXTENDS SizeStock, FiniteSetTheorems, FunctionTheorems, TLAPS

------------------------------------------------------------------------------
\* Types

LEMMA WantTyped ==
  ASSUME NEW o \in Orders
  PROVE  Want[o] \in Amounts /\ Units(Want[o]) \in Nat
  BY WantAssumption, UnitsAssumption

LEMMA DeliveryTyped ==
  ASSUME NEW d \in Deliveries
  PROVE  d \in Amounts /\ Units(d) \in Nat
  BY GoodsAssumption, UnitsAssumption

LEMMA LabelsHold == Sizes \subseteq Labels /\ NoSize \in Labels
  BY DEF Labels

\* The difference of two effects is nothing, the order, or the order given back.
LEMMA SyncTyped ==
  ASSUME TypeOK, NEW o \in Orders, NEW to \in {"reserved", "sold", "released"},
         SyncOrderStockState(o, to)
  PROVE  /\ qty' \in Int /\ bal' \in [Labels -> Int] /\ loose' \in Int
         /\ state' \in [Orders -> {"absent", "reserved", "sold", "released"}]
  BY WantTyped, LabelsHold DEF TypeOK, SyncOrderStockState, Amounts

LEMMA TypeInit == Init => TypeOK
  <1> SUFFICES ASSUME Init PROVE TypeOK
    OBVIOUS
  <1>1. bal \in [Labels -> Int]
    BY DEF Init
  <1>2. state \in [Orders -> {"absent", "reserved", "sold", "released"}]
    BY DEF Init
  <1>3. counts \subseteq [at : Nat, saw : Int, to : Nat]
    BY DEF Init
  <1> QED
    BY <1>1, <1>2, <1>3, MaxMovesAssumption DEF Init, TypeOK

LEMMA TypeStep == TypeOK /\ [Next]_vars => TypeOK'
  <1> SUFFICES ASSUME TypeOK, [Next]_vars PROVE TypeOK'
    OBVIOUS
  <1> USE MaxMovesAssumption
  <1>1. ASSUME NEW o \in Orders, Reserve(o) PROVE TypeOK'
    BY <1>1, SyncTyped DEF Reserve, TypeOK
  <1>2. ASSUME NEW o \in Orders, NEW to \in {"sold", "released"}, Settle(o, to)
        PROVE  TypeOK'
    BY <1>2, SyncTyped DEF Settle, TypeOK
  <1>3. ASSUME NEW d \in Deliveries, Receive(d) PROVE TypeOK'
    BY <1>3, DeliveryTyped DEF Receive, Busy, TypeOK, Amounts
  <1>4. ASSUME NEW to \in Figures, BeginCount(to) PROVE TypeOK'
    BY <1>4, GoodsAssumption DEF BeginCount, Busy, TypeOK
  <1>5. ASSUME NEW c \in counts, FinishCount(c) PROVE TypeOK'
    <2>1. c.saw \in Int /\ c.to \in Nat
      BY DEF TypeOK
    <2> QED
      BY <1>5, <2>1, LabelsHold DEF FinishCount, TypeOK
  <1>6. ASSUME NEW n \in Parcels, SendBack(n) PROVE TypeOK'
    <2>1. n \in Nat
      BY GoodsAssumption
    <2> QED
      BY <1>6, <2>1, LabelsHold DEF SendBack, Busy, TypeOK
  <1>7. CASE UNCHANGED vars
    BY <1>7 DEF vars, TypeOK
  <1> QED
    BY <1>1, <1>2, <1>3, <1>4, <1>5, <1>6, <1>7 DEF Next

\* Every variable keeps its type, for any sizes and orders.
THEOREM TypeCorrect == Spec => []TypeOK
  BY TypeInit, TypeStep, PTL DEF Spec

------------------------------------------------------------------------------
\* The total.  It is the part that whoever reserves looks at, and only what
\* nobody checks, a count or a parcel, takes it below zero.

LEMMA TotalStep == TypeOK /\ NothingOversold /\ [Next]_vars => NothingOversold'
  <1> SUFFICES ASSUME TypeOK, NothingOversold, [Next]_vars PROVE NothingOversold'
    OBVIOUS
  <1> USE DEF NothingOversold
  <1> qty \in Int /\ lost \in Nat
    BY DEF TypeOK
  <1>1. ASSUME NEW o \in Orders, Reserve(o) PROVE NothingOversold'
    BY <1>1, WantTyped DEF Reserve, Fits, SyncOrderStockState
  <1>2. ASSUME NEW o \in Orders, NEW to \in {"sold", "released"}, Settle(o, to)
        PROVE  NothingOversold'
    BY <1>2, WantTyped DEF Settle, SyncOrderStockState
  <1>3. ASSUME NEW d \in Deliveries, Receive(d) PROVE NothingOversold'
    BY <1>3, DeliveryTyped DEF Receive
  <1>4. ASSUME NEW to \in Figures, BeginCount(to) PROVE NothingOversold'
    BY <1>4 DEF BeginCount
  <1>5. ASSUME NEW c \in counts, FinishCount(c) PROVE NothingOversold'
    <2>1. c.saw \in Int /\ c.to \in Nat
      BY DEF TypeOK
    <2> QED
      BY <1>5, <2>1 DEF FinishCount
  <1>6. ASSUME NEW n \in Parcels, SendBack(n) PROVE NothingOversold'
    BY <1>6, GoodsAssumption DEF SendBack
  <1>7. CASE UNCHANGED vars
    BY <1>7 DEF vars
  <1> QED
    BY <1>1, <1>2, <1>3, <1>4, <1>5, <1>6, <1>7 DEF Next

\* All sizes together are not sold further than the shelf goes, whatever is
\* received, counted over sales and sent back meanwhile.
THEOREM TotalHolds == Spec => []NothingOversold
  <1>1. Init => NothingOversold
    BY DEF Init, NothingOversold
  <1> QED
    BY <1>1, TypeInit, TypeStep, TotalStep, PTL DEF Spec

------------------------------------------------------------------------------
\* The promise.  What was counted away or sent back is added to the shelf again;
\* then an order finds the units that it takes, and a count finds a number.

EffectVector == [o \in Orders |-> EffectOf(o)]
OneShelf == [p \in {NoSize} |-> qty + lost]

Asked == [o \in Orders |-> [p \in {NoSize} |-> Units(Want[o])]]

PromiseStep == [Promise!Next]_<<OneShelf, EffectVector>>

LEMMA AskedFacts ==
  /\ \A o \in Orders : Asked[o][NoSize] = Units(Want[o])
  /\ OneShelf[NoSize] = qty + lost
  /\ OneShelf' = [p \in {NoSize} |-> qty' + lost']
  BY DEF Asked, OneShelf

LEMMA EffectFacts ==
  ASSUME NEW o \in Orders
  PROVE  /\ state[o] = "reserved" => EffectOf(o) = "hold"
         /\ state[o] = "sold" => EffectOf(o) = "sale"
         /\ state[o] \in {"absent", "released"} => EffectOf(o) = "none"
  BY DEF EffectOf

\* An order's step changes its own effect.
LEMMA EffectMoves ==
  ASSUME TypeOK, NEW o \in Orders, NEW to \in {"reserved", "sold", "released"},
         SyncOrderStockState(o, to),
         NEW e, state'[o] = to => EffectOf(o)' = e
  PROVE  EffectVector' = [EffectVector EXCEPT ![o] = e]
  <1>1. state'[o] = to /\ \A x \in Orders \ {o} : state'[x] = state[x]
    BY DEF SyncOrderStockState, TypeOK
  <1>2. \A x \in Orders \ {o} : EffectOf(x)' = EffectOf(x)
    BY <1>1 DEF EffectOf
  <1> QED
    BY <1>1, <1>2 DEF EffectVector

\* The shelf after an order's step, by what it was and what it is.
LEMMA ShelfMoves ==
  ASSUME TypeOK, NEW o \in Orders, NEW to \in {"reserved", "sold", "released"},
         SyncOrderStockState(o, to), UNCHANGED lost
  PROVE  qty' + lost' =
           IF state[o] \in {"reserved", "sold"}
             THEN IF to = "released" THEN qty + lost + Units(Want[o]) ELSE qty + lost
             ELSE IF to = "released" THEN qty + lost ELSE qty + lost - Units(Want[o])
  BY WantTyped DEF TypeOK, SyncOrderStockState

\* A step that leaves the orders leaves a number on the shelf.
LEMMA CountKeeps ==
  ASSUME TypeOK, UNCHANGED state, qty' + lost' \in Nat
  PROVE  PromiseStep
  <1>1. EffectVector' = EffectVector
    BY DEF EffectVector, EffectOf
  <1>2. OneShelf'[NoSize] \in Nat /\ OneShelf' = [OneShelf EXCEPT ![NoSize] = OneShelf'[NoSize]]
    BY DEF OneShelf
  <1>3. Promise!Count(NoSize)
    BY <1>1, <1>2 DEF Promise!Count, OneShelf, EffectVector
  <1> QED
    BY <1>3 DEF PromiseStep, Promise!Next

LEMMA PromiseKept == TypeOK /\ NothingOversold /\ [Next]_vars => PromiseStep
  <1> SUFFICES ASSUME TypeOK, NothingOversold, [Next]_vars PROVE PromiseStep
    OBVIOUS
  <1>0. qty \in Int /\ lost \in Nat /\ qty + lost \in Nat
    BY DEF TypeOK, NothingOversold
  <1>1. ASSUME NEW o \in Orders, Reserve(o) PROVE PromiseStep
    <2>1. SyncOrderStockState(o, "reserved") /\ state[o] = "absent" /\ lost' = lost
      BY <1>1 DEF Reserve
    <2>2. Units(Want[o]) \in Nat /\ Units(Want[o]) <= qty + lost
      BY <1>0, <1>1, WantTyped DEF Reserve, Fits
    <2>3. qty' + lost' = qty + lost - Units(Want[o])
      BY <2>1, ShelfMoves
    <2>4. EffectVector[o] = "none" /\ EffectVector' = [EffectVector EXCEPT ![o] = "hold"]
      BY <2>1, EffectFacts, EffectMoves DEF EffectVector, EffectOf
    <2>5. \A p \in {NoSize} : Asked[o][p] <= OneShelf[p]
      BY <2>2, AskedFacts
    <2>6. OneShelf' = [p \in {NoSize} |-> OneShelf[p] - Asked[o][p]]
      <3>1. OneShelf[NoSize] - Asked[o][NoSize] = qty' + lost'
        <4>1. OneShelf[NoSize] = qty + lost /\ Asked[o][NoSize] = Units(Want[o])
          BY AskedFacts
        <4> QED
          BY <1>0, <2>2, <2>3, <4>1
      <3> QED
        BY <3>1, AskedFacts
    <2>7. Promise!Hold(o)
      BY <2>4, <2>5, <2>6 DEF Promise!Hold, EffectVector, OneShelf, Asked
    <2> QED
      BY <2>7 DEF PromiseStep, Promise!Next
  <1>2. ASSUME NEW o \in Orders, NEW to \in {"sold", "released"}, Settle(o, to)
        PROVE  PromiseStep
    <2>1. SyncOrderStockState(o, to) /\ state[o] \in {"reserved", "sold"} /\ lost' = lost
      BY <1>2 DEF Settle
    <2>2. EffectVector[o] = IF state[o] = "reserved" THEN "hold" ELSE "sale"
      BY <2>1, EffectFacts DEF EffectVector
    <2>3. CASE to = "released"
      <3>1. qty' + lost' = qty + lost + Units(Want[o])
        BY <2>1, <2>3, ShelfMoves
      <3>2. EffectVector' = [EffectVector EXCEPT ![o] = "none"]
        BY <2>1, <2>3, EffectMoves DEF EffectOf
      <3>3. Promise!Free(o)
        BY <2>2, <3>1, <3>2 DEF Promise!Free, EffectVector
      <3> QED
        BY <3>3 DEF PromiseStep, Promise!Next
    <2>4. CASE to = "sold"
      <3>1. qty' + lost' = qty + lost
        BY <2>1, <2>4, ShelfMoves
      <3>2. EffectVector' = [EffectVector EXCEPT ![o] = "sale"]
        BY <2>1, <2>4, EffectMoves DEF EffectOf
      <3>3. CASE state[o] = "reserved"
        <4>1. Promise!Sell(o)
          BY <2>2, <3>1, <3>2, <3>3 DEF Promise!Sell, EffectVector
        <4> QED
          BY <4>1 DEF PromiseStep, Promise!Next
      <3>4. CASE state[o] = "sold"
        <4>1. EffectVector' = EffectVector
          BY <2>2, <3>2, <3>4 DEF EffectVector
        <4> QED
          BY <3>1, <4>1 DEF PromiseStep, OneShelf
      <3> QED
        BY <2>1, <3>3, <3>4
    <2> QED
      BY <2>3, <2>4
  <1>3. ASSUME NEW d \in Deliveries, Receive(d) PROVE PromiseStep
    BY <1>0, <1>3, DeliveryTyped, CountKeeps DEF Receive
  <1>4. ASSUME NEW to \in Figures, BeginCount(to) PROVE PromiseStep
    BY <1>0, <1>4, CountKeeps DEF BeginCount
  <1>5. ASSUME NEW c \in counts, FinishCount(c) PROVE PromiseStep
    <2>1. c.saw \in Int /\ c.to \in Nat
      BY DEF TypeOK
    <2>2. qty' + lost' \in Nat
      BY <1>0, <1>5, <2>1 DEF FinishCount
    <2> QED
      BY <1>5, <2>2, CountKeeps DEF FinishCount
  <1>6. ASSUME NEW n \in Parcels, SendBack(n) PROVE PromiseStep
    BY <1>0, <1>6, GoodsAssumption, CountKeeps DEF SendBack
  <1>7. CASE UNCHANGED vars
    BY <1>0, <1>7, CountKeeps DEF vars
  <1> QED
    BY <1>1, <1>2, <1>3, <1>4, <1>5, <1>6, <1>7 DEF Next

\* KeepsShelf: in whatever sizes goods are asked for, received, counted and
\* sent back, the orders and the ledger of one product implement the shelf.
THEOREM SizesKeepShelf == Spec => KeepsShelf
  <1>1. Init => Promise!Init
    BY EffectFacts DEF Init, Promise!Init, EffectOf
  <1>2. TypeOK /\ NothingOversold /\ [Next]_vars
          => [Promise!Next]_<<[p \in {NoSize} |-> qty + lost], [o \in Orders |-> EffectOf(o)]>>
    BY PromiseKept DEF PromiseStep, OneShelf, EffectVector
  <1> QED
    BY <1>1, <1>2, TypeCorrect, TotalHolds, PTL DEF Spec, KeepsShelf, Promise!Spec

------------------------------------------------------------------------------
\* One size.  A reservation leaves Available(s) at zero or more, so that what
\* left without a size must not be negative: it is what was lost, and a set of
\* units for every order that stands.

Held == {o \in Orders : state[o] \in {"reserved", "sold"}}

\* The units of an order that no line gave a size.
Block(o) == {o} \X (1..Want[o][NoSize])

Unnamed(held) == {u \in Orders \X Nat : u[1] \in held /\ u[2] \in 1..Want[u[1]][NoSize]}

Accounted == /\ IsFiniteSet(Unnamed(Held))
             /\ loose = lost + Cardinality(Unnamed(Held))

LEMMA BlockSize ==
  ASSUME NEW o \in Orders
  PROVE  IsFiniteSet(Block(o)) /\ Cardinality(Block(o)) = Want[o][NoSize]
  <1> DEFINE n == Want[o][NoSize]
             f == [k \in 1..n |-> <<o, k>>]
  <1>1. n \in Nat
    BY WantTyped, LabelsHold DEF Amounts
  <1>2. f \in Bijection(1..n, Block(o))
    <2>1. f \in [1..n -> Block(o)]
      BY DEF Block
    <2>2. \A j, k \in 1..n : f[j] = f[k] => j = k
      OBVIOUS
    <2>3. \A u \in Block(o) : \E k \in 1..n : f[k] = u
      BY DEF Block
    <2> QED
      BY <2>1, <2>2, <2>3, Fun_IsBij
  <1>3. ExistsBijection(1..n, Block(o))
    BY <1>2 DEF ExistsBijection
  <1>4. IsFiniteSet(1..n) /\ Cardinality(1..n) = n
    <2>1. 1 \in Int /\ n \in Int
      BY <1>1
    <2>2. /\ IsFiniteSet(1..n)
          /\ Cardinality(1..n) = IF 1 > n THEN 0 ELSE n - 1 + 1
      BY ONLY <2>1, FS_Interval
    <2> QED
      BY <1>1, <2>2
  <1> QED
    BY <1>3, <1>4, FS_Bijection

\* An order that joins brings its units.
LEMMA UnnamedJoin ==
  ASSUME NEW held \in SUBSET Orders, NEW o \in Orders, o \notin held,
         IsFiniteSet(Unnamed(held))
  PROVE  /\ IsFiniteSet(Unnamed(held \cup {o}))
         /\ Cardinality(Unnamed(held \cup {o}))
              = Cardinality(Unnamed(held)) + Want[o][NoSize]
  <1>1. Want[o][NoSize] \in Nat
    BY WantTyped, LabelsHold DEF Amounts
  <1>2. Unnamed(held \cup {o}) = Unnamed(held) \cup Block(o)
    BY <1>1 DEF Unnamed, Block
  <1>3. Unnamed(held) \cap Block(o) = {}
    BY DEF Unnamed, Block
  <1>4. Cardinality(Unnamed(held)) \in Nat
    BY FS_CardinalityType
  <1>5. IsFiniteSet(Block(o)) /\ Cardinality(Block(o)) = Want[o][NoSize]
    BY BlockSize
  <1>6. /\ IsFiniteSet(Unnamed(held) \cup Block(o))
        /\ Cardinality(Unnamed(held) \cup Block(o))
             = Cardinality(Unnamed(held)) + Cardinality(Block(o))
               - Cardinality(Unnamed(held) \cap Block(o))
    BY <1>5, FS_Union
  <1>7. Cardinality(Unnamed(held) \cap Block(o)) = 0
    BY <1>3, FS_EmptySet
  <1>8. /\ IsFiniteSet(Unnamed(held \cup {o}))
        /\ Cardinality(Unnamed(held \cup {o})) = Cardinality(Unnamed(held))
             + Cardinality(Block(o)) - Cardinality(Unnamed(held) \cap Block(o))
    BY <1>2, <1>6, Zenon
  <1> QED
    BY <1>1, <1>4, <1>5, <1>7, <1>8

\* An order that leaves takes them with it.
LEMMA UnnamedLeave ==
  ASSUME NEW held \in SUBSET Orders, NEW o \in held, IsFiniteSet(Unnamed(held))
  PROVE  /\ IsFiniteSet(Unnamed(held \ {o}))
         /\ Cardinality(Unnamed(held \ {o}))
              = Cardinality(Unnamed(held)) - Want[o][NoSize]
  <1>1. Unnamed(held \ {o}) \subseteq Unnamed(held)
    BY DEF Unnamed
  <1>2. IsFiniteSet(Unnamed(held \ {o}))
    BY <1>1, FS_Subset
  <1>3. (held \ {o}) \cup {o} = held
    OBVIOUS
  <1>4. Cardinality(Unnamed(held)) = Cardinality(Unnamed(held \ {o})) + Want[o][NoSize]
    BY <1>2, <1>3, UnnamedJoin
  <1>5. Cardinality(Unnamed(held \ {o})) \in Nat /\ Want[o][NoSize] \in Nat
    BY <1>2, FS_CardinalityType, WantTyped, LabelsHold DEF Amounts
  <1> QED
    BY <1>2, <1>4, <1>5

LEMMA HeldAfter ==
  ASSUME TypeOK, NEW o \in Orders, NEW to \in {"reserved", "sold", "released"},
         SyncOrderStockState(o, to)
  PROVE  Held' = IF to = "released" THEN Held \ {o} ELSE Held \cup {o}
  BY DEF TypeOK, SyncOrderStockState, Held

\* What an order that joins, stays or leaves does to the accounts.
LEMMA SyncAccounted ==
  ASSUME TypeOK, Accounted, lost' = lost,
         NEW o \in Orders, NEW to \in {"reserved", "sold", "released"},
         SyncOrderStockState(o, to)
  PROVE  Accounted'
  <1>1. Held \in SUBSET Orders /\ Cardinality(Unnamed(Held)) \in Nat
    BY FS_CardinalityType DEF Held, Accounted
  <1>2. Want[o][NoSize] \in Nat /\ loose \in Int /\ lost \in Nat
    BY WantTyped, LabelsHold DEF Amounts, TypeOK
  <1>3. CASE o \in Held /\ to # "released"
    <2>1. Held' = Held /\ loose' = loose
      BY <1>2, <1>3, HeldAfter DEF SyncOrderStockState, Held
    <2> QED
      BY <2>1 DEF Accounted, Unnamed
  <1>4. CASE o \in Held /\ to = "released"
    <2>a. Held' = Held \ {o}
      BY <1>4, HeldAfter
    <2>b. state[o] \in {"reserved", "sold"} /\ to = "released"
      BY <1>4 DEF Held
    <2>c. loose' = loose - Want[o][NoSize]
      BY <1>2, <2>b DEF SyncOrderStockState
    <2>1. Held' = Held \ {o} /\ loose' = loose - Want[o][NoSize]
      BY <2>a, <2>c
    <2>2. /\ IsFiniteSet(Unnamed(Held \ {o}))
          /\ Cardinality(Unnamed(Held \ {o}))
               = Cardinality(Unnamed(Held)) - Want[o][NoSize]
      BY <1>1, <1>4, UnnamedLeave DEF Accounted
    <2>3. Unnamed(Held)' = Unnamed(Held \ {o})
      BY <2>1 DEF Unnamed
    <2> QED
      BY <1>1, <1>2, <2>1, <2>2, <2>3 DEF Accounted
  <1>5. CASE o \notin Held /\ to # "released"
    <2>a. Held' = Held \cup {o}
      BY <1>5, HeldAfter
    <2>b. state[o] \notin {"reserved", "sold"} /\ to \in {"reserved", "sold"}
      BY <1>5 DEF Held
    <2>c. loose' = loose + Want[o][NoSize]
      BY <1>2, <2>b DEF SyncOrderStockState
    <2>1. Held' = Held \cup {o} /\ loose' = loose + Want[o][NoSize]
      BY <2>a, <2>c
    <2>2. /\ IsFiniteSet(Unnamed(Held \cup {o}))
          /\ Cardinality(Unnamed(Held \cup {o}))
               = Cardinality(Unnamed(Held)) + Want[o][NoSize]
      BY <1>1, <1>5, UnnamedJoin DEF Accounted
    <2>3. Unnamed(Held)' = Unnamed(Held \cup {o})
      BY <2>1 DEF Unnamed
    <2> QED
      BY <1>1, <1>2, <2>1, <2>2, <2>3 DEF Accounted
  <1>6. CASE o \notin Held /\ to = "released"
    <2>1. Held' = Held /\ loose' = loose
      BY <1>2, <1>6, HeldAfter DEF SyncOrderStockState, Held
    <2> QED
      BY <2>1 DEF Accounted, Unnamed
  <1> QED
    BY <1>3, <1>4, <1>5, <1>6

\* The part that every action but an order's leaves alone.
LEMMA AccountedKept ==
  ASSUME Accounted, UNCHANGED state, NEW n \in Nat, loose \in Int, lost \in Nat,
         loose' = loose + n, lost' = lost + n
  PROVE  Accounted'
  <1>1. Unnamed(Held)' = Unnamed(Held)
    BY DEF Unnamed, Held
  <1>2. Cardinality(Unnamed(Held)) \in Nat
    BY FS_CardinalityType DEF Accounted
  <1> QED
    BY <1>1, <1>2 DEF Accounted

LEMMA AccountedStep == TypeOK /\ Accounted /\ [Next]_vars => Accounted'
  <1> SUFFICES ASSUME TypeOK, Accounted, [Next]_vars PROVE Accounted'
    OBVIOUS
  <1> loose \in Int /\ lost \in Nat
    BY DEF TypeOK
  <1>0. ASSUME UNCHANGED <<state, loose, lost>> PROVE Accounted'
    BY <1>0 DEF Accounted, Unnamed, Held
  <1>1. ASSUME NEW o \in Orders, Reserve(o) PROVE Accounted'
    BY <1>1, SyncAccounted DEF Reserve
  <1>2. ASSUME NEW o \in Orders, NEW to \in {"sold", "released"}, Settle(o, to)
        PROVE  Accounted'
    BY <1>2, SyncAccounted DEF Settle
  <1>3. ASSUME NEW d \in Deliveries, Receive(d) PROVE Accounted'
    BY <1>3, <1>0 DEF Receive
  <1>4. ASSUME NEW to \in Figures, BeginCount(to) PROVE Accounted'
    BY <1>4, <1>0 DEF BeginCount
  <1>5. ASSUME NEW c \in counts, FinishCount(c) PROVE Accounted'
    <2>1. c.saw \in Int /\ c.to \in Nat
      BY DEF TypeOK
    <2>2. PICK n \in Nat : lost' = lost + n /\ loose' = loose + n
      BY <1>5, <2>1 DEF FinishCount
    <2> QED
      BY <1>5, <2>2, AccountedKept DEF FinishCount
  <1>6. ASSUME NEW n \in Parcels, SendBack(n) PROVE Accounted'
    BY <1>6, GoodsAssumption, AccountedKept DEF SendBack
  <1>7. CASE UNCHANGED vars
    BY <1>7, <1>0 DEF vars
  <1> QED
    BY <1>1, <1>2, <1>3, <1>4, <1>5, <1>6, <1>7 DEF Next

LEMMA AccountedInit == Init => Accounted
  <1> SUFFICES ASSUME Init PROVE Accounted
    OBVIOUS
  <1>1. Unnamed(Held) = {}
    BY DEF Init, Unnamed, Held
  <1> QED
    BY <1>1, FS_EmptySet DEF Init, Accounted

LEMMA NeverNegative == TypeOK /\ Accounted => loose >= 0
  <1> SUFFICES ASSUME TypeOK, Accounted PROVE loose >= 0
    OBVIOUS
  <1>1. Cardinality(Unnamed(Held)) \in Nat /\ lost \in Nat
    BY FS_CardinalityType DEF Accounted, TypeOK
  <1> QED
    BY <1>1 DEF Accounted

\* An order moves one size and the unsized units; the latter stand in loose.
LEMMA SyncSize ==
  ASSUME TypeOK, NEW o \in Orders, NEW s \in Sizes,
         NEW to \in {"reserved", "sold", "released"}, SyncOrderStockState(o, to)
  PROVE  Available(s)' + loose'
           = Available(s) + loose
             - (IF to = "released" THEN IF o \in Held THEN -Want[o][s] ELSE 0
                ELSE IF o \in Held THEN 0 ELSE Want[o][s])
  <1>1. s \in Labels /\ NoSize \in Labels /\ s # NoSize
    BY LabelsHold, NoSizeAssumption
  <1>2. Want[o][s] \in Nat /\ Want[o][NoSize] \in Nat
    BY <1>1, WantTyped DEF Amounts
  <1>3. bal[s] \in Int /\ bal[NoSize] \in Int /\ loose \in Int
    BY <1>1 DEF TypeOK
  <1>4. CASE o \in Held
    BY <1>1, <1>2, <1>3, <1>4 DEF SyncOrderStockState, Held, Available
  <1>5. CASE o \notin Held
    BY <1>1, <1>2, <1>3, <1>5 DEF SyncOrderStockState, Held, Available
  <1> QED
    BY <1>4, <1>5

LEMMA SizeStep ==
  TypeOK /\ Accounted /\ NoSizeOversold /\ [Next]_vars => NoSizeOversold'
  <1> SUFFICES ASSUME TypeOK, Accounted, NoSizeOversold, [Next]_vars, NEW s \in Sizes
               PROVE  Available(s)' >= -loose'
    BY DEF NoSizeOversold, Available
  <1> s \in Labels /\ NoSize \in Labels /\ s # NoSize
    BY LabelsHold, NoSizeAssumption
  <1> bal[s] \in Int /\ bal[NoSize] \in Int /\ loose \in Int
      /\ Available(s) \in Int /\ Available(s) >= -loose
    BY DEF TypeOK, NoSizeOversold, Available
  <1>0. ASSUME UNCHANGED <<bal, loose>> PROVE Available(s)' >= -loose'
    BY <1>0 DEF Available
  <1>1. ASSUME NEW o \in Orders, Reserve(o) PROVE Available(s)' >= -loose'
    <2>1. Want[o][s] \in Nat /\ loose >= 0
      BY WantTyped, NeverNegative DEF Amounts
    <2>2. Want[o][s] = 0 \/ Want[o][s] <= Available(s)
      BY <1>1, <2>1 DEF Reserve, Fits
    <2>3. o \notin Held
      BY <1>1 DEF Reserve, Held
    <2>4. Available(s)' + loose' = Available(s) + loose - Want[o][s]
      BY <1>1, <2>3, SyncSize DEF Reserve
    <2>5. Available(s)' \in Int /\ loose' \in Int
      BY <1>1, SyncTyped DEF Reserve, Available
    <2> QED
      BY <2>1, <2>2, <2>4, <2>5
  <1>2. ASSUME NEW o \in Orders, NEW to \in {"sold", "released"}, Settle(o, to)
        PROVE  Available(s)' >= -loose'
    <2>1. Want[o][s] \in Nat
      BY WantTyped DEF Amounts
    <2>2. o \in Held
      BY <1>2 DEF Settle, Held
    <2>3. Available(s)' + loose' >= Available(s) + loose
      BY <1>2, <2>1, <2>2, SyncSize DEF Settle
    <2>4. Available(s)' \in Int /\ loose' \in Int
      BY <1>2, SyncTyped DEF Settle, Available
    <2> QED
      BY <2>3, <2>4
  <1>3. ASSUME NEW d \in Deliveries, Receive(d) PROVE Available(s)' >= -loose'
    <2>1. d[s] \in Nat /\ d[NoSize] \in Nat
      BY DeliveryTyped DEF Amounts
    <2> QED
      BY <1>3, <2>1 DEF Receive, Available
  <1>4. ASSUME NEW to \in Figures, BeginCount(to) PROVE Available(s)' >= -loose'
    BY <1>4, <1>0 DEF BeginCount
  <1>5. ASSUME NEW c \in counts, FinishCount(c) PROVE Available(s)' >= -loose'
    <2>1. c.saw \in Int /\ c.to \in Nat
      BY DEF TypeOK
    <2>2. bal'[s] = bal[s] /\ bal'[NoSize] = bal[NoSize] + (c.to - c.saw)
      BY <1>5 DEF FinishCount, TypeOK
    <2>3. loose' = loose + (IF c.saw > c.to THEN c.saw - c.to ELSE 0)
      BY <1>5 DEF FinishCount
    <2> QED
      BY <2>1, <2>2, <2>3 DEF Available
  <1>6. ASSUME NEW n \in Parcels, SendBack(n) PROVE Available(s)' >= -loose'
    <2>1. n \in Nat
      BY GoodsAssumption
    <2>2. bal'[s] = bal[s] /\ bal'[NoSize] = bal[NoSize] - n
      BY <1>6 DEF SendBack, TypeOK
    <2> QED
      BY <1>6, <2>1, <2>2 DEF SendBack, Available
  <1>7. CASE UNCHANGED vars
    BY <1>7, <1>0 DEF vars
  <1> QED
    BY <1>1, <1>2, <1>3, <1>4, <1>5, <1>6, <1>7 DEF Next

\* No size is sold further than its own units and the unsized ones go, but for
\* what left without a size.
THEOREM SizeHolds == Spec => []NoSizeOversold
  <1>1. Init => NoSizeOversold
    BY LabelsHold DEF Init, NoSizeOversold, Available
  <1> QED
    BY <1>1, TypeInit, TypeStep, AccountedInit, AccountedStep, SizeStep, PTL DEF Spec
=============================================================================
