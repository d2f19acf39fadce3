--------------------------- MODULE ReceivingProofs ---------------------------
(* Theorems of Receiving, for any requests, positions and orders. *)
EXTENDS Receiving, TLAPS

USE FiledAssumption, NoLabelAssumption, CatalogueAssumption, OrdersAssumption,
    VariantsAssumption

AtLine == {"creating", "linking", "looking", "adding", "landing"}

\* A request that is at a line has one.
AtALine == \A r \in Runs : pc[r] \in AtLine => own[r].at \in Movement

Typed == TypeOK /\ AtALine

\* The part of Typed that a request's own variables are in.
Locals ==
  /\ pc \in [Runs -> PC]
  /\ own \in [Runs -> Own]
  /\ AtALine

Past == raced \in BOOLEAN /\ crossed \subseteq Pos /\ blanked \in BOOLEAN

LEMMA FreshType == Fresh \in Own
BY DEF Fresh, Own, Asked, Landed, Nowhere

\* A request's variables with some of them assigned.
LEMMA OwnUpdate ==
  ASSUME NEW o \in Own
  PROVE  /\ \A s \in Asked, b \in BOOLEAN : [o EXCEPT !.ask = s, !.stamp = b] \in Own
         /\ \A s \in Asked, a, b \in BOOLEAN, f \in SUBSET FormRow :
              [o EXCEPT !.ask = s, !.form = f, !.ahead = a, !.stamp = b] \in Own
         /\ \A t \in SUBSET Line : [o EXCEPT !.todo = t, !.seen = t] \in Own
         /\ \A a \in Movement : /\ [o EXCEPT !.at = a] \in Own
                                /\ [o EXCEPT !.at = a].at = a
         /\ \A h \in SUBSET (Names \X Nat) : /\ [o EXCEPT !.here = h] \in Own
                                             /\ [o EXCEPT !.here = h].at = o.at
         /\ \A t \in SUBSET Line : [o EXCEPT !.at = Nowhere, !.todo = t] \in Own
<1>1. \A s \in Asked, b \in BOOLEAN : [o EXCEPT !.ask = s, !.stamp = b] \in Own
  BY DEF Own
<1>3. \A s \in Asked, a, b \in BOOLEAN, f \in SUBSET FormRow :
        [o EXCEPT !.ask = s, !.form = f, !.ahead = a, !.stamp = b] \in Own
  BY DEF Own
<1>4. \A t \in SUBSET Line : [o EXCEPT !.todo = t, !.seen = t] \in Own
  BY DEF Own
<1>5. \A a \in Movement : [o EXCEPT !.at = a] \in Own /\ [o EXCEPT !.at = a].at = a
  BY DEF Own
<1>6. \A h \in SUBSET (Names \X Nat) :
        [o EXCEPT !.here = h] \in Own /\ [o EXCEPT !.here = h].at = o.at
  BY DEF Own
<1>7. \A t \in SUBSET Line : [o EXCEPT !.at = Nowhere, !.todo = t] \in Own
  BY DEF Own
<1> QED BY <1>1, <1>3, <1>4, <1>5, <1>6, <1>7

LEMMA OrderType ==
  ASSUME TypeOK, NEW id \in LineId
  PROVE  /\ What(id) \in Bought
         /\ What(id).name \in Names
         /\ What(id).label \in Labels \cup {NoLabel}
BY DEF TypeOK, What, LineId, Bought

\* Where a request goes next and what it then holds.
LEMMA GotoTypes ==
  ASSUME Typed, NEW r \in Runs, NEW l \in PC, Goto(r, l),
         NEW o \in Own, own' = [own EXCEPT ![r] = o],
         l \in AtLine => o.at \in Movement
  PROVE  Locals'
<1>1. pc' \in [Runs -> PC] /\ own' \in [Runs -> Own]
  BY DEF Typed, TypeOK, Goto
<1>2. ASSUME NEW q \in Runs, pc'[q] \in AtLine PROVE own'[q].at \in Movement
  <2>1. CASE q = r
    BY <1>2, <2>1 DEF Typed, TypeOK, Goto
  <2>2. CASE q # r
    BY <1>2, <2>2 DEF Typed, TypeOK, Goto, AtALine
  <2> QED BY <2>1, <2>2
<1> QED BY <1>1, <1>2 DEF Locals, AtALine

LEMMA EndTypes ==
  ASSUME Typed, NEW r \in Runs, End(r)
  PROVE  Locals'
BY FreshType, GotoTypes DEF End, PC, AtLine

LEMMA StayTypes ==
  ASSUME Typed, NEW r \in Runs, NEW l \in PC, Goto(r, l), UNCHANGED own,
         l \in AtLine => own[r].at \in Movement
  PROVE  Locals'
<1>1. own[r] \in Own /\ own' = [own EXCEPT ![r] = own[r]]
  BY DEF Typed, TypeOK
<1> QED BY <1>1, GotoTypes

LEMMA ThenReceiveTypes ==
  ASSUME Typed, NEW r \in Runs, ThenReceive(r)
  PROVE  Locals'
<1>1. PICK l \in {"loading", "ended"} : Goto(r, l)
  BY DEF ThenReceive
<1>2. l \in PC /\ l \notin AtLine
  BY DEF PC, AtLine
<1> QED BY <1>1, <1>2, FreshType, GotoTypes DEF ThenReceive

LEMMA KeptTypes ==
  ASSUME Typed, Locals', UNCHANGED <<book, shop>>, Past'
  PROVE  Typed'
BY DEF Typed, Locals, Past, TypeOK, book, shop

LEMMA InitTyped == Init => Typed
<1> SUFFICES ASSUME Init PROVE Typed
  OBVIOUS
<1>1. lines \subseteq Line
  BY DEF Init, Line, LineId, Bought
<1>2. variants \subseteq Variant
  BY DEF Init, Variant
<1>3. TypeOK
  BY <1>1, <1>2, FreshType DEF Init, TypeOK, Status, Asked, PC
<1> QED BY <1>3 DEF Typed, AtALine, Init, AtLine

LEMMA PastTypes ==
  ASSUME Typed, NEW r \in Runs, Step(r)
  PROVE  Past'
<1> USE DEF Typed, TypeOK, Past
<1>1. CASE Load(r)
  BY <1>1 DEF Load
<1>2. CASE Land(r)
  <2>1. own[r].at.line \in LineId
    BY <1>2 DEF Land, AtALine, AtLine, Movement
  <2> QED BY <1>2, <2>1 DEF Land, Crossing, LineId
<1>3. CASE InsertLines(r)
  <2>1. {l.id[2] : l \in lines} \subseteq Pos
    BY DEF Line, LineId
  <2> QED BY <1>3, <2>1 DEF InsertLines
<1>4. CASE SavePayment(r) \/ SaveHeader(r)
  BY <1>4 DEF SavePayment, SaveHeader, Rewrite
<1>5. CASE UNCHANGED past
  BY <1>5 DEF past
<1> QED BY <1>1, <1>2, <1>3, <1>4, <1>5
    DEF Step, BeginStatus, WriteStatus, BeginReceive, Delete, BeginSave, CheckReceipts,
        CompareLines, ClearLines, Take, Create, Link, LookForVariant, AddVariant, Finish, Crash

\* Every step keeps the types.
LEMMA TypeStep == Typed /\ [Next]_vars => Typed'
<1> SUFFICES ASSUME Typed, [Next]_vars PROVE Typed'
  OBVIOUS
<1> USE DEF Typed
<1>0. CASE UNCHANGED vars
  BY <1>0 DEF TypeOK, AtALine, vars, book, shop, past
<1>p. ASSUME NEW r \in Runs, Step(r) PROVE Past'
  BY <1>p, PastTypes
<1>1. ASSUME NEW r \in Runs, BeginStatus(r) PROVE Typed'
  <2>1. PICK s \in Asked : own' = [own EXCEPT ![r].ask = s,
                                        ![r].stamp = s \in Landed /\ ~dated]
    BY <1>1 DEF BeginStatus
  <2>2. own' = [own EXCEPT ![r] = [own[r] EXCEPT !.ask = s,
                                        !.stamp = s \in Landed /\ ~dated]]
    BY <2>1 DEF TypeOK
  <2>3. [own[r] EXCEPT !.ask = s, !.stamp = s \in Landed /\ ~dated] \in Own
    <3>1. own[r] \in Own /\ (s \in Landed /\ ~dated) \in BOOLEAN
      BY DEF TypeOK
    <3> QED BY <3>1, OwnUpdate
  <2>4. Locals'
    BY <1>1, <2>2, <2>3, GotoTypes DEF BeginStatus, PC, AtLine
  <2>9. UNCHANGED <<book, shop>>
    BY <1>1 DEF BeginStatus
  <2> QED BY <2>4, <2>9, KeptTypes, <1>1, <1>p DEF Step
<1>2. ASSUME NEW r \in Runs, WriteStatus(r) PROVE Typed'
  <2>p. Past'
    BY <1>2, <1>p DEF Step
  <2>1. status' \in Status /\ dated' \in BOOLEAN
    BY <1>2 DEF WriteStatus, TypeOK, Own, Status
  <2> QED BY <1>2, <2>1, ThenReceiveTypes, <2>p DEF Past, WriteStatus, Locals, TypeOK, shop
<1>3. ASSUME NEW r \in Runs, BeginReceive(r) PROVE Typed'
  <2>1. Locals'
    BY <1>3, StayTypes DEF BeginReceive, PC, AtLine
  <2> QED BY <1>3, <2>1, KeptTypes, <1>p DEF Step, BeginReceive
<1>4. ASSUME NEW r \in Runs, Delete(r) PROVE Typed'
  BY <1>4, <1>p, EndTypes DEF Past, Step, Delete, Locals, TypeOK, shop, Status
<1>5. ASSUME NEW r \in Runs, BeginSave(r) PROVE Typed'
  <2>1. PICK rows \in SUBSET Loaded, s \in Asked, typed, later \in BOOLEAN :
          own' = [own EXCEPT ![r].ask = s, ![r].form = rows, ![r].ahead = later,
                             ![r].stamp = typed \/ (s \in Landed /\ ~later)]
    BY <1>5 DEF BeginSave
  <2>2. Loaded \subseteq FormRow
    BY DEF Loaded, FormRows, FormRow, TypeOK, Line, LineId, Bought
  <2>3. own' = [own EXCEPT ![r] = [own[r] EXCEPT !.ask = s, !.form = rows, !.ahead = later,
                             !.stamp = typed \/ (s \in Landed /\ ~later)]]
    BY <2>1 DEF TypeOK
  <2>4. [own[r] EXCEPT !.ask = s, !.form = rows, !.ahead = later,
                       !.stamp = typed \/ (s \in Landed /\ ~later)] \in Own
    <3>1. /\ own[r] \in Own
          /\ (typed \/ (s \in Landed /\ ~later)) \in BOOLEAN
          /\ rows \in SUBSET FormRow
      BY <2>2 DEF TypeOK
    <3> QED BY <3>1, OwnUpdate
  <2>5. Locals'
    BY <1>5, <2>3, <2>4, GotoTypes DEF BeginSave, PC, AtLine
  <2>9. UNCHANGED <<book, shop>>
    BY <1>5 DEF BeginSave
  <2> QED BY <2>5, <2>9, KeptTypes, <1>5, <1>p DEF Step
<1>6. ASSUME NEW r \in Runs, CheckReceipts(r) PROVE Typed'
  <2>p. Past'
    BY <1>6, <1>p DEF Step
  <2>1. Locals'
    BY <1>6, StayTypes DEF CheckReceipts, PC, AtLine
  <2> QED BY <1>6, <2>1, <2>p DEF Past, CheckReceipts, Locals, TypeOK, book, shop
<1>7. ASSUME NEW r \in Runs, CompareLines(r) PROVE Typed'
  <2>p. Past'
    BY <1>7, <1>p DEF Step
  <2>1. Locals'
    BY <1>7, StayTypes, EndTypes DEF CompareLines, PC, AtLine
  <2> QED BY <1>7, <2>1, <2>p DEF Past, CompareLines, Locals, TypeOK, book, shop
<1>8. ASSUME NEW r \in Runs, SavePayment(r) \/ SaveHeader(r) PROVE Typed'
  <2>p. Past'
    BY <1>8, <1>p DEF Step
  <2>1. status' \in Status /\ dated' \in BOOLEAN /\ ahead' \in BOOLEAN
    BY <1>8 DEF SavePayment, SaveHeader, Rewrite, TypeOK, Own, Status
  <2>2. Locals'
    BY <1>8, StayTypes, EndTypes DEF SavePayment, SaveHeader, PC, AtLine
  <2> QED BY <1>8, <2>1, <2>2, <2>p DEF Past, SavePayment, SaveHeader, Locals, TypeOK, shop
<1>9. ASSUME NEW r \in Runs, ClearLines(r) PROVE Typed'
  <2>p. Past'
    BY <1>9, <1>p DEF Step
  <2>1. Locals'
    BY <1>9, StayTypes DEF ClearLines, PC, AtLine
  <2> QED BY <1>9, <2>1, <2>p DEF Past, ClearLines, Locals, TypeOK, shop
<1>10. ASSUME NEW r \in Runs, InsertLines(r) PROVE Typed'
  <2>p. Past'
    BY <1>10, <1>p DEF Step
  <2>1. Locals'
    BY <1>10, ThenReceiveTypes, EndTypes DEF InsertLines
  <2>2. own[r].form \subseteq FormRow
    BY DEF TypeOK, Own
  <2>3. lines' \subseteq Line
    BY <1>10, <2>2 DEF InsertLines, TypeOK, Line, LineId, FormRow
  <2> QED BY <1>10, <2>1, <2>3, <2>p DEF Past, InsertLines, Locals, TypeOK, shop
<1>11. ASSUME NEW r \in Runs, Load(r) PROVE Typed'
  <2>p. Past'
    BY <1>11, <1>p DEF Step
  <2>1. CASE status = "deleted"
    BY <1>11, <2>1, EndTypes, <2>p DEF Past, Load, Locals, TypeOK, book, shop
  <2>2. CASE status # "deleted"
    <3>1. own' = [own EXCEPT ![r] = [own[r] EXCEPT !.todo = lines, !.seen = lines]]
      BY <1>11, <2>2 DEF Load, TypeOK
    <3>2. [own[r] EXCEPT !.todo = lines, !.seen = lines] \in Own
      BY OwnUpdate DEF TypeOK
    <3>3. Locals'
      BY <1>11, <2>2, <3>1, <3>2, GotoTypes DEF Load, PC, AtLine
    <3>4. UNCHANGED <<book, shop>>
      BY <1>11 DEF Load
    <3> QED BY <3>3, <3>4, KeptTypes, <2>p
  <2> QED BY <2>1, <2>2
<1>12. ASSUME NEW r \in Runs, Take(r) PROVE Typed'
  <2>p. Past'
    BY <1>12, <1>p DEF Step
  <2>1. PICK l \in own[r].todo, d \in PC :
          \E p : /\ Processing(r, l, p)
                 /\ Goto(r, d)
                 /\ p = products + 1 \/ p \in Known(r, l)
    BY <1>12 DEF Take, PC, Shelving
  <2>0. PICK p : /\ Processing(r, l, p)
                 /\ Goto(r, d)
                 /\ p = products + 1 \/ p \in Known(r, l)
    BY <2>1
  <2>2. l \in Line
    BY DEF TypeOK, Own
  <2>3. own[r].here \in SUBSET (Names \X Nat)
    BY DEF TypeOK, Own
  <2>4. p \in Nat
    BY <2>0, <2>2, <2>3 DEF Known, Line, TypeOK
  <2> DEFINE at == [line |-> l.id, product |-> p, variant |-> NoVariant]
  <2>5. at \in Movement
    BY <2>2, <2>4 DEF Movement, Line, Variant, NoVariant, NoProduct
  <2>6. own' = [own EXCEPT ![r] = [own[r] EXCEPT !.at = at]]
    BY <2>0 DEF Processing, TypeOK
  <2>7. [own[r] EXCEPT !.at = at] \in Own /\ [own[r] EXCEPT !.at = at].at = at
    BY <2>5, OwnUpdate DEF TypeOK
  <2>9. Locals'
    BY <2>0, <2>5, <2>6, <2>7, GotoTypes
  <2>10. UNCHANGED <<book, shop>>
    BY <1>12 DEF Take
  <2> QED BY <2>9, <2>10, KeptTypes, <2>p
<1>13. ASSUME NEW r \in Runs, Create(r) PROVE Typed'
  <2>p. Past'
    BY <1>13, <1>p DEF Step
  <2>1. own[r].at \in Movement /\ own[r].at.product \in Nat /\ own[r].at.line \in LineId
    BY <1>13 DEF Create, AtALine, AtLine, Movement
  <2>2. CASE own[r].at.product <= products
    BY <1>13, <2>2, EndTypes, <2>p DEF Past, Create, Locals, TypeOK, book
  <2>3. CASE ~(own[r].at.product <= products)
    <3> DEFINE h == own[r].here \cup {<<What(own[r].at.line).name, own[r].at.product>>}
    <3>1. h \in SUBSET (Names \X Nat)
      BY <2>1, OrderType DEF TypeOK, Own
    <3>2. own' = [own EXCEPT ![r] = [own[r] EXCEPT !.here = h]]
      BY <1>13, <2>3 DEF Create, TypeOK
    <3>3. [own[r] EXCEPT !.here = h] \in Own /\ [own[r] EXCEPT !.here = h].at = own[r].at
      BY <3>1, OwnUpdate DEF TypeOK
    <3>4. Locals'
      BY <1>13, <2>1, <2>3, <3>2, <3>3, GotoTypes DEF Create, PC
    <3> QED BY <1>13, <2>1, <2>3, <3>4, <2>p DEF Past, Create, Locals, TypeOK, book
  <2> QED BY <2>2, <2>3
<1>14. ASSUME NEW r \in Runs, Link(r) PROVE Typed'
  <2>p. Past'
    BY <1>14, <1>p DEF Step
  <2>1. own[r].at \in Movement /\ own[r].at.product \in Nat
    BY <1>14 DEF Link, AtALine, AtLine, Movement
  <2>2. lines' \subseteq Line
    BY <1>14, <2>1 DEF Link, TypeOK, Line
  <2>3. Locals'
    BY <1>14, <2>1, StayTypes DEF Link, Shelving, PC
  <2> QED BY <1>14, <2>2, <2>3, <2>p DEF Past, Link, Locals, TypeOK, shop
<1>15. ASSUME NEW r \in Runs, LookForVariant(r) \/ AddVariant(r) PROVE Typed'
  <2>p. Past'
    BY <1>15, <1>p DEF Step
  <2>1. /\ own[r].at \in Movement
        /\ own[r].at.line \in LineId
        /\ own[r].at.product \in Nat
    BY <1>15 DEF LookForVariant, AddVariant, AtALine, AtLine, Movement
  <2>2. Sought(r) \in Variant
    BY <2>1, OrderType DEF Sought, Variant
  <2>5. ASSUME Varianted(r), Goto(r, "landing") PROVE Locals'
    <3>1. own' = [own EXCEPT ![r] = [own[r] EXCEPT !.at = [own[r].at EXCEPT !.variant = Sought(r)]]]
      BY <2>5 DEF Varianted, TypeOK
    <3>2. [own[r].at EXCEPT !.variant = Sought(r)] \in Movement
      BY <2>1, <2>2 DEF Movement
    <3>3. PICK a \in Movement : a = [own[r].at EXCEPT !.variant = Sought(r)]
      BY <3>2
    <3>4. PICK o \in Own : o = [own[r] EXCEPT !.at = a] /\ o.at = a
      <4>1. own[r] \in Own
        BY DEF TypeOK
      <4>2. [own[r] EXCEPT !.at = a] \in Own /\ [own[r] EXCEPT !.at = a].at = a
        BY <4>1, OwnUpdate
      <4> QED BY <4>2
    <3>5. own' = [own EXCEPT ![r] = o]
      BY <3>1, <3>3, <3>4
    <3>6. "landing" \in PC
      BY DEF PC
    <3> QED BY <2>5, <3>4, <3>5, <3>6, GotoTypes
  <2>6. ASSUME UNCHANGED own, NEW d \in {"adding", "landing"}, Goto(r, d)
        PROVE  Locals'
    <3>1. d \in PC
      BY DEF PC
    <3> QED BY <2>1, <2>6, <3>1, StayTypes
  <2>7. Locals'
    <3>1. CASE LookForVariant(r)
      BY <3>1, <2>5, <2>6 DEF LookForVariant
    <3>2. CASE AddVariant(r)
      BY <3>2, <2>5, <2>6 DEF AddVariant
    <3> QED BY <1>15, <3>1, <3>2
  <2>8. variants' \subseteq Variant
    BY <1>15, <2>2 DEF LookForVariant, AddVariant, TypeOK, shop
  <2> QED BY <1>15, <2>7, <2>8, <2>p
          DEF Past, LookForVariant, AddVariant, Locals, TypeOK, book, shop
<1>16. ASSUME NEW r \in Runs, Land(r) PROVE Typed'
  <2>p. Past'
    BY <1>16, <1>p DEF Step
  <2>1. own[r].at \in Movement
    BY <1>16 DEF Land, AtALine, AtLine
  <2>2. CASE own[r].at.line \notin LineIds
    BY <1>16, <2>2, EndTypes, <2>p DEF Past, Land, Locals, TypeOK, book
  <2>3. CASE own[r].at.line \in LineIds
    <3> DEFINE t == {l \in own[r].todo : l.id # own[r].at.line}
    <3>1. own' = [own EXCEPT ![r] = [own[r] EXCEPT !.at = Nowhere, !.todo = t]]
      BY <1>16, <2>3 DEF Land, TypeOK
    <3>2. [own[r] EXCEPT !.at = Nowhere, !.todo = t] \in Own
      <4>1. own[r] \in Own /\ t \in SUBSET Line
        BY DEF TypeOK, Own
      <4> QED BY <4>1, OwnUpdate
    <3>3. Locals'
      BY <1>16, <2>3, <3>1, <3>2, GotoTypes DEF Land, PC, AtLine
    <3> QED BY <1>16, <2>1, <2>3, <3>3, <2>p DEF Past, Land, Locals, TypeOK, book
  <2> QED BY <2>2, <2>3
<1>17. ASSUME NEW r \in Runs, Finish(r) \/ Crash(r) PROVE Typed'
  BY <1>17, <1>p, EndTypes DEF Past, Step, Finish, Crash, Locals, TypeOK, book, shop
<1> QED BY <1>0, <1>1, <1>2, <1>3, <1>4, <1>5, <1>6, <1>7, <1>8, <1>9, <1>10,
           <1>11, <1>12, <1>13, <1>14, <1>15, <1>16, <1>17 DEF Next, Step

\* The variables of Receiving stay within their types.
THEOREM TypeCorrect == Spec => []TypeOK
<1>1. Spec => []Typed
  BY InitTyped, TypeStep, PTL DEF Spec
<1>2. Typed => TypeOK
  BY DEF Typed
<1> QED BY <1>1, <1>2, PTL

------------------------------------------------------------------------------
\* A receipt leaves no line behind it

\* A step that drops no movement, and passes over no line, leaves none behind.
LEMMA PassesNoLine ==
  ASSUME ReceiptIsComplete, moves \subseteq moves',
         \A r \in Runs : own'[r].seen \ own'[r].todo \subseteq own[r].seen \ own[r].todo
  PROVE  ReceiptIsComplete'
BY DEF ReceiptIsComplete

LEMMA EndPassesNoLine ==
  ASSUME Typed, NEW r \in Runs, own' = [own EXCEPT ![r] = Fresh], NEW q \in Runs
  PROVE  own'[q].seen \ own'[q].todo \subseteq own[q].seen \ own[q].todo
<1>1. CASE q = r
  BY <1>1 DEF Fresh, Typed, TypeOK
<1>2. CASE q # r
  BY <1>2 DEF Typed, TypeOK
<1> QED BY <1>1, <1>2

LEMMA CompleteStep ==
  Typed /\ ReceiptIsComplete /\ [Next]_vars => ReceiptIsComplete'
<1> SUFFICES ASSUME Typed, ReceiptIsComplete, [Next]_vars PROVE ReceiptIsComplete'
  OBVIOUS
<1>0. CASE UNCHANGED vars
  BY <1>0 DEF ReceiptIsComplete, vars, shop
<1>1. ASSUME NEW r \in Runs, Land(r), own[r].at.line \in LineIds
      PROVE  ReceiptIsComplete'
  <2>1. own[r].at.line \in LineIds /\ moves \subseteq moves'
    BY <1>1 DEF Land
  <2>2. \E m \in moves' : m.line = own[r].at.line
    BY <1>1 DEF Land, SameCombination
  <2>3. own'[r].seen = own[r].seen
        /\ own'[r].todo = {l \in own[r].todo : l.id # own[r].at.line}
    BY <1>1 DEF Land, Typed, TypeOK, Own
  <2>4. \A q \in Runs : q # r => own'[q] = own[q]
    BY <1>1 DEF Land, Typed, TypeOK
  <2> QED BY <2>1, <2>2, <2>3, <2>4 DEF ReceiptIsComplete
<1>2. ASSUME NEW r \in Runs, Load(r), status # "deleted" PROVE ReceiptIsComplete'
  <2>1. own'[r].seen = own'[r].todo /\ moves' = moves
    BY <1>2 DEF Load, Typed, TypeOK, Own, shop
  <2>2. \A q \in Runs : q # r => own'[q] = own[q]
    BY <1>2 DEF Load, Typed, TypeOK
  <2> QED BY <2>1, <2>2 DEF ReceiptIsComplete
<1>3. ASSUME NEW r \in Runs, own' = [own EXCEPT ![r] = Fresh], moves \subseteq moves'
      PROVE  ReceiptIsComplete'
  BY <1>3, EndPassesNoLine, PassesNoLine
<1>4. ASSUME UNCHANGED own, moves \subseteq moves' PROVE ReceiptIsComplete'
  BY <1>4, PassesNoLine
<1>5. ASSUME NEW r \in Runs, moves' = moves,
             \A q \in Runs : own'[q].seen = own[q].seen /\ own'[q].todo = own[q].todo
      PROVE  ReceiptIsComplete'
  BY <1>5, PassesNoLine
<1>6. ASSUME NEW r \in Runs, BeginStatus(r) \/ BeginReceive(r) \/ BeginSave(r)
      PROVE  ReceiptIsComplete'
  <2>1. CASE BeginStatus(r)
    <3>1. PICK s \in Asked : own' = [own EXCEPT ![r].ask = s,
                                           ![r].stamp = s \in Landed /\ ~dated]
      BY <2>1 DEF BeginStatus
    <3>2. \A q \in Runs : own'[q].seen = own[q].seen /\ own'[q].todo = own[q].todo
      BY <3>1 DEF Typed, TypeOK, Own
    <3> QED BY <1>5, <2>1, <3>2 DEF BeginStatus, shop
  <2>2. CASE BeginReceive(r)
    BY <1>5, <2>2 DEF BeginReceive, shop
  <2>3. CASE BeginSave(r)
    <3>1. PICK rows \in SUBSET Loaded, s \in Asked, typed, later \in BOOLEAN :
            own' = [own EXCEPT ![r].ask = s, ![r].form = rows, ![r].ahead = later,
                               ![r].stamp = typed \/ (s \in Landed /\ ~later)]
      BY <2>3 DEF BeginSave
    <3>2. \A q \in Runs : own'[q].seen = own[q].seen /\ own'[q].todo = own[q].todo
      BY <3>1 DEF Typed, TypeOK, Own
    <3> QED BY <1>5, <2>3, <3>2 DEF BeginSave, shop
  <2> QED BY <1>6, <2>1, <2>2, <2>3
<1>7. ASSUME NEW r \in Runs, Take(r) \/ LookForVariant(r) \/ AddVariant(r)
      PROVE  ReceiptIsComplete'
  <2>1. \A q \in Runs : own'[q].seen = own[q].seen /\ own'[q].todo = own[q].todo
    BY <1>7 DEF Take, Processing, LookForVariant, AddVariant, Varianted, Typed, TypeOK, Own
  <2> QED BY <1>5, <1>7, <2>1 DEF Take, LookForVariant, AddVariant, shop
<1>8. ASSUME NEW r \in Runs, Create(r) PROVE ReceiptIsComplete'
  <2>1. CASE own[r].at.product <= products
    BY <1>3, <1>8, <2>1 DEF Create, End
  <2>2. CASE ~(own[r].at.product <= products)
    <3>1. \A q \in Runs : own'[q].seen = own[q].seen /\ own'[q].todo = own[q].todo
      BY <1>8, <2>2 DEF Create, Typed, TypeOK, Own
    <3> QED BY <1>5, <1>8, <3>1 DEF Create
  <2> QED BY <2>1, <2>2
<1>9. ASSUME NEW r \in Runs,
             \/ WriteStatus(r) \/ Delete(r) \/ CheckReceipts(r) \/ CompareLines(r)
             \/ SavePayment(r) \/ SaveHeader(r) \/ ClearLines(r) \/ InsertLines(r)
             \/ Link(r) \/ Finish(r) \/ Crash(r)
      PROVE  ReceiptIsComplete'
  <2>1. moves' = moves
    BY <1>9 DEF WriteStatus, Delete, CheckReceipts, CompareLines, SavePayment, SaveHeader,
                ClearLines, InsertLines, Link, Finish, Crash, shop
  <2>2. UNCHANGED own \/ own' = [own EXCEPT ![r] = Fresh]
    BY <1>9 DEF WriteStatus, ThenReceive, Delete, CheckReceipts, CompareLines, SavePayment,
                SaveHeader, ClearLines, InsertLines, Link, Finish, Crash, End
  <2> QED BY <1>3, <1>4, <2>1, <2>2
<1>10. ASSUME NEW r \in Runs, Land(r), own[r].at.line \notin LineIds
       PROVE  ReceiptIsComplete'
  BY <1>3, <1>10 DEF Land, End
<1>11. ASSUME NEW r \in Runs, Load(r), status = "deleted" PROVE ReceiptIsComplete'
  BY <1>3, <1>11 DEF Load, End, shop
<1> QED BY <1>0, <1>1, <1>2, <1>6, <1>7, <1>8, <1>9, <1>10, <1>11 DEF Next, Step

\* Whoever overlaps and whoever dies, a receipt never passes over a line that
\* is not on the shelf.
THEOREM CompleteReceipts == Spec => []ReceiptIsComplete
<1>1. Init => ReceiptIsComplete
  BY DEF Init, ReceiptIsComplete, Fresh
<1>2. Spec => [](Typed /\ ReceiptIsComplete)
  BY <1>1, InitTyped, TypeStep, CompleteStep, PTL DEF Spec
<1> QED BY <1>2, PTL

------------------------------------------------------------------------------
\* What each step does to the requests

Saving == {"checking", "comparing", "paying", "heading", "clearing", "inserting"}

LEMMA Others ==
  ASSUME Typed, NEW r \in Runs, Step(r), NEW q \in Runs, q # r
  PROVE  pc'[q] = pc[q] /\ own'[q] = own[q]
<1> USE DEF Typed, TypeOK, Goto, End
<1>1. CASE BeginStatus(r) \/ BeginReceive(r) \/ BeginSave(r) \/ Delete(r)
  BY <1>1 DEF BeginStatus, BeginReceive, BeginSave, Delete
<1>2. CASE WriteStatus(r) \/ InsertLines(r)
  BY <1>2 DEF WriteStatus, InsertLines, ThenReceive
<1>3. CASE CheckReceipts(r) \/ CompareLines(r) \/ SavePayment(r) \/ SaveHeader(r) \/ ClearLines(r)
  BY <1>3 DEF CheckReceipts, CompareLines, SavePayment, SaveHeader, ClearLines
<1>4. CASE Load(r) \/ Take(r) \/ Link(r)
  BY <1>4 DEF Load, Take, Processing, Link
<1>5. CASE Create(r) \/ Land(r)
  BY <1>5 DEF Create, Land
<1>6. CASE LookForVariant(r) \/ AddVariant(r) \/ Finish(r) \/ Crash(r)
  BY <1>6 DEF LookForVariant, AddVariant, Varianted, Finish, Crash
<1> QED BY <1>1, <1>2, <1>3, <1>4, <1>5, <1>6 DEF Step

\* A request starts afresh: it ends, or goes on to its receipt.
Resets(r) == own'[r] = Fresh /\ pc'[r] \in {"ended", "loading"}

LEMMA EndResets ==
  ASSUME Typed, NEW r \in Runs, End(r) \/ ThenReceive(r)
  PROVE  Resets(r)
BY DEF End, ThenReceive, Goto, Typed, TypeOK, Resets

LEMMA BeginsStatus ==
  ASSUME Typed, NEW r \in Runs, BeginStatus(r)
  PROVE  /\ pc[r] = "idle" /\ pc'[r] = "stamping"
         /\ own'[r].stamp = (own'[r].ask \in Landed /\ ~dated)
         /\ own'[r].form = own[r].form /\ own'[r].todo = own[r].todo
         /\ own'[r].here = own[r].here /\ own'[r].at = own[r].at
<1>1. PICK s \in Asked : own' = [own EXCEPT ![r].ask = s, ![r].stamp = s \in Landed /\ ~dated]
  BY DEF BeginStatus
<1>2. own[r] \in Own
  BY DEF Typed, TypeOK
<1>3. own'[r] = [own[r] EXCEPT !.ask = s, !.stamp = s \in Landed /\ ~dated]
  BY <1>1 DEF Typed, TypeOK
<1> QED BY <1>2, <1>3 DEF BeginStatus, Goto, Typed, TypeOK, Own

LEMMA BeginsReceive ==
  ASSUME Typed, NEW r \in Runs, BeginReceive(r)
  PROVE  pc[r] = "idle" /\ pc'[r] = "loading" /\ own'[r] = own[r]
BY DEF BeginReceive, Goto, Typed, TypeOK

LEMMA BeginsSave ==
  ASSUME Typed, NEW r \in Runs, BeginSave(r)
  PROVE  /\ pc[r] = "idle" /\ pc'[r] = "checking"
         /\ own'[r].ask \in Landed => own'[r].stamp \/ own'[r].ahead
         /\ own'[r].form \subseteq Loaded
         /\ own'[r].todo = own[r].todo
         /\ own'[r].here = own[r].here /\ own'[r].at = own[r].at
<1>1. PICK rows \in SUBSET Loaded \ {{}}, s \in Asked, typed, later \in BOOLEAN :
        own' = [own EXCEPT ![r].ask = s, ![r].form = rows, ![r].ahead = later,
                           ![r].stamp = typed \/ (s \in Landed /\ ~later)]
  BY DEF BeginSave
<1>2. own[r] \in Own
  BY DEF Typed, TypeOK
<1>3. own'[r] = [own[r] EXCEPT !.ask = s, !.form = rows, !.ahead = later,
                               !.stamp = typed \/ (s \in Landed /\ ~later)]
  BY <1>1 DEF Typed, TypeOK
<1> QED BY <1>2, <1>3 DEF BeginSave, Goto, Typed, TypeOK, Own

\* The steps of a request under way.
Onward(r) ==
  \/ WriteStatus(r) \/ CheckReceipts(r) \/ CompareLines(r) \/ SavePayment(r)
  \/ SaveHeader(r) \/ ClearLines(r) \/ InsertLines(r)
  \/ Load(r) \/ Take(r) \/ Create(r) \/ Link(r)
  \/ LookForVariant(r) \/ AddVariant(r) \/ Land(r) \/ Finish(r) \/ Crash(r)

LEMMA GoesOn ==
  ASSUME Typed, NEW r \in Runs, Onward(r)
  PROVE  /\ pc[r] # "idle"
         /\ \/ Resets(r)
            \/ /\ own'[r].ask = own[r].ask /\ own'[r].stamp = own[r].stamp
               /\ own'[r].ahead = own[r].ahead /\ own'[r].form = own[r].form
               /\ pc'[r] \in Saving => pc[r] \in Saving
               /\ pc'[r] # "stamping" /\ pc'[r] # "idle"
<1> USE DEF Typed, TypeOK, Own, Goto, Saving
<1>1. CASE WriteStatus(r) \/ InsertLines(r)
  BY <1>1, EndResets DEF WriteStatus, InsertLines
<1>2. CASE CheckReceipts(r) \/ CompareLines(r) \/ SavePayment(r) \/ SaveHeader(r) \/ ClearLines(r)
  BY <1>2, EndResets DEF CheckReceipts, CompareLines, SavePayment, SaveHeader, ClearLines
<1>3. CASE Load(r) \/ Link(r)
  BY <1>3, EndResets DEF Load, Link, Shelving
<1>4. CASE Take(r)
  BY <1>4 DEF Take, Processing, Shelving
<1>5. CASE Create(r)
  BY <1>5, EndResets DEF Create
<1>6. CASE Land(r)
  BY <1>6, EndResets DEF Land
<1>7. CASE LookForVariant(r) \/ AddVariant(r) \/ Finish(r) \/ Crash(r)
  BY <1>7, EndResets DEF LookForVariant, AddVariant, Varianted, Finish, Crash
<1> QED BY <1>1, <1>2, <1>3, <1>4, <1>5, <1>6, <1>7 DEF Onward

LEMMA StepKinds ==
  ASSUME NEW r \in Runs, Step(r)
  PROVE  BeginStatus(r) \/ BeginReceive(r) \/ BeginSave(r) \/ Delete(r) \/ Onward(r)
BY DEF Step, Onward

LEMMA OrderStays ==
  ASSUME NEW r \in Runs, Step(r)
  PROVE  order' = order
BY DEF Step, BeginStatus, WriteStatus, BeginReceive, Delete, BeginSave, CheckReceipts,
       CompareLines, SavePayment, SaveHeader, ClearLines, InsertLines, Load, Take,
       Create, Link, LookForVariant, AddVariant, Land, Finish, Crash, book

\* What has happened stays happened, and a deleted order stays deleted.
LEMMA PastGrows ==
  ASSUME Typed, NEW r \in Runs, Step(r)
  PROVE  /\ raced => raced'
         /\ crossed \subseteq crossed'
         /\ blanked => blanked'
         /\ status = "deleted" => status' = "deleted"
<1>1. CASE WriteStatus(r)
  <2>1. UNCHANGED past
    BY <1>1 DEF WriteStatus
  <2>2. status = "deleted" => status' = "deleted"
    BY <1>1 DEF WriteStatus
  <2> QED BY <2>1, <2>2 DEF past
<1>2. CASE SavePayment(r) \/ SaveHeader(r)
  <2>1. Rewrite(r) /\ UNCHANGED <<raced, crossed>>
    BY <1>2 DEF SavePayment, SaveHeader
  <2>2. blanked => blanked'
    BY <2>1 DEF Rewrite
  <2> QED BY <2>1, <2>2 DEF Rewrite
<1>3. CASE InsertLines(r) \/ Load(r) \/ Land(r)
  <2>1. CASE InsertLines(r)
    BY <2>1 DEF InsertLines
  <2>2. CASE Load(r)
    BY <2>2 DEF Load, book
  <2>3. CASE Land(r)
    BY <2>3 DEF Land, Crossing, book
  <2> QED BY <1>3, <2>1, <2>2, <2>3
<1>4. CASE Delete(r)
  BY <1>4 DEF Delete, past
<1>5. CASE UNCHANGED past /\ status' = status
  BY <1>5 DEF past
<1> QED BY <1>1, <1>2, <1>3, <1>4, <1>5
    DEF Step, BeginStatus, BeginReceive, BeginSave, CheckReceipts, CompareLines, ClearLines,
        Take, Create, Link, LookForVariant, AddVariant, Finish, Crash, book

------------------------------------------------------------------------------
\* The arrival date

\* A request that will write a landed status also writes the date, or has
\* found one, or dates the order ahead.
Dating ==
  /\ LandedHasDate
  /\ \A r \in Runs :
       own[r].ask \in Landed =>
         /\ pc[r] = "stamping" => own[r].stamp \/ dated \/ blanked
         /\ pc[r] \in Saving => own[r].stamp \/ own[r].ahead

LEMMA DatingStep ==
  ASSUME Typed, Dating, NEW r \in Runs, Step(r)
  PROVE  Dating'
<1>1. \A q \in Runs : q # r => pc'[q] = pc[q] /\ own'[q] = own[q]
  BY Others
<1>0. blanked => blanked'
  BY PastGrows
<1>2. ASSUME LandedHasDate',
             own'[r].ask \in Landed =>
               /\ pc'[r] = "stamping" => own'[r].stamp \/ dated' \/ blanked'
               /\ pc'[r] \in Saving => own'[r].stamp \/ own'[r].ahead,
             \A q \in Runs \ {r} : pc[q] = "stamping" => (dated => dated' \/ blanked')
      PROVE  Dating'
  BY <1>0, <1>1, <1>2 DEF Dating
<1>3. CASE BeginStatus(r)
  BY <1>2, <1>3, BeginsStatus DEF BeginStatus, book, past, Dating, LandedHasDate, Typed, TypeOK,
     Saving
<1>4. CASE BeginReceive(r)
  BY <1>2, <1>4, BeginsReceive DEF BeginReceive, book, past, Dating, LandedHasDate, Saving
<1>5. CASE BeginSave(r)
  BY <1>2, <1>5, BeginsSave DEF BeginSave, book, past, Dating, LandedHasDate
<1>f. Resets(r) => own'[r].ask \notin Landed
  BY DEF Resets, Fresh, Landed
<1>6. CASE Delete(r)
  BY <1>2, <1>6, <1>f, EndResets DEF Delete, LandedHasDate, Landed
<1>7. CASE WriteStatus(r)
  <2>1. LandedHasDate' /\ (dated => dated')
    BY <1>7 DEF WriteStatus, Dating, LandedHasDate, past
  <2> QED BY <1>2, <1>7, <1>f, <2>1, EndResets DEF WriteStatus
<1>8. CASE SavePayment(r) \/ SaveHeader(r)
  <2>1. pc[r] \in Saving /\ Rewrite(r)
    BY <1>8 DEF SavePayment, SaveHeader, Saving
  <2>2. own[r].ask \in Landed => own[r].stamp \/ own[r].ahead
    BY <2>1 DEF Dating
  <2>3. LandedHasDate'
    BY <2>1, <2>2 DEF Rewrite, Dating, LandedHasDate
  <2>4. \A q \in Runs \ {r} : pc[q] = "stamping" => (dated => dated' \/ blanked')
    BY <2>1 DEF Rewrite
  <2>5. Onward(r)
    BY <1>8 DEF Onward
  <2>6. \/ Resets(r)
        \/ /\ own'[r].ask = own[r].ask /\ own'[r].stamp = own[r].stamp
           /\ own'[r].ahead = own[r].ahead /\ pc'[r] # "stamping"
    BY <2>5, GoesOn
  <2> QED BY <1>2, <1>f, <2>2, <2>3, <2>4, <2>6
<1>9. CASE Onward(r) /\ ~(WriteStatus(r) \/ SavePayment(r) \/ SaveHeader(r))
  <2>1. UNCHANGED <<status, dated, ahead, blanked>>
    BY <1>9 DEF Onward, CheckReceipts, CompareLines, ClearLines, InsertLines, Load, Take,
       Create, Link, LookForVariant, AddVariant, Land, Finish, Crash, book, past
  <2>2. LandedHasDate'
    BY <2>1 DEF LandedHasDate, Dating
  <2>3. \/ Resets(r)
        \/ /\ own'[r].ask = own[r].ask /\ own'[r].stamp = own[r].stamp
           /\ own'[r].ahead = own[r].ahead
           /\ pc'[r] \in Saving => pc[r] \in Saving
           /\ pc'[r] # "stamping"
    BY <1>9, GoesOn
  <2>4. own'[r].ask \in Landed =>
          /\ pc'[r] # "stamping"
          /\ pc'[r] \in Saving => own'[r].stamp \/ own'[r].ahead
    BY <1>f, <2>3 DEF Dating
  <2> QED BY <1>2, <2>1, <2>2, <2>4
<1> QED BY <1>3, <1>4, <1>5, <1>6, <1>7, <1>8, <1>9, StepKinds

\* An order whose goods landed has an arrival date, whichever door it came
\* through and whoever overlaps and dies, unless it was dated ahead or a save
\* took away the date a button had found.
THEOREM DatedArrivals == Spec => []LandedHasDate
<1>1. Init => Dating
  BY DEF Init, Dating, LandedHasDate, Landed, Fresh
<1>2. Typed /\ Dating /\ [Next]_vars => Dating'
  <2>1. ASSUME Dating, UNCHANGED vars PROVE Dating'
    BY <2>1 DEF Dating, LandedHasDate, vars, book, past
  <2> QED BY <2>1, DatingStep DEF Next
<1>3. Spec => [](Typed /\ Dating)
  BY <1>1, <1>2, InitTyped, TypeStep, PTL DEF Spec
<1>4. Dating => LandedHasDate
  BY DEF Dating
<1> QED BY <1>3, <1>4, PTL

------------------------------------------------------------------------------
\* The lines

\* Whatever has landed when a save replaces the lines is marked, unless the
\* order is gone.
Closing ==
  \A r \in Runs : pc[r] \in Replacing =>
    status = "deleted" \/ \A m \in moves : m.line[2] \in crossed

LEMMA MovesKept ==
  ASSUME NEW r \in Runs, Step(r), ~Land(r)
  PROVE  moves' = moves
BY DEF Step, BeginStatus, WriteStatus, BeginReceive, Delete, BeginSave, CheckReceipts,
       CompareLines, SavePayment, SaveHeader, ClearLines, InsertLines, Load, Take, Create,
       Link, LookForVariant, AddVariant, Finish, Crash, shop

LEMMA ClosingStep ==
  ASSUME Typed, Closing, NEW r \in Runs, Step(r)
  PROVE  Closing'
<1>1. \A q \in Runs : q # r => pc'[q] = pc[q]
  BY Others
<1>2. crossed \subseteq crossed' /\ (status = "deleted" => status' = "deleted")
  BY PastGrows
<1>3. CASE Land(r)
  <2>1. \A q \in Runs : pc'[q] \in Replacing => pc[q] \in Replacing
    BY <1>1, <1>3, EndResets DEF Land, Resets, Goto, Typed, TypeOK, Replacing
  <2>2. ASSUME NEW q \in Runs, pc[q] \in Replacing, status # "deleted", NEW m \in moves'
        PROVE  m.line[2] \in crossed'
    <3>1. CASE m \in moves
      BY <1>2, <2>2, <3>1 DEF Closing
    <3>2. CASE m \notin moves
      <4>1. m = own[r].at /\ crossed' = Crossing(own[r].at.line)
        BY <1>3, <2>2, <3>2 DEF Land
      <4> QED BY <2>2, <4>1 DEF Crossing
    <3> QED BY <3>1, <3>2
  <2> QED BY <1>2, <2>1, <2>2 DEF Closing
<1>4. CASE ~Land(r)
  <2>1. moves' = moves
    BY <1>4, MovesKept
  <2>2. pc'[r] \in Replacing => \/ pc[r] \in Replacing
                                \/ moves = {} \/ status = "deleted"
    <3>1. CASE CheckReceipts(r)
      BY <3>1 DEF CheckReceipts, Goto, Typed, TypeOK, Replacing
    <3>2. CASE BeginStatus(r) \/ BeginReceive(r) \/ BeginSave(r) \/ Delete(r)
      BY <3>2, BeginsStatus, BeginsReceive, BeginsSave, EndResets
         DEF Delete, Resets, Replacing
    <3>3. CASE Onward(r) /\ ~CheckReceipts(r)
      <4>1. CASE Resets(r)
        BY <4>1 DEF Resets, Replacing
      <4>2. CASE CompareLines(r) \/ SavePayment(r)
        BY <4>2, EndResets DEF CompareLines, SavePayment, Resets, Goto, Typed, TypeOK, Replacing
      <4>3. CASE SaveHeader(r) \/ ClearLines(r)
        BY <4>3 DEF SaveHeader, ClearLines, Replacing
      <4>4. CASE ~(CompareLines(r) \/ SavePayment(r) \/ SaveHeader(r) \/ ClearLines(r))
        <5>1. CASE WriteStatus(r) \/ InsertLines(r) \/ Finish(r) \/ Crash(r)
          BY <4>1, <5>1, EndResets DEF WriteStatus, InsertLines, Finish, Crash
        <5>2. CASE Load(r) \/ Create(r) \/ Land(r)
          BY <4>1, <5>2, EndResets DEF Load, Create, Land, Goto, Typed, TypeOK, Replacing
        <5>3. CASE Take(r) \/ Link(r) \/ LookForVariant(r) \/ AddVariant(r)
          BY <5>3 DEF Take, Link, LookForVariant, AddVariant, Shelving, Goto, Typed, TypeOK,
                      Replacing
        <5> QED BY <3>3, <4>4, <5>1, <5>2, <5>3 DEF Onward
      <4> QED BY <4>1, <4>2, <4>3, <4>4
    <3> QED BY <3>1, <3>2, <3>3, StepKinds
  <2> QED BY <1>1, <1>2, <2>1, <2>2 DEF Closing
<1> QED BY <1>3, <1>4

\* What Link(r) leaves of a line.
Linked(r, l) ==
  [id |-> l.id, link |-> IF l.id = own[r].at.line THEN own[r].at.product ELSE l.link]

LEMMA LinkedLines ==
  ASSUME Typed, NEW r \in Runs, Link(r)
  PROVE  /\ lines' = {Linked(r, l) : l \in lines}
         /\ LineIds' = LineIds
<1>1. \A l \in lines :
        [l EXCEPT !.link = IF l.id = own[r].at.line THEN own[r].at.product ELSE @]
          = Linked(r, l)
  BY DEF Typed, TypeOK, Line, Linked
<1>2. lines' = {[l EXCEPT !.link = IF l.id = own[r].at.line THEN own[r].at.product ELSE @]
                   : l \in lines}
  BY DEF Link
<1>3. lines' = {Linked(r, l) : l \in lines}
  BY <1>1, <1>2
<1>4. \A l : Linked(r, l).id = l.id
  BY DEF Linked
<1>5. ASSUME NEW x PROVE x \in LineIds' <=> x \in LineIds
  BY <1>3, <1>4 DEF LineIds
<1> QED BY <1>3, <1>5 DEF LineIds

LEMMA LinesKept ==
  ASSUME NEW r \in Runs, Step(r),
         ~(Delete(r) \/ ClearLines(r) \/ InsertLines(r) \/ Link(r))
  PROVE  lines' = lines
BY DEF Step, BeginStatus, WriteStatus, BeginReceive, BeginSave, CheckReceipts, CompareLines,
       SavePayment, SaveHeader, Load, Take, Create, LookForVariant, AddVariant, Land, Finish,
       Crash, book

LEMMA LinesStep ==
  ASSUME Typed, Closing, NEW r \in Runs, Step(r),
         NEW m \in moves, m.line \in LineIds \ LineIds'
  PROVE  status' = "deleted" \/ m.line[2] \in crossed
<1>1. CASE Delete(r)
  BY <1>1 DEF Delete
<1>2. CASE ClearLines(r)
  <2>1. status = "deleted" \/ m.line[2] \in crossed
    BY <1>2 DEF ClearLines, Closing, Replacing
  <2> QED BY <2>1, PastGrows
<1>3. CASE InsertLines(r)
  BY <1>3 DEF InsertLines, LineIds
<1>4. CASE Link(r)
  BY <1>4, LinkedLines
<1> QED BY <1>1, <1>2, <1>3, <1>4, LinesKept DEF LineIds

LEMMA ClosingInductive ==
  Typed /\ Closing /\ [Next]_vars => Closing'
<1>1. ASSUME Closing, UNCHANGED vars PROVE Closing'
  BY <1>1 DEF Closing, vars, book, shop, past
<1> QED BY <1>1, ClosingStep DEF Next

\* The lines the ledger points at stay as long as the order does, but for
\* those that landed after a save had looked for receipts.
THEOREM LinesClosed == Spec => LinesStayClosed
<1>1. Init => Closing
  BY DEF Init, Closing, Replacing
<1>2. Spec => [](Typed /\ Closing)
  BY <1>1, ClosingInductive, InitTyped, TypeStep, PTL DEF Spec
<1>3. Typed /\ Closing /\ [Next]_vars
      => [\A m \in moves : m.line \in LineIds \ LineIds' =>
            status' = "deleted" \/ m.line[2] \in crossed]_vars
  <2> SUFFICES ASSUME Typed, Closing, NEW r \in Runs, Step(r), NEW m \in moves,
                      m.line \in LineIds \ LineIds'
               PROVE  status' = "deleted" \/ m.line[2] \in crossed
    BY DEF Next
  <2> QED BY LinesStep
<1> QED BY <1>2, <1>3, PTL DEF Spec, LinesStayClosed

------------------------------------------------------------------------------
\* Positions: one line each, and the one that landed

OnePerPosition ==
  /\ \A k, l \in lines : k.id[2] = l.id[2] => k = l \/ k.id[2] \in crossed
  /\ \A m \in moves, l \in lines :
       m.line[2] = l.id[2] => m.line = l.id \/ l.id[2] \in crossed
  /\ \A r \in Runs : \A x, y \in own[r].form : x.pos = y.pos => x = y \/ x.pos \in crossed

LEMMA PositionStep ==
  ASSUME Typed, Closing, OnePerPosition, NEW r \in Runs, Step(r)
  PROVE  OnePerPosition'
<1> DEFINE Lines == \A k, l \in lines : k.id[2] = l.id[2] => k = l \/ k.id[2] \in crossed
           Moved == \A m \in moves, l \in lines :
                      m.line[2] = l.id[2] => m.line = l.id \/ l.id[2] \in crossed
           Form(q) == \A x, y \in own[q].form : x.pos = y.pos => x = y \/ x.pos \in crossed
<1>0. crossed \subseteq crossed'
  BY PastGrows
<1>1. \A q \in Runs : q # r => own'[q] = own[q]
  BY Others
<1>2. Form(r)'
  <2>1. CASE BeginSave(r)
    <3>1. own'[r].form \subseteq Loaded
      BY <2>1, BeginsSave
    <3>2. \A x, y \in Loaded : x.pos = y.pos => x = y \/ x.pos \in crossed
      BY DEF Loaded, FormRows, OnePerPosition
    <3> QED BY <1>0, <3>1, <3>2
  <2>2. CASE BeginStatus(r)
    BY <1>0, <2>2, BeginsStatus DEF OnePerPosition
  <2>3. CASE BeginReceive(r)
    BY <1>0, <2>3, BeginsReceive DEF OnePerPosition
  <2>4. CASE Resets(r)
    BY <2>4 DEF Resets, Fresh
  <2>5. CASE Onward(r) /\ ~Resets(r)
    BY <1>0, <2>5, GoesOn DEF OnePerPosition
  <2> QED BY <2>1, <2>2, <2>3, <2>4, <2>5, StepKinds, EndResets DEF Delete
<1>3. Lines' /\ Moved'
  <2>1. CASE UNCHANGED <<lines, moves>>
    BY <1>0, <2>1 DEF OnePerPosition
  <2>2. CASE lines' = {}
    BY <2>2
  <2>3. CASE InsertLines(r) /\ status # "deleted"
    <3> DEFINE new == {[id |-> <<r, row.pos>>, link |-> row.link] : row \in own[r].form}
    <3>1. lines' = lines \cup new /\ moves' = moves
      BY <2>3 DEF InsertLines, shop
    <3>2. \A m \in moves : m.line[2] \in crossed'
      BY <1>0, <2>3 DEF InsertLines, Closing, Replacing
    <3>3. crossed' = crossed \cup ({l.id[2] : l \in lines} \cap {row.pos : row \in own[r].form})
      BY <2>3 DEF InsertLines
    <3>4. \A n \in new, l \in lines : n.id[2] = l.id[2] => n.id[2] \in crossed'
      BY <3>3
    <3>5. \A n, o \in new : n.id[2] = o.id[2] => n = o \/ n.id[2] \in crossed'
      BY <1>0 DEF OnePerPosition
    <3>6. \A k, l \in lines : k.id[2] = l.id[2] => k = l \/ k.id[2] \in crossed'
      BY <1>0 DEF OnePerPosition
    <3> HIDE DEF new
    <3>7. Lines'
      BY <3>1, <3>4, <3>5, <3>6
    <3> QED BY <3>1, <3>2, <3>7
  <2>4. CASE Link(r)
    <3>1. lines' = {Linked(r, l) : l \in lines} /\ moves' = moves
      BY <2>4, LinkedLines DEF Link, shop
    <3>2. \A l : Linked(r, l).id = l.id
      BY DEF Linked
    <3>3. ASSUME NEW k \in lines', NEW l \in lines', k.id[2] = l.id[2]
          PROVE  k = l \/ k.id[2] \in crossed'
      <4>1. PICK x \in lines, y \in lines : k = Linked(r, x) /\ l = Linked(r, y)
        BY <3>1, <3>3
      <4>2. x.id[2] = y.id[2] /\ k.id = x.id
        BY <3>2, <3>3, <4>1
      <4> QED BY <1>0, <4>1, <4>2 DEF OnePerPosition
    <3>4. ASSUME NEW m \in moves, NEW l \in lines', m.line[2] = l.id[2]
          PROVE  m.line = l.id \/ l.id[2] \in crossed'
      <4>1. PICK y \in lines : l = Linked(r, y)
        BY <3>1
      <4>2. l.id = y.id
        BY <3>2, <4>1
      <4> QED BY <1>0, <3>4, <4>2 DEF OnePerPosition
    <3> QED BY <3>1, <3>3, <3>4
  <2>5. CASE Land(r) /\ own[r].at.line \in LineIds
    <3>1. lines' = lines /\ moves' \subseteq moves \cup {own[r].at}
      BY <2>5 DEF Land, book
    <3>2. \A l \in lines :
            own[r].at.line[2] = l.id[2] => own[r].at.line = l.id \/ l.id[2] \in crossed
      BY <2>5 DEF LineIds, OnePerPosition
    <3> QED BY <1>0, <3>1, <3>2 DEF OnePerPosition
  <2>6. CASE Land(r) /\ own[r].at.line \notin LineIds
    BY <2>1, <2>6 DEF Land, book
  <2>7. CASE InsertLines(r) /\ status = "deleted"
    BY <2>1, <2>7 DEF InsertLines, shop
  <2>8. CASE Delete(r) \/ ClearLines(r)
    BY <2>2, <2>8 DEF Delete, ClearLines
  <2>9. CASE ~(Delete(r) \/ ClearLines(r) \/ InsertLines(r) \/ Link(r) \/ Land(r))
    BY <2>1, <2>9, LinesKept, MovesKept
  <2> QED BY <2>3, <2>4, <2>5, <2>6, <2>7, <2>8, <2>9
<1> QED BY <1>0, <1>1, <1>2, <1>3 DEF OnePerPosition

------------------------------------------------------------------------------
\* The steps of a receipt

LEMMA Loads ==
  ASSUME Typed, NEW r \in Runs, Load(r), ~Resets(r)
  PROVE  /\ pc[r] = "loading" /\ pc'[r] = "receiving"
         /\ own'[r].todo = lines /\ own'[r].here = own[r].here /\ own'[r].form = own[r].form
         /\ raced' = (raced \/ \E q \in Runs : pc[q] \in Receipt)
         /\ UNCHANGED <<lines, moves, variants, products>>
<1>1. ~End(r) /\ status # "deleted"
  BY EndResets DEF Load
<1>2. own' = [own EXCEPT ![r].todo = lines, ![r].seen = lines]
  BY <1>1 DEF Load
<1>3. own'[r].todo = lines /\ own'[r].here = own[r].here /\ own'[r].form = own[r].form
  BY <1>2 DEF Typed, TypeOK, Own
<1> QED BY <1>1, <1>3 DEF Load, Goto, Typed, TypeOK, book, shop

LEMMA Takes ==
  ASSUME Typed, NEW r \in Runs, Take(r)
  PROVE  \E l \in own[r].todo, p \in Nat :
           /\ pc[r] = "receiving"
           /\ own'[r].at.line = l.id /\ own'[r].at.product = p
           /\ own'[r].at.variant = NoVariant
           /\ own'[r].todo = own[r].todo /\ own'[r].here = own[r].here
           /\ own'[r].form = own[r].form
           /\ \/ pc'[r] = "creating" /\ Known(r, l) = {} /\ p = products + 1
              \/ pc'[r] = Shelving(l.id) /\ p \in Known(r, l)
<1>1. PICK l \in own[r].todo :
        \/ /\ Known(r, l) = {}
           /\ Processing(r, l, products + 1)
           /\ Goto(r, "creating")
        \/ \E p \in Known(r, l) : Processing(r, l, p) /\ Goto(r, Shelving(l.id))
  BY DEF Take
<1>2. PICK p : /\ Processing(r, l, p)
               /\ \/ Goto(r, "creating") /\ Known(r, l) = {} /\ p = products + 1
                  \/ Goto(r, Shelving(l.id)) /\ p \in Known(r, l)
  BY <1>1
<1>3. l \in Line /\ own[r].here \in SUBSET (Names \X Nat)
  BY DEF Typed, TypeOK, Own
<1>4. p \in Nat
  BY <1>2, <1>3 DEF Known, Line, Typed, TypeOK
<1> DEFINE a == [line |-> l.id, product |-> p, variant |-> NoVariant]
<1>5. own' = [own EXCEPT ![r].at = a]
  BY <1>2 DEF Processing
<1>6. /\ own'[r].at = a /\ own'[r].todo = own[r].todo /\ own'[r].here = own[r].here
      /\ own'[r].form = own[r].form
  BY <1>5 DEF Typed, TypeOK, Own
<1>7. a.line = l.id /\ a.product = p /\ a.variant = NoVariant
  OBVIOUS
<1> HIDE DEF a
<1>8. pc[r] = "receiving"
  BY DEF Take
<1>9. \/ pc'[r] = "creating" /\ Known(r, l) = {} /\ p = products + 1
      \/ pc'[r] = Shelving(l.id) /\ p \in Known(r, l)
  BY <1>2 DEF Goto, Typed, TypeOK
<1> QED BY <1>4, <1>6, <1>7, <1>8, <1>9

LEMMA Creates ==
  ASSUME Typed, NEW r \in Runs, Create(r), ~Resets(r)
  PROVE  /\ pc[r] = "creating" /\ pc'[r] = "linking"
         /\ own'[r].at = own[r].at /\ own'[r].todo = own[r].todo
         /\ own'[r].form = own[r].form
         /\ own'[r].here = own[r].here \cup {<<What(own[r].at.line).name, own[r].at.product>>}
<1>1. ~End(r)
  BY EndResets
<1>2. own' = [own EXCEPT ![r].here = @ \cup {<<What(own[r].at.line).name, own[r].at.product>>}]
  BY <1>1 DEF Create
<1> QED BY <1>1, <1>2 DEF Create, Goto, Typed, TypeOK, Own

LEMMA Links ==
  ASSUME Typed, NEW r \in Runs, Link(r)
  PROVE  /\ pc[r] = "linking" /\ pc'[r] = Shelving(own[r].at.line) /\ own'[r] = own[r]
BY DEF Link, Goto, Typed, TypeOK

\* The variant is known: found, or added.
LEMMA Variants2 ==
  ASSUME Typed, NEW r \in Runs, LookForVariant(r) \/ AddVariant(r)
  PROVE  /\ own'[r].at.line = own[r].at.line /\ own'[r].at.product = own[r].at.product
         /\ own'[r].todo = own[r].todo /\ own'[r].here = own[r].here
         /\ own'[r].form = own[r].form
         /\ LookForVariant(r) /\ Sought(r) \in variants =>
              pc'[r] = "landing" /\ own'[r].at.variant = Sought(r) /\ variants' = variants
         /\ LookForVariant(r) /\ Sought(r) \notin variants =>
              pc'[r] = "adding" /\ variants' = variants
         /\ AddVariant(r) /\ Sought(r) \notin variants =>
              /\ pc'[r] = "landing" /\ own'[r].at.variant = Sought(r)
              /\ variants' = variants \cup {Sought(r)}
         /\ AddVariant(r) /\ Sought(r) \in variants =>
              pc'[r] = "landing" /\ variants' = variants
<1>1. own[r].at \in Movement
  BY DEF LookForVariant, AddVariant, Typed, AtALine, AtLine
<1>2. Varianted(r) => /\ own'[r].at.variant = Sought(r)
                      /\ own'[r].at.line = own[r].at.line
                      /\ own'[r].at.product = own[r].at.product
                      /\ own'[r].todo = own[r].todo /\ own'[r].here = own[r].here
                      /\ own'[r].form = own[r].form
  BY <1>1 DEF Varianted, Typed, TypeOK, Own, Movement
<1>3. CASE LookForVariant(r)
  <2>1. CASE Sought(r) \in variants
    BY <1>2, <1>3, <2>1 DEF LookForVariant, AddVariant, Goto, Typed, TypeOK, shop
  <2>2. CASE Sought(r) \notin variants
    BY <1>3, <2>2 DEF LookForVariant, AddVariant, Goto, Typed, TypeOK, shop
  <2> QED BY <2>1, <2>2
<1>4. CASE AddVariant(r)
  <2>1. CASE Sought(r) \in variants
    BY <1>4, <2>1 DEF LookForVariant, AddVariant, Goto, Typed, TypeOK
  <2>2. CASE Sought(r) \notin variants
    BY <1>2, <1>4, <2>2 DEF LookForVariant, AddVariant, Goto, Typed, TypeOK
  <2> QED BY <2>1, <2>2
<1> QED BY <1>3, <1>4

LEMMA Lands ==
  ASSUME Typed, NEW r \in Runs, Land(r), ~Resets(r)
  PROVE  /\ pc[r] = "landing" /\ pc'[r] = "receiving"
         /\ own[r].at.line \in LineIds
         /\ own'[r].todo = {l \in own[r].todo : l.id # own[r].at.line}
         /\ own'[r].here = own[r].here /\ own'[r].form = own[r].form
<1>1. ~End(r)
  BY EndResets
<1>2. own' = [own EXCEPT ![r].at = Nowhere, ![r].todo = {l \in @ : l.id # own[r].at.line}]
  BY <1>1 DEF Land
<1>3. /\ own'[r].todo = {l \in own[r].todo : l.id # own[r].at.line}
      /\ own'[r].here = own[r].here /\ own'[r].form = own[r].form
  BY <1>2 DEF Typed, TypeOK, Own
<1> QED BY <1>1, <1>3 DEF Land, Goto, Typed, TypeOK

------------------------------------------------------------------------------
\* The variant of a line that makes none

Stocked(i) == order[i].label # NoLabel /\ ~ToMake(i)

VariantOf(id) ==
  IF What(id).label = NoLabel THEN NoVariant ELSE <<What(id).link, What(id).label>>
Restocks(i, link) ==
  /\ Stocked(i) => link = order[i].link
  /\ link = NoProduct => order[i].link = NoProduct

\* The variant such a line lands in is known before it lands.
Bound(r) ==
  LET at == own[r].at
      i == at.line[2] IN
  /\ \A l \in own[r].todo : Restocks(l.id[2], l.link)
  /\ \A x \in own[r].form : Restocks(x.pos, x.link)
  /\ pc[r] = "adding" => ToMake(i)
  /\ pc[r] \in {"creating", "linking"} =>
       /\ ~Stocked(i) /\ order[i].link = NoProduct
       /\ at.variant = NoVariant /\ at.product # NoProduct
  /\ pc[r] = "looking" => /\ order[i].label # NoLabel
                          /\ Stocked(i) => at.product = order[i].link
  /\ pc[r] = "landing" => (~ToMake(i) => at.variant = VariantOf(at.line))

KnownVariants ==
  /\ Variants \subseteq variants
  /\ \A l \in lines : Restocks(l.id[2], l.link)
  /\ \A r \in Runs : Bound(r)
  /\ \A m \in moves : ~ToMake(m.line[2]) => m.variant = VariantOf(m.line)

LEMMA KnownVariantsStep ==
  ASSUME Typed, KnownVariants, NEW r \in Runs, Step(r)
  PROVE  KnownVariants'
<1>1. \A q \in Runs : q # r => pc'[q] = pc[q] /\ own'[q] = own[q]
  BY Others
<1>2. order' = order
  BY OrderStays
<1>3. /\ \A id : What(id)' = What(id) /\ VariantOf(id)' = VariantOf(id)
      /\ \A i : ToMake(i)' = ToMake(i) /\ Stocked(i)' = Stocked(i)
      /\ \A i, link : Restocks(i, link)' = Restocks(i, link)
  BY <1>2 DEF What, VariantOf, ToMake, Stocked, Restocks
<1>5. \A q \in Runs : q # r => Bound(q)'
  BY <1>1, <1>2, <1>3 DEF KnownVariants, Bound
<1>6. Variants \subseteq variants'
  <2>1. variants \subseteq variants'
    BY DEF Step, BeginStatus, WriteStatus, BeginReceive, Delete, BeginSave, CheckReceipts,
       CompareLines, SavePayment, SaveHeader, ClearLines, InsertLines, Load, Take,
       Create, Link, LookForVariant, AddVariant, Land, Finish, Crash, shop
  <2> QED BY <2>1 DEF KnownVariants
<1>7. \A l \in lines' : Restocks(l.id[2], l.link)
  <2>1. CASE lines' = lines \/ lines' = {}
    BY <2>1 DEF KnownVariants
  <2>2. CASE Link(r)
    <3>1. /\ ~Stocked(own[r].at.line[2]) /\ own[r].at.product # NoProduct
      BY <2>2 DEF Link, KnownVariants, Bound
    <3>2. ASSUME NEW k \in lines' PROVE Restocks(k.id[2], k.link)
      <4>1. PICK l \in lines : k = Linked(r, l)
        BY <2>2, LinkedLines
      <4>2. /\ k.id = l.id /\ (l.id # own[r].at.line => k.link = l.link)
            /\ l.id = own[r].at.line => k.link = own[r].at.product
        BY <4>1 DEF Linked
      <4>3. Restocks(l.id[2], l.link)
        BY DEF KnownVariants
      <4>4. CASE l.id = own[r].at.line
        BY <3>1, <4>2, <4>4 DEF Restocks
      <4> QED BY <4>2, <4>3, <4>4
    <3> QED BY <3>2
  <2>3. CASE InsertLines(r) /\ status # "deleted"
    <3>1. \A x \in own[r].form : Restocks(x.pos, x.link)
      BY DEF KnownVariants, Bound
    <3> QED BY <2>3, <3>1 DEF InsertLines, KnownVariants
  <2>4. CASE ~Link(r) /\ ~(InsertLines(r) /\ status # "deleted")
    BY <2>1, <2>4, LinesKept DEF Delete, ClearLines, InsertLines
  <2> QED BY <2>2, <2>3, <2>4
<1>8. \A m \in moves' : ~ToMake(m.line[2]) => m.variant = VariantOf(m.line)
  <2>1. CASE Land(r)
    <3>1. moves' \subseteq moves \cup {own[r].at}
      BY <2>1 DEF Land
    <3>2. ~ToMake(own[r].at.line[2]) => own[r].at.variant = VariantOf(own[r].at.line)
      BY <2>1 DEF Land, KnownVariants, Bound
    <3> QED BY <3>1, <3>2 DEF KnownVariants
  <2>2. CASE ~Land(r)
    BY <2>2, MovesKept DEF KnownVariants
  <2> QED BY <2>1, <2>2
<1>9. Bound(r)'
  <2>0. Bound(r)
    BY DEF KnownVariants
  <2>s. ASSUME pc'[r] \notin AtLine,
               \A l \in own'[r].todo : Restocks(l.id[2], l.link),
               \A x \in own'[r].form : Restocks(x.pos, x.link)
        PROVE  Bound(r)'
    BY <1>3, <2>s DEF Bound, AtLine
  <2>1. CASE Resets(r)
    BY <2>1, <2>s DEF Resets, Fresh, AtLine
  <2>2. CASE BeginStatus(r)
    BY <2>0, <2>2, <2>s, BeginsStatus DEF Bound, AtLine
  <2>3. CASE BeginReceive(r)
    BY <2>0, <2>3, <2>s, BeginsReceive DEF Bound, AtLine
  <2>4. CASE BeginSave(r)
    <3>1. \A x \in Loaded : Restocks(x.pos, x.link)
      BY DEF Loaded, FormRows, KnownVariants, Restocks
    <3> QED BY <2>0, <2>4, <2>s, <3>1, BeginsSave DEF Bound, AtLine
  <2>6. CASE CheckReceipts(r) \/ CompareLines(r) \/ SavePayment(r)
                \/ SaveHeader(r) \/ ClearLines(r)
    <3>1. CASE own'[r] = own[r]
      BY <2>0, <2>6, <2>s, <3>1, EndResets
         DEF Bound, AtLine, CheckReceipts, CompareLines, SavePayment, SaveHeader, ClearLines,
             Goto, End, Typed, TypeOK
    <3>2. CASE own'[r] # own[r]
      BY <2>1, <2>6, <3>2, EndResets DEF CheckReceipts, CompareLines, SavePayment, SaveHeader,
         ClearLines
    <3> QED BY <3>1, <3>2
  <2>7. CASE Load(r) /\ ~Resets(r)
    BY <2>0, <2>7, <2>s, Loads DEF Bound, KnownVariants, AtLine
  <2>8. CASE Take(r)
    <3>1. PICK l \in own[r].todo, p \in Nat :
           /\ pc[r] = "receiving"
           /\ own'[r].at.line = l.id /\ own'[r].at.product = p
           /\ own'[r].at.variant = NoVariant
           /\ own'[r].todo = own[r].todo /\ own'[r].form = own[r].form
           /\ \/ pc'[r] = "creating" /\ Known(r, l) = {} /\ p = products + 1
              \/ pc'[r] = Shelving(l.id) /\ p \in Known(r, l)
      BY <2>8, Takes
    <3> DEFINE i == l.id[2]
    <3>2. l \in Line /\ i \in Pos /\ order \in Orders
      BY DEF Typed, TypeOK, Own, Line, LineId
    <3>3. Restocks(i, l.link)
      BY <2>0 DEF Bound
    <3>4. Stocked(i) => l.link = order[i].link /\ l.link # NoProduct
      <4>1. Stocked(i) => <<order[i].link, order[i].label>> \in (1..Catalogue) \X Labels
        BY DEF Stocked, ToMake
      <4>2. Stocked(i) => order[i].link # NoProduct
        BY <4>1 DEF NoProduct
      <4> QED BY <3>3, <4>2 DEF Restocks
    <3>5. l.link # NoProduct => Known(r, l) = {l.link}
      BY DEF Known
    <3>6. ~ToMake(i) /\ ~Stocked(i) => order[i].label = NoLabel
      BY DEF Stocked
    <3> DEFINE Rest ==
          /\ \A k \in own[r].todo : Restocks(k.id[2], k.link)
          /\ \A x \in own[r].form : Restocks(x.pos, x.link)
    <3>7. Rest
      BY <2>0 DEF Bound
    <3>a. i = own'[r].at.line[2]
      BY <3>1
    <3>8. CASE pc'[r] = "creating" /\ Known(r, l) = {} /\ p = products + 1
      <4>1. l.link = NoProduct
        BY <3>5, <3>8
      <4>2. ~Stocked(i) /\ order[i].link = NoProduct /\ p # NoProduct
        BY <3>3, <3>4, <3>8, <4>1 DEF Restocks, NoProduct, Typed, TypeOK
      <4> QED BY <1>2, <1>3, <3>1, <3>7, <3>8, <4>2 DEF Bound
    <3>9. CASE pc'[r] = Shelving(l.id) /\ p \in Known(r, l)
      <4>1. Stocked(i) => p = order[i].link
        BY <3>4, <3>5, <3>9
      <4>2. CASE order[i].label = NoLabel
        <5>1. pc'[r] = "landing" /\ VariantOf(l.id) = NoVariant
          BY <3>9, <4>2 DEF Shelving, What, VariantOf
        <5> QED BY <1>2, <1>3, <3>1, <3>7, <5>1 DEF Bound
      <4>3. CASE order[i].label # NoLabel
        <5>1. pc'[r] = "looking"
          BY <3>9, <4>3 DEF Shelving, What
        <5> QED BY <1>2, <1>3, <3>1, <3>7, <4>1, <4>3, <5>1 DEF Bound
      <4> QED BY <4>2, <4>3
    <3> QED BY <3>1, <3>8, <3>9
  <2>9. CASE Create(r) /\ ~Resets(r)
    <3>1. /\ pc[r] = "creating" /\ pc'[r] = "linking"
          /\ own'[r].at = own[r].at /\ own'[r].todo = own[r].todo /\ own'[r].form = own[r].form
      BY <2>9, Creates
    <3> QED BY <1>2, <1>3, <2>0, <3>1 DEF Bound
  <2>10. CASE Link(r)
    <3>1. pc[r] = "linking" /\ own'[r] = own[r] /\ pc'[r] = Shelving(own[r].at.line)
      BY <2>10, Links
    <3> DEFINE i == own[r].at.line[2]
    <3>2. ~Stocked(i) /\ own[r].at.variant = NoVariant
      BY <2>0, <3>1 DEF Bound
    <3>3. CASE order[i].label = NoLabel
      <4>1. pc'[r] = "landing" /\ own[r].at.variant = VariantOf(own[r].at.line)
        BY <3>1, <3>2, <3>3 DEF Shelving, What, VariantOf
      <4> QED BY <1>2, <1>3, <2>0, <3>1, <4>1 DEF Bound
    <3>4. CASE order[i].label # NoLabel
      <4>1. pc'[r] = "looking"
        BY <3>1, <3>4 DEF Shelving, What
      <4> QED BY <1>2, <1>3, <2>0, <3>1, <3>2, <3>4, <4>1 DEF Bound
    <3> QED BY <3>3, <3>4
  <2>11. CASE LookForVariant(r) \/ AddVariant(r)
    <3> DEFINE i == own[r].at.line[2]
    <3>1. /\ own'[r].at.line = own[r].at.line /\ own'[r].at.product = own[r].at.product
          /\ own'[r].todo = own[r].todo /\ own'[r].form = own[r].form
      BY <2>11, Variants2
    <3>2. CASE LookForVariant(r)
      <4>1. order[i].label # NoLabel /\ (Stocked(i) => own[r].at.product = order[i].link)
        BY <2>0, <3>2 DEF LookForVariant, Bound
      <4>2. Stocked(i) => Sought(r) \in variants /\ Sought(r) = VariantOf(own[r].at.line)
        BY <4>1 DEF Stocked, ToMake, Sought, What, VariantOf, KnownVariants
      <4>3. CASE Sought(r) \in variants
        <5>1. pc'[r] = "landing" /\ own'[r].at.variant = Sought(r)
          BY <3>2, <4>3, Variants2
        <5> QED BY <1>2, <1>3, <2>0, <3>1, <4>1, <4>2, <5>1 DEF Bound, Stocked
      <4>4. CASE Sought(r) \notin variants
        <5>1. pc'[r] = "adding" /\ ToMake(i)
          BY <3>2, <4>1, <4>2, <4>4, Variants2 DEF Stocked
        <5> QED BY <1>2, <1>3, <2>0, <3>1, <5>1 DEF Bound
      <4> QED BY <4>3, <4>4
    <3>3. CASE AddVariant(r)
      <4>1. pc'[r] = "landing" /\ ToMake(i)
        BY <2>0, <3>3, Variants2 DEF AddVariant, Bound
      <4> QED BY <1>2, <1>3, <2>0, <3>1, <4>1 DEF Bound
    <3> QED BY <2>11, <3>2, <3>3
  <2>13. CASE Land(r) /\ ~Resets(r)
    BY <2>0, <2>13, <2>s, Lands DEF Bound, AtLine
  <2>14. CASE Delete(r) \/ Finish(r) \/ Crash(r) \/ WriteStatus(r) \/ InsertLines(r)
    BY <2>1, <2>14, EndResets DEF Delete, Finish, Crash, WriteStatus, InsertLines
  <2> QED BY <2>1, <2>2, <2>3, <2>4, <2>6, <2>7, <2>8, <2>9, <2>10, <2>11, <2>13, <2>14
          DEF Step
<1>10. \A l \in lines' : Restocks(l.id[2], l.link)'
  BY <1>3, <1>7
<1>11. \A m \in moves' : (~ToMake(m.line[2]) => m.variant = VariantOf(m.line))'
  BY <1>3, <1>8
<1> QED BY <1>5, <1>6, <1>9, <1>10, <1>11 DEF KnownVariants

------------------------------------------------------------------------------
\* The variant of a line that makes one

\* It makes it alone: no other line makes its product, no save crossed it and
\* no two receipts overlapped.
Sole(i) == ToMake(i) /\ ~Shares(i) /\ i \notin crossed /\ ~raced

Alone == raced \/ \A q, r \in Runs : pc[q] \in Receipt /\ pc[r] \in Receipt => q = r

Idle == \A r \in Runs : pc[r] \notin Receipt => own[r].todo = {} /\ own[r].here = {}

\* A request that has not inserted its lines yet has none.
Unused ==
  \A q \in Runs : pc[q] \in {"idle"} \cup Saving =>
    /\ \A l \in lines : l.id[1] # q
    /\ \A r \in Runs : /\ \A x \in own[r].todo : x.id[1] # q
                       /\ pc[r] \in AtLine => own[r].at.line[1] # q

\* What a receipt has still to do, and what it made on the way.
Agenda(r) ==
  /\ \A x, y \in own[r].todo : x.id[2] = y.id[2] => x = y \/ x.id[2] \in crossed
  /\ pc[r] \in AtLine => \E x \in own[r].todo : x.id = own[r].at.line
  /\ \A h \in own[r].here : \E j \in Pos :
       /\ order[j].name = h[1] /\ order[j].link = NoProduct
       /\ \/ j \in crossed
          \/ \A x \in own[r].todo :
               x.id[2] = j => pc[r] # "receiving" /\ x.id = own[r].at.line

Fitting == Alone /\ Idle /\ Unused /\ \A r \in Runs : Agenda(r)

\* What a step may do, in brief.
LEMMA StepOutline ==
  ASSUME Typed, Idle, NEW r \in Runs, Step(r)
  PROVE  \/ /\ pc'[r] \notin Receipt /\ own'[r].todo = {} /\ own'[r].here = {}
            /\ lines' \subseteq lines
            /\ pc'[r] \in {"idle"} \cup Saving => pc[r] \in {"idle"} \cup Saving
         \/ InsertLines(r) /\ status # "deleted"
         \/ Load(r) /\ ~Resets(r)
         \/ Take(r)
         \/ Create(r) /\ ~Resets(r)
         \/ Link(r)
         \/ LookForVariant(r)
         \/ AddVariant(r)
         \/ Land(r) /\ ~Resets(r)
<1>1. pc[r] \notin Receipt => own[r].todo = {} /\ own[r].here = {}
  BY DEF Idle
<1>2. CASE BeginStatus(r)
  BY <1>1, <1>2, BeginsStatus, LinesKept
     DEF Receipt, Saving, BeginStatus, book
<1>3. CASE BeginReceive(r)
  BY <1>1, <1>3, BeginsReceive DEF Receipt, Saving, BeginReceive, book
<1>4. CASE BeginSave(r)
  BY <1>1, <1>4, BeginsSave DEF Receipt, Saving, BeginSave, book
<1>5. CASE Resets(r) /\ lines' \subseteq lines
  BY <1>5 DEF Resets, Fresh, Receipt, Saving
<1>6. CASE Delete(r) \/ WriteStatus(r) \/ Finish(r) \/ Crash(r)
  BY <1>5, <1>6, EndResets DEF Delete, WriteStatus, Finish, Crash, book
<1>7. CASE CheckReceipts(r) \/ CompareLines(r) \/ SavePayment(r) \/ SaveHeader(r)
           \/ ClearLines(r)
  <2>1. lines' \subseteq lines
    BY <1>7 DEF CheckReceipts, CompareLines, SavePayment, SaveHeader, ClearLines, book
  <2>2. CASE Resets(r)
    BY <1>5, <2>1, <2>2
  <2>3. CASE ~Resets(r)
    <3>1. pc[r] \in Saving /\ pc'[r] \in Saving /\ own'[r] = own[r]
      BY <1>7, <2>3, EndResets
         DEF CheckReceipts, CompareLines, SavePayment, SaveHeader, ClearLines, Goto, Typed,
             TypeOK, Saving
    <3> QED BY <1>1, <2>1, <3>1 DEF Saving, Receipt
  <2> QED BY <2>2, <2>3
<1>8. CASE InsertLines(r) /\ status = "deleted"
  BY <1>5, <1>8, EndResets DEF InsertLines
<1>9. CASE (Load(r) \/ Create(r) \/ Land(r)) /\ Resets(r)
  BY <1>5, <1>9 DEF Load, Create, Land, book
<1> QED BY <1>2, <1>3, <1>4, <1>6, <1>7, <1>8, <1>9 DEF Step

LEMMA FittingStep ==
  ASSUME Typed, OnePerPosition, KnownVariants, Fitting, NEW r \in Runs, Step(r)
  PROVE  Fitting'
<1>1. \A q \in Runs : q # r => pc'[q] = pc[q] /\ own'[q] = own[q]
  BY Others
<1>2. order' = order
  BY OrderStays
<1>3. crossed \subseteq crossed' /\ (raced => raced')
  BY PastGrows
<1>4. Idle
  BY DEF Fitting
<1>5. Alone'
  <2>1. CASE Load(r) /\ ~Resets(r)
    <3>1. raced' = (raced \/ \E q \in Runs : pc[q] \in Receipt)
      BY <2>1, Loads
    <3> QED BY <1>1, <3>1 DEF Alone
  <2>2. ASSUME pc'[r] \in Receipt => pc[r] \in Receipt PROVE Alone'
    BY <1>1, <1>3, <2>2 DEF Fitting, Alone
  <2>3. CASE InsertLines(r)
    BY <2>2, <2>3, EndResets DEF InsertLines, Resets, Receipt
  <2>4. CASE Take(r) \/ Create(r) \/ Link(r) \/ LookForVariant(r) \/ AddVariant(r) \/ Land(r)
    BY <2>2, <2>4 DEF Take, Create, Link, LookForVariant, AddVariant, Land, Receipt
  <2> QED BY StepOutline, <1>4, <2>1, <2>2, <2>3, <2>4
\* The steps of a receipt stay in it.
<1>6. ASSUME \/ (Load(r) \/ Create(r) \/ Land(r)) /\ ~Resets(r)
             \/ Take(r) \/ Link(r) \/ LookForVariant(r) \/ AddVariant(r)
      PROVE  pc'[r] \in Receipt
  <2>1. CASE (Load(r) \/ Land(r)) /\ ~Resets(r)
    BY <2>1, Loads, Lands DEF Receipt
  <2>2. CASE Take(r)
    BY <2>2 DEF Take, Goto, Typed, TypeOK, Shelving, Receipt
  <2>3. CASE (Create(r) /\ ~Resets(r)) \/ Link(r)
    BY <2>3, Creates, Links DEF Shelving, Receipt
  <2>4. CASE LookForVariant(r) \/ AddVariant(r)
    BY <2>4 DEF LookForVariant, AddVariant, Goto, Typed, TypeOK, Receipt
  <2> QED BY <1>6, <2>1, <2>2, <2>3, <2>4
<1>7. Idle'
  <2>1. pc'[r] \notin Receipt => own'[r].todo = {} /\ own'[r].here = {}
    <3>1. CASE InsertLines(r) /\ status # "deleted"
      BY <3>1, EndResets DEF InsertLines, Resets, Fresh
    <3> QED BY StepOutline, <1>4, <1>6, <3>1
  <2> QED BY <1>1, <2>1 DEF Fitting, Idle
<1>8. Unused'
  <2>1. ASSUME NEW q \in Runs, pc'[q] \in {"idle"} \cup Saving
        PROVE  pc[q] \in {"idle"} \cup Saving /\ ~(InsertLines(r) /\ status # "deleted" /\ q = r)
    <3>1. CASE q # r
      BY <1>1, <2>1, <3>1
    <3>2. CASE q = r
      <4>1. CASE InsertLines(r) /\ status # "deleted"
        BY <2>1, <3>2, <4>1, EndResets DEF InsertLines, Resets, Saving
      <4> QED BY StepOutline, <1>4, <1>6, <2>1, <3>2, <4>1 DEF Receipt, Saving
    <3> QED BY <3>1, <3>2
  <2>2. ASSUME NEW q \in Runs, pc'[q] \in {"idle"} \cup Saving, NEW l \in lines'
        PROVE  l.id[1] # q
    <3>0. \A k \in lines : k.id[1] # q
      BY <2>1, <2>2 DEF Fitting, Unused
    <3>1. CASE InsertLines(r) /\ status # "deleted"
      <4>1. q # r
        BY <2>1, <2>2, <3>1
      <4> QED BY <3>0, <3>1, <4>1 DEF InsertLines
    <3>2. CASE Link(r)
      <4>1. PICK k \in lines : l = Linked(r, k)
        BY <3>2, LinkedLines
      <4> QED BY <3>0, <4>1 DEF Linked
    <3>3. CASE lines' \subseteq lines
      BY <3>0, <3>3
    <3> QED BY StepOutline, <1>4, <3>1, <3>2, <3>3, LinesKept
            DEF Load, Take, Create, LookForVariant, AddVariant, Land, book
  <2>3. ASSUME NEW q \in Runs, pc'[q] \in {"idle"} \cup Saving, NEW s \in Runs
        PROVE  /\ \A x \in own'[s].todo : x.id[1] # q
               /\ pc'[s] \in AtLine => own'[s].at.line[1] # q
    <3>0. /\ \A k \in lines : k.id[1] # q
          /\ \A x \in own[s].todo : x.id[1] # q
          /\ pc[s] \in AtLine => own[s].at.line[1] # q
      BY <2>1, <2>3 DEF Fitting, Unused
    <3>1. CASE s # r
      BY <1>1, <3>0, <3>1
    <3>2. CASE s = r
      <4>1. CASE pc'[r] \notin Receipt /\ own'[r].todo = {}
        BY <3>2, <4>1 DEF AtLine, Receipt
      <4>2. CASE InsertLines(r) /\ status # "deleted"
        BY <3>2, <4>2, EndResets DEF InsertLines, Resets, Fresh, AtLine
      <4>3. CASE Load(r) /\ ~Resets(r)
        BY <3>0, <3>2, <4>3, Loads DEF AtLine
      <4>4. CASE Take(r)
        <5>1. PICK l \in own[r].todo :
                own'[r].at.line = l.id /\ own'[r].todo = own[r].todo
          BY <4>4, Takes
        <5> QED BY <3>0, <3>2, <5>1
      <4>5. CASE Create(r) /\ ~Resets(r)
        BY <3>0, <3>2, <4>5, Creates DEF AtLine
      <4>6. CASE Link(r)
        BY <3>0, <3>2, <4>6, Links DEF AtLine
      <4>7. CASE LookForVariant(r) \/ AddVariant(r)
        <5>1. pc[r] \in AtLine
          BY <4>7 DEF LookForVariant, AddVariant, AtLine
        <5> QED BY <3>0, <3>2, <4>7, <5>1, Variants2
      <4>8. CASE Land(r) /\ ~Resets(r)
        BY <3>0, <3>2, <4>8, Lands DEF AtLine
      <4> QED BY StepOutline, <1>4, <4>1, <4>2, <4>3, <4>4, <4>5, <4>6, <4>7, <4>8
    <3> QED BY <3>1, <3>2
  <2> QED BY <2>2, <2>3 DEF Unused
<1>9. \A q \in Runs : q # r => Agenda(q)'
  BY <1>1, <1>2, <1>3 DEF Fitting, Agenda
<1>10. Agenda(r)'
  <2>0. Agenda(r)
    BY DEF Fitting
  <2>1. CASE pc'[r] \notin Receipt /\ own'[r].todo = {} /\ own'[r].here = {}
    BY <2>1 DEF Agenda, AtLine, Receipt
  <2>2. CASE InsertLines(r) /\ status # "deleted"
    BY <2>2, EndResets DEF InsertLines, Resets, Fresh, AtLine, Agenda
  <2>3. CASE Load(r) /\ ~Resets(r)
    <3>1. own[r].here = {}
      BY <2>3, Loads DEF Fitting, Idle, Receipt
    <3>2. own'[r].todo = lines /\ own'[r].here = {} /\ pc'[r] = "receiving"
      BY <2>3, <3>1, Loads
    <3>3. \A x, y \in lines : x.id[2] = y.id[2] => x = y \/ x.id[2] \in crossed'
      BY <1>3 DEF OnePerPosition
    <3> QED BY <3>2, <3>3 DEF Agenda, AtLine
  <2>4. CASE Take(r)
    <3>1. PICK l \in own[r].todo :
            /\ pc[r] = "receiving" /\ own'[r].at.line = l.id
            /\ own'[r].todo = own[r].todo /\ own'[r].here = own[r].here
      BY <2>4, Takes
    <3> QED BY <1>2, <1>3, <2>0, <3>1 DEF Agenda
  <2>5. CASE Create(r) /\ ~Resets(r)
    <3> DEFINE at == own[r].at
               i == at.line[2]
    <3>1. /\ pc[r] = "creating" /\ pc'[r] = "linking"
          /\ own'[r].at = at /\ own'[r].todo = own[r].todo
          /\ own'[r].here = own[r].here \cup {<<What(at.line).name, at.product>>}
      BY <2>5, Creates
    <3>2. PICK x \in own[r].todo : x.id = at.line
      BY <2>0, <3>1 DEF Agenda, AtLine
    <3>3. i \in Pos
      BY <3>2 DEF Typed, TypeOK, Own, Line, LineId
    <3>4. order[i].link = NoProduct
      BY <3>1 DEF KnownVariants, Bound
    <3>5. \A y \in own[r].todo : y.id[2] = i => y.id = at.line \/ i \in crossed
      BY <2>0, <3>2 DEF Agenda
    <3> HIDE DEF at
    <3>6. \A h \in own'[r].here : \E j \in Pos :
            /\ order[j].name = h[1] /\ order[j].link = NoProduct
            /\ \/ j \in crossed
               \/ \A y \in own[r].todo : y.id[2] = j => y.id = at.line
      <4> SUFFICES ASSUME NEW h \in own'[r].here
                   PROVE  \E j \in Pos :
                            /\ order[j].name = h[1] /\ order[j].link = NoProduct
                            /\ \/ j \in crossed
                               \/ \A y \in own[r].todo : y.id[2] = j => y.id = at.line
        OBVIOUS
      <4>1. CASE h \in own[r].here
        BY <2>0, <4>1 DEF Agenda, at
      <4>2. CASE h = <<What(at.line).name, at.product>>
        <5>1. order[i].name = h[1]
          BY <4>2 DEF What
        <5> QED BY <3>3, <3>4, <3>5, <5>1
      <4> QED BY <3>1, <4>1, <4>2
    <3> QED BY <1>2, <1>3, <2>0, <3>1, <3>2, <3>6 DEF Agenda, at
  <2>6. CASE Link(r)
    <3>1. pc[r] = "linking" /\ pc'[r] # "receiving" /\ own'[r] = own[r]
      BY <2>6, Links DEF Shelving
    <3> QED BY <1>2, <1>3, <2>0, <3>1 DEF Agenda, AtLine
  <2>7. CASE LookForVariant(r) \/ AddVariant(r)
    <3>1. /\ pc[r] \in AtLine /\ pc'[r] # "receiving"
          /\ own'[r].at.line = own[r].at.line
          /\ own'[r].todo = own[r].todo /\ own'[r].here = own[r].here
      BY <2>7, Variants2 DEF LookForVariant, AddVariant, AtLine
    <3> QED BY <1>2, <1>3, <2>0, <3>1 DEF Agenda
  <2>8. CASE Land(r) /\ ~Resets(r)
    <3>1. /\ pc'[r] = "receiving"
          /\ own'[r].todo = {l \in own[r].todo : l.id # own[r].at.line}
          /\ own'[r].here = own[r].here
      BY <2>8, Lands
    <3> QED BY <1>2, <1>3, <2>0, <3>1 DEF Agenda, AtLine
  <2> QED BY StepOutline, <1>4, <2>1, <2>2, <2>3, <2>4, <2>5, <2>6, <2>7, <2>8
<1> QED BY <1>5, <1>7, <1>8, <1>9, <1>10 DEF Fitting

\* What a receipt read of a line still holds of it.
Snap(r) ==
  \A x \in own[r].todo, l \in lines :
    /\ x.id = l.id /\ Sole(x.id[2])
    /\ pc[r] = "receiving" \/ x.id # own[r].at.line
    => x.link = l.link

\* The product the line at hand is made for, and its variant, are the line's.
MadeAt(r) ==
  LET at == own[r].at IN
  pc[r] \in AtLine /\ Sole(at.line[2]) =>
    /\ at.product # NoProduct
    /\ pc[r] \in {"creating", "linking"} =>
         \A l \in lines, m \in moves : l.id = at.line => m.line # at.line
    /\ pc[r] \in {"looking", "adding", "landing"} =>
         \A l \in lines : l.id = at.line => l.link = at.product
    /\ pc[r] = "adding" => Sought(r) \notin variants
    /\ pc[r] = "landing" => at.variant = Sought(r) /\ Sought(r) \in variants

\* What landed is where a second receipt of the line would look for it.
Home ==
  \A m \in moves : Sole(m.line[2]) =>
    /\ m.variant \in variants
    /\ \A l \in lines : l.id = m.line =>
         l.link # NoProduct /\ m.variant = <<l.link, What(m.line).label>>

Homed == Home /\ \A r \in Runs : Snap(r) /\ MadeAt(r)

LEMMA SoleBefore ==
  ASSUME Typed, NEW r \in Runs, Step(r)
  PROVE  /\ \A i : Sole(i)' => Sole(i)
         /\ \A id : What(id)' = What(id)
<1>1. order' = order
  BY OrderStays
<1>2. crossed \subseteq crossed' /\ (raced => raced')
  BY PastGrows
<1> QED BY <1>1, <1>2 DEF Sole, ToMake, Shares, What

\* What a step does to the lines, when they are not of a receipt of one's own.
LEMMA LinesAfter ==
  ASSUME Typed, NEW r \in Runs, Step(r), ~Link(r)
  PROVE  \A l \in lines' : l \in lines \/ (l.id[1] = r /\ pc[r] = "inserting" /\ InsertLines(r)
                                            /\ status # "deleted")
<1>1. CASE InsertLines(r)
  BY <1>1 DEF InsertLines
<1>2. CASE Delete(r) \/ ClearLines(r)
  BY <1>2 DEF Delete, ClearLines
<1> QED BY <1>1, <1>2, LinesKept

LEMMA VariantsKept ==
  ASSUME NEW r \in Runs, Step(r), ~AddVariant(r)
  PROVE  variants' = variants
BY DEF Step, BeginStatus, WriteStatus, BeginReceive, Delete, BeginSave, CheckReceipts,
       CompareLines, SavePayment, SaveHeader, ClearLines, InsertLines, Load, Take, Create,
       Link, LookForVariant, Land, Finish, Crash, shop

LEMMA QuietSteps ==
  ASSUME Typed, Idle, NEW r \in Runs, Step(r),
         ~(Load(r) /\ ~Resets(r)), ~Take(r), ~(Create(r) /\ ~Resets(r)), ~Link(r),
         ~LookForVariant(r), ~AddVariant(r), ~(Land(r) /\ ~Resets(r))
  PROVE  pc'[r] \notin Receipt /\ own'[r].todo = {} /\ moves' = moves
<1>1. CASE InsertLines(r) /\ status # "deleted"
  <2>1. Resets(r)
    BY <1>1, EndResets DEF InsertLines
  <2> QED BY <1>1, <2>1 DEF Resets, Fresh, Receipt, InsertLines, shop
<1>2. CASE Land(r)
  <2>1. Resets(r)
    BY <1>2
  <2>2. own[r].at.line \notin LineIds
    BY <1>2, <2>1 DEF Land, Resets, Goto, Typed, TypeOK
  <2> QED BY <1>2, <2>1, <2>2 DEF Land, Resets, Fresh, Receipt
<1> QED BY <1>1, <1>2, StepOutline, MovesKept

\* A request that is at work on no receipt leaves the others theirs; one that
\* is, is alone.
LEMMA OthersHomed ==
  ASSUME Typed, Fitting, Homed, NEW r \in Runs, Step(r), NEW q \in Runs, q # r
  PROVE  (Snap(q) /\ MadeAt(q))'
<1>1. pc'[q] = pc[q] /\ own'[q] = own[q]
  BY Others
<1>2. /\ \A i : Sole(i)' => Sole(i)
      /\ \A id : What(id)' = What(id)
  BY SoleBefore
<1>3. Snap(q) /\ MadeAt(q)
  BY DEF Homed
<1>4. CASE pc[q] \notin Receipt
  BY <1>1, <1>4 DEF Fitting, Idle, Snap, MadeAt, AtLine, Receipt
<1>5. CASE pc[q] \in Receipt /\ pc[r] \in Receipt
  <2>1. raced'
    BY <1>5, PastGrows DEF Fitting, Alone
  <2> QED BY <2>1 DEF Snap, MadeAt, Sole
<1>6. CASE pc[q] \in Receipt /\ pc[r] \notin Receipt
  <2>1. ~Link(r) /\ ~Land(r) /\ ~AddVariant(r)
    BY <1>6 DEF Link, Land, AddVariant, Receipt
  <2>2. moves' = moves /\ variants' = variants
    BY <2>1, MovesKept, VariantsKept
  <2>3. ASSUME NEW l \in lines', l \notin lines
        PROVE  /\ \A x \in own[q].todo : x.id # l.id
               /\ pc[q] \in AtLine => own[q].at.line # l.id
    <3>1. l.id[1] = r /\ pc[r] = "inserting"
      BY <2>1, <2>3, LinesAfter
    <3> QED BY <3>1 DEF Fitting, Unused, Saving
  <2>4. Snap(q)'
    BY <1>1, <1>2, <1>3, <2>3 DEF Snap
  <2>5. Sought(q)' = Sought(q)
    BY <1>1, <1>2 DEF Sought
  <2>6. MadeAt(q)'
    BY <1>1, <1>2, <1>3, <2>2, <2>3, <2>5 DEF MadeAt
  <2> QED BY <2>4, <2>6
<1> QED BY <1>4, <1>5, <1>6

\* Which product a line is to land on.
LEMMA TakesItsOwn ==
  ASSUME Typed, KnownVariants, Fitting, Homed, NEW r \in Runs, pc[r] = "receiving",
         NEW l \in own[r].todo, Sole(l.id[2]), NEW p \in Known(r, l)
  PROVE  l.link # NoProduct /\ p = l.link
<1> DEFINE i == l.id[2]
<1>1. i \in Pos
  BY DEF Typed, TypeOK, Own, Line, LineId
<1>2. CASE l.link # NoProduct
  BY <1>2 DEF Known
<1>3. CASE l.link = NoProduct
  <2>1. PICK h \in own[r].here : h[1] = order[i].name
    BY <1>3 DEF Known, What
  <2>2. PICK j \in Pos :
          /\ order[j].name = h[1] /\ order[j].link = NoProduct
          /\ j \in crossed \/ \A x \in own[r].todo : x.id[2] # j
    BY DEF Fitting, Agenda
  <2>3. order[i].link = NoProduct
    BY <1>3 DEF KnownVariants, Bound, Restocks
  <2>4. i # j
    BY <2>2 DEF Sole
  <2>5. Shares(i)
    BY <1>1, <2>1, <2>2, <2>3, <2>4 DEF Shares
  <2> QED BY <2>5 DEF Sole
<1> QED BY <1>2, <1>3

LEMMA HomedStep ==
  ASSUME Typed, Closing, OnePerPosition, KnownVariants, Fitting, Homed, NEW r \in Runs, Step(r)
  PROVE  Homed'
<1>2. /\ \A i : Sole(i)' => Sole(i)
      /\ \A id : What(id)' = What(id)
  BY SoleBefore
<1>3. Snap(r) /\ MadeAt(r) /\ Home
  BY DEF Homed
<1>4. \A q \in Runs : q # r => (Snap(q) /\ MadeAt(q))'
  BY OthersHomed
<1>5. CASE pc'[r] \notin Receipt /\ own'[r].todo = {} /\ moves' = moves /\ variants' = variants
  <2>1. (Snap(r) /\ MadeAt(r))'
    BY <1>5 DEF Snap, MadeAt, AtLine, Receipt
  <2>2. CASE InsertLines(r) /\ status # "deleted"
    <3>1. \A m \in moves : m.line[2] \in crossed'
      BY <2>2, PastGrows DEF InsertLines, Closing, Replacing
    <3>2. Home'
      BY <1>5, <3>1 DEF Home, Sole
    <3> QED BY <1>4, <2>1, <3>2 DEF Homed
  <2>3. CASE ~(InsertLines(r) /\ status # "deleted")
    <3>1. ~Link(r)
      BY <1>5, Links DEF Shelving, Receipt
    <3>2. lines' \subseteq lines
      BY <2>3, <3>1, LinesAfter
    <3>3. Home'
      BY <1>2, <1>3, <1>5, <3>2 DEF Home
    <3> QED BY <1>4, <2>1, <3>3 DEF Homed
  <2> QED BY <2>2, <2>3
<1>6. CASE Load(r) /\ ~Resets(r)
  <2>1. /\ pc'[r] = "receiving" /\ own'[r].todo = lines
        /\ UNCHANGED <<lines, moves, variants>>
    BY <1>6, Loads
  <2>2. Home' /\ MadeAt(r)'
    BY <1>2, <1>3, <2>1 DEF Home, MadeAt, AtLine
  <2>3. Snap(r)'
    BY <1>2, <2>1 DEF Snap, OnePerPosition, Sole
  <2> QED BY <1>4, <2>2, <2>3 DEF Homed
<1>7. CASE Take(r)
  <2>1. PICK l \in own[r].todo, p \in Nat :
           /\ pc[r] = "receiving"
           /\ own'[r].at.line = l.id /\ own'[r].at.product = p
           /\ own'[r].todo = own[r].todo
           /\ \/ pc'[r] = "creating" /\ Known(r, l) = {} /\ p = products + 1
              \/ pc'[r] = Shelving(l.id) /\ p \in Known(r, l)
    BY <1>7, Takes
  <2>2. UNCHANGED <<lines, moves, variants>>
    BY <1>7 DEF Take, book, shop
  <2>3. Home' /\ Snap(r)'
    BY <1>2, <1>3, <2>1, <2>2 DEF Home, Snap
  <2>4. ASSUME Sole(l.id[2])' PROVE MadeAt(r)'
    <3>1. Sole(l.id[2])
      BY <1>2, <2>4
    <3>2. \A k \in lines : k.id = l.id => k.link = l.link
      BY <1>3, <2>1, <3>1 DEF Snap
    <3>3. CASE pc'[r] = "creating" /\ Known(r, l) = {} /\ p = products + 1
      <4>1. l.link = NoProduct
        BY <3>3 DEF Known
      <4>2. \A k \in lines, m \in moves : k.id = l.id => m.line # l.id
        BY <1>3, <3>1, <3>2, <4>1 DEF Home
      <4>3. p # NoProduct
        BY <3>3 DEF NoProduct, Typed, TypeOK
      <4> QED BY <2>1, <2>2, <3>3, <4>2, <4>3 DEF MadeAt
    <3>4. CASE pc'[r] = Shelving(l.id) /\ p \in Known(r, l)
      <4>1. p # NoProduct /\ p = l.link
        BY <2>1, <3>1, <3>4, TakesItsOwn
      <4>2. pc'[r] = "looking"
        BY <3>1, <3>4 DEF Shelving, Sole, ToMake, What
      <4> QED BY <2>1, <2>2, <3>2, <4>1, <4>2 DEF MadeAt
    <3> QED BY <2>1, <3>3, <3>4
  <2>5. MadeAt(r)'
    BY <2>1, <2>4 DEF MadeAt
  <2> QED BY <1>4, <2>3, <2>5 DEF Homed
<1>8. CASE Create(r) /\ ~Resets(r)
  <2>1. /\ pc[r] = "creating" /\ pc'[r] = "linking"
        /\ own'[r].at = own[r].at /\ own'[r].todo = own[r].todo
    BY <1>8, Creates
  <2>2. UNCHANGED <<lines, moves, variants>>
    BY <1>8 DEF Create, book
  <2>3. Home' /\ Snap(r)' /\ MadeAt(r)'
    BY <1>2, <1>3, <2>1, <2>2 DEF Home, Snap, MadeAt, AtLine
  <2> QED BY <1>4, <2>3 DEF Homed
<1>9. CASE Link(r)
  <2> DEFINE at == own[r].at
  <2>1. pc[r] = "linking" /\ pc'[r] = Shelving(at.line) /\ own'[r] = own[r]
    BY <1>9, Links
  <2>2. UNCHANGED <<moves, variants>>
    BY <1>9 DEF Link, shop
  <2>3. ASSUME NEW k \in lines'
        PROVE  \E l \in lines : /\ k.id = l.id
                                /\ k.link = IF l.id = at.line THEN at.product ELSE l.link
    <3>1. PICK l \in lines : k = Linked(r, l)
      BY <1>9, LinkedLines
    <3> QED BY <3>1 DEF Linked
  <2>4. Snap(r)'
    BY <1>2, <1>3, <2>1, <2>3 DEF Snap, Shelving
  <2>5. ASSUME NEW i, i = at.line[2], Sole(i)'
        PROVE  /\ at.product # NoProduct /\ pc'[r] = "looking"
               /\ \A l \in lines, m \in moves : l.id = at.line => m.line # at.line
               /\ \A k \in lines' : k.id = at.line => k.link = at.product
    <3>1. Sole(at.line[2])
      BY <1>2, <2>5
    <3>2. /\ at.product # NoProduct
          /\ \A l \in lines, m \in moves : l.id = at.line => m.line # at.line
      BY <1>3, <2>1, <3>1 DEF MadeAt, AtLine
    <3>3. pc'[r] = "looking"
      BY <2>1, <3>1 DEF Shelving, Sole, ToMake, What
    <3>4. \A k \in lines' : k.id = at.line => k.link = at.product
      BY <2>3
    <3> QED BY <3>2, <3>3, <3>4
  <2>6. MadeAt(r)'
    BY <2>1, <2>5 DEF MadeAt
  <2>7. ASSUME NEW m \in moves, Sole(m.line[2])', NEW k \in lines', k.id = m.line
        PROVE  k.link # NoProduct /\ m.variant = <<k.link, What(m.line).label>>
    <3>1. PICK l \in lines : /\ k.id = l.id
                             /\ k.link = IF l.id = at.line THEN at.product ELSE l.link
      BY <2>3
    <3>2. l.id # at.line
      BY <2>5, <2>7, <3>1
    <3> QED BY <1>2, <1>3, <2>7, <3>1, <3>2 DEF Home
  <2>8. Home'
    BY <1>2, <1>3, <2>2, <2>7 DEF Home
  <2> QED BY <1>4, <2>4, <2>6, <2>8 DEF Homed
<1>10. CASE LookForVariant(r) \/ AddVariant(r)
  <2>1. /\ own'[r].at.line = own[r].at.line /\ own'[r].at.product = own[r].at.product
        /\ own'[r].todo = own[r].todo
    BY <1>10, Variants2
  <2>2. UNCHANGED <<lines, moves>>
    BY <1>10 DEF LookForVariant, AddVariant, book, shop
  <2>3. variants \subseteq variants'
    BY <1>10, Variants2
  <2>4. Home'
    BY <1>2, <1>3, <2>2, <2>3 DEF Home
  <2>5. pc[r] \in {"looking", "adding"} /\ pc'[r] \in {"adding", "landing"}
    BY <1>10, Variants2 DEF LookForVariant, AddVariant
  <2>6. Snap(r)'
    BY <1>2, <1>3, <2>1, <2>2, <2>5 DEF Snap
  <2>7. Sought(r)' = Sought(r)
    BY <1>2, <2>1 DEF Sought
  <2>8. ASSUME NEW i, i = own[r].at.line[2], Sole(i)'
        PROVE  /\ own[r].at.product # NoProduct
               /\ \A l \in lines : l.id = own[r].at.line => l.link = own[r].at.product
               /\ pc'[r] = "adding" => Sought(r) \notin variants'
               /\ pc'[r] = "landing" => own'[r].at.variant = Sought(r) /\ Sought(r) \in variants'
    <3>1. Sole(own[r].at.line[2])
      BY <1>2, <2>8
    <3>2. /\ own[r].at.product # NoProduct
          /\ \A l \in lines : l.id = own[r].at.line => l.link = own[r].at.product
          /\ pc[r] = "adding" => Sought(r) \notin variants
      BY <1>3, <2>5, <3>1 DEF MadeAt, AtLine
    <3>3. CASE LookForVariant(r)
      BY <3>2, <3>3, Variants2
    <3>4. CASE AddVariant(r)
      <4>1. Sought(r) \notin variants
        BY <3>2, <3>4 DEF AddVariant
      <4> QED BY <3>2, <3>4, <4>1, Variants2
    <3> QED BY <1>10, <3>2, <3>3, <3>4
  <2>9. MadeAt(r)'
    BY <2>1, <2>2, <2>5, <2>7, <2>8 DEF MadeAt
  <2> QED BY <1>4, <2>4, <2>6, <2>9 DEF Homed
<1>11. CASE Land(r) /\ ~Resets(r)
  <2> DEFINE at == own[r].at
  <2>1. /\ pc[r] = "landing" /\ pc'[r] = "receiving"
        /\ own'[r].todo = {l \in own[r].todo : l.id # at.line}
    BY <1>11, Lands
  <2>2. UNCHANGED <<lines, variants>> /\ moves' \subseteq moves \cup {at}
    BY <1>11, Lands DEF Land, book
  <2>3. Snap(r)' /\ MadeAt(r)'
    BY <1>2, <1>3, <2>1, <2>2 DEF Snap, MadeAt, AtLine
  <2>4. ASSUME NEW i, i = at.line[2], Sole(i)'
        PROVE  /\ at.variant \in variants
               /\ \A l \in lines : l.id = at.line =>
                    l.link # NoProduct /\ at.variant = <<l.link, What(at.line).label>>
    <3>1. Sole(at.line[2])
      BY <1>2, <2>4
    <3>2. /\ at.product # NoProduct
          /\ at.variant = <<at.product, What(at.line).label>> /\ at.variant \in variants
          /\ \A l \in lines : l.id = at.line => l.link = at.product
      BY <1>3, <2>1, <3>1 DEF MadeAt, AtLine, Sought
    <3> QED BY <3>2
  <2>5. ASSUME NEW m \in moves', Sole(m.line[2])'
        PROVE  /\ m.variant \in variants
               /\ \A l \in lines : l.id = m.line =>
                    l.link # NoProduct /\ m.variant = <<l.link, What(m.line).label>>
    <3>1. CASE m \in moves
      BY <1>2, <1>3, <2>5, <3>1 DEF Home
    <3>2. CASE m = at
      BY <2>4, <2>5, <3>2
    <3> QED BY <2>2, <3>1, <3>2
  <2>6. Home'
    BY <1>2, <2>2, <2>5 DEF Home
  <2> QED BY <1>4, <2>3, <2>6 DEF Homed
<1> QED
  <2>0. CASE ~(Land(r) /\ ~Resets(r)) /\ ~(Take(r) \/ Link(r) \/ LookForVariant(r)
                 \/ AddVariant(r)) /\ ~(Load(r) /\ ~Resets(r)) /\ ~(Create(r) /\ ~Resets(r))
    <3>1. pc'[r] \notin Receipt /\ own'[r].todo = {} /\ moves' = moves
      BY <2>0, QuietSteps DEF Fitting
    <3> QED BY <1>5, <2>0, <3>1, VariantsKept
  <2> QED BY <1>6, <1>7, <1>8, <1>9, <1>10, <1>11, <2>0

LEMMA OnceStep ==
  ASSUME Typed, OnePerPosition, KnownVariants, Homed, LandedOnce, NEW r \in Runs, Step(r)
  PROVE  LandedOnce'
<1> DEFINE Excused(i) == i \in crossed \/ (ToMake(i) /\ (raced \/ Shares(i)))
           at == own[r].at
<1>1. \A i : Excused(i) => Excused(i)'
  BY OrderStays, PastGrows DEF ToMake, Shares
<1>2. \A m, n \in moves : m.line[2] = n.line[2] /\ m # n => Excused(m.line[2])
  BY DEF LandedOnce
<1>3. \A m, n \in moves' : m.line[2] = n.line[2] /\ m # n => Excused(m.line[2])
  <2>1. CASE moves' = moves
    BY <1>2, <2>1
  <2>2. CASE moves' # moves
    <3>1. Land(r)
      BY <2>2, MovesKept
    <3>2. /\ at.line \in LineIds /\ moves' = moves \cup {at}
          /\ \A m \in moves : ~SameCombination(m, at)
      BY <2>2, <3>1 DEF Land
    <3>3. PICK l \in lines : l.id = at.line
      BY <3>2 DEF LineIds
    <3>4. at \in Movement /\ pc[r] = "landing"
      BY <3>1 DEF Land, Typed, AtALine, AtLine
    <3>5. ASSUME NEW m \in moves, m.line[2] = at.line[2] PROVE Excused(at.line[2])
      <4>1. m.line = at.line \/ at.line[2] \in crossed
        BY <3>3, <3>5 DEF OnePerPosition
      <4>2. CASE m.line = at.line /\ ~ToMake(at.line[2])
        <5>1. m.variant = VariantOf(at.line) /\ at.variant = VariantOf(at.line)
          BY <3>4, <4>2 DEF KnownVariants, Bound
        <5> QED BY <3>2, <4>2, <5>1 DEF SameCombination
      <4>3. CASE m.line = at.line /\ Sole(at.line[2])
        <5>1. m.variant = <<l.link, What(at.line).label>>
          BY <3>3, <4>3 DEF Homed, Home
        <5>2. at.variant = <<at.product, What(at.line).label>> /\ l.link = at.product
          BY <3>3, <3>4, <4>3 DEF Homed, MadeAt, AtLine, Sought
        <5> QED BY <3>2, <4>3, <5>1, <5>2 DEF SameCombination
      <4> QED BY <4>1, <4>2, <4>3 DEF Sole
    <3>6. ASSUME NEW m \in moves', NEW n \in moves', m.line[2] = n.line[2], m # n
          PROVE  Excused(m.line[2])
      <4>1. (m \in moves \/ m = at) /\ (n \in moves \/ n = at)
        BY <3>2
      <4> HIDE DEF Excused, at
      <4> QED BY <1>2, <3>5, <3>6, <4>1
    <3> QED BY <3>6
  <2> QED BY <2>1, <2>2
<1> HIDE DEF Excused
<1>4. \A m, n \in moves' : m.line[2] = n.line[2] /\ m # n => Excused(m.line[2])'
  BY <1>1, <1>3
<1> QED BY <1>4 DEF Excused, LandedOnce

Once == Closing /\ OnePerPosition /\ KnownVariants /\ Fitting /\ Homed /\ LandedOnce

LEMMA OnceInductive == Typed /\ Once /\ [Next]_vars => Once'
<1>1. ASSUME Once, UNCHANGED vars PROVE Once'
  <2>1. Closing' /\ OnePerPosition' /\ LandedOnce'
    BY <1>1 DEF Once, Closing, OnePerPosition, LandedOnce, ToMake, Shares, vars, book, shop, past
  <2>2. KnownVariants'
    BY <1>1 DEF Once, KnownVariants, Bound, Restocks, Stocked, ToMake, VariantOf, What, vars,
       book, shop, past
  <2>3. Fitting'
    BY <1>1 DEF Once, Fitting, Alone, Idle, Unused, Agenda, vars, book, shop, past
  <2>4. Homed'
    BY <1>1 DEF Once, Homed, Home, Snap, MadeAt, Sole, ToMake, Shares, Sought, What, vars,
       book, shop, past
  <2> QED BY <2>1, <2>2, <2>3, <2>4 DEF Once
<1>2. ASSUME Typed, Once, NEW r \in Runs, Step(r) PROVE Once'
  BY <1>2, ClosingStep, PositionStep, KnownVariantsStep, FittingStep, HomedStep, OnceStep
     DEF Once
<1> QED BY <1>1, <1>2 DEF Next

LEMMA InitOnce == Init => Once
<1> SUFFICES ASSUME Init PROVE Once
  OBVIOUS
<1>1. Closing /\ LandedOnce /\ Homed
  <2>1. moves = {} /\ \A r \in Runs : pc[r] = "idle" /\ own[r].todo = {}
    BY DEF Init, Fresh
  <2> QED BY <2>1 DEF Closing, LandedOnce, Homed, Home, Snap, MadeAt, Replacing, AtLine
<1>2. \A k, l \in lines : k.id[2] = l.id[2] => k = l
  BY DEF Init
<1>3. OnePerPosition
  BY <1>2 DEF OnePerPosition, Init, Fresh
<1>4. \A l \in lines : Restocks(l.id[2], l.link)
  BY DEF Init, Restocks
<1>5. KnownVariants
  BY <1>4 DEF KnownVariants, Bound, Init, Fresh
<1>6. \A l \in lines : l.id[1] = Filed
  BY DEF Init
<1>7. Fitting
  BY <1>6 DEF Fitting, Alone, Idle, Unused, Agenda, Init, Fresh, Receipt, AtLine, Saving
<1> QED BY <1>1, <1>3, <1>5, <1>7 DEF Once

\* What was ordered once lands once, whatever overlaps and whoever dies, for
\* any number of requests: but for the lines that LandedOnce excepts.
THEOREM LandsOnce == Spec => []LandedOnce
<1>1. Spec => [](Typed /\ Once)
  BY InitTyped, TypeStep, InitOnce, OnceInductive, PTL DEF Spec
<1>2. Once => LandedOnce
  BY DEF Once
<1> QED BY <1>1, <1>2, PTL
=============================================================================
