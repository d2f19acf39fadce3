---------------------------- MODULE ReturnsProofs ----------------------------
(* Proofs about Returns, for any order, any number of acts and any prices.  *)
(* What is proved of every environment stands first; the rest assumes that  *)
(* acts do not overlap, and says so.                                        *)
EXTENDS Returns, TLAPS

LEMMA Zeros == NoLines \in Lines /\ Fresh \in Own /\ NoReturn \in Return
                 /\ NoRequest \in Request
  BY DEF NoLines, Lines, Fresh, Own, NoReturn, Return, NoRequest, Request

\* Whoever ends or moves on keeps its type.
LEMMA GotoTyped ==
  ASSUME NEW a \in Acts, NEW label \in PC, pc \in [Acts -> PC], Goto(a, label)
  PROVE  pc' \in [Acts -> PC]
  BY DEF Goto

LEMMA EndTyped ==
  ASSUME NEW a \in Acts, pc \in [Acts -> PC], own \in [Acts -> Own], End(a)
  PROVE  pc' \in [Acts -> PC] /\ own' \in [Acts -> Own]
  BY Zeros DEF End, Goto, PC

LEMMA TypedLines == Typed \subseteq Lines
  BY BoughtAssumption DEF Typed, Lines

\* The trigger keeps its types, whatever it adds up.
LEMMA SyncTyped ==
  ASSUME payStatus \in PayStatus, NEW r \in [Acts -> Return], SyncRefundStatus(r)
  PROVE  payStatus' \in PayStatus /\ ret' \in [Acts -> Return]
  BY DEF SyncRefundStatus, PayStatus

LEMMA TypeInit == Init => TypeOK
  <1> SUFFICES ASSUME Init PROVE TypeOK
    OBVIOUS
  <1>1. back \in Lines /\ shelved \in Lines /\ asOf \in Lines /\ sized \subseteq Items
    BY Zeros DEF Init
  <1>2. ret \in [Acts -> Return] /\ req \in [Acts -> Request] /\ own \in [Acts -> Own]
    BY Zeros DEF Init
  <1>3. out \in [Items -> Int] /\ pool \in [Items -> Int]
    BY BoughtAssumption DEF Init, NoLines
  <1>4. payStatus \in PayStatus /\ payment \in {"none", "captured", "refunded"}
    BY DEF Init, PayStatus
  <1>5. status \in OrderStatus /\ gateway \in Acts \cup {NoAct}
        /\ paid \in [Acts -> Nat] /\ deaths \in 0..MaxDeaths
    BY MaxDeathsAssumption DEF Init, OrderStatus
  <1>6. pc \in [Acts -> PC]
    BY DEF Init, PC
  <1> QED
    BY <1>1, <1>2, <1>3, <1>4, <1>5, <1>6 DEF TypeOK

\* A press fills in the worker's own record, and may note a refund by hand.
LEMMA TypePress ==
  ASSUME TypeOK, NEW a \in Acts, Press(a)
  PROVE  TypeOK'
  <1> USE DEF TypeOK
  <1> \A l \in {"order", "lines", "declining", "claim", "ask", "stamp"} : l \in PC
    BY DEF PC
  <1>1. CASE BeginRecord(a)
    <2>1. PICK l \in Typed, m \in Amounts, s \in SUBSET Items :
            own' = [own EXCEPT ![a] = [Fresh EXCEPT !.lines = l, !.refund = m,
                                                    !.restock = s]]
      BY <1>1 DEF BeginRecord
    <2>2. [Fresh EXCEPT !.lines = l, !.refund = m, !.restock = s] \in Own
      BY <2>1, Zeros, TypedLines DEF Fresh, Own
    <2> QED
      BY <1>1, <2>1, <2>2, GotoTyped DEF BeginRecord, docs, goods, money
  <1>2. CASE BeginRequest(a)
    <2>1. PICK l \in Typed : own' = [own EXCEPT ![a] = [Fresh EXCEPT !.lines = l]]
      BY <1>2 DEF BeginRequest
    <2>2. [Fresh EXCEPT !.lines = l] \in Own
      BY <2>1, Zeros, TypedLines DEF Fresh, Own
    <2> QED
      BY <1>2, <2>1, <2>2, GotoTyped DEF BeginRequest, docs, goods, money
  <1>3. CASE Withdraw(a)
    <2>1. req' \in [Acts -> Request]
      BY <1>3 DEF Withdraw, Request
    <2> QED
      BY <1>3, <2>1, EndTyped DEF Withdraw, goods, money
  <1>4. ASSUME NEW b \in Acts, BeginApprove(a, b) \/ BeginDecline(a, b)
               \/ BeginMark(a, b) \/ BeginSettle(a, b)
        PROVE  TypeOK'
    <2>1. [Fresh EXCEPT !.of = b] \in Own
      BY Zeros DEF Fresh, Own
    <2>2. own' \in [Acts -> Own]
      BY <1>4, <2>1 DEF BeginApprove, BeginDecline, BeginMark, BeginSettle
    <2>3. pc' \in [Acts -> PC]
      BY <1>4, GotoTyped DEF BeginApprove, BeginDecline, BeginMark, BeginSettle
    <2>4. paid' \in [Acts -> Nat]
      BY <1>4 DEF BeginApprove, BeginDecline, BeginMark, BeginSettle, money
    <2> QED
      BY <1>4, <2>2, <2>3, <2>4
         DEF BeginApprove, BeginDecline, BeginMark, BeginSettle, docs, goods, money
  <1> QED
    BY <1>1, <1>2, <1>3, <1>4 DEF Press

\* Who is at work on a request or a return has one.
Aimed ==
  \A a \in Acts :
    pc[a] \in {"lines", "answer", "declining", "ask", "record", "stamp"}
      => own[a].of \in Acts

LEMMA AimedInit == Init => Aimed
  BY DEF Init, Aimed

LEMMA AimedStep ==
  ASSUME TypeOK, Aimed, [Next]_vars
  PROVE  Aimed'
  <1>1. CASE UNCHANGED vars
    BY <1>1 DEF vars, Aimed
  <1>2. CASE Webhook \/ Move
    BY <1>2 DEF Webhook, Move, Aimed
  <1>3. ASSUME NEW a \in Acts, BeginRecord(a) \/ BeginRequest(a)
        PROVE  Aimed'
    <2>1. \A b \in Acts \ {a} : pc'[b] = pc[b] /\ own'[b] = own[b]
      BY <1>3 DEF BeginRecord, BeginRequest, Goto, TypeOK
    <2>2. pc'[a] \in {"order", "claim"}
      BY <1>3 DEF BeginRecord, BeginRequest, Goto, TypeOK
    <2> QED
      BY <2>1, <2>2 DEF Aimed
  <1>4. ASSUME NEW a \in Acts, NEW b \in Acts,
               BeginApprove(a, b) \/ BeginDecline(a, b) \/ BeginMark(a, b) \/ BeginSettle(a, b)
        PROVE  Aimed'
    <2>1. \A c \in Acts \ {a} : pc'[c] = pc[c] /\ own'[c] = own[c]
      BY <1>4 DEF BeginApprove, BeginDecline, BeginMark, BeginSettle, Goto, TypeOK
    <2>2. own'[a].of = b
      BY <1>4 DEF BeginApprove, BeginDecline, BeginMark, BeginSettle, Fresh, TypeOK
    <2> QED
      BY <2>1, <2>2 DEF Aimed
  <1>5. ASSUME NEW a \in Acts, End(a)
        PROVE  Aimed'
    BY <1>5 DEF End, Goto, Aimed, TypeOK
  <1>6. ASSUME NEW a \in Acts,
               ReadItems(a) \/ ReadOrder(a) \/ Count(a) \/ InsertReturn(a)
                 \/ CheckClaim(a) \/ OpenRequest(a)
        PROVE  Aimed'
    <2>1. \/ End(a)
          \/ pc' = [pc EXCEPT ![a] = pc'[a]]
             /\ pc'[a] \in {"order", "count", "insert", "file", "open", "list"}
             /\ \A c \in Acts \ {a} : own'[c] = own[c]
      BY <1>6 DEF ReadItems, ReadOrder, Count, InsertReturn, CheckClaim, OpenRequest,
                  Goto, TypeOK
    <2> QED
      BY <2>1, <1>5 DEF Aimed, TypeOK
  <1>7. ASSUME NEW a \in Acts, InsertItems(a) PROVE Aimed'
    BY <1>5, <1>7 DEF InsertItems, Goto, Aimed, TypeOK, Own
  <1>8. ASSUME NEW a \in Acts, AskGateway(a) \/ ApplyEvent(a) PROVE Aimed'
    BY <1>8 DEF AskGateway, ApplyEvent, Goto, Aimed, TypeOK, Own
  <1>9. ASSUME NEW a \in Acts, Serve(a) PROVE Aimed'
    BY <1>5, <1>6, <1>7, <1>8, <1>9
       DEF Serve, RefuseItems, Answer, Decline, InsertLines, RefuseLines,
           AnswerIsLost, GatewayRefuses, Stamp
  <1>10. ASSUME NEW a \in Acts, Press(a) PROVE Aimed'
    BY <1>3, <1>4, <1>5, <1>10 DEF Press, Withdraw
  <1> QED
    BY <1>1, <1>2, <1>5, <1>9, <1>10 DEF Next, Crash

\* One step of an act that was begun.
LEMMA TypeServe ==
  ASSUME TypeOK, Aimed, NEW a \in Acts, Serve(a)
  PROVE  TypeOK'
  <1> USE DEF TypeOK
  <1> \A l \in {"order", "count", "insert", "file", "answer", "open", "list",
                "record", "stamp"} : l \in PC
    BY DEF PC
  <1>1. CASE ReadItems(a)
    <2>1. own[a].of \in Acts
      BY <1>1 DEF ReadItems, Aimed
    <2>2. own' \in [Acts -> Own]
      <3>1. CASE End(a)
        BY <3>1, EndTyped
      <3>2. CASE ~End(a)
        <4>1. PICK m \in Amounts, s \in SUBSET Items :
                own' = [own EXCEPT ![a].lines = req[own[a].of].lines,
                                   ![a].refund = m, ![a].restock = s]
          BY <1>1, <3>2 DEF ReadItems
        <4>2. req[own[a].of].lines \in Lines
          BY <2>1 DEF Request
        <4>3. [own[a] EXCEPT !.lines = req[own[a].of].lines, !.refund = m,
                             !.restock = s] \in Own
          BY <4>2 DEF Own
        <4>4. own' = [own EXCEPT ![a] = [own[a] EXCEPT !.lines = req[own[a].of].lines,
                                                       !.refund = m, !.restock = s]]
          BY <4>1
        <4> QED
          BY <4>3, <4>4
      <3> QED
        BY <3>1, <3>2
    <2>3. pc' \in [Acts -> PC]
      BY <1>1, EndTyped, GotoTyped DEF ReadItems
    <2> QED
      BY <1>1, <2>2, <2>3 DEF ReadItems, docs, goods, money
  <1>2. CASE ReadOrder(a)
    <2> DEFINE needed == Card /\ payStatus \in {"paid", "deposit"}
    <2>0. needed \in BOOLEAN
      OBVIOUS
    <2>1. own' = [own EXCEPT ![a].byGateway = needed]
      BY <1>2 DEF ReadOrder
    <2> HIDE DEF needed
    <2>2. own' \in [Acts -> Own]
      BY <2>0, <2>1 DEF Own
    <2> QED
      BY <1>2, <2>2, GotoTyped DEF ReadOrder, docs, goods, money
  <1>3. CASE Count(a) \/ CheckClaim(a)
    BY <1>3, EndTyped, GotoTyped DEF Count, CheckClaim, docs, goods, money
  <1>4. CASE InsertReturn(a)
    <2> DEFINE byHand == own[a].refund > 0 /\ ~own[a].byGateway
               new == [ret EXCEPT ![a] = [made |-> TRUE, refund |-> own[a].refund,
                                          settled |-> byHand, of |-> own[a].of]]
    <2>1. new \in [Acts -> Return]
      BY DEF Return, Own
    <2>2. SyncRefundStatus(new) /\ paid' \in [Acts -> Nat]
      BY <1>4 DEF InsertReturn
    <2>3. payStatus' \in PayStatus /\ ret' \in [Acts -> Return]
      BY <2>1, <2>2, SyncTyped
    <2> QED
      BY <1>4, <2>2, <2>3, GotoTyped DEF InsertReturn, goods
  <1>5. CASE InsertItems(a)
    <2>1. /\ own[a].lines \in Lines /\ Restocked(a) \in Lines
      BY DEF Own, Lines, Restocked
    <2>2. back' \in Lines /\ shelved' \in Lines
      BY <1>5, <2>1 DEF InsertItems, Lines
    <2>3. out' \in [Items -> Int] /\ pool' \in [Items -> Int]
      BY <1>5, <2>1 DEF InsertItems, Lines
    <2>4. pc' \in [Acts -> PC] /\ own' \in [Acts -> Own]
      BY <1>5, EndTyped, GotoTyped DEF InsertItems
    <2> QED
      BY <1>5, <2>2, <2>3, <2>4 DEF InsertItems, docs, money
  <1>6. CASE RefuseItems(a)
    <2>1. [ret EXCEPT ![a] = NoReturn] \in [Acts -> Return]
      BY Zeros
    <2>2. payStatus' \in PayStatus /\ ret' \in [Acts -> Return]
      BY <1>6, <2>1, SyncTyped DEF RefuseItems
    <2> QED
      BY <1>6, <2>2, EndTyped DEF RefuseItems, goods
  <1>7. CASE Answer(a) \/ Decline(a) \/ InsertLines(a) \/ RefuseLines(a)
    <2>1. req' \in [Acts -> Request]
      <3>1. own[a].lines \in Lines
        BY DEF Own
      <3> QED
        BY <1>7, <3>1, Zeros DEF Answer, Decline, InsertLines, RefuseLines, Request
    <2> QED
      BY <1>7, <2>1, EndTyped DEF Answer, Decline, InsertLines, RefuseLines, goods, money
  <1>8. CASE OpenRequest(a)
    <2>1. req' \in [Acts -> Request]
      BY <1>8 DEF OpenRequest, Request
    <2> QED
      BY <1>8, <2>1, EndTyped, GotoTyped DEF OpenRequest, goods, money
  <1>9. CASE AskGateway(a) \/ AnswerIsLost(a)
    <2>1. own[a].of \in Acts
      BY <1>9 DEF AskGateway, AnswerIsLost, Aimed
    <2>2. gateway' \in Acts \cup {NoAct} /\ paid' \in [Acts -> Nat]
      BY <1>9, <2>1 DEF AskGateway, AnswerIsLost, Refund
    <2>3. pc' \in [Acts -> PC] /\ own' \in [Acts -> Own]
      BY <1>9, EndTyped, GotoTyped DEF AskGateway, AnswerIsLost, Own
    <2> QED
      BY <1>9, <2>2, <2>3 DEF AskGateway, AnswerIsLost, docs, goods
  <1>10. CASE GatewayRefuses(a)
    BY <1>10, EndTyped DEF GatewayRefuses, docs, goods, money
  <1>11. CASE ApplyEvent(a)
    BY <1>11, GotoTyped DEF ApplyEvent, Mirror, PayStatus, docs, goods
  <1>12. CASE Stamp(a)
    <2>1. [ret EXCEPT ![own[a].of].settled = TRUE] \in [Acts -> Return]
      BY DEF Return
    <2>2. payStatus' \in PayStatus /\ ret' \in [Acts -> Return]
      BY <1>12, <2>1, SyncTyped DEF Stamp
    <2> QED
      BY <1>12, <2>2, EndTyped DEF Stamp, goods, money
  <1> QED
    BY <1>1, <1>2, <1>3, <1>4, <1>5, <1>6, <1>7, <1>8, <1>9, <1>10, <1>11, <1>12
       DEF Serve

LEMMA TypeStep ==
  ASSUME TypeOK, Aimed, [Next]_vars
  PROVE  TypeOK'
  <1>1. CASE UNCHANGED vars
    BY <1>1 DEF vars, money, docs, goods, TypeOK
  <1>2. CASE Webhook
    BY <1>2 DEF Webhook, Mirror, PayStatus, docs, goods, TypeOK
  <1>3. CASE Move
    <2>1. status' \in OrderStatus
      BY <1>3 DEF Move, Onward, OrderStatus, TypeOK
    <2>2. out' \in [Items -> Int] /\ asOf' \in Lines
      BY <1>3, BoughtAssumption DEF Move, NoLines, TypeOK
    <2> QED
      BY <1>3, <2>1, <2>2 DEF Move, docs, money, TypeOK
  <1>4. ASSUME NEW a \in Acts, Crash(a) PROVE TypeOK'
    <2>1. pc' \in [Acts -> PC] /\ own' \in [Acts -> Own]
      BY <1>4, EndTyped DEF Crash, TypeOK
    <2>2. deaths' \in 0..MaxDeaths
      BY <1>4, MaxDeathsAssumption DEF Crash, TypeOK
    <2> QED
      BY <1>4, <2>1, <2>2 DEF Crash, docs, goods, money, TypeOK
  <1> QED
    BY <1>1, <1>2, <1>3, <1>4, TypePress, TypeServe DEF Next

\* Every variable keeps its type, in every environment.
THEOREM TypeCorrect == Spec => []TypeOK
  <1>1. Init => TypeOK /\ Aimed
    BY TypeInit, AimedInit
  <1>2. TypeOK /\ Aimed /\ [Next]_vars => TypeOK' /\ Aimed'
    BY TypeStep, AimedStep
  <1> QED
    BY <1>1, <1>2, PTL DEF Spec

\* Who is at work on a request or a return has one, in every environment.
THEOREM AlwaysAimed == Spec => []Aimed
  <1>1. Init => TypeOK /\ Aimed
    BY TypeInit, AimedInit
  <1>2. TypeOK /\ Aimed /\ [Next]_vars => TypeOK' /\ Aimed'
    BY TypeStep, AimedStep
  <1> QED
    BY <1>1, <1>2, PTL DEF Spec

------------------------------------------------------------------------------
\* Goods

\* Only the lines of a return and the order's status move goods.
LEMMA GoodsMovers ==
  ASSUME [Next]_vars
  PROVE  UNCHANGED <<status, goods>> \/ Move \/ \E a \in Acts : InsertItems(a)
  <1>1. ASSUME NEW a \in Acts, Press(a) PROVE UNCHANGED <<status, goods>>
    BY <1>1 DEF Press, BeginRecord, BeginRequest, Withdraw, BeginApprove, BeginDecline,
                BeginMark, BeginSettle
  <1>2. ASSUME NEW a \in Acts, Serve(a), ~InsertItems(a)
        PROVE  UNCHANGED <<status, goods>>
    BY <1>2 DEF Serve, ReadItems, ReadOrder, Count, InsertReturn, RefuseItems, Answer,
                Decline, CheckClaim, OpenRequest, InsertLines, RefuseLines,
                AskGateway, AnswerIsLost, GatewayRefuses, ApplyEvent, Stamp
  <1>3. CASE UNCHANGED vars
    BY <1>3 DEF vars
  <1> QED
    BY <1>1, <1>2, <1>3 DEF Next, Webhook, Crash

\* What the order's own size takes is what its status asks for; the returns
\* are counted apart from it. Without a size they are counted with it, from
\* the last write of the status on.
Parted ==
  \A i \in Items :
    /\ pool[i] = IF i \in sized THEN -shelved[i] ELSE 0
    /\ status # "cancelled" =>
         out[i] = Bought[i] - IF i \in sized THEN 0 ELSE shelved[i] - asOf[i]

LEMMA PartedStep ==
  ASSUME TypeOK, Parted, [Next]_vars
  PROVE  Parted'
  <1>1. CASE UNCHANGED <<status, goods>>
    BY <1>1 DEF Parted, goods
  <1>2. CASE Move
    <2>1. UNCHANGED <<sized, shelved, pool>> /\ asOf' = shelved
      BY <1>2 DEF Move
    <2>2. status' # "cancelled" => out' = Bought
      BY <1>2 DEF Move
    <2> QED
      BY <2>1, <2>2, BoughtAssumption DEF Parted, TypeOK, Lines
  <1>3. ASSUME NEW a \in Acts, InsertItems(a) PROVE Parted'
    <2>1. Restocked(a) \in Lines
      BY DEF TypeOK, Own, Restocked, Lines
    <2>2. UNCHANGED <<status, sized, asOf>>
      BY <1>3 DEF InsertItems
    <2>3. ASSUME NEW i \in Items
          PROVE  /\ shelved'[i] = shelved[i] + Restocked(a)[i]
                 /\ out'[i] = IF i \in sized THEN out[i] ELSE out[i] - Restocked(a)[i]
                 /\ pool'[i] = IF i \in sized THEN pool[i] - Restocked(a)[i] ELSE pool[i]
      BY <1>3 DEF InsertItems, Restocked
    <2>4. \A i \in Items : /\ Restocked(a)[i] \in Int /\ shelved[i] \in Int /\ asOf[i] \in Int
                           /\ Bought[i] \in Int /\ out[i] \in Int /\ pool[i] \in Int
      BY <2>1, BoughtAssumption DEF TypeOK, Lines
    <2> QED
      BY <2>2, <2>3, <2>4 DEF Parted
  <1> QED
    BY <1>1, <1>2, <1>3, GoodsMovers

\* An order that stands takes from the shelf what was bought less what came
\* back fit to sell, whatever overlaps and whoever dies: wherever its status
\* goes, of goods bought in a size, and until it is next written, of others.
THEOREM ShelvedStays == Spec => []ReturnedIsOnShelf
  <1>1. Init => TypeOK /\ Aimed /\ Parted
    <2> SUFFICES ASSUME Init PROVE Parted
      BY TypeInit, AimedInit
    <2>1. \A i \in Items : /\ pool[i] = 0 /\ shelved[i] = 0 /\ asOf[i] = 0
                           /\ out[i] = Bought[i] /\ Bought[i] \in Int
      BY BoughtAssumption DEF Init, NoLines
    <2> QED
      BY <2>1 DEF Parted
  <1>2. TypeOK /\ Aimed /\ Parted /\ [Next]_vars => TypeOK' /\ Aimed' /\ Parted'
    BY TypeStep, AimedStep, PartedStep
  <1>3. TypeOK /\ Parted => ReturnedIsOnShelf
    BY BoughtAssumption DEF Parted, TypeOK, Lines, ReturnedIsOnShelf
  <1> QED
    BY <1>1, <1>2, <1>3, PTL DEF Spec

------------------------------------------------------------------------------
\* The payment status

\* Whoever has the gateway's reply in hand made the gateway move money, so that
\* what is stamped and what the gateway says agree.
Replied == \A a \in Acts : pc[a] = "record" => gateway # NoAct

Derived == Replied /\ PayStatusFollows

LEMMA DerivedStep ==
  ASSUME TypeOK, Aimed, Derived, [Next]_vars
  PROVE  Derived'
  <1>1. ASSUME UNCHANGED <<ret, payStatus, gateway>> PROVE PayStatusFollows'
    BY <1>1 DEF Derived, PayStatusFollows
  <1>2. ASSUME NEW r, SyncRefundStatus(r), UNCHANGED gateway PROVE PayStatusFollows'
    <2>1. ret' = r
      BY <1>2 DEF SyncRefundStatus
    <2>2. CASE Moved(r) <= 0
      BY <2>1, <2>2 DEF PayStatusFollows
    <2>3. CASE ~(Moved(r) <= 0)
      BY <1>2, <2>1, <2>3 DEF SyncRefundStatus, PayStatusFollows
    <2> QED
      BY <2>2, <2>3
  <1>3. ASSUME Mirror, gateway # NoAct, UNCHANGED <<ret, gateway>>
        PROVE  PayStatusFollows'
    BY <1>3 DEF Mirror, PayStatusFollows
  <1>4. ASSUME NEW a \in Acts, Press(a) PROVE Derived'
    <2>1. UNCHANGED <<ret, payStatus, gateway>>
      BY <1>4 DEF Press, BeginRecord, BeginRequest, Withdraw, BeginApprove, BeginDecline,
                  BeginMark, BeginSettle, docs, money
    <2>2. pc'[a] # "record" /\ \A b \in Acts \ {a} : pc'[b] = pc[b]
      BY <1>4 DEF Press, BeginRecord, BeginRequest, Withdraw, BeginApprove, BeginDecline,
                  BeginMark, BeginSettle, Goto, End, TypeOK
    <2> QED
      BY <1>1, <2>1, <2>2 DEF Derived, Replied
  <1>5. ASSUME NEW a \in Acts, AskGateway(a) \/ AnswerIsLost(a) PROVE Derived'
    <2>1. own[a].of \in Acts /\ own[a].of # NoAct
      BY <1>5, NoActAssumption DEF AskGateway, AnswerIsLost, Aimed
    <2>2. gateway' # NoAct /\ UNCHANGED <<ret, payStatus>>
      BY <1>5, <2>1 DEF AskGateway, AnswerIsLost, Refund, docs
    <2>3. Stamped(ret)' = Stamped(ret) /\ Moved(ret)' = Moved(ret)
      BY <2>2
    <2> QED
      BY <2>2, <2>3 DEF Derived, Replied, PayStatusFollows
  <1>6. ASSUME NEW a \in Acts, Serve(a), ~AskGateway(a), ~AnswerIsLost(a)
        PROVE  Derived'
    <2>1. /\ gateway' = gateway
          /\ pc'[a] # "record" /\ \A b \in Acts \ {a} : pc'[b] = pc[b]
      BY <1>6 DEF Serve, ReadItems, ReadOrder, Count, InsertReturn, InsertItems, RefuseItems,
         Answer, Decline, CheckClaim, OpenRequest, InsertLines, RefuseLines,
         GatewayRefuses, ApplyEvent, Stamp, Goto, End, money, TypeOK
    <2>2. PayStatusFollows'
      <3>1. CASE InsertReturn(a) \/ RefuseItems(a)
        BY <1>2, <2>1, <3>1 DEF InsertReturn, RefuseItems
      <3>2. CASE Stamp(a)
        BY <1>1, <1>2, <2>1, <3>2 DEF Stamp
      <3>3. CASE ApplyEvent(a)
        BY <1>1, <1>3, <2>1, <3>3 DEF ApplyEvent, docs, Derived, Replied
      <3>4. CASE ~InsertReturn(a) /\ ~RefuseItems(a) /\ ~Stamp(a) /\ ~ApplyEvent(a)
        BY <1>1, <1>6, <2>1, <3>4 DEF Serve, ReadItems, ReadOrder, Count, InsertItems,
           Answer, Decline, CheckClaim, OpenRequest, InsertLines, RefuseLines,
           GatewayRefuses, docs
      <3> QED
        BY <3>1, <3>2, <3>3, <3>4
    <2> QED
      BY <2>1, <2>2 DEF Derived, Replied
  <1>7. CASE Webhook
    BY <1>3, <1>7 DEF Webhook, docs, Derived, Replied
  <1>8. CASE Move \/ UNCHANGED vars
    BY <1>1, <1>8 DEF Move, vars, docs, money, Derived, Replied
  <1>9. ASSUME NEW a \in Acts, Crash(a) PROVE Derived'
    <2>1. pc'[a] # "record" /\ \A b \in Acts \ {a} : pc'[b] = pc[b]
      BY <1>9 DEF Crash, Goto, End, TypeOK
    <2> QED
      BY <1>1, <1>9, <2>1 DEF Crash, docs, money, Derived, Replied
  <1> QED
    BY <1>4, <1>5, <1>6, <1>7, <1>8, <1>9 DEF Next

LEMMA DerivedInit == Init => Derived
  <1> SUFFICES ASSUME Init PROVE Derived
    OBVIOUS
  <1>1. Stamped(ret) = {}
    BY DEF Init, Stamped, NoReturn
  <1> QED
    BY <1>1 DEF Init, Derived, Replied, PayStatusFollows

\* The payment status follows the stamped refunds, whatever overlaps, dies and
\* calls back.
THEOREM StatusFollows == Spec => []PayStatusFollows
  <1>1. Init => TypeOK /\ Aimed /\ Derived
    BY TypeInit, AimedInit, DerivedInit
  <1>2. TypeOK /\ Aimed /\ Derived /\ [Next]_vars => TypeOK' /\ Aimed' /\ Derived'
    BY TypeStep, AimedStep, DerivedStep
  <1>3. Derived => PayStatusFollows
    BY DEF Derived
  <1> QED
    BY <1>1, <1>2, <1>3, PTL DEF Spec

------------------------------------------------------------------------------
\* One act at a time

Working(a) == pc[a] \notin {"idle", "ended"}

Alone == \A a, b \in Acts : Working(a) /\ Working(b) => a = b

\* A press makes its act the only one at work; a step lets no other begin.
LEMMA Turns ==
  ASSUME TypeOK, [Next]_vars, "overlap" \notin Interference
  PROVE  \/ UNCHANGED <<pc, own>>
         \/ \E a \in Acts : /\ \A b \in Acts \ {a} : pc'[b] = pc[b] /\ own'[b] = own[b]
                            /\ Working(a) \/ \A b \in Acts : ~Working(b)
  <1>1. ASSUME NEW a \in Acts, Press(a)
        PROVE  /\ \A b \in Acts \ {a} : pc'[b] = pc[b] /\ own'[b] = own[b]
               /\ \A b \in Acts : ~Working(b)
    <2>1. MayBegin(a)
      BY <1>1 DEF Press, BeginRecord, BeginRequest, Withdraw, BeginApprove, BeginDecline,
                  BeginMark, BeginSettle
    <2>2. \A b \in Acts \ {a} : pc'[b] = pc[b] /\ own'[b] = own[b]
      BY <1>1 DEF Press, BeginRecord, BeginRequest, Withdraw, BeginApprove, BeginDecline,
                  BeginMark, BeginSettle, Goto, End, TypeOK
    <2> QED
      BY <2>1, <2>2 DEF MayBegin, Working
  <1>2. ASSUME NEW a \in Acts, Serve(a) \/ Crash(a)
        PROVE  /\ \A b \in Acts \ {a} : pc'[b] = pc[b] /\ own'[b] = own[b]
               /\ Working(a)
    <2>1. CASE Crash(a)
      BY <2>1 DEF Crash, End, Goto, Working, TypeOK
    <2>2. CASE ReadItems(a) \/ ReadOrder(a) \/ Count(a) \/ InsertReturn(a)
                 \/ InsertItems(a) \/ RefuseItems(a) \/ Answer(a) \/ Decline(a)
      BY <2>2 DEF ReadItems, ReadOrder, Count, InsertReturn, InsertItems, RefuseItems,
                  Answer, Decline, End, Goto, Working, TypeOK
    <2>3. CASE CheckClaim(a) \/ OpenRequest(a) \/ InsertLines(a) \/ RefuseLines(a)
                 \/ AskGateway(a) \/ AnswerIsLost(a) \/ GatewayRefuses(a)
                 \/ ApplyEvent(a) \/ Stamp(a)
      BY <2>3 DEF CheckClaim, OpenRequest, InsertLines, RefuseLines, AskGateway,
                  AnswerIsLost, GatewayRefuses, ApplyEvent, Stamp, End, Goto,
                  Working, TypeOK
    <2> QED
      BY <1>2, <2>1, <2>2, <2>3 DEF Serve
  <1>3. CASE UNCHANGED vars \/ Webhook \/ Move
    BY <1>3 DEF vars, Webhook, Move
  <1> QED
    BY <1>1, <1>2, <1>3 DEF Next

LEMMA AloneStep ==
  ASSUME TypeOK, Alone, [Next]_vars, "overlap" \notin Interference
  PROVE  Alone'
  <1>1. CASE UNCHANGED <<pc, own>>
    BY <1>1 DEF Alone, Working
  <1>2. ASSUME NEW a \in Acts,
               \A b \in Acts \ {a} : pc'[b] = pc[b] /\ own'[b] = own[b],
               Working(a) \/ \A b \in Acts : ~Working(b)
        PROVE  Alone'
    BY <1>2 DEF Alone, Working
  <1> QED
    BY <1>1, <1>2, Turns

\* There is room for the lines of a return that was counted.
Room ==
  \A a \in Acts, i \in Items :
    pc[a] \in {"insert", "file"} => back[i] + own[a].lines[i] <= Bought[i]

Netted == NeverMoreBack /\ Room

LEMMA NettedStep ==
  ASSUME TypeOK, Alone, Netted, [Next]_vars, "overlap" \notin Interference
  PROVE  Netted'
  <1> USE BoughtAssumption
  <1>1. ASSUME NEW a \in Acts, InsertItems(a) PROVE Netted'
    <2>1. NeverMoreBack'
      BY <1>1 DEF InsertItems, Netted, Room, NeverMoreBack
    <2>2. \A b \in Acts : pc'[b] \notin {"insert", "file"}
      <3>1. \A b \in Acts \ {a} : ~Working(b)
        BY <1>1 DEF Alone, Working, InsertItems
      <3>2. \A b \in Acts \ {a} : pc'[b] = pc[b]
        BY <1>1 DEF InsertItems, End, Goto, TypeOK
      <3>3. pc'[a] \in {"ended", "answer"}
        BY <1>1 DEF InsertItems, End, Goto, TypeOK
      <3> QED
        BY <3>1, <3>2, <3>3 DEF Working
    <2> QED
      BY <2>1, <2>2 DEF Netted, Room
  <1>2. ASSUME UNCHANGED back PROVE Netted'
    <2>1. NeverMoreBack'
      BY <1>2 DEF Netted, NeverMoreBack
    <2>2. ASSUME NEW a \in Acts, NEW i \in Items, pc'[a] \in {"insert", "file"}
          PROVE  back[i] + own'[a].lines[i] <= Bought[i]
      <3>1. CASE pc[a] \in {"insert", "file"} /\ own'[a] = own[a]
        BY <3>1 DEF Netted, Room
      <3>2. CASE Count(a)
        <4>1. own'[a] = own[a] /\ own[a].lines[i] <= Returnable(i)
          BY <2>2, <3>2 DEF Count, End, Goto, TypeOK, Own, Lines, Returnable
        <4>2. own[a].lines \in Lines /\ back \in Lines
          BY DEF TypeOK, Own
        <4> QED
          BY <4>1, <4>2 DEF Returnable, Netted, NeverMoreBack, Lines
      <3>3. \/ pc[a] \in {"insert", "file"} /\ own'[a] = own[a]
            \/ Count(a)
        <4>1. CASE UNCHANGED vars \/ Webhook \/ Move
          BY <2>2, <4>1 DEF vars, Webhook, Move
        <4>2. ASSUME NEW b \in Acts, Press(b) \/ Serve(b) \/ Crash(b), b # a
              PROVE  pc'[a] = pc[a] /\ own'[a] = own[a]
          <5>1. CASE Press(b)
            BY <4>2, <5>1 DEF Press, BeginRecord, BeginRequest, Withdraw, BeginApprove,
               BeginDecline, BeginMark, BeginSettle, Goto, End, TypeOK
          <5>2. CASE Serve(b) \/ Crash(b)
            BY <4>2, <5>2 DEF Crash, Serve, ReadItems, ReadOrder, Count, InsertReturn,
               InsertItems, RefuseItems, Answer, Decline, CheckClaim, OpenRequest,
               InsertLines, RefuseLines, AskGateway, AnswerIsLost, GatewayRefuses,
               ApplyEvent, Stamp, End, Goto, TypeOK
          <5> QED
            BY <4>2, <5>1, <5>2
        <4>3. CASE Press(a) \/ Crash(a)
          BY <2>2, <4>3 DEF Press, BeginRecord, BeginRequest, Withdraw, BeginApprove,
             BeginDecline, BeginMark, BeginSettle, Crash, Goto, End, TypeOK
        <4>4. CASE InsertReturn(a)
          BY <4>4 DEF InsertReturn
        <4>5. CASE Serve(a) /\ ~Count(a) /\ ~InsertReturn(a)
          BY <2>2, <4>5 DEF Serve, ReadItems, ReadOrder,
             InsertItems, RefuseItems, Answer, Decline, CheckClaim, OpenRequest,
             InsertLines, RefuseLines, AskGateway, AnswerIsLost, GatewayRefuses,
             ApplyEvent, Stamp, End, Goto, TypeOK
        <4> QED
          BY <2>2, <4>1, <4>2, <4>3, <4>4, <4>5 DEF Next
      <3> QED
        BY <3>1, <3>2, <3>3
    <2> QED
      BY <1>2, <2>1, <2>2 DEF Netted, Room
  <1>3. CASE Move
    BY <1>2, <1>3 DEF Move
  <1> QED
    BY <1>1, <1>2, <1>3, GoodsMovers DEF goods

\* Unless acts overlap, no more of a product comes back than was bought.
THEOREM NeverTooMuchBack ==
  ASSUME "overlap" \notin Interference
  PROVE  Spec => []NeverMoreBack
  <1>1. Init => TypeOK /\ Aimed /\ Alone /\ Netted
    BY TypeInit, AimedInit, BoughtAssumption
       DEF Init, Alone, Working, Netted, NeverMoreBack, Room, NoLines
  <1>2. TypeOK /\ Aimed /\ Alone /\ Netted /\ [Next]_vars
          => TypeOK' /\ Aimed' /\ Alone' /\ Netted'
    BY TypeStep, AimedStep, AloneStep, NettedStep
  <1>3. Netted => NeverMoreBack
    BY DEF Netted
  <1> QED
    BY <1>1, <1>2, <1>3, PTL DEF Spec

------------------------------------------------------------------------------
\* Money

\* No return was given back more than the deaths explain: the gateway pays one
\* return, a person pays what nobody has paid, and a return that is owed still
\* although a person paid it is being stamped now, or lost its stamp.
Counted ==
  \A r \in Acts :
    /\ paid[r] <= 2
    /\ gateway # r => paid[r] <= 1
    /\ paid[r] = 2 => deaths >= 1
    /\ Owed(r) /\ paid[r] > 0 /\ gateway # r
         => deaths >= 1 \/ \E a \in Acts : pc[a] = "stamp" /\ own[a].of = r

\* A return is made by an act that is past its beginning, and asked for while
\* it is owed.
Begun ==
  \A a \in Acts :
    /\ ret[a].made => pc[a] # "idle"
    /\ pc[a] = "ask" => own[a].of \in Acts /\ Owed(own[a].of)

\* Only these write what Counted speaks of.
LEMMA MoneyKept ==
  ASSUME NEW a \in Acts, Serve(a), ~InsertReturn(a), ~RefuseItems(a),
         ~AskGateway(a), ~AnswerIsLost(a), ~Stamp(a)
  PROVE  UNCHANGED <<ret, gateway, paid, deaths>>
  BY DEF Serve, ReadItems, ReadOrder, Count, InsertItems, Answer, Decline, CheckClaim,
         OpenRequest, InsertLines, RefuseLines, GatewayRefuses, ApplyEvent, docs, money

LEMMA BegunStep ==
  ASSUME TypeOK, Alone, Begun, [Next]_vars, "overlap" \notin Interference
  PROVE  Begun'
  <1>1. CASE UNCHANGED <<pc, own, ret>>
    BY <1>1 DEF Begun, Owed
  <1>2. ASSUME NEW a \in Acts, Press(a) PROVE Begun'
    <2>1. ret' = ret /\ pc'[a] # "idle" /\ \A b \in Acts \ {a} : pc'[b] = pc[b]
      BY <1>2 DEF Press, BeginRecord, BeginRequest, Withdraw, BeginApprove, BeginDecline,
                  BeginMark, BeginSettle, Goto, End, docs, TypeOK
    <2>2. \A b \in Acts \ {a} : own'[b] = own[b]
      BY <1>2 DEF Press, BeginRecord, BeginRequest, Withdraw, BeginApprove, BeginDecline,
                  BeginMark, BeginSettle, End, TypeOK
    <2>3. pc'[a] = "ask" => own'[a].of \in Acts /\ Owed(own'[a].of)
      BY <1>2 DEF Press, BeginRecord, BeginRequest, Withdraw, BeginApprove, BeginDecline,
                  BeginMark, BeginSettle, Goto, End, Fresh, TypeOK
    <2> QED
      BY <2>1, <2>2, <2>3 DEF Begun, Owed
  <1>3. ASSUME NEW a \in Acts, Serve(a) PROVE Begun'
    <2>1. /\ Working(a) /\ pc'[a] \notin {"idle", "ask"}
          /\ \A b \in Acts \ {a} : pc'[b] = pc[b] /\ own'[b] = own[b]
      <3>1. CASE ReadItems(a) \/ ReadOrder(a) \/ Count(a) \/ InsertReturn(a)
                   \/ InsertItems(a) \/ RefuseItems(a) \/ Answer(a) \/ Decline(a)
        BY <3>1 DEF ReadItems, ReadOrder, Count, InsertReturn, InsertItems, RefuseItems,
                    Answer, Decline, End, Goto, Working, TypeOK
      <3>2. CASE CheckClaim(a) \/ OpenRequest(a) \/ InsertLines(a) \/ RefuseLines(a)
                   \/ AskGateway(a) \/ AnswerIsLost(a) \/ GatewayRefuses(a)
                   \/ ApplyEvent(a) \/ Stamp(a)
        BY <3>2 DEF CheckClaim, OpenRequest, InsertLines, RefuseLines, AskGateway,
                    AnswerIsLost, GatewayRefuses, ApplyEvent, Stamp, End, Goto,
                    Working, TypeOK
      <3> QED
        BY <1>3, <3>1, <3>2 DEF Serve
    <2>2. \A b \in Acts : pc'[b] # "ask"
      BY <2>1 DEF Alone, Working
    <2>3. \A r \in Acts : ret'[r].made => ret[r].made \/ r = a
      <3>1. CASE InsertReturn(a) \/ RefuseItems(a)
        BY <3>1 DEF InsertReturn, RefuseItems, SyncRefundStatus, TypeOK
      <3>2. CASE Stamp(a)
        BY <3>2 DEF Stamp, SyncRefundStatus, TypeOK, Return
      <3>3. CASE AskGateway(a) \/ AnswerIsLost(a)
        BY <3>3 DEF AskGateway, AnswerIsLost, docs
      <3> QED
        BY <1>3, <3>1, <3>2, <3>3, MoneyKept
    <2> QED
      BY <2>1, <2>2, <2>3 DEF Begun
  <1>4. ASSUME NEW a \in Acts, Crash(a) PROVE Begun'
    BY <1>4 DEF Crash, End, Goto, Begun, Owed, docs, TypeOK
  <1>5. CASE UNCHANGED vars \/ Webhook \/ Move
    BY <1>1, <1>5 DEF vars, Webhook, Move, docs
  <1> QED
    BY <1>2, <1>3, <1>4, <1>5 DEF Next

LEMMA CountedStep ==
  ASSUME TypeOK, Alone, Begun, Counted, [Next]_vars, "overlap" \notin Interference
  PROVE  Counted'
  <1>1. CASE UNCHANGED vars \/ Webhook \/ Move
    BY <1>1 DEF vars, Webhook, Move, Counted, Owed, docs, money
  <1>2. ASSUME NEW a \in Acts, Press(a), \A b \in Acts : ~BeginMark(a, b)
        PROVE  Counted'
    <2>1. UNCHANGED <<ret, gateway, paid, deaths>>
      BY <1>2 DEF Press, BeginRecord, BeginRequest, Withdraw, BeginApprove, BeginDecline,
                  BeginSettle, docs, money
    <2>2. pc[a] = "idle" /\ \A b \in Acts \ {a} : pc'[b] = pc[b] /\ own'[b] = own[b]
      BY <1>2 DEF Press, BeginRecord, BeginRequest, Withdraw, BeginApprove, BeginDecline,
                  BeginSettle, MayBegin, Goto, End, TypeOK
    <2>3. \A b \in Acts : pc[b] = "stamp" => pc'[b] = "stamp" /\ own'[b] = own[b]
      BY <2>2
    <2> QED
      BY <2>1, <2>3 DEF Counted, Owed
  <1>3. ASSUME NEW a \in Acts, NEW b \in Acts, BeginMark(a, b) PROVE Counted'
    <2>1. /\ UNCHANGED <<ret, gateway, deaths>>
          /\ paid' = [paid EXCEPT ![b] = IF @ = 0 THEN 1 ELSE @]
          /\ pc[a] = "idle" /\ pc'[a] = "stamp" /\ own'[a].of = b
          /\ \A c \in Acts \ {a} : pc'[c] = pc[c] /\ own'[c] = own[c]
      BY <1>3 DEF BeginMark, MayBegin, Goto, docs, Fresh, TypeOK
    <2>2. \A c \in Acts : pc[c] = "stamp" => pc'[c] = "stamp" /\ own'[c] = own[c]
      BY <2>1
    <2>3. ASSUME NEW r \in Acts, r # b
          PROVE  paid'[r] = paid[r] /\ (Owed(r)' <=> Owed(r))
      BY <2>1, <2>3 DEF Owed, TypeOK
    <2>4. paid'[b] = IF paid[b] = 0 THEN 1 ELSE paid[b]
      BY <2>1 DEF TypeOK
    <2>5. ASSUME NEW r \in Acts, r # b
          PROVE  /\ paid'[r] <= 2
                 /\ gateway' # r => paid'[r] <= 1
                 /\ paid'[r] = 2 => deaths' >= 1
                 /\ Owed(r)' /\ paid'[r] > 0 /\ gateway' # r
                      => deaths' >= 1 \/ \E c \in Acts : pc'[c] = "stamp" /\ own'[c].of = r
      BY <2>1, <2>2, <2>3, <2>5 DEF Counted
    <2>6. /\ paid'[b] <= 2
          /\ gateway' # b => paid'[b] <= 1
          /\ paid'[b] = 2 => deaths' >= 1
      BY <2>1, <2>4 DEF Counted, TypeOK
    <2> QED
      BY <2>1, <2>5, <2>6 DEF Counted
  <1>4. ASSUME NEW a \in Acts, Crash(a) PROVE Counted'
    BY <1>4 DEF Crash, Counted, Owed, docs, money, TypeOK
  <1>5. ASSUME NEW a \in Acts, Serve(a), ~InsertReturn(a), ~RefuseItems(a),
               ~AskGateway(a), ~AnswerIsLost(a), ~Stamp(a)
        PROVE  Counted'
    <2>1. UNCHANGED <<ret, gateway, paid, deaths>>
      BY <1>5, MoneyKept
    <2>2. pc[a] # "stamp" /\ \A b \in Acts \ {a} : pc'[b] = pc[b] /\ own'[b] = own[b]
      BY <1>5 DEF Serve, ReadItems, ReadOrder, Count, InsertItems, Answer, Decline,
                  CheckClaim, OpenRequest, InsertLines, RefuseLines, GatewayRefuses,
                  ApplyEvent, End, Goto, TypeOK
    <2>3. \A b \in Acts : pc[b] = "stamp" => pc'[b] = "stamp" /\ own'[b] = own[b]
      BY <2>2
    <2> QED
      BY <2>1, <2>3 DEF Counted, Owed
  <1>6. ASSUME NEW a \in Acts, InsertReturn(a) \/ RefuseItems(a) PROVE Counted'
    <2>1. /\ UNCHANGED <<gateway, deaths>>
          /\ \A r \in Acts \ {a} : paid'[r] = paid[r] /\ (Owed(r)' <=> Owed(r))
      BY <1>6 DEF InsertReturn, RefuseItems, SyncRefundStatus, Owed, TypeOK
    <2>2. paid'[a] \in {0, 1} /\ (paid'[a] > 0 => ~Owed(a)')
      <3>1. CASE RefuseItems(a)
        BY <3>1 DEF RefuseItems, TypeOK
      <3>2. CASE InsertReturn(a)
        <4> DEFINE byHand == own[a].refund > 0 /\ ~own[a].byGateway
        <4>1. ret'[a].settled = byHand /\ paid'[a] = IF byHand THEN 1 ELSE 0
          BY <3>2 DEF InsertReturn, SyncRefundStatus, TypeOK
        <4> HIDE DEF byHand
        <4> QED
          BY <4>1 DEF Owed
      <3> QED
        BY <1>6, <3>1, <3>2
    <2>3. pc[a] # "stamp" /\ \A b \in Acts \ {a} : pc'[b] = pc[b] /\ own'[b] = own[b]
      BY <1>6 DEF InsertReturn, RefuseItems, End, Goto, TypeOK
    <2>4. \A b \in Acts : pc[b] = "stamp" => pc'[b] = "stamp" /\ own'[b] = own[b]
      BY <2>3
    <2>5. ASSUME NEW r \in Acts, r # a
          PROVE  /\ paid'[r] <= 2
                 /\ gateway' # r => paid'[r] <= 1
                 /\ paid'[r] = 2 => deaths' >= 1
                 /\ Owed(r)' /\ paid'[r] > 0 /\ gateway' # r
                      => deaths' >= 1 \/ \E c \in Acts : pc'[c] = "stamp" /\ own'[c].of = r
      BY <2>1, <2>4, <2>5 DEF Counted
    <2> QED
      BY <2>2, <2>5 DEF Counted
  <1>7. ASSUME NEW a \in Acts, AskGateway(a) \/ AnswerIsLost(a) PROVE Counted'
    <2> DEFINE r == own[a].of
    <2>1. r \in Acts /\ Owed(r) /\ pc[a] = "ask"
      BY <1>7 DEF AskGateway, AnswerIsLost, Begun
    <2>2. \A b \in Acts : pc[b] # "stamp"
      BY <2>1 DEF Alone, Working
    <2>3. ret' = ret /\ deaths' = deaths
      BY <1>7 DEF AskGateway, AnswerIsLost, docs
    <2>4. CASE gateway # NoAct
      <3>1. gateway' = gateway /\ paid' = paid
        BY <1>7, <2>4 DEF AskGateway, AnswerIsLost, Refund
      <3> QED
        BY <2>2, <2>3, <3>1 DEF Counted, Owed
    <2>5. CASE gateway = NoAct
      <3>1. gateway' = r /\ paid' = [paid EXCEPT ![r] = @ + 1]
        BY <1>7, <2>5 DEF AskGateway, AnswerIsLost, Refund
      <3>2. r # NoAct
        BY <2>1, NoActAssumption
      <3>3. paid[r] <= 1 /\ (paid[r] > 0 => deaths >= 1)
        BY <2>1, <2>2, <2>5, <3>2 DEF Counted
      <3>4. paid'[r] = paid[r] + 1 /\ \A s \in Acts \ {r} : paid'[s] = paid[s]
        BY <2>1, <3>1 DEF TypeOK
      <3>5. \A s \in Acts \ {r} : s # gateway
        BY <2>5, NoActAssumption
      <3>6. \A s \in Acts \ {r} : /\ paid'[s] <= 1
                                  /\ Owed(s)' /\ paid'[s] > 0 => deaths' >= 1
        BY <2>2, <2>3, <3>4, <3>5 DEF Counted, Owed
      <3>7. paid'[r] <= 2 /\ (paid'[r] = 2 => deaths' >= 1)
        BY <2>1, <2>3, <3>3, <3>4 DEF TypeOK
      <3>8. \A s \in Acts \ {r} : paid'[s] # 2
        BY <3>6, <3>4 DEF TypeOK
      <3> HIDE DEF r
      <3> QED
        BY <2>1, <3>1, <3>6, <3>7, <3>8, <3>4 DEF Counted, TypeOK
    <2> QED
      BY <2>4, <2>5
  <1>8. ASSUME NEW a \in Acts, Stamp(a) PROVE Counted'
    <2>1. UNCHANGED <<gateway, paid, deaths>> /\ pc[a] = "stamp"
      BY <1>8 DEF Stamp, money
    <2>0. ret' = ret \/ ret' = [ret EXCEPT ![own[a].of].settled = TRUE]
      BY <1>8 DEF Stamp, SyncRefundStatus
    <2>2. ASSUME NEW r \in Acts, r = own[a].of PROVE ~Owed(r)'
      <3>1. CASE ret[r].made /\ ~ret[r].settled
        <4>1. ret' = [ret EXCEPT ![r].settled = TRUE]
          BY <1>8, <2>2, <3>1 DEF Stamp, SyncRefundStatus
        <4>2. ret'[r].settled
          BY <4>1 DEF TypeOK, Return
        <4> QED
          BY <4>2 DEF Owed
      <3>2. CASE ~(ret[r].made /\ ~ret[r].settled)
        <4>1. ret' = ret
          BY <1>8, <2>2, <3>2 DEF Stamp
        <4> QED
          BY <3>2, <4>1 DEF Owed
      <3> QED
        BY <3>1, <3>2
    <2>3. \A r \in Acts : Owed(r)' => Owed(r)
      <3>1. \A r \in Acts : \/ ret'[r] = ret[r]
                            \/ ret'[r] = [ret[r] EXCEPT !.settled = TRUE]
        BY <2>0 DEF TypeOK
      <3>2. \A r \in Acts : ret[r] \in Return
        BY DEF TypeOK
      <3> QED
        BY <3>1, <3>2 DEF Owed, Return
    <2>4. \A b \in Acts \ {a} : pc'[b] = pc[b] /\ own'[b] = own[b]
      BY <1>8 DEF Stamp, End, Goto, TypeOK
    <2>5. \A r \in Acts : Owed(r)' =>
            \A b \in Acts : pc[b] = "stamp" /\ own[b].of = r
                              => pc'[b] = "stamp" /\ own'[b].of = r
      BY <2>2, <2>4
    <2> QED
      BY <2>1, <2>3, <2>5 DEF Counted
  <1> QED
    BY <1>1, <1>2, <1>3, <1>4, <1>5, <1>6, <1>7, <1>8 DEF Next, Press

\* Unless acts overlap, the money of a return is given back once, and again
\* only because of a death, however often the gateway is asked.
THEOREM PaidOnce ==
  ASSUME "overlap" \notin Interference
  PROVE  Spec => []PaidOutOnce
  <1>1. Init => TypeOK /\ Aimed /\ Alone /\ Begun /\ Counted
    <2> SUFFICES ASSUME Init PROVE Alone /\ Begun /\ Counted
      BY TypeInit, AimedInit
    <2>1. \A a \in Acts : pc[a] = "idle" /\ paid[a] = 0 /\ ~ret[a].made
      BY DEF Init, NoReturn
    <2> QED
      BY <2>1 DEF Alone, Working, Begun, Counted
  <1>2. TypeOK /\ Aimed /\ Alone /\ Begun /\ Counted /\ [Next]_vars
          => TypeOK' /\ Aimed' /\ Alone' /\ Begun' /\ Counted'
    BY TypeStep, AimedStep, AloneStep, BegunStep, CountedStep
  <1>3. TypeOK /\ Counted => PaidOutOnce
    BY MaxDeathsAssumption DEF TypeOK, Counted, PaidOutOnce
  <1> QED
    BY <1>1, <1>2, <1>3, PTL DEF Spec
=============================================================================
