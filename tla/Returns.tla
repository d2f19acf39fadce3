------------------------------- MODULE Returns -------------------------------
(* What comes back of one order: buyers' requests, return documents, the    *)
(* goods put back on the shelf and the money given back.  Each act is one   *)
(* press of a button by staff or the buyer, split where the code awaits.    *)
EXTENDS Integers, FiniteSetsExt

CONSTANTS
  Acts,          \* requests served: each presses one button once
  Items,         \* the products of the order
  Bought,        \* how many of each
  Total,         \* orders.total
  Amounts,       \* refunds that staff may type
  Card,          \* orders.pay_method is 'card'
  NoAct,
  MaxDeaths,
  Interference   \* what the environment produces
                 \*   "overlap"  acts are served at the same time
                 \*   "crash"    a request dies between two awaits
                 \*   "refused"  the database refuses the lines of a return
                 \*   "webhook"  the gateway tells of its refund by webhook

ASSUME NoActAssumption == NoAct \notin Acts
ASSUME BoughtAssumption == Bought \in [Items -> Nat \ {0}]
ASSUME MoneyAssumption == Total \in Nat \ {0} /\ Amounts \subseteq Nat
ASSUME CardAssumption == Card \in BOOLEAN
ASSUME MaxDeathsAssumption == MaxDeaths \in Nat
ASSUME InterferenceAssumption ==
  Interference \subseteq {"overlap", "crash", "refused", "webhook"}

VARIABLES
  status,     \* orders.status
  payStatus,  \* orders.pay_status
  payment,    \* status of the order's card payment, "none" if it has none
  ret,        \* ret[a]: the row of order_returns that act a inserted
  req,        \* req[a]: the row of return_requests that act a inserted
  sized,      \* the products that were bought in a size: fixed
  back,       \* sum of qty over the order's order_return_items
  shelved,    \* the same over those marked restock
  out,        \* taken by the order's 'sale' and 'return' movements of its own size
  pool,       \* taken by its movements that name no size, of sized products
  gateway,    \* external: whose refund the order's one transaction id made
  asOf,       \* history: shelved as of the last write of the order's status
  paid,       \* history: how often the money of a return was given back
  deaths,     \* history: requests that died
  pc, own

goods == <<sized, back, shelved, out, pool, asOf>>
money == <<payment, gateway, paid>>
docs == <<ret, req>>
vars == <<status, payStatus, money, docs, goods, deaths, pc, own>>

OrderStatus == {"arrived", "completed", "cancelled"}
PayStatus == {"unpaid", "paid", "deposit", "refunded"}
PC == {"idle", "ended", "lines", "order", "count", "insert", "file", "answer",
       "declining", "claim", "open", "list", "mark", "ask", "record", "stamp"}
Lines == [Items -> Nat]
NoLines == [i \in Items |-> 0]
Return == [made : BOOLEAN, refund : Amounts \cup {0}, settled : BOOLEAN,
           of : Acts \cup {NoAct}]
NoReturn == [made |-> FALSE, refund |-> 0, settled |-> FALSE, of |-> NoAct]
Request == [status : {"none", "open", "approved", "declined", "cancelled"},
            lines : Lines]
NoRequest == [status |-> "none", lines |-> NoLines]
Own == [lines : Lines,                  \* what it wants to send or take back
        refund : Amounts \cup {0},
        restock : SUBSET Items,         \* the products fit to sell again
        byGateway : BOOLEAN,            \* needsGateway
        of : Acts \cup {NoAct},         \* the request or return it is about
        reply : {"captured", "refunded"}]
Fresh == [lines |-> NoLines, refund |-> 0, restock |-> {}, byGateway |-> FALSE,
          of |-> NoAct, reply |-> "captured"]

OpenRequests == {q \in Acts : req[q].status = "open"}

TypeOK ==
  /\ status \in OrderStatus
  /\ payStatus \in PayStatus
  /\ payment \in {"none", "captured", "refunded"}
  /\ ret \in [Acts -> Return]
  /\ req \in [Acts -> Request]
  /\ sized \subseteq Items
  /\ back \in Lines
  /\ shelved \in Lines
  /\ out \in [Items -> Int]
  /\ pool \in [Items -> Int]
  /\ asOf \in Lines
  /\ gateway \in Acts \cup {NoAct}
  /\ paid \in [Acts -> Nat]
  /\ deaths \in 0..MaxDeaths
  /\ pc \in [Acts -> PC]
  /\ own \in [Acts -> Own]

\* An order that was delivered: all of it sold, a card paid.
Init ==
  /\ status \in {"arrived", "completed"}
  /\ payStatus \in (IF Card THEN {"paid"} ELSE {"unpaid", "paid"})
  /\ payment = (IF Card THEN "captured" ELSE "none")
  /\ ret = [a \in Acts |-> NoReturn]
  /\ req = [a \in Acts |-> NoRequest]
  /\ sized \in SUBSET Items
  /\ back = NoLines /\ shelved = NoLines /\ asOf = NoLines
  /\ out = Bought /\ pool = NoLines
  /\ gateway = NoAct /\ paid = [a \in Acts |-> 0] /\ deaths = 0
  /\ pc = [a \in Acts |-> "idle"]
  /\ own = [a \in Acts |-> Fresh]

Goto(a, label) == pc' = [pc EXCEPT ![a] = label]
End(a) == Goto(a, "ended") /\ own' = [own EXCEPT ![a] = Fresh]

MayBegin(a) ==
  /\ pc[a] = "idle"
  /\ \A b \in Acts : pc[b] \in {"idle", "ended"} \/ "overlap" \in Interference


\* What a person may type: something, and no more of a product than was bought.
Typed == {l \in [Items -> UNION {0..Bought[i] : i \in Items}] :
            l # NoLines /\ \A i \in Items : l[i] <= Bought[i]}

------------------------------------------------------------------------------
\* The trigger on order_returns

\* Of the returns r, those that are stamped as refunded, and their money.
Stamped(r) == {a \in DOMAIN r : r[a].made /\ r[a].settled}
Moved(r) == MapThenSumSet(LAMBDA a : r[a].refund, Stamped(r))

\* As supabase/returns.sql has it: what is not stamped counts too.
MutantSyncRefundStatus(r) ==
  LET all == MapThenSumSet(LAMBDA a : r[a].refund, {a \in DOMAIN r : r[a].made})
  IN /\ ret' = r
     /\ payStatus' = IF all <= 0 THEN payStatus
                     ELSE IF all >= Total THEN "refunded" ELSE "deposit"

\* sync_order_refund_status: every write of order_returns derives pay_status.
SyncRefundStatus(r) ==
  /\ ret' = r
  /\ payStatus' = IF Moved(r) <= 0 THEN payStatus
                  ELSE IF Moved(r) >= Total THEN "refunded" ELSE "deposit"

------------------------------------------------------------------------------
\* recordReturn, alone or called by approveReturnRequest

BeginRecord(a) ==
  /\ MayBegin(a)
  /\ \E l \in Typed, m \in Amounts, s \in SUBSET Items :
       own' = [own EXCEPT ![a] = [Fresh EXCEPT !.lines = l, !.refund = m,
                                               !.restock = s]]
  /\ Goto(a, "order")
  /\ UNCHANGED <<status, payStatus, money, docs, goods, deaths>>

BeginApprove(a, q) ==
  /\ MayBegin(a)
  /\ req[q].status = "open"
  /\ own' = [own EXCEPT ![a] = [Fresh EXCEPT !.of = q]]
  /\ Goto(a, "lines")
  /\ UNCHANGED <<status, payStatus, money, docs, goods, deaths>>

\* Lines come from the request, refund and restock from the person.
ReadItems(a) ==
  /\ pc[a] = "lines"
  /\ IF req[own[a].of].lines = NoLines
       THEN End(a)
       ELSE /\ \E m \in Amounts, s \in SUBSET Items :
                 own' = [own EXCEPT ![a].lines = req[own[a].of].lines,
                                    ![a].refund = m, ![a].restock = s]
            /\ Goto(a, "order")
  /\ UNCHANGED <<status, payStatus, money, docs, goods, deaths>>

ReadOrder(a) ==
  /\ pc[a] = "order"
  /\ own' = [own EXCEPT ![a].byGateway = Card /\ payStatus \in {"paid", "deposit"}]
  /\ Goto(a, "count")
  /\ UNCHANGED <<status, payStatus, money, docs, goods, deaths>>

\* Earlier returns are not netted off.
MutantReturnable(i) == Bought[i]

\* returnableQty, over the lines that earlier returns have.
Returnable(i) == IF Bought[i] > back[i] THEN Bought[i] - back[i] ELSE 0

\* (The two reads of earlier returns are one step.)
Count(a) ==
  /\ pc[a] = "count"
  /\ IF \/ \E i \in Items : own[a].lines[i] > Returnable(i)
        \/ own[a].refund > Total
       THEN End(a)
       ELSE Goto(a, "insert") /\ UNCHANGED own
  /\ UNCHANGED <<status, payStatus, money, docs, goods, deaths>>

\* What no gateway is needed for was handed over at the counter.
InsertReturn(a) ==
  /\ pc[a] = "insert"
  /\ LET byHand == own[a].refund > 0 /\ ~own[a].byGateway
     IN /\ SyncRefundStatus([ret EXCEPT ![a] =
             [made |-> TRUE, refund |-> own[a].refund, settled |-> byHand,
              of |-> own[a].of]])
        /\ paid' = [paid EXCEPT ![a] = IF byHand THEN 1 ELSE 0]
  /\ Goto(a, "file")
  /\ UNCHANGED <<status, payment, gateway, req, goods, deaths, own>>

\* Damaged goods are put back on the shelf as well.
MutantRestocked(a) == own[a].lines

\* apply_return_restock: the lines that become movements.
Restocked(a) == [i \in Items |-> IF i \in own[a].restock THEN own[a].lines[i] ELSE 0]

\* The movements of the trigger name no size.
InsertItems(a) ==
  /\ pc[a] = "file"
  /\ back' = [i \in Items |-> back[i] + own[a].lines[i]]
  /\ shelved' = [i \in Items |-> shelved[i]
                   + IF i \in own[a].restock THEN own[a].lines[i] ELSE 0]
  /\ out' = [i \in Items |-> IF i \in sized THEN out[i]
                                            ELSE out[i] - Restocked(a)[i]]
  /\ pool' = [i \in Items |-> IF i \in sized THEN pool[i] - Restocked(a)[i]
                                             ELSE pool[i]]
  /\ IF own[a].of = NoAct THEN End(a) ELSE Goto(a, "answer") /\ UNCHANGED own
  /\ UNCHANGED <<status, payStatus, money, docs, sized, asOf, deaths>>

\* The lines are refused: the return is deleted and the person told so.
RefuseItems(a) ==
  /\ "refused" \in Interference
  /\ pc[a] = "file"
  /\ SyncRefundStatus([ret EXCEPT ![a] = NoReturn])
  /\ paid' = [paid EXCEPT ![a] = 0]
  /\ End(a)
  /\ UNCHANGED <<status, payment, gateway, req, goods, deaths>>

\* By id, whatever the request has become.
Answer(a) ==
  /\ pc[a] = "answer"
  /\ req' = [req EXCEPT ![own[a].of].status = "approved"]
  /\ End(a)
  /\ UNCHANGED <<status, payStatus, money, ret, goods, deaths>>

------------------------------------------------------------------------------
\* The buyer's requests

BeginDecline(a, q) ==
  /\ MayBegin(a)
  /\ req[q].status = "open"
  /\ own' = [own EXCEPT ![a] = [Fresh EXCEPT !.of = q]]
  /\ Goto(a, "declining")
  /\ UNCHANGED <<status, payStatus, money, docs, goods, deaths>>

Decline(a) ==
  /\ pc[a] = "declining"
  /\ req' = [req EXCEPT ![own[a].of].status = IF @ = "open" THEN "declined" ELSE @]
  /\ End(a)
  /\ UNCHANGED <<status, payStatus, money, ret, goods, deaths>>

BeginRequest(a) ==
  /\ MayBegin(a)
  /\ status \in {"arrived", "completed"}
  /\ \E l \in Typed : own' = [own EXCEPT ![a] = [Fresh EXCEPT !.lines = l]]
  /\ Goto(a, "claim")
  /\ UNCHANGED <<status, payStatus, money, docs, goods, deaths>>

\* returnableForBuyer nets off what an open request claims too.
CheckClaim(a) ==
  /\ pc[a] = "claim"
  /\ LET claimed(i) == MapThenSumSet(LAMBDA q : req[q].lines[i], OpenRequests)
     IN IF \E i \in Items : own[a].lines[i] > Returnable(i) - claimed(i)
          THEN End(a)
          ELSE Goto(a, "open") /\ UNCHANGED own
  /\ UNCHANGED <<status, payStatus, money, docs, goods, deaths>>

\* The index on open requests lets one in; a second is answered with it.
OpenRequest(a) ==
  /\ pc[a] = "open"
  /\ IF OpenRequests # {}
       THEN End(a) /\ UNCHANGED req
       ELSE /\ req' = [req EXCEPT ![a].status = "open"]
            /\ Goto(a, "list")
            /\ UNCHANGED own
  /\ UNCHANGED <<status, payStatus, money, ret, goods, deaths>>

InsertLines(a) ==
  /\ pc[a] = "list"
  /\ req' = [req EXCEPT ![a].lines = own[a].lines]
  /\ End(a)
  /\ UNCHANGED <<status, payStatus, money, ret, goods, deaths>>

\* Its lines are refused: the request is deleted again.
RefuseLines(a) ==
  /\ "refused" \in Interference
  /\ pc[a] = "list"
  /\ req' = [req EXCEPT ![a] = NoRequest]
  /\ End(a)
  /\ UNCHANGED <<status, payStatus, money, ret, goods, deaths>>

Withdraw(a) ==
  /\ MayBegin(a)
  /\ OpenRequests # {}
  /\ req' = [q \in Acts |-> IF q \in OpenRequests
                            THEN [req[q] EXCEPT !.status = "cancelled"] ELSE req[q]]
  /\ End(a)
  /\ UNCHANGED <<status, payStatus, money, ret, goods, deaths>>

------------------------------------------------------------------------------
\* The money

Owed(r) == ret[r].made /\ ~ret[r].settled /\ ret[r].refund > 0

\* markRefundSettled: a person looks at the gateway's portal, refunds there
\* what has not been refunded yet, and says so here.
BeginMark(a, r) ==
  /\ MayBegin(a)
  /\ Owed(r)
  /\ paid' = [paid EXCEPT ![r] = IF @ = 0 THEN 1 ELSE @]
  /\ own' = [own EXCEPT ![a] = [Fresh EXCEPT !.of = r]]
  /\ Goto(a, "stamp")
  /\ UNCHANGED <<status, payStatus, payment, gateway, docs, goods, deaths>>

\* settleRefundThroughGateway: only a captured payment can be refunded.
BeginSettle(a, r) ==
  /\ MayBegin(a)
  /\ Owed(r)
  /\ payment = "captured"
  /\ own' = [own EXCEPT ![a] = [Fresh EXCEPT !.of = r]]
  /\ Goto(a, "ask")
  /\ UNCHANGED <<status, payStatus, money, docs, goods, deaths>>

\* The transaction id is minted for every try.
MutantRefund(r) == /\ gateway' = r
                   /\ paid' = [paid EXCEPT ![r] = @ + 1]

\* The transaction id is derived from the payment: one moves money, and every
\* later one is answered with the result of the first.
Refund(r) ==
  IF gateway = NoAct
    THEN gateway' = r /\ paid' = [paid EXCEPT ![r] = @ + 1]
    ELSE UNCHANGED <<gateway, paid>>

\* The answer names the order's new status, or only that it was a success.
AskGateway(a) ==
  /\ pc[a] = "ask"
  /\ Refund(own[a].of)
  /\ \E reply \in {"captured", "refunded"} : own' = [own EXCEPT ![a].reply = reply]
  /\ Goto(a, "record")
  /\ UNCHANGED <<status, payStatus, payment, docs, goods, deaths>>

\* It did, and the answer does not come within the time allowed.
AnswerIsLost(a) ==
  /\ pc[a] = "ask"
  /\ Refund(own[a].of)
  /\ End(a)
  /\ UNCHANGED <<status, payStatus, payment, docs, goods, deaths>>

GatewayRefuses(a) ==
  /\ pc[a] = "ask"
  /\ End(a)
  /\ UNCHANGED <<status, payStatus, money, docs, goods, deaths>>

\* orderPayStatusFor: a payment that is refunded makes its order so, however
\* little of it was refunded.
Mirror == /\ payment' = "refunded"
          /\ payStatus' = "refunded"

\* refundOrderPayment hands the answer to applyProviderEvent.
ApplyEvent(a) ==
  /\ pc[a] = "record"
  /\ IF own[a].reply = "refunded" /\ payment = "captured"
       THEN Mirror
       ELSE UNCHANGED <<payment, payStatus>>
  /\ Goto(a, "stamp")
  /\ UNCHANGED <<status, gateway, paid, docs, goods, deaths, own>>

\* refunded_at, unless it is there already.
Stamp(a) ==
  /\ pc[a] = "stamp"
  /\ LET r == own[a].of
     IN IF ret[r].made /\ ~ret[r].settled
          THEN SyncRefundStatus([ret EXCEPT ![r].settled = TRUE])
          ELSE UNCHANGED <<ret, payStatus>>
  /\ End(a)
  /\ UNCHANGED <<status, money, req, goods, deaths>>

\* External: the gateway tells of the refund by itself.
Webhook ==
  /\ "webhook" \in Interference
  /\ gateway # NoAct /\ payment = "captured"
  /\ Mirror
  /\ UNCHANGED <<status, gateway, paid, docs, goods, deaths, pc, own>>

------------------------------------------------------------------------------
\* The order's status, and the end of a server

Onward == [arrived |-> {"arrived", "completed", "cancelled"},
           completed |-> {"completed"}, cancelled |-> {}]

\* setOrderStatus: the stock trigger brings the movements of the order, each
\* under its own size, to what the status asks for. Of goods without one, the
\* movements of a return are among them.
Move ==
  /\ \E to \in Onward[status] :
       /\ status' = to
       /\ out' = IF to = "cancelled" THEN NoLines ELSE Bought
  /\ asOf' = shelved
  /\ UNCHANGED <<payStatus, money, docs, sized, back, shelved, pool, deaths, pc, own>>

Crash(a) ==
  /\ "crash" \in Interference
  /\ pc[a] \notin {"idle", "ended"}
  /\ deaths < MaxDeaths
  /\ deaths' = deaths + 1
  /\ End(a)
  /\ UNCHANGED <<status, payStatus, money, docs, goods>>

Press(a) ==
  \/ BeginRecord(a) \/ BeginRequest(a) \/ Withdraw(a)
  \/ \E b \in Acts : BeginApprove(a, b) \/ BeginDecline(a, b)
  \/ \E b \in Acts : BeginMark(a, b) \/ BeginSettle(a, b)

Serve(a) ==
  \/ ReadItems(a) \/ ReadOrder(a) \/ Count(a)
  \/ InsertReturn(a) \/ InsertItems(a) \/ RefuseItems(a) \/ Answer(a)
  \/ Decline(a)
  \/ CheckClaim(a) \/ OpenRequest(a) \/ InsertLines(a) \/ RefuseLines(a)
  \/ AskGateway(a) \/ AnswerIsLost(a) \/ GatewayRefuses(a)
  \/ ApplyEvent(a) \/ Stamp(a)

Next ==
  \/ \E a \in Acts : Press(a) \/ Serve(a) \/ Crash(a)
  \/ Webhook
  \/ Move

Spec == Init /\ [][Next]_vars

------------------------------------------------------------------------------
\* What is promised

\* No more of a product comes back than was bought: what a return may take is
\* counted anew, whoever died in the middle of which earlier return
\* (recordReturn, returns.ts:51-84).
NeverMoreBack == \A i \in Items : back[i] <= Bought[i]

\* The money of a return is given back once: by hand or by the gateway, asked
\* as often as its answers are lost.  Only a person whose request died after
\* refunding at the portal leaves it to be refunded again (moveMoney,
\* settleRefundThroughGateway, markRefundSettled).
PaidOutOnce == \A r \in Acts : paid[r] <= 1 + deaths

\* The order's payment status follows the refunds that are stamped, through
\* three writers: the trigger, the reply of the gateway and its webhook.  Only
\* the last two may call a part of the money 'refunded'.
PayStatusFollows ==
  Stamped(ret) # {} =>
    \/ Moved(ret) <= 0
    \/ IF Moved(ret) >= Total
         THEN payStatus = "refunded"
         ELSE \/ payStatus = "deposit"
              \/ payStatus = "refunded" /\ gateway # NoAct

\* While the order stands, what it takes from the shelf is what was bought
\* less what came back fit to sell (apply_return_restock): whatever its status
\* does afterwards, if the product was bought in a size, and until its status
\* is next written, if it was not -- sync_order_stock_state then takes what
\* came back off the shelf again.
ReturnedIsOnShelf ==
  status # "cancelled" =>
    \A i \in Items :
      out[i] + pool[i] = Bought[i] - (shelved[i] - IF i \in sized THEN 0 ELSE asOf[i])

=============================================================================
