------------------------------ MODULE Payments ------------------------------
(* Card payments of one order: the checkout sessions a buyer opens, the    *)
(* gateway they end up at, and everything that brings the gateway's word   *)
(* back -- webhooks, the browser's return, the reconciliation cron, and    *)
(* refunds and voids asked for by the shop.  All of these go through       *)
(* applyProviderEvent, which is split where the code awaits.               *)
EXTENDS Integers, Sequences, FiniteSets

CONSTANTS
  Payments,     \* clicks on "pay"; each inserts at most one row of that id
  Handlers,     \* requests being served at the same time
  Cron,         \* the handler that only reconciles
  ByHand,       \* pay statuses an owner may type in (setPayStatus)
  RefundReply,  \* what mapStatus may make of the gateway's answer to a refund,
  VoidReply,    \* ... and to a void
  Desk,         \* what the staff do: "refund", "cancel", "complete"
  Words,        \* what the gateway may make of a payment
  MaxPerRun,    \* rows one run of the cron asks about
  MaxCrashes,   \* bound on the requests that die between two awaits
  Interference  \* "overlap": requests are served at the same time

ASSUME CronAssumption == Cron \in Handlers
ASSUME ByHandAssumption == ByHand \subseteq {"unpaid", "deposit", "paid", "refunded"}
ASSUME RefundReplyAssumption == RefundReply \subseteq {"refunded", "captured", "pending"}
ASSUME VoidReplyAssumption == VoidReply \subseteq {"cancelled", "captured", "pending"}
ASSUME DeskAssumption == Desk \subseteq {"refund", "cancel", "complete"}
ASSUME InterferenceAssumption == Interference \subseteq {"overlap"}
ASSUME CrashAssumption == MaxCrashes \in Nat
ASSUME BatchAssumption == MaxPerRun \in Nat \ {0}

PaymentStatus == {"initiated", "pending", "authorized", "captured", "failed",
                  "cancelled", "refunded"}
GatewayStatus == {"none", "open", "authorized", "captured", "short", "silent",
                  "failed", "cancelled", "voided", "refunded"}

ASSUME WordsAssumption == Words \subseteq GatewayStatus

VARIABLES
  pc,         \* pc[p]: where startPaymentForOrder of click p is
  row,        \* row[p]: payments.status, "none" when there is no row
  made,       \* the rows in the order they were created
  redirect,   \* payments whose checkout page the buyer can be sent to
  gateway,    \* gateway[p]: what the gateway knows ("short": took another sum,
              \* "silent": another sum, and does not say which;
              \* "voided": let a hold go because the shop asked)
  posts,      \* webhooks: each may arrive at any time, again, or never
  journal,    \* payment_events: the (payment, event id) pairs recorded
  job,        \* job[h]: the event that handler h is working on
  payStatus,  \* orders.pay_status
  order,      \* orders.status, as far as paying depends on it
  crashes,    \* number of requests that have died
  cut         \* history: payments whose capture died with a request that had
              \* made every repetition of it a duplicate

start == <<pc, made, redirect>>
shop == <<payStatus, order, crashes, cut>>
vars == <<start, row, gateway, posts, journal, job, shop>>

StartPC == {"idle", "looking", "inserting", "opening", "saving", "failing",
            "sent", "refused", "crashed"}
Sources == {"hook", "poll", "refund", "void"}
Event == [payment : Payments, source : Sources, word : GatewayStatus,
          status : PaymentStatus, amount : {"right", "other", "none"}]
Idle == [at |-> "idle"]
Job == [at : {"read", "update", "mirror"}, event : Event]
         \cup [at : {"seen", "journal"}, event : Event, from : PaymentStatus]
         \cup [at : {"paid?", "find refund", "find void"}]
         \cup [at : {"ask refund", "ask void"}, payment : Payments]

TypeOK ==
  /\ pc \in [Payments -> StartPC]
  /\ row \in [Payments -> PaymentStatus \cup {"none"}]
  /\ made \in Seq(Payments)
  /\ redirect \subseteq Payments
  /\ gateway \in [Payments -> GatewayStatus]
  /\ posts \subseteq Event
  /\ journal \subseteq (Payments \X Sources \X GatewayStatus)
  /\ job \in [Handlers -> Job \cup {Idle}]
  /\ payStatus \in {"unpaid", "deposit", "paid", "refunded"}
  /\ order \in {"open", "completed", "cancelled"}
  /\ crashes \in 0 .. MaxCrashes
  /\ cut \subseteq Payments

Init ==
  /\ pc = [p \in Payments |-> "idle"]
  /\ row = [p \in Payments |-> "none"]
  /\ made = <<>>
  /\ redirect = {}
  /\ gateway = [p \in Payments |-> "none"]
  /\ posts = {}
  /\ journal = {}
  /\ job = [h \in Handlers |-> Idle]
  /\ payStatus = "unpaid"
  /\ order = "open"
  /\ crashes = 0
  /\ cut = {}

Live == {"initiated", "pending"}
Rows(S) == {p \in Payments : row[p] \in S}

\* The most recently created of a set of rows.
Latest(S) == {p \in S : \E i \in DOMAIN made :
                made[i] = p /\ \A j \in DOMAIN made : made[j] \in S => j <= i}

------------------------------------------------------------------------------
\* startPaymentForOrder

Go(p, l) == pc' = [pc EXCEPT ![p] = l]

\* The order is read: paid and closed orders take no payment.
CheckOrder(p) ==
  /\ pc[p] = "idle"
  /\ Go(p, IF payStatus = "paid" \/ order # "open" THEN "refused" ELSE "looking")
  /\ UNCHANGED <<made, redirect, row, gateway, posts, journal, job, shop>>

\* A live attempt with a page to send the buyer to is used again.
ReuseAttempt(p) ==
  /\ pc[p] = "looking"
  /\ Go(p, IF Latest(Rows(Live)) \cap redirect # {} THEN "sent" ELSE "inserting")
  /\ UNCHANGED <<made, redirect, row, gateway, posts, journal, job, shop>>

\* The row comes before the gateway call.  idx_payments_one_live_attempt
\* refuses a second live one.
InsertPayment(p) ==
  /\ pc[p] = "inserting"
  /\ IF Rows(Live) = {}
       THEN /\ row' = [row EXCEPT ![p] = "initiated"]
            /\ made' = Append(made, p)
            /\ Go(p, "opening")
       ELSE Go(p, "refused") /\ UNCHANGED <<row, made>>
  /\ UNCHANGED <<redirect, gateway, posts, journal, job, shop>>

\* createCheckout; a call that fails or times out may have opened a session.
OpenSession(p) ==
  /\ pc[p] = "opening"
  /\ \/ Go(p, "saving") /\ gateway' = [gateway EXCEPT ![p] = "open"]
     \/ Go(p, "failing") /\ gateway' \in {gateway, [gateway EXCEPT ![p] = "open"]}
  /\ UNCHANGED <<made, redirect, row, posts, journal, job, shop>>

SaveSession(p) ==
  /\ pc[p] = "saving"
  /\ Go(p, "sent")
  /\ row' = [row EXCEPT ![p] = "pending"]
  /\ redirect' = redirect \cup {p}
  /\ UNCHANGED <<made, gateway, posts, journal, job, shop>>

FailSession(p) ==
  /\ pc[p] = "failing"
  /\ Go(p, "refused")
  /\ row' = [row EXCEPT ![p] = "failed"]
  /\ UNCHANGED <<made, redirect, gateway, posts, journal, job, shop>>

Starting(p) == CheckOrder(p) \/ ReuseAttempt(p) \/ InsertPayment(p)
                 \/ OpenSession(p) \/ SaveSession(p) \/ FailSession(p)

InFlight(p) == pc[p] \in {"opening", "saving", "failing"}

Crash == crashes < MaxCrashes /\ crashes' = crashes + 1

CrashStart(p) ==
  /\ Crash
  /\ pc[p] \in {"looking", "inserting"} \/ InFlight(p)
  /\ Go(p, "crashed")
  /\ UNCHANGED <<made, redirect, row, gateway, posts, journal, job, payStatus, order, cut>>

------------------------------------------------------------------------------
\* The gateway (external)

\* Mutant: authorized money counted as taken.
MutantMapStatus(w) == CASE w = "open" -> "pending"
                        [] w \in {"authorized", "short", "silent"} -> "captured"
                        [] w = "voided" -> "cancelled"
                        [] OTHER -> w

\* mapStatus: what a word of the gateway's means here.
MapStatus(w) == CASE w = "open"               -> "pending"
                  [] w \in {"short", "silent"} -> "captured"
                  [] w = "voided"             -> "cancelled"
                  [] OTHER                    -> w

\* parseAmount: the sum an event states, if it states one.
Amount(w) == CASE w = "short"  -> "other"
               [] w = "silent" -> "none"
               [] OTHER        -> "right"

Says(p, source, w) == [payment |-> p, source |-> source, word |-> w,
                       status |-> MapStatus(w), amount |-> Amount(w)]

GatewayMoves(p, w) == /\ gateway' = [gateway EXCEPT ![p] = w]
                      /\ posts' = posts \cup {Says(p, "hook", w)}

\* The buyer finishes at the hosted page.
Pay(p) ==
  /\ p \in redirect /\ gateway[p] = "open"
  /\ \E w \in Words \cap {"authorized", "captured", "short", "silent", "failed"} :
       GatewayMoves(p, w)
  /\ UNCHANGED <<start, row, journal, job, shop>>

\* A hold is taken or expires; a person refunds at the bank's portal.
Acquirer(p) ==
  /\ \E w \in Words :
       /\ \/ gateway[p] = "authorized" /\ w \in {"captured", "cancelled"}
          \/ gateway[p] \in {"captured", "silent"} /\ w = "refunded"
       /\ GatewayMoves(p, w)
  /\ UNCHANGED <<start, row, journal, job, shop>>

------------------------------------------------------------------------------
\* applyProviderEvent

Take(h, e) == job' = [job EXCEPT ![h] = [at |-> "read", event |-> e]]
At(h, l) == job' = [job EXCEPT ![h] = [at |-> l, event |-> job[h].event]]

Free(h) == /\ job[h] = Idle
           /\ "overlap" \in Interference \/ \A g \in Handlers : job[g] = Idle

Done(h) == job' = [job EXCEPT ![h] = Idle]

\* Webhook route.
Webhook(h) ==
  /\ h # Cron /\ Free(h)
  /\ \E e \in posts : Take(h, e)
  /\ UNCHANGED <<start, row, gateway, posts, journal, shop>>

\* confirmPaymentFromProvider: the gateway is asked what it knows.
Poll(h, p) ==
  /\ Free(h) /\ gateway[p] # "none"
  /\ Take(h, Says(p, "poll", gateway[p]))
  /\ UNCHANGED <<start, row, gateway, posts, journal, shop>>

\* Return route: the buyer's browser has come back.
Return(h, p) == h # Cron /\ p \in redirect /\ Poll(h, p)

\* Mutant: holds are not asked about.
MutantUnresolved == {p \in Payments : row[p] \in Live /\ ~InFlight(p)}

\* Rows unresolved for a quarter of an hour, which is longer than a session
\* takes to open.
Unresolved == {p \in Payments : row[p] \in Live \cup {"authorized"} /\ ~InFlight(p)}

\* How many of a set of rows were created before p's.
Older(S, p) == Cardinality({i \in DOMAIN made :
                 made[i] \in S /\ \E j \in DOMAIN made : made[j] = p /\ i < j})

\* The oldest unresolved rows, as many as a run takes.
Batch == {p \in Unresolved : Older(Unresolved, p) < MaxPerRun}

\* Cron route: the rows of the batch, one after the other.
Reconcile(p) == p \in Batch /\ Poll(Cron, p)

ReadPayment(h) ==
  /\ job[h].at = "read"
  /\ job' = [job EXCEPT ![h] = [at |-> "seen", event |-> job[h].event,
                                from |-> row[job[h].event.payment]]]
  /\ UNCHANGED <<start, row, gateway, posts, journal, shop>>

Entry(e) == <<e.payment, e.source, e.word>>

\* A repeated delivery ends here.
LookSeen(h) ==
  /\ job[h].at = "seen"
  /\ IF Entry(job[h].event) \in journal
       THEN Done(h)
       ELSE job' = [job EXCEPT ![h] = [at |-> "journal", event |-> job[h].event,
                                       from |-> job[h].from]]
  /\ UNCHANGED <<start, row, gateway, posts, journal, shop>>

\* decideTransition
Allowed == [s \in PaymentStatus |->
  CASE s = "initiated"  -> {"pending", "authorized", "captured", "failed", "cancelled"}
    [] s = "pending"    -> {"authorized", "captured", "failed", "cancelled"}
    [] s = "authorized" -> {"captured", "failed", "cancelled"}
    [] s = "captured"   -> {"refunded"}
    [] OTHER            -> {}]

\* Mutant: the amount is compared when the money is put on hold.
MutantMismatch(e) == e.status = "authorized" /\ e.amount = "other"

\* An event that states no amount is not compared.
Mismatch(e) == e.status = "captured" /\ e.amount = "other"

\* Mutant: decideTransition's verdict is not looked at.
MutantJournal(h) ==
  /\ job[h].at = "journal"
  /\ journal' = journal \cup {Entry(job[h].event)}
  /\ IF ~Mismatch(job[h].event) THEN At(h, "update") ELSE Done(h)
  /\ UNCHANGED <<start, row, gateway, posts, shop>>

\* The event is written down, acted upon or not.
Journal(h) ==
  /\ job[h].at = "journal"
  /\ journal' = journal \cup {Entry(job[h].event)}
  /\ IF ~Mismatch(job[h].event) /\ job[h].event.status \in Allowed[job[h].from]
       THEN At(h, "update")
       ELSE Done(h)
  /\ UNCHANGED <<start, row, gateway, posts, shop>>

\* The row is written by id alone, whatever it says by now.  Only the index
\* on live attempts may refuse the write, which nobody looks at.
UpdatePayment(h) ==
  /\ job[h].at = "update"
  /\ row' = IF job[h].event.status \in Live /\ Rows(Live) \ {job[h].event.payment} # {}
              THEN row
              ELSE [row EXCEPT ![job[h].event.payment] = job[h].event.status]
  /\ IF job[h].event.status \in {"captured", "refunded"}
       THEN At(h, "mirror")
       ELSE Done(h)
  /\ UNCHANGED <<start, gateway, posts, journal, shop>>

\* orderPayStatusFor
Mirror(h) ==
  /\ job[h].at = "mirror"
  /\ payStatus' = IF job[h].event.status = "captured" THEN "paid" ELSE "refunded"
  /\ Done(h)
  /\ UNCHANGED <<start, row, gateway, posts, journal, order, crashes, cut>>

Applies(h) == ReadPayment(h) \/ LookSeen(h) \/ Journal(h) \/ UpdatePayment(h) \/ Mirror(h)

------------------------------------------------------------------------------
\* The shop: closing an order, giving money back

\* setOrderStatus: completing, or cancelling and looking at the money.
Complete == /\ "complete" \in Desk /\ order = "open" /\ order' = "completed"
            /\ UNCHANGED <<start, row, gateway, posts, journal, job, payStatus, crashes, cut>>

Cancel(h) ==
  /\ h # Cron /\ Free(h)
  /\ "cancel" \in Desk /\ order = "open" /\ order' = "cancelled"
  /\ job' = [job EXCEPT ![h] = [at |-> "paid?"]]
  /\ UNCHANGED <<start, row, gateway, posts, journal, payStatus, crashes, cut>>

\* Only an order that says it was paid is asked to be voided.
LookPaid(h) ==
  /\ job[h].at = "paid?"
  /\ job' = [job EXCEPT ![h] = IF payStatus \in {"paid", "deposit"}
                                 THEN [at |-> "find void"] ELSE Idle]
  /\ UNCHANGED <<start, row, gateway, posts, journal, shop>>

\* settleRefundThroughGateway is pressed.
Refund(h) ==
  /\ "refund" \in Desk /\ h # Cron /\ Free(h)
  /\ job' = [job EXCEPT ![h] = [at |-> "find refund"]]
  /\ UNCHANGED <<start, row, gateway, posts, journal, shop>>

\* livePaymentForOrder: the latest payment with money behind it, which must
\* be captured to be refunded and not captured to be voided.
FindLive(h) ==
  LET fit == IF job[h].at = "find void" THEN "authorized" ELSE "captured"
      due == Latest(Rows({"authorized", "captured"})) \cap Rows({fit})
  IN  /\ job[h].at \in {"find refund", "find void"}
      /\ \/ due = {} /\ Done(h)
         \/ \E p \in due : job' = [job EXCEPT ![h] =
              [at |-> IF fit = "captured" THEN "ask refund" ELSE "ask void",
               payment |-> p]]
      /\ UNCHANGED <<start, row, gateway, posts, journal, shop>>

\* moveMoney under a transaction id of its own: asked again, the gateway
\* repeats its answer.  Unanswered or refused, nothing is recorded.
AskGateway(h, before, after, replies, source) ==
  LET p == job[h].payment IN
  /\ IF gateway[p] \in before THEN GatewayMoves(p, after)
                              ELSE UNCHANGED <<gateway, posts>>
  /\ \/ /\ gateway[p] \in before \cup {after}
        /\ \E s \in replies :
             Take(h, [Says(p, source, after) EXCEPT !.status = s])
     \/ Done(h)
  /\ UNCHANGED <<start, row, journal, shop>>

AskRefund(h) == job[h].at = "ask refund"
                  /\ AskGateway(h, {"captured", "short", "silent"}, "refunded", RefundReply, "refund")
AskVoid(h) == job[h].at = "ask void"
                /\ AskGateway(h, {"authorized"}, "voided", VoidReply, "void")

GivesBack(h) == LookPaid(h) \/ FindLive(h) \/ AskRefund(h) \/ AskVoid(h)

SetPayStatus(s) == /\ payStatus' = s
                   /\ UNCHANGED <<start, row, gateway, posts, journal, job, order, crashes, cut>>

\* A capture that is journaled and not yet on the row, when it came from the
\* cron or the buyer's return, whose event id is the same next time; or that is
\* on the row, which nobody looks at again, and not yet on the order.
Irreplaceable(h) ==
  /\ job[h].at \in {"update", "mirror"}
  /\ job[h].event.word = "captured"
  /\ job[h].at = "update" => job[h].event.source = "poll"

\* The request is killed; the gateway will send an unanswered webhook again.
Die(h) == /\ Crash /\ job[h] # Idle
          /\ Done(h)
          /\ cut' = IF Irreplaceable(h) THEN cut \cup {job[h].event.payment} ELSE cut
          /\ UNCHANGED <<start, row, gateway, posts, journal, payStatus, order>>

------------------------------------------------------------------------------
Buyer(p) == Starting(p) \/ CrashStart(p) \/ Pay(p)
Serve(h) == Applies(h) \/ GivesBack(h)
Next ==
  \/ \E p \in Payments : Buyer(p) \/ Acquirer(p) \/ Reconcile(p)
  \/ \E h \in Handlers : \/ Webhook(h) \/ Serve(h) \/ Die(h) \/ Cancel(h) \/ Refund(h)
                         \/ \E p \in Payments : Return(h, p)
  \/ Complete
  \/ \E s \in ByHand : SetPayStatus(s)

Spec == Init /\ [][Next]_vars

\* A request that is being served goes on.  The cron runs every hour and takes
\* the rows of its batch in turn: a row is asked about even though the cron is
\* busy with others in between.  Nothing is said of rows outside the batch.
Fairness == /\ \A h \in Handlers : WF_vars(Serve(h))
            /\ \A p \in Payments : WF_vars(Starting(p) /\ pc[p] # "idle")
            /\ \A p \in Payments : SF_vars(Reconcile(p))
FairSpec == Spec /\ Fairness

------------------------------------------------------------------------------
\* Safety

\* What a payment recorded as captured may be at the gateway.  Money that was
\* taken, and may be back with the buyer by now; and two things the code takes
\* for that: a capture of another sum that did not state it (service.ts:165),
\* and a void that succeeded without naming a status (mpgs.ts:72).
Taken == {"captured", "refunded", "silent", "voided"}

\* The order says paid only if some payment of it was taken in that sense, and
\* refunded only if the gateway gave it back (applyProviderEvent's amount check
\* and mirroring).
PaidMeansTaken ==
  /\ payStatus = "paid" => \E p \in Payments : gateway[p] \in Taken
  /\ payStatus = "refunded" => \E p \in Payments : gateway[p] = "refunded"

\* The shop never believes more of a payment than the gateway told it, however
\* its requests overlap: not a hold, a failed or an abandoned session for money,
\* not a capture of a sum known to be wrong, not a refund nobody made.
NeverAhead ==
  \A p \in Payments :
    /\ row[p] = "captured" => gateway[p] \in Taken
    /\ row[p] = "refunded" => gateway[p] = "refunded"

\* A payment advances and its outcome is final.
Flow == INSTANCE PaymentFlow WITH status <- row
KeepsFlow == Flow!Spec

------------------------------------------------------------------------------
\* Inductive invariants

Settled(p) == pc[p] \in {"sent", "refused", "crashed"}
About(h) == job[h].at \in {"read", "seen", "journal", "update", "mirror"}

\* Whatever is said of a payment, there is a row for it.
RowsKnown ==
  /\ \A p \in Payments : InFlight(p) \/ gateway[p] # "none" => row[p] # "none"
  /\ \A e \in posts : row[e.payment] # "none"
  /\ \A h \in Handlers : About(h) => row[job[h].event.payment] # "none"

\* What an event says stays true of the gateway.
Backed(e) ==
  /\ e.status = "captured" /\ e.amount # "other" => gateway[e.payment] \in Taken
  /\ e.status = "refunded" => gateway[e.payment] = "refunded"

\* Of what the order says only while nobody types it in.
PaidInv == ByHand \subseteq {"unpaid", "deposit"} => PaidMeansTaken

MoneyInv ==
  /\ NeverAhead
  /\ PaidInv
  /\ \A p \in Payments :
       pc[p] \in {"idle", "looking", "inserting", "opening"} => gateway[p] = "none"
  /\ \A e \in posts : Backed(e)
  /\ \A h \in Handlers : About(h) => Backed(job[h].event)
  /\ \A h \in Handlers : job[h].at \in {"update", "mirror"} => ~Mismatch(job[h].event)
  /\ \A h \in Handlers :
       job[h].at = "mirror" => job[h].event.status \in {"captured", "refunded"}

\* One event at a time, and only of payments whose start is over: the status
\* an event was judged by is still the row's.
FlowInv ==
  /\ \A g, h \in Handlers : job[g] # Idle /\ job[h] # Idle => g = h
  /\ \A p \in Payments :
       /\ InFlight(p) => row[p] = "initiated"
       /\ pc[p] \in {"idle", "looking", "inserting"} => row[p] = "none"
       /\ p \in redirect \/ gateway[p] \notin {"none", "open"} => Settled(p)
  /\ \A e \in posts : Settled(e.payment)
  /\ \A h \in Handlers :
       /\ About(h) => Settled(job[h].event.payment)
       /\ job[h].at \in {"ask refund", "ask void"} => Settled(job[h].payment)
       /\ job[h].at \in {"seen", "journal"} => job[h].from = row[job[h].event.payment]
       /\ job[h].at = "update" =>
            job[h].event.status \in Allowed[row[job[h].event.payment]]

------------------------------------------------------------------------------
\* Liveness

\* Rows the cron never gets to, because that many older ones stay unresolved.
Crowded(p) == p \in Unresolved \ Batch

\* Money that was taken shows on the order in the end -- unless it goes back
\* first, or the request that brought the news died with it, or the payment's
\* row stays behind too many older ones for ever (reconcile-payments).
CaptureReachesOrder ==
  \A p \in Payments :
    gateway[p] = "captured"
      ~> \/ payStatus # "unpaid" \/ gateway[p] # "captured"
         \/ p \in cut \/ []Crowded(p)
=============================================================================
