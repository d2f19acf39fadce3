--------------------------- MODULE PaymentsProofs ---------------------------
(* Theorems of Payments, for any number of payments and handlers. *)
EXTENDS Payments, TLAPS

\* What a job carries, by where it is.
LEMMA JobFields ==
  ASSUME TypeOK, NEW h \in Handlers
  PROVE  /\ About(h) => job[h].event \in Event
         /\ job[h].at \in {"seen", "journal"} => job[h].from \in PaymentStatus
         /\ job[h].at \in {"ask refund", "ask void"} => job[h].payment \in Payments
<1> USE DEF About
<1>1. CASE job[h] \in [at : {"read", "update", "mirror"}, event : Event]
  BY <1>1
<1>2. CASE job[h] \in [at : {"seen", "journal"}, event : Event, from : PaymentStatus]
  BY <1>2
<1>3. CASE job[h] \in [at : {"paid?", "find refund", "find void"}]
  BY <1>3
<1>4. CASE job[h] \in [at : {"ask refund", "ask void"}, payment : Payments]
  BY <1>4
<1>5. CASE job[h] = Idle
  BY <1>5 DEF Idle
<1> QED BY <1>1, <1>2, <1>3, <1>4, <1>5 DEF TypeOK, Job

LEMMA TakeTypes ==
  ASSUME TypeOK, NEW h \in Handlers, NEW e \in Event, Take(h, e)
  PROVE  job' \in [Handlers -> Job \cup {Idle}]
BY DEF TypeOK, Take, Job

LEMMA DoneTypes ==
  ASSUME TypeOK, NEW h \in Handlers, Done(h)
  PROVE  job' \in [Handlers -> Job \cup {Idle}]
BY DEF TypeOK, Done

LEMMA AtTypes ==
  ASSUME TypeOK, NEW h \in Handlers, About(h), NEW l \in {"update", "mirror"}, At(h, l)
  PROVE  job' \in [Handlers -> Job \cup {Idle}]
BY JobFields DEF TypeOK, At, Job

LEMMA SaysTypes ==
  ASSUME NEW p \in Payments, NEW s \in Sources, NEW w \in GatewayStatus \ {"none"}
  PROVE  Says(p, s, w) \in Event
<1>1. MapStatus(w) \in PaymentStatus /\ Amount(w) \in {"right", "other", "none"}
  BY DEF MapStatus, Amount, GatewayStatus, PaymentStatus
<1> QED BY <1>1 DEF Says, Event

LEMMA MovesTypes ==
  ASSUME TypeOK, RowsKnown, NEW p \in Payments, NEW w \in GatewayStatus \ {"none"},
         gateway[p] # "none", GatewayMoves(p, w)
  PROVE  /\ gateway' \in [Payments -> GatewayStatus]
         /\ posts' \subseteq Event
         /\ \A q \in Payments : gateway'[q] # "none" => row[q] # "none"
         /\ \A e \in posts' : row[e.payment] # "none"
<1>1. Says(p, "hook", w) \in Event /\ Says(p, "hook", w).payment = p
  BY SaysTypes DEF Sources, Says
<1> QED BY <1>1 DEF GatewayMoves, TypeOK, RowsKnown

------------------------------------------------------------------------------
KnownInv == TypeOK /\ RowsKnown

LEMMA StartingKnown ==
  ASSUME KnownInv, NEW p \in Payments, Starting(p) \/ CrashStart(p)
  PROVE  KnownInv'
<1> USE DEF KnownInv
<1>0. \A h \in Handlers : About(h) => job[h].event.payment \in Payments
  BY JobFields DEF Event
<1> USE <1>0 DEF TypeOK, RowsKnown, Go, shop, StartPC, InFlight, About, PaymentStatus
<1>1. CASE CheckOrder(p)
  BY <1>1 DEF CheckOrder
<1>2. CASE ReuseAttempt(p)
  BY <1>2 DEF ReuseAttempt
<1>3. CASE InsertPayment(p)
  <2>1. CASE Rows(Live) = {}
    <3>1. made' \in Seq(Payments)
      BY <1>3, <2>1 DEF InsertPayment
    <3>2. /\ pc' \in [Payments -> StartPC]
          /\ row' \in [Payments -> PaymentStatus \cup {"none"}]
          /\ \A q \in Payments : row'[q] = IF q = p THEN "initiated" ELSE row[q]
      BY <1>3, <2>1 DEF InsertPayment
    <3>3. TypeOK'
      BY <1>3, <3>1, <3>2 DEF InsertPayment
    <3>4. \A q \in Payments : row[q] # "none" => row'[q] # "none"
      BY <3>2
    <3>5. \A e \in posts : e.payment \in Payments
      BY DEF Event
    <3>6. \A q \in Payments : pc'[q] \in {"opening", "saving", "failing"}
                               => q = p \/ pc[q] \in {"opening", "saving", "failing"}
      BY <1>3, <2>1 DEF InsertPayment
    <3>7. RowsKnown'
      BY <1>3, <3>2, <3>4, <3>5, <3>6 DEF InsertPayment
    <3> QED BY <3>3, <3>7
  <2>2. CASE Rows(Live) # {}
    BY <1>3, <2>2 DEF InsertPayment
  <2> QED BY <2>1, <2>2
<1>4. CASE OpenSession(p)
  BY <1>4 DEF OpenSession, GatewayStatus
<1>5. CASE SaveSession(p)
  BY <1>5 DEF SaveSession
<1>6. CASE FailSession(p)
  BY <1>6 DEF FailSession
<1>7. CASE CrashStart(p)
  BY <1>7, CrashAssumption DEF CrashStart, Crash
<1> QED BY <1>1, <1>2, <1>3, <1>4, <1>5, <1>6, <1>7 DEF Starting

\* A step that moves one job, and says nothing of a payment without a row.
LEMMA JobKnown ==
  ASSUME KnownInv, NEW h \in Handlers, UNCHANGED <<start, row, gateway, posts>>,
         job' \in [Handlers -> Job \cup {Idle}],
         \A g \in Handlers \ {h} : job'[g] = job[g],
         About(h)' => row[job'[h].event.payment] # "none",
         journal' \subseteq (Payments \X Sources \X GatewayStatus),
         payStatus' \in {"unpaid", "deposit", "paid", "refunded"},
         order' \in {"open", "completed", "cancelled"},
         crashes' \in 0 .. MaxCrashes, cut' \subseteq Payments
  PROVE  KnownInv'
<1>1. TypeOK'
  BY DEF KnownInv, TypeOK, start
<1>2. RowsKnown'
  BY DEF KnownInv, RowsKnown, start, InFlight, About
<1> QED BY <1>1, <1>2 DEF KnownInv

LEMMA AppliesKnown ==
  ASSUME KnownInv, NEW h \in Handlers, Applies(h)
  PROVE  KnownInv'
<1>0. /\ \A g \in Handlers : About(g) => /\ job[g].event \in Event
                                        /\ job[g].event.payment \in Payments
                                        /\ row[job[g].event.payment] # "none"
      /\ job[h].at \in {"seen", "journal"} => job[h].from \in PaymentStatus
      /\ TypeOK
  BY JobFields DEF Event, KnownInv, RowsKnown
<1>1. CASE ReadPayment(h)
  <2>1. row[job[h].event.payment] \in PaymentStatus
    BY <1>0, <1>1 DEF ReadPayment, About, TypeOK
  <2>2. job' \in [Handlers -> Job \cup {Idle}]
    BY <1>0, <1>1, <2>1 DEF ReadPayment, About, TypeOK, Job
  <2> QED BY <1>0, <1>1, <2>2, JobKnown DEF ReadPayment, About, TypeOK, shop
<1>2. CASE LookSeen(h)
  <2>1. CASE Done(h)
    BY <1>0, <1>2, <2>1, JobKnown, DoneTypes DEF LookSeen, About, TypeOK, shop, Done, Idle
  <2>2. CASE ~Done(h)
    <3>1. [at |-> "journal", event |-> job[h].event, from |-> job[h].from] \in Job
      BY <1>0, <1>2 DEF LookSeen, About, Job
    <3>2. job' \in [Handlers -> Job \cup {Idle}]
      BY <1>0, <1>2, <2>2, <3>1 DEF LookSeen, TypeOK
    <3> QED BY <1>0, <1>2, <2>2, <3>2, JobKnown DEF LookSeen, About, TypeOK, shop
  <2> QED BY <2>1, <2>2
<1>3. CASE Journal(h)
  <2>1. About(h)
    BY <1>3 DEF Journal, About
  <2>2. job' \in [Handlers -> Job \cup {Idle}]
    BY <1>0, <1>3, <2>1, AtTypes, DoneTypes DEF Journal
  <2>3. Entry(job[h].event) \in Payments \X Sources \X GatewayStatus
    BY <1>0, <2>1 DEF Event, Entry
  <2>4. /\ \A g \in Handlers \ {h} : job'[g] = job[g]
        /\ job'[h] = Idle \/ job'[h].event = job[h].event
    BY <1>0, <1>3 DEF Journal, At, Done, TypeOK
  <2>5. About(h)' => row[job'[h].event.payment] # "none"
    BY <1>0, <2>1, <2>4 DEF About, Idle
  <2> QED BY <1>0, <1>3, <2>2, <2>3, <2>4, <2>5, JobKnown DEF Journal, TypeOK, shop
<1>4. CASE UpdatePayment(h)
  <2>1. About(h)
    BY <1>4 DEF UpdatePayment, About
  <2>2. job' \in [Handlers -> Job \cup {Idle}]
    BY <1>0, <1>4, <2>1, AtTypes, DoneTypes DEF UpdatePayment
  <2>3. /\ row' \in [Payments -> PaymentStatus \cup {"none"}]
        /\ \A p \in Payments : row[p] # "none" => row'[p] # "none"
    BY <1>0, <1>4, <2>1 DEF UpdatePayment, TypeOK, Event, PaymentStatus
  <2>4. /\ \A g \in Handlers \ {h} : job'[g] = job[g]
        /\ job'[h] = Idle \/ job'[h].event = job[h].event
    BY <1>0, <1>4 DEF UpdatePayment, At, Done, TypeOK
  <2>5. \A g \in Handlers : About(g)' => /\ job'[g].event = job[g].event /\ About(g)
    BY <2>1, <2>4 DEF About, Idle
  <2>6. TypeOK'
    BY <1>4, <2>2, <2>3 DEF KnownInv, TypeOK, UpdatePayment, start, shop
  <2>7. \A e \in posts : e.payment \in Payments
    BY <1>0 DEF TypeOK, Event
  <2>8. RowsKnown'
    BY <1>0, <1>4, <2>3, <2>5, <2>7
    DEF KnownInv, RowsKnown, UpdatePayment, start, InFlight
  <2> QED BY <2>6, <2>8 DEF KnownInv
<1>5. CASE Mirror(h)
  <2>1. job' \in [Handlers -> Job \cup {Idle}]
    BY <1>0, <1>5, DoneTypes DEF Mirror
  <2> QED BY <1>0, <1>5, <2>1, JobKnown DEF Mirror, About, TypeOK, shop, Done, Idle
<1> QED BY <1>1, <1>2, <1>3, <1>4, <1>5 DEF Applies

LEMMA GatewayKnown ==
  ASSUME KnownInv, NEW p \in Payments, NEW w \in GatewayStatus \ {"none"},
         gateway[p] # "none", GatewayMoves(p, w),
         UNCHANGED <<start, row, journal, shop, job>>
  PROVE  KnownInv'
<1>1. TypeOK'
  BY MovesTypes DEF KnownInv, TypeOK, start, shop
<1>2. \A h \in Handlers : About(h)' <=> About(h)
  BY DEF About
<1>3. RowsKnown'
  BY <1>2, MovesTypes DEF KnownInv, RowsKnown, start, InFlight
<1> QED BY <1>1, <1>3 DEF KnownInv

\* A request that takes up an event about a payment with a row.
LEMMA TakeKnown ==
  ASSUME KnownInv, NEW h \in Handlers, NEW e \in Event, Take(h, e),
         row[e.payment] # "none", UNCHANGED <<start, row, gateway, posts, journal, shop>>
  PROVE  KnownInv'
<1>1. /\ job' \in [Handlers -> Job \cup {Idle}]
      /\ \A g \in Handlers \ {h} : job'[g] = job[g]
      /\ job'[h].event = e
  BY TakeTypes DEF KnownInv, TypeOK, Take
<1> QED BY <1>1, JobKnown DEF KnownInv, TypeOK, shop

LEMMA PollKnown ==
  ASSUME KnownInv, NEW h \in Handlers, NEW p \in Payments, Poll(h, p)
  PROVE  KnownInv'
<1>1. gateway[p] \in GatewayStatus \ {"none"}
  BY DEF KnownInv, TypeOK, Poll
<1>2. Says(p, "poll", gateway[p]) \in Event /\ Says(p, "poll", gateway[p]).payment = p
  BY <1>1, SaysTypes DEF Sources, Says
<1> QED BY <1>1, <1>2, TakeKnown DEF Poll, KnownInv, RowsKnown

LEMMA AskKnown ==
  ASSUME KnownInv, NEW h \in Handlers, job[h].at \in {"ask refund", "ask void"},
         NEW before \in SUBSET (GatewayStatus \ {"none"}),
         NEW after \in GatewayStatus \ {"none"}, NEW replies \in SUBSET PaymentStatus,
         NEW source \in Sources, AskGateway(h, before, after, replies, source)
  PROVE  KnownInv'
<1> DEFINE p == job[h].payment
<1>1. p \in Payments /\ TypeOK
  BY JobFields DEF KnownInv
<1>2. /\ gateway' \in [Payments -> GatewayStatus]
      /\ posts' \subseteq Event
      /\ \A q \in Payments : gateway'[q] # "none" => row[q] # "none"
      /\ \A e \in posts' : row[e.payment] # "none"
  <2>1. CASE gateway[p] \in before
    BY <1>1, <2>1, MovesTypes DEF AskGateway, KnownInv
  <2>2. CASE gateway[p] \notin before
    BY <1>1, <2>2 DEF AskGateway, KnownInv, TypeOK, RowsKnown
  <2> QED BY <2>1, <2>2
<1>3. /\ job' \in [Handlers -> Job \cup {Idle}]
      /\ \A g \in Handlers \ {h} : job'[g] = job[g]
      /\ About(h)' => row[job'[h].event.payment] # "none"
  <2>1. ASSUME NEW s \in replies, gateway[p] \in before \cup {after},
               Take(h, [Says(p, source, after) EXCEPT !.status = s])
        PROVE  <1>3!1 /\ <1>3!2 /\ <1>3!3
    <3>0. Says(p, source, after) \in Event /\ s \in PaymentStatus
      BY <1>1, SaysTypes
    <3>1. [Says(p, source, after) EXCEPT !.status = s] \in Event
      BY <3>0 DEF Event
    <3>2. [Says(p, source, after) EXCEPT !.status = s].payment = p
      BY DEF Says
    <3>3. row[p] # "none"
      BY <1>1, <2>1 DEF KnownInv, RowsKnown
    <3> QED BY <1>1, <2>1, <3>1, <3>2, <3>3, TakeTypes DEF Take, TypeOK
  <2>2. CASE Done(h)
    BY <1>1, <2>2, DoneTypes DEF Done, TypeOK, About, Idle
  <2> QED BY <2>1, <2>2 DEF AskGateway
<1>4. TypeOK'
  <2>1. UNCHANGED <<pc, made, redirect, row, journal, payStatus, order, crashes, cut>>
    BY DEF AskGateway, start, shop
  <2> QED BY <1>1, <1>2, <1>3, <2>1 DEF TypeOK
<1>5. \A g \in Handlers : About(g)' => row[job'[g].event.payment] # "none"
  <2>2. ASSUME NEW g \in Handlers \ {h}, About(g)'
        PROVE  row[job'[g].event.payment] # "none"
    BY <1>3, <2>2 DEF KnownInv, RowsKnown, About
  <2> QED BY <1>3, <2>2
<1>6. RowsKnown'
  <2>1. UNCHANGED <<pc, row>>
    BY DEF AskGateway, start
  <2> QED BY <1>2, <1>5, <2>1 DEF KnownInv, RowsKnown, InFlight
<1> QED BY <1>4, <1>6 DEF KnownInv

LEMMA ServesKnown ==
  ASSUME KnownInv, NEW h \in Handlers, GivesBack(h)
  PROVE  KnownInv'
<1>0. TypeOK
  BY DEF KnownInv
<1>1. CASE LookPaid(h)
  <2>1. job' \in [Handlers -> Job \cup {Idle}]
    BY <1>0, <1>1 DEF LookPaid, TypeOK, Job
  <2>2. ~About(h)' /\ \A g \in Handlers \ {h} : job'[g] = job[g]
    BY <1>0, <1>1 DEF LookPaid, TypeOK, About, Idle
  <2> QED BY <1>0, <1>1, <2>1, <2>2, JobKnown DEF LookPaid, TypeOK, shop
<1>2. CASE FindLive(h)
  <2>1. /\ job' \in [Handlers -> Job \cup {Idle}]
        /\ ~About(h)'
        /\ \A g \in Handlers \ {h} : job'[g] = job[g]
    <3>1. CASE Done(h)
      BY <1>0, <3>1, DoneTypes DEF Done, TypeOK, About, Idle
    <3>2. ASSUME NEW p \in Payments, NEW l \in {"ask refund", "ask void"},
                 job' = [job EXCEPT ![h] = [at |-> l, payment |-> p]]
          PROVE  <2>1!1 /\ <2>1!2 /\ <2>1!3
      <4>1. [at |-> l, payment |-> p] \in Job
        BY DEF Job
      <4> QED BY <1>0, <3>2, <4>1 DEF TypeOK, About
    <3> QED BY <1>2, <3>1, <3>2 DEF FindLive, Latest, Rows
  <2> QED BY <1>0, <1>2, <2>1, JobKnown DEF FindLive, TypeOK, shop
<1>3. CASE AskRefund(h)
  BY <1>3, RefundReplyAssumption, AskKnown DEF AskRefund, GatewayStatus, PaymentStatus, Sources
<1>4. CASE AskVoid(h)
  BY <1>4, VoidReplyAssumption, AskKnown DEF AskVoid, GatewayStatus, PaymentStatus, Sources
<1> QED BY <1>1, <1>2, <1>3, <1>4 DEF GivesBack

\* A request that starts on no event, or ends.
LEMMA QuietKnown ==
  ASSUME KnownInv, NEW h \in Handlers, NEW j \in Job \cup {Idle},
         j.at \in {"idle", "paid?", "find refund"},
         job' = [job EXCEPT ![h] = j],
         order' \in {"open", "completed", "cancelled"}, crashes' \in 0 .. MaxCrashes,
         cut' \subseteq Payments,
         UNCHANGED <<start, row, gateway, posts, journal, payStatus>>
  PROVE  KnownInv'
BY JobKnown DEF KnownInv, TypeOK, About

\* Every variable keeps its type, and nothing is said of a payment nobody opened.
THEOREM TypeCorrect == Spec => [](TypeOK /\ RowsKnown)
<1>1. Init => KnownInv
  BY CrashAssumption DEF Init, KnownInv, TypeOK, RowsKnown, StartPC, GatewayStatus, InFlight,
                        Idle, About
<1>2. KnownInv /\ [Next]_vars => KnownInv'
  <2> SUFFICES ASSUME KnownInv, [Next]_vars PROVE KnownInv'
    OBVIOUS
  <2>0. TypeOK
    BY DEF KnownInv
  <2>1. CASE UNCHANGED vars
    BY <2>1 DEF KnownInv, TypeOK, RowsKnown, InFlight, About, vars, start, shop
  <2>2. ASSUME NEW p \in Payments, Starting(p) \/ CrashStart(p) PROVE KnownInv'
    BY <2>2, StartingKnown
  <2>3. ASSUME NEW p \in Payments, Pay(p) PROVE KnownInv'
    BY <2>3, GatewayKnown DEF Pay, GatewayStatus
  <2>4. ASSUME NEW p \in Payments, Acquirer(p) PROVE KnownInv'
    BY <2>4, GatewayKnown DEF Acquirer, GatewayStatus
  <2>5. ASSUME NEW h \in Handlers, NEW p \in Payments, Poll(h, p) PROVE KnownInv'
    BY <2>5, PollKnown
  <2>6. ASSUME NEW h \in Handlers, Webhook(h) PROVE KnownInv'
    BY <2>0, <2>6, TakeKnown DEF Webhook, KnownInv, TypeOK, RowsKnown
  <2>7. ASSUME NEW h \in Handlers, Serve(h) PROVE KnownInv'
    BY <2>7, AppliesKnown, ServesKnown DEF Serve
  <2>8. ASSUME NEW h \in Handlers, Die(h) PROVE KnownInv'
    <3>1. crashes' \in 0 .. MaxCrashes /\ order' \in {"open", "completed", "cancelled"}
      BY <2>0, <2>8, CrashAssumption DEF Die, Crash, TypeOK
    <3>2. Idle \in Job \cup {Idle} /\ Idle.at = "idle"
      BY DEF Idle
    <3>3. cut' \subseteq Payments
      <4>1. Irreplaceable(h) => job[h].event.payment \in Payments
        BY <2>0, JobFields DEF Irreplaceable, About, Event
      <4> QED BY <2>0, <2>8, <4>1 DEF Die, TypeOK
    <3> QED BY <2>8, <3>1, <3>2, <3>3, QuietKnown DEF Die, Done
  <2>9. ASSUME NEW h \in Handlers, Cancel(h) PROVE KnownInv'
    BY <2>0, <2>9, QuietKnown DEF Cancel, Job, TypeOK
  <2>10. ASSUME NEW h \in Handlers, Refund(h) PROVE KnownInv'
    BY <2>0, <2>10, QuietKnown DEF Refund, Job, TypeOK, shop
  <2>11. CASE Complete \/ \E s \in ByHand : SetPayStatus(s)
    <3>1. UNCHANGED <<start, row, gateway, posts, journal, job>>
      BY <2>11 DEF Complete, SetPayStatus
    <3>2. payStatus' \in {"unpaid", "deposit", "paid", "refunded"}
      BY <2>0, <2>11, ByHandAssumption DEF Complete, SetPayStatus, TypeOK
    <3>3. /\ order' \in {"open", "completed", "cancelled"} /\ crashes' \in 0 .. MaxCrashes
          /\ cut' \subseteq Payments
      BY <2>0, <2>11 DEF Complete, SetPayStatus, TypeOK
    <3>4. TypeOK'
      BY <2>0, <3>1, <3>2, <3>3 DEF TypeOK, start
    <3>5. RowsKnown'
      BY <3>1 DEF KnownInv, RowsKnown, start, InFlight, About
    <3> QED BY <3>4, <3>5 DEF KnownInv
  <2> QED BY <2>1, <2>2, <2>3, <2>4, <2>5, <2>6, <2>7, <2>8, <2>9, <2>10, <2>11,
             CronAssumption DEF Next, Buyer, Reconcile, Batch, Unresolved, Return
<1> QED BY <1>1, <1>2, PTL DEF Spec, KnownInv

------------------------------------------------------------------------------
\* What the gateway has taken it has taken, and what it gave back is gone.
Grows == \A p \in Payments :
  /\ gateway[p] \in Taken => gateway'[p] \in Taken
  /\ gateway[p] = "refunded" => gateway'[p] = "refunded"

\* What the order says stays true of what was taken.
LEMMA PaidGrows == ASSUME PaidInv, Grows, UNCHANGED payStatus PROVE PaidInv'
BY DEF PaidInv, PaidMeansTaken, Grows

LEMMA PaidStays == ASSUME PaidInv, gateway' = gateway, payStatus' = payStatus PROVE PaidInv'
BY DEF PaidInv, PaidMeansTaken

LEMMA SaysBacked ==
  ASSUME NEW p \in Payments, NEW s, NEW w
  PROVE  /\ Says(p, s, w).payment = p
         /\ gateway[p] = w => Backed(Says(p, s, w))
         /\ gateway'[p] = w => Backed(Says(p, s, w))'
BY DEF Says, Backed, MapStatus, Amount, Taken

LEMMA BackedGrows ==
  ASSUME Grows, NEW e \in Event, Backed(e)
  PROVE  Backed(e)'
BY DEF Grows, Backed, Event

LEMMA StartingMoney ==
  ASSUME KnownInv, MoneyInv, NEW p \in Payments, Starting(p) \/ CrashStart(p)
  PROVE  MoneyInv'
<1>0. /\ TypeOK
      /\ UNCHANGED <<posts, job, payStatus>>
  BY DEF KnownInv, Starting, CheckOrder, ReuseAttempt, InsertPayment, OpenSession, SaveSession,
         FailSession, CrashStart, shop
<1>1. \A q \in Payments : gateway'[q] = gateway[q] \/ (gateway[q] = "none" /\ gateway'[q] = "open")
  BY <1>0 DEF MoneyInv, Starting, CheckOrder, ReuseAttempt, InsertPayment, OpenSession, SaveSession,
         FailSession, CrashStart, TypeOK
<1>2. Grows
  BY <1>1 DEF Grows, Taken
<1>3. \A q \in Payments : row'[q] = row[q] \/ row'[q] \in {"initiated", "pending", "failed"}
  BY <1>0 DEF Starting, CheckOrder, ReuseAttempt, InsertPayment, OpenSession, SaveSession,
         FailSession, CrashStart, TypeOK
<1>4. NeverAhead'
  BY <1>2, <1>3 DEF MoneyInv, NeverAhead, Grows
<1>5. PaidInv'
  <2>1. PaidInv /\ payStatus' = payStatus
    BY <1>0 DEF MoneyInv
  <2> QED BY <1>2, <2>1, PaidGrows
<1>6. \A q \in Payments : pc'[q] \in {"idle", "looking", "inserting", "opening"}
                          => gateway'[q] = "none"
  BY <1>0 DEF MoneyInv, Starting, CheckOrder, ReuseAttempt, InsertPayment, OpenSession, SaveSession,
         FailSession, CrashStart, TypeOK, Go
<1>7. \A e \in posts' : Backed(e)'
  BY <1>0, <1>2, BackedGrows DEF MoneyInv, TypeOK
<1>8. \A h \in Handlers : About(h)' => Backed(job[h].event)'
  BY <1>0, <1>2, BackedGrows, JobFields DEF MoneyInv, About
<1> QED BY <1>0, <1>4, <1>5, <1>6, <1>7, <1>8 DEF MoneyInv, About

\* The gateway makes something of a payment, and posts it.
LEMMA GatewayMoney ==
  ASSUME KnownInv, MoneyInv, NEW p \in Payments, NEW w, GatewayMoves(p, w),
         gateway[p] # "none",
         gateway[p] \in Taken => w \in Taken,
         gateway[p] = "refunded" => w = "refunded",
         UNCHANGED <<start, row, shop>>
  PROVE  /\ NeverAhead' /\ PaidInv' /\ Grows
         /\ \A q \in Payments : pc'[q] \in {"idle", "looking", "inserting", "opening"}
                                => gateway'[q] = "none"
         /\ \A e \in posts' : Backed(e)'
         /\ gateway'[p] = w
<1>0. TypeOK
  BY DEF KnownInv
<1>1. gateway' = [gateway EXCEPT ![p] = w] /\ gateway'[p] = w
  BY <1>0 DEF GatewayMoves, TypeOK
<1>2. Grows
  BY <1>0, <1>1 DEF Grows, TypeOK
<1>3. NeverAhead' /\ PaidInv'
  BY <1>2, PaidGrows DEF MoneyInv, NeverAhead, Grows, shop
<1>4. \A q \in Payments : pc'[q] \in {"idle", "looking", "inserting", "opening"}
                          => gateway'[q] = "none"
  BY <1>0, <1>1 DEF MoneyInv, TypeOK, start
<1>5. \A e \in posts : Backed(e)'
  BY <1>0, <1>2, BackedGrows DEF MoneyInv, TypeOK
<1>6. Backed(Says(p, "hook", w))'
  BY <1>1, SaysBacked
<1>7. posts' = posts \cup {Says(p, "hook", w)}
  BY DEF GatewayMoves
<1> QED BY <1>1, <1>2, <1>3, <1>4, <1>5, <1>6, <1>7

\* What a handler is working on, in a step that leaves rows and gateway alone.
LEMMA JobMoney ==
  ASSUME KnownInv, MoneyInv, NEW h \in Handlers,
         UNCHANGED <<pc, row, gateway, posts>>, PaidInv',
         \A g \in Handlers \ {h} : job'[g] = job[g],
         About(h)' => Backed(job'[h].event),
         job'[h].at \in {"update", "mirror"} => ~Mismatch(job'[h].event),
         job'[h].at = "mirror" => job'[h].event.status \in {"captured", "refunded"}
  PROVE  MoneyInv'
<1>1. NeverAhead'
  BY DEF MoneyInv, NeverAhead
<1>2. \A e \in posts' : Backed(e)'
  BY DEF MoneyInv, Backed
<1>3. \A g \in Handlers : About(g)' => Backed(job[g].event)'
  BY DEF MoneyInv, Backed, About
<1>4. \A g \in Handlers : job'[g].at \in {"update", "mirror"} => ~Mismatch(job'[g].event)
  BY DEF MoneyInv
<1>5. \A g \in Handlers :
        job'[g].at = "mirror" => job'[g].event.status \in {"captured", "refunded"}
  BY DEF MoneyInv
<1> QED BY <1>1, <1>2, <1>3, <1>4, <1>5 DEF MoneyInv, Mismatch

LEMMA AppliesMoney ==
  ASSUME KnownInv, MoneyInv, NEW h \in Handlers, Applies(h)
  PROVE  MoneyInv'
<1>0. TypeOK /\ PaidInv
  BY DEF KnownInv, MoneyInv
<1>1. CASE ReadPayment(h)
  BY <1>0, <1>1, JobMoney, PaidStays DEF ReadPayment, TypeOK, MoneyInv, About, start, shop
<1>2. CASE LookSeen(h)
  BY <1>0, <1>2, JobMoney, PaidStays DEF LookSeen, Done, Idle, TypeOK, MoneyInv, About, start, shop
<1>3. CASE Journal(h)
  BY <1>0, <1>3, JobMoney, PaidStays DEF Journal, At, Done, Idle, TypeOK, MoneyInv, About, start, shop
<1>4. CASE UpdatePayment(h)
  <2> DEFINE e == job[h].event
  <2>1. e \in Event /\ Backed(e) /\ ~Mismatch(e)
    BY <1>4, JobFields DEF UpdatePayment, KnownInv, MoneyInv, About
  <2>2. row' = row \/ row' = [row EXCEPT ![e.payment] = e.status]
    BY <1>4 DEF UpdatePayment
  <2>3. UNCHANGED <<pc, gateway, posts, payStatus>>
    BY <1>4 DEF UpdatePayment, start, shop
  <2>4. NeverAhead'
    BY <1>0, <2>1, <2>2, <2>3 DEF MoneyInv, NeverAhead, Backed, Mismatch, Event, TypeOK
  <2>5. /\ \A g \in Handlers \ {h} : job'[g] = job[g]
        /\ \/ job'[h] = Idle
           \/ job'[h] = [at |-> "mirror", event |-> e] /\ e.status \in {"captured", "refunded"}
    BY <1>0, <1>4 DEF UpdatePayment, At, Done, TypeOK
  <2>6. PaidInv'
    BY <2>3, PaidStays DEF MoneyInv
  <2>7. \A q \in posts' : Backed(q)'
    BY <2>3 DEF MoneyInv, Backed
  <2>8. \A g \in Handlers : About(g)' => Backed(job[g].event)'
    BY <2>1, <2>3, <2>5 DEF MoneyInv, Backed, About, Idle
  <2>9. \A g \in Handlers : job'[g].at \in {"update", "mirror"} => ~Mismatch(job'[g].event)
    BY <2>1, <2>5 DEF MoneyInv, Idle
  <2>10. \A g \in Handlers :
           job'[g].at = "mirror" => job'[g].event.status \in {"captured", "refunded"}
    BY <2>5 DEF MoneyInv, Idle
  <2> QED BY <2>3, <2>4, <2>6, <2>7, <2>8, <2>9, <2>10 DEF MoneyInv, Mismatch
<1>5. CASE Mirror(h)
  <2> DEFINE e == job[h].event
  <2>1. e \in Event /\ Backed(e) /\ ~Mismatch(e) /\ e.status \in {"captured", "refunded"}
    BY <1>5, JobFields DEF Mirror, KnownInv, MoneyInv, About
  <2>2. PaidInv'
    BY <1>0, <1>5, <2>1 DEF Mirror, PaidInv, PaidMeansTaken, Backed, Mismatch, Event
  <2> QED BY <1>0, <1>5, <2>2, JobMoney, PaidStays DEF Mirror, Done, Idle, TypeOK, About, start
<1> QED BY <1>1, <1>2, <1>3, <1>4, <1>5 DEF Applies

LEMMA AskMoney ==
  ASSUME KnownInv, MoneyInv, NEW h \in Handlers, job[h].at \in {"ask refund", "ask void"},
         NEW before, NEW after, NEW replies, NEW source,
         \/ /\ before = {"captured", "short", "silent"} /\ after = "refunded"
            /\ replies = RefundReply
         \/ /\ before = {"authorized"} /\ after = "voided"
            /\ replies = VoidReply,
         AskGateway(h, before, after, replies, source)
  PROVE  MoneyInv'
<1> DEFINE p == job[h].payment
<1>1. p \in Payments /\ TypeOK
  BY JobFields DEF KnownInv
<1>2. /\ NeverAhead' /\ PaidInv' /\ Grows
      /\ \A q \in Payments : pc'[q] \in {"idle", "looking", "inserting", "opening"}
                             => gateway'[q] = "none"
      /\ \A e \in posts' : Backed(e)'
      /\ gateway[p] \in before \cup {after} => gateway'[p] = after
  <2>1. CASE gateway[p] \in before
    <3>1. GatewayMoves(p, after) /\ UNCHANGED <<start, row, shop>>
      BY <2>1 DEF AskGateway
    <3>2. /\ gateway[p] # "none"
          /\ gateway[p] \in Taken => after \in Taken
          /\ gateway[p] = "refunded" => after = "refunded"
      BY <2>1 DEF Taken
    <3> HIDE DEF p
    <3> QED BY <1>1, <3>1, <3>2, GatewayMoney
  <2>2. CASE gateway[p] \notin before
    <3>1. UNCHANGED <<pc, gateway, row, posts, payStatus>>
      BY <2>2 DEF AskGateway, start, shop
    <3>2. PaidInv'
      BY <3>1, PaidStays DEF MoneyInv
    <3> QED BY <2>2, <3>1, <3>2 DEF MoneyInv, NeverAhead, Grows, Backed
  <2> QED BY <2>1, <2>2
<1>3. /\ \A g \in Handlers \ {h} : job'[g] = job[g]
      /\ \/ job'[h].at = "idle"
         \/ /\ job'[h].at = "read"
            /\ job'[h].event.payment = p /\ gateway'[p] = after
            /\ after = "refunded" \/ (after = "voided" /\ job'[h].event.status # "refunded")
  <2>1. ASSUME NEW s \in replies, gateway[p] \in before \cup {after},
               Take(h, [Says(p, source, after) EXCEPT !.status = s])
        PROVE  <1>3
    <3>1. gateway'[p] = after
      BY <1>2, <2>1
    <3> DEFINE e == [Says(p, source, after) EXCEPT !.status = s]
    <3>2. e.status = s /\ e.payment = p
      BY DEF Says
    <3>3. job'[h].at = "read" /\ job'[h].event = e
      BY <1>1, <2>1 DEF Take, TypeOK
    <3>4. after = "refunded" \/ (after = "voided" /\ s # "refunded")
      BY <2>1, VoidReplyAssumption
    <3> HIDE DEF e
    <3> QED BY <1>1, <2>1, <3>1, <3>2, <3>3, <3>4 DEF Take, TypeOK
  <2>2. CASE Done(h)
    BY <1>1, <2>2 DEF Done, TypeOK, Idle
  <2> QED BY <2>1, <2>2 DEF AskGateway
<1>4. \A g \in Handlers : About(g)' => Backed(job[g].event)'
  <2>1. ASSUME NEW g \in Handlers \ {h}, About(g)' PROVE Backed(job[g].event)'
    BY <1>2, <1>3, <2>1, JobFields, BackedGrows DEF KnownInv, MoneyInv, About
  <2>2. About(h)' => Backed(job[h].event)'
    BY <1>3 DEF About, Backed, Taken
  <2> QED BY <2>1, <2>2
<1>5. \A g \in Handlers : job'[g].at \in {"update", "mirror"} =>
        job'[g] = job[g]
  BY <1>3
<1> QED BY <1>2, <1>4, <1>5 DEF MoneyInv, Mismatch

LEMMA GivesBackMoney ==
  ASSUME KnownInv, MoneyInv, NEW h \in Handlers, GivesBack(h)
  PROVE  MoneyInv'
<1>0. TypeOK /\ PaidInv
  BY DEF KnownInv, MoneyInv
<1>1. CASE LookPaid(h)
  BY <1>0, <1>1, JobMoney, PaidStays DEF LookPaid, Idle, TypeOK, About, start, shop
<1>2. CASE FindLive(h)
  <2>1. /\ \A g \in Handlers \ {h} : job'[g] = job[g]
        /\ job'[h].at \in {"idle", "ask refund", "ask void"}
    <3>1. CASE Done(h)
      BY <1>0, <3>1 DEF Done, TypeOK, Idle
    <3>2. ASSUME NEW p, NEW l \in {"ask refund", "ask void"},
                 job' = [job EXCEPT ![h] = [at |-> l, payment |-> p]]
          PROVE  <2>1
      BY <1>0, <3>2 DEF TypeOK
    <3> QED BY <1>2, <3>1, <3>2 DEF FindLive
  <2> QED BY <1>0, <1>2, <2>1, JobMoney, PaidStays DEF FindLive, About, start, shop
<1>3. CASE AskRefund(h)
  BY <1>3, AskMoney DEF AskRefund
<1>4. CASE AskVoid(h)
  BY <1>4, AskMoney DEF AskVoid
<1> QED BY <1>1, <1>2, <1>3, <1>4 DEF GivesBack

LEMMA MoneyStep ==
  ASSUME KnownInv, MoneyInv, [Next]_vars
  PROVE  MoneyInv'
<1>0. TypeOK /\ PaidInv
  BY DEF KnownInv, MoneyInv
<1>1. CASE UNCHANGED vars
  <2>1. PaidInv'
    BY <1>0, <1>1, PaidStays DEF vars, shop
  <2> QED BY <1>1, <2>1 DEF MoneyInv, NeverAhead, Backed, Mismatch, About, vars, start, shop
<1>2. ASSUME NEW p \in Payments, Starting(p) \/ CrashStart(p) PROVE MoneyInv'
  BY <1>2, StartingMoney
<1>3. ASSUME NEW p \in Payments, Pay(p) \/ Acquirer(p) PROVE MoneyInv'
  <2>1. PICK w : /\ GatewayMoves(p, w) /\ gateway[p] # "none"
                 /\ gateway[p] \in Taken => w \in Taken
                 /\ gateway[p] = "refunded" => w = "refunded"
                 /\ UNCHANGED <<start, row, journal, job, shop>>
    BY <1>3 DEF Pay, Acquirer, Taken
  <2>2. /\ NeverAhead' /\ PaidInv' /\ Grows
        /\ \A q \in Payments : pc'[q] \in {"idle", "looking", "inserting", "opening"}
                               => gateway'[q] = "none"
        /\ \A e \in posts' : Backed(e)'
    BY <2>1, GatewayMoney
  <2>3. \A h \in Handlers : About(h)' => Backed(job[h].event)'
    BY <2>1, <2>2, JobFields, BackedGrows DEF KnownInv, MoneyInv, About
  <2> QED BY <2>1, <2>2, <2>3 DEF MoneyInv, Mismatch
<1>4. ASSUME NEW h \in Handlers, NEW p \in Payments, Poll(h, p) PROVE MoneyInv'
  <2>1. Backed(Says(p, "poll", gateway[p]))
    BY SaysBacked
  <2>2. /\ job'[h].at = "read" /\ job'[h].event = Says(p, "poll", gateway[p])
        /\ \A g \in Handlers \ {h} : job'[g] = job[g]
    BY <1>0, <1>4 DEF Poll, Take, TypeOK
  <2> QED BY <1>0, <1>4, <2>1, <2>2, JobMoney, PaidStays DEF Poll, start, shop
<1>5. ASSUME NEW h \in Handlers, Webhook(h) PROVE MoneyInv'
  <2>1. PICK e \in posts : Take(h, e)
    BY <1>5 DEF Webhook
  <2>2. /\ job'[h].at = "read" /\ job'[h].event = e
        /\ \A g \in Handlers \ {h} : job'[g] = job[g]
    BY <1>0, <2>1 DEF Take, TypeOK
  <2> QED BY <1>0, <1>5, <2>2, JobMoney, PaidStays DEF Webhook, start, shop, MoneyInv
<1>6. ASSUME NEW h \in Handlers, Serve(h) PROVE MoneyInv'
  BY <1>6, AppliesMoney, GivesBackMoney DEF Serve
<1>7. ASSUME NEW h \in Handlers, Die(h) \/ Cancel(h) \/ Refund(h) PROVE MoneyInv'
  <2>1. /\ job'[h].at \in {"idle", "paid?", "find refund"}
        /\ \A g \in Handlers \ {h} : job'[g] = job[g]
        /\ UNCHANGED <<pc, row, gateway, posts, payStatus>>
    <3>1. CASE Die(h)
      BY <1>0, <3>1 DEF Die, Done, Idle, TypeOK, start
    <3>2. CASE Cancel(h)
      BY <1>0, <3>2 DEF Cancel, TypeOK, start
    <3>3. CASE Refund(h)
      BY <1>0, <3>3 DEF Refund, TypeOK, start, shop
    <3> QED BY <1>7, <3>1, <3>2, <3>3
  <2> QED BY <1>0, <2>1, JobMoney, PaidStays DEF About
<1>8. CASE Complete \/ \E s \in ByHand : SetPayStatus(s)
  <2>1. /\ UNCHANGED <<pc, row, gateway, posts, job>>
        /\ \/ payStatus' = payStatus
           \/ payStatus' \notin {"paid", "refunded"} \/ ~(ByHand \subseteq {"unpaid", "deposit"})
    BY <1>8 DEF Complete, SetPayStatus, start
  <2>2. PaidInv'
    BY <1>0, <2>1 DEF PaidInv, PaidMeansTaken
  <2> QED BY <2>1, <2>2 DEF MoneyInv, NeverAhead, Backed, Mismatch, About
<1> QED BY <1>1, <1>2, <1>3, <1>4, <1>5, <1>6, <1>7, <1>8, CronAssumption
        DEF Next, Buyer, Reconcile, Batch, Unresolved, Return

LEMMA MoneyInvariant == Spec => []MoneyInv
<1>1. Init => KnownInv /\ MoneyInv
  BY CrashAssumption DEF Init, KnownInv, TypeOK, RowsKnown, StartPC, GatewayStatus, InFlight,
     Idle, About, MoneyInv, NeverAhead, PaidInv, PaidMeansTaken, Mismatch
<1>2. KnownInv /\ KnownInv' /\ MoneyInv /\ [Next]_vars => MoneyInv'
  BY MoneyStep
<1>3. Spec => []KnownInv
  BY TypeCorrect, PTL DEF KnownInv
<1> QED BY <1>1, <1>2, <1>3, PTL DEF Spec

\* NeverAhead: whatever overlaps, is repeated or dies, and whatever is typed in
\* by hand, a payment is on record as captured only when its money was taken,
\* another sum was taken that the event did not state, or its hold was let go,
\* and as refunded only when it was given back (applyProviderEvent).
THEOREM NothingAhead == Spec => []NeverAhead
<1>1. MoneyInv => NeverAhead
  BY DEF MoneyInv
<1> QED BY <1>1, MoneyInvariant, PTL

\* PaidMeansTaken: and nobody typing "paid" or "refunded" in, the order says so
\* only when it happened (applyProviderEvent's mirroring).
THEOREM MoneyIsReal ==
  ASSUME ByHand \subseteq {"unpaid", "deposit"}
  PROVE  Spec => []PaidMeansTaken
<1>1. MoneyInv => PaidMeansTaken
  BY DEF MoneyInv, PaidInv
<1> QED BY <1>1, MoneyInvariant, PTL

------------------------------------------------------------------------------
\* One request at a time: what an event was judged by is still true.
SerialInv == KnownInv /\ FlowInv
FlowStep == [Flow!Next]_row

LEMMA Stages ==
  /\ Flow!Stage("initiated") = 1
  /\ Flow!Stage("pending") = 2
  /\ Flow!Stage("authorized") = 3
  /\ \A s \in Flow!Outcomes : Flow!Stage(s) = 4
BY DEF Flow!Stage, Flow!Outcomes

LEMMA AdvanceIs ==
  ASSUME NEW p \in Payments, row[p] \in {"initiated", "pending", "authorized"},
         NEW s \in {"pending", "authorized", "captured", "failed", "cancelled"},
         Flow!Stage(s) > Flow!Stage(row[p]), row' = [row EXCEPT ![p] = s]
  PROVE  FlowStep
<1>1. s \in {"pending", "authorized"} \cup Flow!Outcomes
  BY DEF Flow!Outcomes
<1>2. Flow!Advance(p)
  BY <1>1 DEF Flow!Advance
<1> QED BY <1>2 DEF FlowStep, Flow!Next

\* The starts of one payment leave every settled payment and every job alone.
LEMMA StartingFlow ==
  ASSUME SerialInv, NEW p \in Payments, Starting(p) \/ CrashStart(p)
  PROVE  FlowInv' /\ FlowStep
<1>0. /\ TypeOK /\ FlowInv
      /\ UNCHANGED <<posts, job>>
  BY DEF SerialInv, KnownInv, Starting, CheckOrder, ReuseAttempt, InsertPayment, OpenSession,
         SaveSession, FailSession, CrashStart
<1>1. /\ ~Settled(p)
      /\ \A q \in Payments \ {p} : pc'[q] = pc[q] /\ row'[q] = row[q]
                                /\ (q \in redirect' => q \in redirect)
                                /\ gateway'[q] = gateway[q]
  BY <1>0 DEF Settled, Starting, CheckOrder, ReuseAttempt, InsertPayment, OpenSession,
         SaveSession, FailSession, CrashStart, InFlight, TypeOK, Go
<1>2. /\ InFlight(p)' => row'[p] = "initiated"
      /\ pc'[p] \in {"idle", "looking", "inserting"} => row'[p] = "none"
      /\ p \in redirect' \/ gateway'[p] \notin {"none", "open"} => Settled(p)'
  BY <1>0 DEF FlowInv, Settled, Starting, CheckOrder, ReuseAttempt, InsertPayment, OpenSession,
         SaveSession, FailSession, CrashStart, InFlight, TypeOK, Go
<1>3. \A q \in Payments : Settled(q) => Settled(q)' /\ row'[q] = row[q]
  BY <1>1 DEF Settled
<1>4. /\ \A e \in posts : e.payment \in Payments
      /\ \A h \in Handlers : About(h) => job[h].event.payment \in Payments
      /\ \A h \in Handlers :
           job[h].at \in {"ask refund", "ask void"} => job[h].payment \in Payments
  BY <1>0, JobFields DEF TypeOK, Event
<1>5. \A h \in Handlers :
        /\ About(h) => Settled(job[h].event.payment)' /\ row'[job[h].event.payment] = row[job[h].event.payment]
        /\ job[h].at \in {"ask refund", "ask void"} => Settled(job[h].payment)'
  BY <1>0, <1>3, <1>4 DEF FlowInv
<1>6. FlowInv'
  <2>1. \A q \in Payments :
          /\ InFlight(q)' => row'[q] = "initiated"
          /\ pc'[q] \in {"idle", "looking", "inserting"} => row'[q] = "none"
          /\ q \in redirect' \/ gateway'[q] \notin {"none", "open"} => Settled(q)'
    BY <1>0, <1>1, <1>2 DEF FlowInv, Settled, InFlight
  <2>2. \A e \in posts' : Settled(e.payment)'
    BY <1>0, <1>3, <1>4 DEF FlowInv
  <2>3. \A h \in Handlers :
       /\ About(h)' => Settled(job[h].event.payment)'
       /\ job'[h].at \in {"ask refund", "ask void"} => Settled(job[h].payment)'
       /\ job'[h].at \in {"seen", "journal"} => job'[h].from = row'[job'[h].event.payment]
       /\ job'[h].at = "update" =>
            job'[h].event.status \in Allowed[row'[job'[h].event.payment]]
    BY <1>0, <1>5 DEF FlowInv, About, Settled
  <2> QED BY <1>0, <2>1, <2>2, <2>3 DEF FlowInv
<1>7. FlowStep
  <2>1. CASE InsertPayment(p)
    <3>1. row[p] = "none"
      BY <1>0, <2>1 DEF InsertPayment, FlowInv
    <3>2. UNCHANGED row \/ Flow!Open(p)
      BY <3>1, <2>1 DEF InsertPayment, Flow!Open
    <3> QED BY <3>2 DEF FlowStep, Flow!Next
  <2>2. CASE SaveSession(p) \/ FailSession(p)
    <3>1. row[p] = "initiated"
      BY <1>0, <2>2 DEF SaveSession, FailSession, FlowInv, InFlight
    <3>2. PICK s \in {"pending", "failed"} : row' = [row EXCEPT ![p] = s]
      BY <2>2 DEF SaveSession, FailSession
    <3>3. Flow!Stage(s) > Flow!Stage(row[p])
      BY <3>1, <3>2, Stages DEF Flow!Outcomes
    <3> QED BY <3>1, <3>2, <3>3, AdvanceIs
  <2>3. CASE UNCHANGED row
    BY <2>3 DEF FlowStep
  <2> QED BY <2>1, <2>2, <2>3 DEF Starting, CheckOrder, ReuseAttempt, OpenSession, CrashStart
<1> QED BY <1>6, <1>7

\* A step of the only request being served.
LEMMA JobFlow ==
  ASSUME SerialInv, NEW h \in Handlers, UNCHANGED <<start, row>>,
         \A g \in Handlers \ {h} : job'[g] = Idle /\ job'[g].at = "idle",
         \A q \in Payments : gateway'[q] \notin {"none", "open"} => Settled(q),
         \A e \in posts' : Settled(e.payment),
         About(h)' => Settled(job'[h].event.payment),
         job'[h].at \in {"ask refund", "ask void"} => Settled(job'[h].payment),
         job'[h].at \in {"seen", "journal"} => job'[h].from = row[job'[h].event.payment],
         job'[h].at = "update" =>
            job'[h].event.status \in Allowed[row[job'[h].event.payment]]
  PROVE  FlowInv' /\ FlowStep
<1>1. \A g, i \in Handlers : job'[g] # Idle /\ job'[i] # Idle => g = i
  OBVIOUS
<1>2. /\ UNCHANGED <<pc, redirect>>
      /\ \A q : Settled(q)' <=> Settled(q)
  BY DEF start, Settled
<1>3. \A g \in Handlers \ {h} : job'[g].at = "idle"
  OBVIOUS
<1>4. FlowInv'
  <2>1. \A p \in Payments :
       /\ InFlight(p)' => row'[p] = "initiated"
       /\ pc'[p] \in {"idle", "looking", "inserting"} => row'[p] = "none"
       /\ p \in redirect' \/ gateway'[p] \notin {"none", "open"} => Settled(p)'
    BY <1>2 DEF SerialInv, FlowInv, InFlight
  <2>2. \A e \in posts' : Settled(e.payment)'
    BY <1>2
  <2>3. \A g \in Handlers :
       /\ About(g)' => Settled(job[g].event.payment)'
       /\ job'[g].at \in {"ask refund", "ask void"} => Settled(job[g].payment)'
       /\ job'[g].at \in {"seen", "journal"} => job'[g].from = row'[job'[g].event.payment]
       /\ job'[g].at = "update" =>
            job'[g].event.status \in Allowed[row'[job'[g].event.payment]]
    BY <1>2, <1>3 DEF About, Settled
  <2> QED BY <1>1, <2>1, <2>2, <2>3 DEF FlowInv
<1> QED BY <1>4 DEF FlowStep

LEMMA UpdateFlow ==
  ASSUME SerialInv, NEW h \in Handlers, UpdatePayment(h)
  PROVE  FlowInv' /\ FlowStep
<1> DEFINE e == job[h].event
           p == job[h].event.payment
<1>0. TypeOK /\ FlowInv /\ job[h] # Idle /\ About(h)
  BY DEF SerialInv, KnownInv, UpdatePayment, Idle, About
<1>1. /\ p \in Payments /\ e.status \in PaymentStatus /\ Settled(p)
      /\ row[p] \in PaymentStatus /\ e.status \in Allowed[row[p]]
  BY <1>0, JobFields DEF SerialInv, KnownInv, RowsKnown, FlowInv, UpdatePayment, About, Event, TypeOK
<1>2. /\ \A g \in Handlers \ {h} : job'[g] = Idle /\ job'[g].at = "idle"
      /\ job'[h].at \in {"idle", "mirror"}
      /\ About(h)' => job'[h].event = e
  <2>1. \A g \in Handlers \ {h} : job[g] = Idle /\ Idle.at = "idle"
    BY <1>0 DEF FlowInv, Idle
  <2> QED BY <1>0, <2>1 DEF UpdatePayment, At, Done, TypeOK, Idle, About
<1>3. row' = row \/ row' = [row EXCEPT ![p] = e.status]
  BY DEF UpdatePayment
<1>4. UNCHANGED <<pc, made, redirect, gateway, posts>>
  BY DEF UpdatePayment, start
<1>5. \A q : Settled(q)' <=> Settled(q)
  BY <1>4 DEF Settled
<1>6. \A q \in Payments : ~Settled(q) => row'[q] = row[q]
  BY <1>0, <1>1, <1>3 DEF TypeOK
<1>7. FlowInv'
  <2>1. \A g, i \in Handlers : job'[g] # Idle /\ job'[i] # Idle => g = i
    BY <1>2
  <2>2. \A q \in Payments :
       /\ InFlight(q)' => row'[q] = "initiated"
       /\ pc'[q] \in {"idle", "looking", "inserting"} => row'[q] = "none"
       /\ q \in redirect' \/ gateway'[q] \notin {"none", "open"} => Settled(q)'
    BY <1>0, <1>4, <1>5, <1>6 DEF FlowInv, InFlight, Settled
  <2>3. \A q \in posts' : Settled(q.payment)'
    BY <1>0, <1>4, <1>5 DEF FlowInv
  <2>4. \A g \in Handlers :
       /\ About(g)' => Settled(job[g].event.payment)'
       /\ job'[g].at \notin {"ask refund", "ask void", "seen", "journal", "update"}
    BY <1>1, <1>2, <1>4 DEF About, Settled
  <2> QED BY <2>1, <2>2, <2>3, <2>4 DEF FlowInv
<1>8. FlowStep
  <2>1. CASE row' = row
    BY <2>1 DEF FlowStep
  <2>2. CASE row' = [row EXCEPT ![p] = e.status]
    <3>1. CASE row[p] = "captured"
      <4>1. e.status = "refunded"
        BY <1>1, <3>1 DEF Allowed, PaymentStatus
      <4>2. Flow!Return(p)
        BY <2>2, <3>1, <4>1 DEF Flow!Return
      <4> QED BY <1>1, <4>2 DEF FlowStep, Flow!Next
    <3>2. CASE row[p] # "captured"
      <4>1. /\ row[p] \in {"initiated", "pending", "authorized"}
            /\ e.status \in {"pending", "authorized", "captured", "failed", "cancelled"}
            /\ row[p] = "pending" => e.status # "pending"
            /\ row[p] = "authorized" => e.status \notin {"pending", "authorized"}
        BY <1>1, <3>2 DEF Allowed, PaymentStatus
      <4>2. Flow!Stage(e.status) > Flow!Stage(row[p])
        BY <4>1, Stages DEF Flow!Outcomes
      <4> HIDE DEF e, p
      <4> QED BY <1>1, <2>2, <4>1, <4>2, AdvanceIs
    <3> QED BY <3>1, <3>2
  <2> QED BY <1>3, <2>1, <2>2
<1> QED BY <1>7, <1>8

LEMMA AppliesFlow ==
  ASSUME SerialInv, NEW h \in Handlers, Applies(h)
  PROVE  FlowInv' /\ FlowStep
<1>0. /\ TypeOK /\ FlowInv /\ job[h] # Idle /\ About(h)
      /\ \A g \in Handlers \ {h} : job[g] = Idle /\ Idle.at = "idle"
  <2>1. job[h].at # "idle" /\ About(h) /\ Idle.at = "idle"
    BY DEF Idle, About, Applies, ReadPayment, LookSeen, Journal, UpdatePayment, Mirror
  <2> QED BY <2>1 DEF SerialInv, KnownInv, FlowInv
<1>1. /\ Settled(job[h].event.payment)
      /\ job[h].at \in {"seen", "journal"} => job[h].from = row[job[h].event.payment]
      /\ \A q \in Payments : gateway[q] \notin {"none", "open"} => Settled(q)
      /\ \A e \in posts : Settled(e.payment)
  BY <1>0 DEF FlowInv
<1>2. CASE ReadPayment(h)
  <2>1. /\ job'[h].at = "seen" /\ job'[h].event = job[h].event
        /\ job'[h].from = row[job[h].event.payment]
        /\ \A g \in Handlers \ {h} : job'[g] = Idle /\ job'[g].at = "idle"
    BY <1>0, <1>2 DEF ReadPayment, TypeOK
  <2> QED BY <1>1, <1>2, <2>1, JobFlow DEF ReadPayment
<1>3. CASE LookSeen(h)
  <2>1. /\ job'[h].at \in {"idle", "journal"}
        /\ job'[h].at = "journal" => /\ job'[h].event = job[h].event
                                    /\ job'[h].from = job[h].from
        /\ \A g \in Handlers \ {h} : job'[g] = Idle /\ job'[g].at = "idle"
    BY <1>0, <1>3 DEF LookSeen, Done, Idle, TypeOK
  <2>2. About(h)' => Settled(job'[h].event.payment)
    BY <1>1, <2>1 DEF About
  <2> QED BY <1>1, <1>3, <2>1, <2>2, JobFlow DEF LookSeen
<1>4. CASE Journal(h)
  <2>1. /\ job'[h].at \in {"idle", "update"}
        /\ job'[h].at = "update" => /\ job'[h].event = job[h].event
                                   /\ job[h].event.status \in Allowed[job[h].from]
        /\ \A g \in Handlers \ {h} : job'[g] = Idle /\ job'[g].at = "idle"
    BY <1>0, <1>4 DEF Journal, At, Done, Idle, TypeOK
  <2>2. job[h].from = row[job[h].event.payment]
    BY <1>1, <1>4 DEF Journal
  <2>3. About(h)' => Settled(job'[h].event.payment)
    BY <1>1, <2>1 DEF About
  <2> QED BY <1>1, <1>4, <2>1, <2>2, <2>3, JobFlow DEF Journal
<1>5. CASE UpdatePayment(h)
  BY <1>5, UpdateFlow
<1>6. CASE Mirror(h)
  <2>1. /\ job'[h].at = "idle"
        /\ \A g \in Handlers \ {h} : job'[g] = Idle /\ job'[g].at = "idle"
    BY <1>0, <1>6 DEF Mirror, Done, Idle, TypeOK
  <2> QED BY <1>1, <1>6, <2>1, JobFlow DEF Mirror, About
<1> QED BY <1>2, <1>3, <1>4, <1>5, <1>6 DEF Applies

LEMMA AskFlow ==
  ASSUME SerialInv, NEW h \in Handlers, job[h].at \in {"ask refund", "ask void"},
         NEW before, NEW after, NEW replies, NEW source,
         AskGateway(h, before, after, replies, source)
  PROVE  FlowInv' /\ FlowStep
<1>1. /\ TypeOK /\ FlowInv
      /\ \A g \in Handlers \ {h} : job[g] = Idle /\ Idle.at = "idle"
  <2>1. job[h].at # "idle" /\ Idle.at = "idle"
    BY DEF Idle
  <2> QED BY <2>1 DEF SerialInv, KnownInv, FlowInv
<1>2. /\ \A q \in Payments : gateway[q] \notin {"none", "open"} => Settled(q)
      /\ \A e \in posts : Settled(e.payment)
  BY <1>1 DEF FlowInv
<1> DEFINE p == job[h].payment
<1>3. p \in Payments /\ Settled(p)
  BY <1>1, JobFields DEF SerialInv, KnownInv, FlowInv
<1>4. /\ \A q \in Payments : gateway'[q] \notin {"none", "open"} => Settled(q)
      /\ \A e \in posts' : Settled(e.payment)
  <2>1. CASE GatewayMoves(p, after)
    <3>1. Says(p, "hook", after).payment = p
      BY DEF Says
    <3> QED BY <1>1, <1>2, <1>3, <2>1, <3>1 DEF GatewayMoves, TypeOK
  <2>2. CASE UNCHANGED <<gateway, posts>>
    BY <1>2, <2>2
  <2> QED BY <2>1, <2>2 DEF AskGateway
<1>5. /\ job'[h].at \in {"idle", "read"}
      /\ job'[h].at = "read" => job'[h].event.payment = p
      /\ \A g \in Handlers \ {h} : job'[g] = Idle /\ job'[g].at = "idle"
  <2>1. CASE Done(h)
    BY <1>1, <2>1 DEF Done, Idle, TypeOK
  <2>2. ASSUME NEW s, Take(h, [Says(p, source, after) EXCEPT !.status = s])
        PROVE  <1>5
    <3>1. [Says(p, source, after) EXCEPT !.status = s].payment = p
      BY DEF Says
    <3> QED BY <1>1, <2>2, <3>1 DEF Take, TypeOK
  <2> QED BY <2>1, <2>2 DEF AskGateway
<1>6. About(h)' => Settled(job'[h].event.payment)
  BY <1>3, <1>5 DEF About
<1> QED BY <1>4, <1>5, <1>6, JobFlow DEF AskGateway

LEMMA GivesBackFlow ==
  ASSUME SerialInv, NEW h \in Handlers, GivesBack(h)
  PROVE  FlowInv' /\ FlowStep
<1>0. /\ TypeOK /\ FlowInv /\ job[h] # Idle
      /\ \A g \in Handlers \ {h} : job[g] = Idle /\ Idle.at = "idle"
  <2>1. job[h].at # "idle" /\ Idle.at = "idle"
    BY DEF Idle, GivesBack, LookPaid, FindLive, AskRefund, AskVoid
  <2> QED BY <2>1 DEF SerialInv, KnownInv, FlowInv
<1>1. /\ \A q \in Payments : gateway[q] \notin {"none", "open"} => Settled(q)
      /\ \A e \in posts : Settled(e.payment)
  BY <1>0 DEF FlowInv
<1>2. CASE LookPaid(h)
  <2>1. /\ job'[h].at \in {"idle", "find void"}
        /\ \A g \in Handlers \ {h} : job'[g] = Idle /\ job'[g].at = "idle"
    BY <1>0, <1>2 DEF LookPaid, Idle, TypeOK
  <2> QED BY <1>1, <1>2, <2>1, JobFlow DEF LookPaid, About
<1>3. CASE FindLive(h)
  <2>1. CASE Done(h)
    <3>1. /\ job'[h].at = "idle"
          /\ \A g \in Handlers \ {h} : job'[g] = Idle /\ job'[g].at = "idle"
      BY <1>0, <2>1 DEF Done, Idle, TypeOK
    <3> QED BY <1>1, <1>3, <3>1, JobFlow DEF FindLive, About
  <2>2. ASSUME NEW p \in Rows({"authorized", "captured"}), NEW l \in {"ask refund", "ask void"},
               job' = [job EXCEPT ![h] = [at |-> l, payment |-> p]]
        PROVE  FlowInv' /\ FlowStep
    <3>1. Settled(p)
      BY <1>0 DEF FlowInv, Rows, TypeOK, StartPC, Settled, InFlight
    <3>2. /\ job'[h].at \in {"ask refund", "ask void"} /\ job'[h].payment = p
          /\ \A g \in Handlers \ {h} : job'[g] = Idle /\ job'[g].at = "idle"
      BY <1>0, <2>2 DEF TypeOK
    <3> QED BY <1>1, <1>3, <3>1, <3>2, JobFlow DEF FindLive, About
  <2> QED BY <1>3, <2>1, <2>2 DEF FindLive, Latest, Rows
<1>5. CASE AskRefund(h)
  BY <1>5, AskFlow DEF AskRefund
<1>6. CASE AskVoid(h)
  BY <1>6, AskFlow DEF AskVoid
<1> QED BY <1>2, <1>3, <1>5, <1>6 DEF GivesBack

LEMMA SerialStep ==
  ASSUME SerialInv, "overlap" \notin Interference, [Next]_vars
  PROVE  FlowInv' /\ FlowStep
<1>0. TypeOK /\ FlowInv /\ Idle.at = "idle"
  BY DEF SerialInv, KnownInv, Idle
<1>1. /\ \A q \in Payments : gateway[q] \notin {"none", "open"} => Settled(q)
      /\ \A e \in posts : Settled(e.payment)
  BY <1>0 DEF FlowInv
<1>2. CASE UNCHANGED <<start, row, gateway, posts, job>>
  <2>1. FlowInv'
    BY <1>2 DEF SerialInv, FlowInv, start, InFlight, Settled, About
  <2> QED BY <1>2, <2>1 DEF FlowStep
<1>3. ASSUME NEW p \in Payments, Starting(p) \/ CrashStart(p) PROVE FlowInv' /\ FlowStep
  BY <1>3, StartingFlow
<1>4. ASSUME NEW p \in Payments, Pay(p) \/ Acquirer(p) PROVE FlowInv' /\ FlowStep
  <2>1. PICK w : GatewayMoves(p, w) /\ UNCHANGED <<start, row, journal, job, shop>>
    BY <1>4 DEF Pay, Acquirer
  <2>2. Settled(p) /\ Says(p, "hook", w).payment = p
    BY <1>0, <1>4 DEF Pay, Acquirer, FlowInv, Says
  <2>3. /\ \A q \in Payments : gateway'[q] \notin {"none", "open"} => Settled(q)
        /\ \A e \in posts' : Settled(e.payment)
    BY <1>0, <1>1, <2>1, <2>2 DEF GatewayMoves, TypeOK
  <2>4. FlowInv'
    BY <2>1, <2>3 DEF SerialInv, FlowInv, start, InFlight, Settled, About
  <2> QED BY <2>1, <2>4 DEF FlowStep
<1>5. ASSUME NEW h \in Handlers, NEW e, Settled(e.payment), Free(h), Take(h, e),
             UNCHANGED <<start, row, gateway, posts>>
      PROVE  FlowInv' /\ FlowStep
  <2>1. /\ job'[h].at = "read" /\ job'[h].event = e
        /\ \A g \in Handlers \ {h} : job'[g] = Idle /\ job'[g].at = "idle"
    BY <1>0, <1>5 DEF Take, Free, TypeOK
  <2> QED BY <1>1, <1>5, <2>1, JobFlow
<1>6. ASSUME NEW h \in Handlers, NEW p \in Payments, Poll(h, p), Settled(p)
      PROVE  FlowInv' /\ FlowStep
  <2>1. Says(p, "poll", gateway[p]).payment = p
    BY DEF Says
  <2> QED BY <1>5, <1>6, <2>1 DEF Poll
<1>7. ASSUME NEW p \in Payments, Reconcile(p) PROVE FlowInv' /\ FlowStep
  <2>1. Settled(p)
    BY <1>0, <1>7 DEF Reconcile, Batch, Unresolved, FlowInv, TypeOK, StartPC, Settled, InFlight, Live
  <2> QED BY <1>6, <1>7, <2>1, CronAssumption DEF Reconcile
<1>8. ASSUME NEW h \in Handlers, NEW p \in Payments, Return(h, p) PROVE FlowInv' /\ FlowStep
  BY <1>0, <1>6, <1>8 DEF Return, FlowInv
<1>9. ASSUME NEW h \in Handlers, Webhook(h) PROVE FlowInv' /\ FlowStep
  BY <1>1, <1>5, <1>9 DEF Webhook
<1>10. ASSUME NEW h \in Handlers, Serve(h) PROVE FlowInv' /\ FlowStep
  BY <1>10, AppliesFlow, GivesBackFlow DEF Serve
<1>11. ASSUME NEW h \in Handlers, Die(h) \/ Cancel(h) \/ Refund(h) PROVE FlowInv' /\ FlowStep
  <2>1. \A g \in Handlers \ {h} : job[g] = Idle
    BY <1>0, <1>11 DEF Die, Cancel, Refund, Free, FlowInv
  <2>2. /\ job'[h].at \in {"idle", "paid?", "find refund"}
        /\ \A g \in Handlers \ {h} : job'[g] = Idle /\ job'[g].at = "idle"
        /\ UNCHANGED <<start, row, gateway, posts>>
    <3>1. CASE Die(h)
      BY <1>0, <2>1, <3>1 DEF Die, Done, TypeOK
    <3>2. CASE Cancel(h)
      BY <1>0, <2>1, <3>2 DEF Cancel, TypeOK
    <3>3. CASE Refund(h)
      BY <1>0, <2>1, <3>3 DEF Refund, TypeOK
    <3> QED BY <1>11, <3>1, <3>2, <3>3
  <2> QED BY <1>1, <2>2, JobFlow DEF About
<1>12. CASE Complete \/ \E s \in ByHand : SetPayStatus(s)
  BY <1>2, <1>12 DEF Complete, SetPayStatus
<1>13. CASE UNCHANGED vars
  BY <1>2, <1>13 DEF vars
<1> QED BY <1>3, <1>4, <1>7, <1>8, <1>9, <1>10, <1>11, <1>12, <1>13 DEF Next, Buyer

\* While requests are served one at a time, whatever is lost, repeated, late or
\* dies, a payment only advances and its outcome is final (decideTransition).
THEOREM PaymentsKeepFlow ==
  ASSUME "overlap" \notin Interference
  PROVE  Spec => KeepsFlow
<1>1. Init => FlowInv /\ Flow!Init
  <2> SUFFICES ASSUME Init PROVE FlowInv /\ Flow!Init
    OBVIOUS
  <2>1. \A h \in Handlers : job[h] = Idle /\ job[h].at = "idle"
    BY DEF Init, Idle
  <2>2. \A p \in Payments : /\ pc[p] = "idle" /\ row[p] = "none" /\ p \notin redirect
                           /\ gateway[p] = "none"
    BY DEF Init
  <2>3. posts = {} /\ Flow!Init
    BY DEF Init, Flow!Init
  <2> QED BY <2>1, <2>2, <2>3 DEF FlowInv, InFlight, Settled, About
<1>2. KnownInv /\ FlowInv /\ [Next]_vars => FlowInv' /\ [Flow!Next]_row
  BY SerialStep DEF SerialInv, FlowStep
<1>3. Spec => []KnownInv
  BY TypeCorrect, PTL DEF KnownInv
<1> QED BY <1>1, <1>2, <1>3, PTL DEF Spec, KeepsFlow, Flow!Spec
=============================================================================
