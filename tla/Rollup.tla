-------------------------------- MODULE Rollup --------------------------------
(* The dashboard's figures: two materialized views of the order book, the   *)
(* hourly job that rebuilds them, and the page that asks whether they may   *)
(* be read before it reads them.  Time is the number of transactions on     *)
(* the order book that have begun: now() is the start of a transaction, so  *)
(* a refresh compares with a change by which of them began first.           *)
EXTENDS Integers, FiniteSets

CONSTANTS
  Orders,
  Late,          \* orders of which a change may begin before a refresh and
                 \* commit after it has read
  Kinds,         \* what happens to the order book
  MaxVersion,    \* bound: how often an order is written
  MaxChanges,    \* bound: transactions on the order book
  MaxFails       \* bound: refreshes that fail

ASSUME OrdersAssumption == IsFiniteSet(Orders) /\ Late \subseteq Orders
ASSUME KindsAssumption == Kinds \subseteq {"insert", "update", "delete", "return"}
ASSUME BoundsAssumption == MaxVersion \in Nat \ {0} /\ MaxChanges \in Nat /\ MaxFails \in Nat

VARIABLES
  book,       \* orders: 0 not placed yet, how often written, or Gone
  back,       \* back[o]: order_return_items says that units came back
  owed,       \* returns recorded whose items are still to be inserted
  stamp,      \* orders.updated_at
  clock,      \* transactions on the order book begun so far
  open,       \* those of them that have not committed
  sales,      \* sales_daily: which book, and which returns, it was made from
  counts,     \* sales_daily_orders: which book it was made from
  refreshed,  \* analytics_refresh.refreshed_at
  job,        \* the refresh under way, and what it has rebuilt
  fails,
  page        \* a visit to the admin home, and what it has read

shop == <<book, back, owed, stamp, clock, open>>
views == <<sales, counts, refreshed>>
vars == <<shop, views, job, fails, page>>

Gone == MaxVersion + 1
Standing == 1..MaxVersion
Time == 0..MaxChanges
Never == -1
Changes == [order : Orders, kind : Kinds, at : Time]

Books == [Orders -> 0..Gone]
Ledgers == [Orders -> [row : 0..Gone, back : BOOLEAN]]

NoBook == [o \in Orders |-> 0]
NoLedger == [o \in Orders |-> [row |-> 0, back |-> FALSE]]
NoJob == [leg |-> "idle", at |-> 0, sales |-> NoLedger, counts |-> NoBook]
NoPage == [leg |-> "idle", asked |-> NoBook, sales |-> NoBook, counts |-> NoBook]

TypeOK ==
  /\ book \in Books /\ back \in [Orders -> BOOLEAN] /\ owed \subseteq Orders
  /\ stamp \in [Orders -> Time] /\ clock \in Time /\ open \subseteq Changes
  /\ sales \in Ledgers /\ counts \in Books /\ refreshed \in Time \cup {Never}
  /\ job \in [leg : {"idle", "sales", "counts", "commit"}, at : Time,
              sales : Ledgers, counts : Books]
  /\ fails \in 0..MaxFails
  /\ page \in [leg : {"idle", "rows", "counts", "shown"}, asked : Books,
               sales : Books, counts : Books]

Init ==
  /\ book = NoBook /\ back = [o \in Orders |-> FALSE] /\ owed = {}
  /\ stamp = [o \in Orders |-> 0] /\ clock = 0 /\ open = {}
  /\ sales = NoLedger /\ counts = NoBook /\ refreshed = Never
  /\ job = NoJob /\ fails = 0 /\ page = NoPage

------------------------------------------------------------------------------
(* The order book.                                                          *)

InBook(o) == book[o] \in Standing

Possible(o, kind) ==
  CASE kind = "insert" -> book[o] = 0
    [] kind = "update" -> InBook(o) /\ book[o] < MaxVersion
    [] kind = "delete" -> InBook(o)
    [] kind = "return" -> InBook(o) /\ o \notin owed /\ ~back[o]

\* An update does not touch updated_at.
MutantTouch(o, kind, at) ==
  stamp' = IF kind \in {"insert", "return"} THEN [stamp EXCEPT ![o] = at] ELSE stamp

\* updated_at: its default, and touch_order_updated_at before every update.
Touch(o, kind, at) ==
  stamp' = IF kind = "delete" THEN stamp ELSE [stamp EXCEPT ![o] = at]

\* One transaction takes effect: a placement, an update of any kind, the
\* unwinding of a placement, or the insert into order_returns, whose trigger
\* updates the order and changes nothing that the views read.
Write(o, kind, at) ==
  /\ book' = [book EXCEPT ![o] = IF kind = "return" THEN @
                                  ELSE IF kind = "delete" THEN Gone ELSE @ + 1]
  /\ owed' = IF kind = "return" THEN owed \cup {o} ELSE owed
  /\ Touch(o, kind, at)

\* Begun and committed with nothing in between.
Change(o, kind) ==
  /\ clock < MaxChanges
  /\ Possible(o, kind)
  /\ clock' = clock + 1
  /\ Write(o, kind, clock')
  /\ UNCHANGED <<back, open, views, job, fails, page>>

Begin(o, kind) ==
  /\ o \in Late
  /\ clock < MaxChanges
  /\ Possible(o, kind)
  /\ \A t \in open : t.order # o
  /\ clock' = clock + 1
  /\ open' = open \cup {[order |-> o, kind |-> kind, at |-> clock']}
  /\ UNCHANGED <<book, back, owed, stamp, views, job, fails, page>>

Commit(t) ==
  /\ open' = open \ {t}
  /\ IF Possible(t.order, t.kind)
       THEN Write(t.order, t.kind, t.at)
       ELSE UNCHANGED <<book, owed, stamp>>
  /\ UNCHANGED <<back, clock, views, job, fails, page>>

\* The insert into order_return_items, a statement of its own.  Nothing of
\* the order is updated by it.
ReturnItems(o) ==
  /\ o \in owed
  /\ owed' = owed \ {o}
  /\ back' = [back EXCEPT ![o] = TRUE]
  /\ UNCHANGED <<book, stamp, clock, open, views, job, fails, page>>

------------------------------------------------------------------------------
(* refresh_sales_daily, one transaction of several statements: each of them *)
(* sees what was committed when it started.  A second refresh waits at the  *)
(* lock of the first view.                                                  *)

StartRefresh ==
  /\ job.leg = "idle"
  /\ job' = [NoJob EXCEPT !.leg = "sales", !.at = clock]
  /\ UNCHANGED <<shop, views, fails, page>>

RefreshSales ==
  /\ job.leg = "sales"
  /\ job' = [job EXCEPT !.leg = "counts",
                        !.sales = [o \in Orders |-> [row |-> book[o], back |-> back[o]]]]
  /\ UNCHANGED <<shop, views, fails, page>>

\* Only the first of the views is rebuilt.
MutantRefreshCounts ==
  /\ job.leg = "counts"
  /\ job' = [job EXCEPT !.leg = "commit", !.counts = counts]
  /\ UNCHANGED <<shop, views, fails, page>>

RefreshCounts ==
  /\ job.leg = "counts"
  /\ job' = [job EXCEPT !.leg = "commit", !.counts = book]
  /\ UNCHANGED <<shop, views, fails, page>>

\* The refresh is stamped with the time at which it ends.
MutantStampedAt == clock

\* now(), which is when the transaction began.
StampedAt == job.at

CommitRefresh ==
  /\ job.leg = "commit"
  /\ sales' = job.sales /\ counts' = job.counts
  /\ refreshed' = StampedAt
  /\ job' = NoJob
  /\ UNCHANGED <<shop, fails, page>>

\* The statement fails and everything is rolled back; the next hour comes.
FailRefresh ==
  /\ fails < MaxFails
  /\ job.leg # "idle"
  /\ job' = NoJob
  /\ fails' = fails + 1
  /\ UNCHANGED <<shop, views, page>>

------------------------------------------------------------------------------
(* The admin home.                                                          *)

OrdersIn(b) == Cardinality({o \in Orders : b[o] \in Standing})

\* The clock alone, as it was before the counts were compared.
MutantCurrent ==
  /\ refreshed # Never
  /\ \A o \in Orders : InBook(o) => stamp[o] <= refreshed

\* analytics_freshness, one statement, judged by rollupIsCurrent.
Current ==
  /\ refreshed # Never
  /\ OrdersIn(book) = OrdersIn(counts)
  /\ \A o \in Orders : InBook(o) => stamp[o] <= refreshed

\* Otherwise the page reads the order book itself.
OpenPage ==
  /\ page.leg = "idle"
  /\ Current
  /\ page' = [NoPage EXCEPT !.leg = "rows", !.asked = book]
  /\ UNCHANGED <<shop, views, job, fails>>

ReadRows ==
  /\ page.leg = "rows"
  /\ page' = [page EXCEPT !.leg = "counts", !.sales = [o \in Orders |-> sales[o].row]]
  /\ UNCHANGED <<shop, views, job, fails>>

ReadCounts ==
  /\ page.leg = "counts"
  /\ page' = [page EXCEPT !.leg = "shown", !.counts = counts]
  /\ UNCHANGED <<shop, views, job, fails>>

ClosePage ==
  /\ page.leg = "shown"
  /\ page' = NoPage
  /\ UNCHANGED <<shop, views, job, fails>>

------------------------------------------------------------------------------
Next ==
  \/ \E o \in Orders, kind \in Kinds : Change(o, kind) \/ Begin(o, kind)
  \/ \E t \in open : Commit(t)
  \/ \E o \in Orders : ReturnItems(o)
  \/ StartRefresh \/ RefreshSales \/ RefreshCounts \/ CommitRefresh \/ FailRefresh
  \/ OpenPage \/ ReadRows \/ ReadCounts \/ ClosePage

\* The cron is hourly and a refresh that does not fail ends.  A transaction
\* may stay open, the items of a return may never come (a server that died),
\* and nobody need visit the page.
Fairness ==
  /\ WF_vars(StartRefresh) /\ WF_vars(RefreshSales)
  /\ WF_vars(RefreshCounts) /\ WF_vars(CommitRefresh)

Spec == Init /\ [][Next]_vars /\ Fairness

------------------------------------------------------------------------------
(* Properties.                                                              *)

Punctual == Orders \ Late

\* When the views are called current, both were made from every order in
\* the book as it stands, but for those that changed late: no placement and
\* no change is missed.
CurrentSawOrders ==
  Current => \A o \in Punctual :
    InBook(o) => sales[o].row = book[o] /\ counts[o] = book[o]

\* When the views are called current, neither holds an order that has left
\* the book, but in the place of one that was placed late -- and sales_daily
\* alone one that left between the two statements of the refresh, which the
\* counts, made by the second, no longer have (sales-rollup.sql: "rebuilt
\* together"): of such an order revenue is shown and no order counted.
CurrentCountsBook ==
  Current =>
    Cardinality({o \in Orders :
        /\ ~InBook(o)
        /\ \/ counts[o] \in Standing
           \/ sales[o].row \in Standing /\ counts[o] # Gone})
      <= Cardinality({o \in Late : InBook(o) /\ counts[o] \notin Standing})

\* A page never shows an order older than it was when the page asked whether
\* the views were current, though it reads them in two more calls between
\* which they may be rebuilt. (One of the two may be newer than the other.)
NeverOlderThanAsked ==
  \A o \in Punctual : page.asked[o] \in Standing =>
    /\ page.leg \in {"counts", "shown"} => page.sales[o] >= page.asked[o]
    /\ page.leg = "shown" => page.counts[o] >= page.asked[o]

\* When the shop comes to rest, the views come to be those of the book, with
\* its returns, and are called current -- also after failed refreshes and
\* changes that committed late.
CatchesUp ==
  <>[](/\ Current /\ counts = book
       /\ sales = [o \in Orders |-> [row |-> book[o], back |-> back[o]]])
=============================================================================
