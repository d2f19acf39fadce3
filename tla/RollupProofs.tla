----------------------------- MODULE RollupProofs -----------------------------
(* Theorems of Rollup, for any orders, late or not, and any bounds.            *)
EXTENDS Rollup, FiniteSetTheorems, TLAPS

USE OrdersAssumption, KindsAssumption, BoundsAssumption

\* Nothing is from the future, and no refresh under way is older than the
\* last one.
Ordered ==
  /\ \A o \in Punctual : stamp[o] <= clock
  /\ refreshed <= clock
  /\ job.leg # "idle" => refreshed <= job.at /\ job.at <= clock

\* An order whose last change began before a refresh did was seen by it.
Seen(at, view) == \A o \in Punctual : InBook(o) /\ stamp[o] <= at => view[o] = book[o]

RowsOf(ledger) == [o \in Orders |-> ledger[o].row]

Rebuilt ==
  /\ \A t \in open : t.order \in Late
  /\ Seen(refreshed, RowsOf(sales)) /\ Seen(refreshed, counts)
  /\ job.leg \in {"counts", "commit"} => Seen(job.at, RowsOf(job.sales))
  /\ job.leg = "commit" => Seen(job.at, job.counts)

\* A view is as new as the book was when the page asked.
AtLeast(view) == \A o \in Punctual : page.asked[o] \in Standing => view[o] >= page.asked[o]

\* Whatever a page has still to read is.
Reading ==
  page.leg # "idle" =>
    /\ AtLeast(book)
    /\ AtLeast(RowsOf(sales)) /\ AtLeast(counts)
    /\ job.leg \in {"counts", "commit"} => AtLeast(RowsOf(job.sales))
    /\ job.leg = "commit" => AtLeast(job.counts)

ViewsInv == Ordered /\ Rebuilt /\ Reading /\ NeverOlderThanAsked

------------------------------------------------------------------------------
(* Types.                                                                    *)

LEMMA Ranges ==
  /\ NoBook \in Books /\ NoLedger \in Ledgers
  /\ Standing \subseteq 0..Gone /\ Gone \in Nat /\ 0 \in 0..Gone
BY DEF NoBook, NoLedger, Books, Ledgers, Standing, Gone

LEMMA RowsType ==
  ASSUME NEW l \in Ledgers
  PROVE  /\ RowsOf(l) \in Books
         /\ \A o \in Orders : RowsOf(l)[o] = l[o].row
BY DEF RowsOf, Ledgers, Books

LEMMA JobTypes ==
  ASSUME TypeOK
  PROVE  /\ job.leg \in {"idle", "sales", "counts", "commit"} /\ job.at \in Time
         /\ job.sales \in Ledgers /\ job.counts \in Books
BY DEF TypeOK

LEMMA PageTypes ==
  ASSUME TypeOK
  PROVE  /\ page.leg \in {"idle", "rows", "counts", "shown"}
         /\ page.asked \in Books /\ page.sales \in Books /\ page.counts \in Books
BY DEF TypeOK

\* What a transaction writes has its type.
LEMMA WriteType ==
  ASSUME TypeOK, NEW o \in Orders, NEW kind \in Kinds, NEW at \in Time,
         Possible(o, kind), Write(o, kind, at)
  PROVE  book' \in Books /\ owed' \subseteq Orders /\ stamp' \in [Orders -> Time]
<1>1. book[o] \in 0..Gone /\ kind \in {"insert", "update", "delete", "return"}
  BY DEF TypeOK, Books
<1>2. kind \in {"insert", "update"} => book[o] + 1 \in 0..Gone
  <2>1. MaxVersion \in Nat \ {0}
    BY DEF BoundsAssumption
  <2>2. CASE kind = "insert"
    BY <2>1, <2>2 DEF Possible, Gone
  <2>3. CASE kind = "update"
    BY <2>1, <2>3 DEF Possible, InBook, Standing, Gone
  <2> QED BY <2>2, <2>3
<1>3. (IF kind = "return" THEN book[o] ELSE IF kind = "delete" THEN Gone ELSE book[o] + 1)
        \in 0..Gone
  BY <1>1, <1>2 DEF Gone
<1>4. book' \in Books
  BY <1>3 DEF Write, TypeOK, Books
<1>5. stamp' \in [Orders -> Time]
  BY DEF Write, Touch, TypeOK
<1> QED BY <1>4, <1>5 DEF Write, TypeOK

LEMMA TypeInit == Init => TypeOK
BY Ranges DEF Init, TypeOK, Time, Never, NoJob, NoPage, Books, Ledgers, NoBook, NoLedger

LEMMA TypeStep == TypeOK /\ [Next]_vars => TypeOK'
<1> SUFFICES ASSUME TypeOK, [Next]_vars PROVE TypeOK'
  OBVIOUS
<1> USE JobTypes, PageTypes
<1>1. ASSUME NEW o \in Orders, NEW kind \in Kinds, Change(o, kind) PROVE TypeOK'
  <2>1. clock' \in Time
    BY <1>1 DEF Change, TypeOK, Time
  <2>2. book' \in Books /\ owed' \subseteq Orders /\ stamp' \in [Orders -> Time]
    BY <1>1, <2>1, WriteType DEF Change
  <2> QED BY <1>1, <2>1, <2>2 DEF Change, TypeOK, views
<1>2. ASSUME NEW o \in Orders, NEW kind \in Kinds, Begin(o, kind) PROVE TypeOK'
  <2>1. clock' \in Time
    BY <1>2 DEF Begin, TypeOK, Time
  <2>2. open' \subseteq Changes
    BY <1>2, <2>1 DEF Begin, TypeOK, Changes
  <2> QED BY <1>2, <2>1, <2>2 DEF Begin, TypeOK, views
<1>3. ASSUME NEW t \in open, Commit(t) PROVE TypeOK'
  <2>1. t.order \in Orders /\ t.kind \in Kinds /\ t.at \in Time
    BY DEF TypeOK, Changes
  <2>2. book' \in Books /\ owed' \subseteq Orders /\ stamp' \in [Orders -> Time]
    <3>1. CASE Possible(t.order, t.kind)
      BY <1>3, <2>1, <3>1, WriteType DEF Commit
    <3>2. CASE ~Possible(t.order, t.kind)
      BY <1>3, <3>2 DEF Commit, TypeOK
    <3> QED BY <3>1, <3>2
  <2> QED BY <1>3, <2>2 DEF Commit, TypeOK, views
<1>4. ASSUME NEW o \in Orders, ReturnItems(o) PROVE TypeOK'
  BY <1>4 DEF ReturnItems, TypeOK, views
<1>5. CASE StartRefresh
  <2>1. job' \in [leg : {"idle", "sales", "counts", "commit"}, at : Time,
                  sales : Ledgers, counts : Books]
    BY <1>5, Ranges DEF StartRefresh, NoJob, TypeOK
  <2> QED BY <1>5, <2>1 DEF StartRefresh, TypeOK, shop, views
<1>6. CASE RefreshSales
  <2>1. [o \in Orders |-> [row |-> book[o], back |-> back[o]]] \in Ledgers
    BY DEF TypeOK, Books, Ledgers
  <2>2. job' \in [leg : {"idle", "sales", "counts", "commit"}, at : Time,
                  sales : Ledgers, counts : Books]
    BY <1>6, <2>1 DEF RefreshSales, TypeOK
  <2> QED BY <1>6, <2>2 DEF RefreshSales, TypeOK, shop, views
<1>7. CASE RefreshCounts
  <2>1. job' \in [leg : {"idle", "sales", "counts", "commit"}, at : Time,
                  sales : Ledgers, counts : Books]
    BY <1>7 DEF RefreshCounts, TypeOK
  <2> QED BY <1>7, <2>1 DEF RefreshCounts, TypeOK, shop, views
<1>8. ASSUME job' = NoJob
      PROVE  job' \in [leg : {"idle", "sales", "counts", "commit"}, at : Time,
                       sales : Ledgers, counts : Books]
  BY <1>8, Ranges DEF NoJob, Time
<1>9. CASE CommitRefresh
  BY <1>8, <1>9 DEF CommitRefresh, StampedAt, TypeOK, shop
<1>10. CASE FailRefresh
  BY <1>8, <1>10 DEF FailRefresh, TypeOK, shop, views
<1>11. CASE OpenPage \/ ReadRows \/ ReadCounts \/ ClosePage
  <2>1. [o \in Orders |-> sales[o].row] \in Books
    BY DEF TypeOK, Ledgers, Books
  <2>2. page' \in [leg : {"idle", "rows", "counts", "shown"}, asked : Books,
                   sales : Books, counts : Books]
    <3>1. CASE OpenPage
      BY <3>1, Ranges DEF OpenPage, NoPage, TypeOK
    <3>2. CASE ReadRows
      BY <3>2, <2>1 DEF ReadRows, TypeOK
    <3>3. CASE ReadCounts
      BY <3>3 DEF ReadCounts, TypeOK
    <3>4. CASE ClosePage
      BY <3>4, Ranges DEF ClosePage, NoPage
    <3> QED BY <1>11, <3>1, <3>2, <3>3, <3>4
  <2>3. UNCHANGED <<shop, views, job, fails>>
    BY <1>11 DEF OpenPage, ReadRows, ReadCounts, ClosePage
  <2> QED BY <2>2, <2>3 DEF TypeOK, shop, views
<1>12. CASE UNCHANGED vars
  BY <1>12 DEF vars, shop, views, TypeOK
<1> QED BY <1>1, <1>2, <1>3, <1>4, <1>5, <1>6, <1>7, <1>9, <1>10, <1>11, <1>12 DEF Next

\* No order, view or date leaves its range, whatever overlaps and fails.
THEOREM TypeCorrect == Spec => []TypeOK
BY TypeInit, TypeStep, PTL DEF Spec

------------------------------------------------------------------------------
(* What the views have seen of the punctual orders.                          *)

LEMMA ViewsInit == Init => ViewsInv
BY DEF Init, ViewsInv, Ordered, Rebuilt, Reading, NeverOlderThanAsked, Seen, InBook, Standing,
   NoJob, NoPage, NoBook, Never, RowsOf, NoLedger, Punctual

\* Whoever asks when the views are current is told of a book both have seen.
LEMMA CurrentSaw ==
  ASSUME TypeOK, Rebuilt, Current, NEW o \in Punctual, InBook(o)
  PROVE  sales[o].row = book[o] /\ counts[o] = book[o]
<1>1. o \in Orders /\ stamp[o] <= refreshed
  BY DEF Current, Punctual
<1> QED BY <1>1, RowsType DEF Rebuilt, Seen, TypeOK

\* A transaction writes later than the last refresh and the one under way
\* began, and never takes an order back.
LEMMA WriteLater ==
  ASSUME TypeOK, NEW o \in Orders, NEW kind \in Kinds, NEW at \in Time,
         Possible(o, kind), Write(o, kind, at)
  PROVE  /\ \A p \in Orders : book'[p] >= book[p]
         /\ \A p \in Orders : p # o => book'[p] = book[p] /\ stamp'[p] = stamp[p]
         /\ stamp'[o] \in {stamp[o], at}
         /\ InBook(o)' => stamp'[o] = at
<1>1. /\ kind \in {"insert", "update", "delete", "return"}
      /\ book \in [Orders -> 0..Gone] /\ stamp \in [Orders -> Time]
      /\ MaxVersion \in Nat
  BY DEF TypeOK, Books
<1>2. CASE kind = "delete"
  BY <1>1, <1>2 DEF Write, Touch, InBook, Standing, Gone
<1>3. CASE kind = "return"
  BY <1>1, <1>3 DEF Write, Touch
<1>4. CASE kind \in {"insert", "update"}
  BY <1>1, <1>4 DEF Write, Touch
<1> QED BY <1>1, <1>2, <1>3, <1>4

\* What a refresh that began earlier has seen of the rest of the book stays
\* what it is.
LEMMA SeenWrite ==
  ASSUME TypeOK, NEW o \in Orders, NEW kind \in Kinds, Possible(o, kind),
         NEW now \in Time, Write(o, kind, now),
         NEW at \in Int, at < now, NEW STATE view, Seen(at, view)
  PROVE  \A p \in Punctual : book'[p] \in Standing /\ stamp'[p] <= at => view[p] = book'[p]
<1> SUFFICES ASSUME NEW p \in Punctual, book'[p] \in Standing, stamp'[p] <= at
             PROVE  view[p] = book'[p]
  OBVIOUS
<1>0. p \in Orders
  BY DEF Punctual
<1>1. ASSUME p = o PROVE FALSE
  <2>1. stamp'[o] = now
    BY <1>1, WriteLater DEF InBook
  <2> QED BY <1>1, <2>1 DEF Time
<1>2. book'[p] = book[p] /\ stamp'[p] = stamp[p]
  BY <1>0, <1>1, WriteLater
<1> QED BY <1>2 DEF Seen, InBook

\* A later book is no older than what the page asked about.
LEMMA AskedWrite ==
  ASSUME TypeOK, AtLeast(book), \A p \in Orders : book'[p] >= book[p],
         book' \in Books, UNCHANGED page
  PROVE  AtLeast(book)'
<1> SUFFICES ASSUME NEW p \in Punctual, page.asked[p] \in Standing
             PROVE  book'[p] >= page.asked[p]
  BY DEF AtLeast
<1>0. p \in Orders
  BY DEF Punctual
<1>1. book[p] \in Int /\ book'[p] \in Int /\ page.asked[p] \in Int
  BY <1>0, PageTypes DEF TypeOK, Books, Gone
<1> QED BY <1>0, <1>1 DEF AtLeast

\* What a refresh reads now, as the order book: Seen at any time.
LEMMA ReadNow ==
  ASSUME TypeOK
  PROVE  LET l == [o \in Orders |-> [row |-> book[o], back |-> back[o]]]
         IN  RowsOf(l) = book
BY DEF TypeOK, Books, RowsOf

LEMMA ChangeStep ==
  ASSUME TypeOK, ViewsInv, NEW o \in Orders, NEW kind \in Kinds, Change(o, kind)
  PROVE  ViewsInv'
<1>1. /\ clock \in Int /\ clock' = clock + 1 /\ clock' \in Time
      /\ refreshed \in Int /\ job.at \in Int /\ stamp \in [Orders -> Int]
  BY JobTypes DEF TypeOK, Time, Never, Change
<1>2. Possible(o, kind) /\ Write(o, kind, clock')
  BY DEF Change
<1>3. UNCHANGED <<back, open, views, job, fails, page>>
  BY DEF Change
<1>4. /\ \A p \in Orders : book'[p] >= book[p]
      /\ \A p \in Orders : stamp'[p] \in {stamp[p], clock'}
      /\ book' \in Books
  BY <1>1, <1>2, WriteLater, WriteType
<1>5. Ordered'
  BY <1>1, <1>3, <1>4 DEF ViewsInv, Ordered, views, Punctual
<1>6. Rebuilt'
  <2>1. refreshed < clock' /\ (job.leg # "idle" => job.at < clock')
    BY <1>1 DEF ViewsInv, Ordered
  <2>0. /\ RowsOf(sales)' = RowsOf(sales) /\ RowsOf(job.sales)' = RowsOf(job.sales)
        /\ UNCHANGED <<counts, refreshed, job>>
    BY <1>3 DEF RowsOf, views
  <2>2. Seen(refreshed, RowsOf(sales))' /\ Seen(refreshed, counts)'
    <3>1. Seen(refreshed, RowsOf(sales)) /\ Seen(refreshed, counts)
      BY DEF ViewsInv, Rebuilt
    <3>2. \A p \in Punctual : book'[p] \in Standing /\ stamp'[p] <= refreshed =>
            RowsOf(sales)[p] = book'[p]
      BY <1>1, <1>2, <2>1, <3>1, SeenWrite
    <3>3. \A p \in Punctual : book'[p] \in Standing /\ stamp'[p] <= refreshed =>
            counts[p] = book'[p]
      BY <1>1, <1>2, <2>1, <3>1, SeenWrite
    <3> QED BY <2>0, <3>2, <3>3 DEF Seen, InBook
  <2>3. job.leg \in {"counts", "commit"} => Seen(job.at, RowsOf(job.sales))'
    <3> SUFFICES ASSUME job.leg \in {"counts", "commit"} PROVE Seen(job.at, RowsOf(job.sales))'
      BY <2>0
    <3>1. Seen(job.at, RowsOf(job.sales)) /\ job.at < clock'
      BY <2>1 DEF ViewsInv, Rebuilt
    <3>2. \A p \in Punctual : book'[p] \in Standing /\ stamp'[p] <= job.at =>
            RowsOf(job.sales)[p] = book'[p]
      BY <1>1, <1>2, <3>1, SeenWrite
    <3> QED BY <2>0, <3>2 DEF Seen, InBook
  <2>4. job.leg = "commit" => Seen(job.at, job.counts)'
    BY <1>1, <1>2, <1>3, <2>1, SeenWrite DEF ViewsInv, Rebuilt, Seen, InBook
  <2> QED BY <1>3, <2>2, <2>3, <2>4 DEF ViewsInv, Rebuilt
<1>7. Reading'
  <2>1. page.leg # "idle" => AtLeast(book)'
    BY <1>3, <1>4, AskedWrite DEF ViewsInv, Reading
  <2> QED BY <1>3, <2>1 DEF ViewsInv, Reading, AtLeast, views, RowsOf
<1>8. NeverOlderThanAsked'
  BY <1>3 DEF ViewsInv, NeverOlderThanAsked
<1> QED BY <1>5, <1>6, <1>7, <1>8 DEF ViewsInv

LEMMA RefreshStep ==
  ASSUME TypeOK, ViewsInv,
         StartRefresh \/ RefreshSales \/ RefreshCounts \/ CommitRefresh \/ FailRefresh
  PROVE  ViewsInv'
<1>1. /\ clock \in Int /\ refreshed \in Int /\ job.at \in Int
      /\ UNCHANGED <<shop, page>>
  BY JobTypes DEF TypeOK, Time, Never, StartRefresh, RefreshSales, RefreshCounts,
     CommitRefresh, FailRefresh
<1>2. NeverOlderThanAsked'
  BY <1>1 DEF ViewsInv, NeverOlderThanAsked
<1>3. CASE StartRefresh
  <2>1. job'.leg = "sales" /\ job'.at = clock /\ UNCHANGED <<shop, views, page>>
    BY <1>3 DEF StartRefresh, NoJob
  <2>2. Ordered'
    BY <1>1, <2>1 DEF ViewsInv, Ordered, shop, views
  <2>3. Rebuilt'
    BY <2>1 DEF ViewsInv, Rebuilt, Seen, InBook, RowsOf, shop, views
  <2>4. Reading'
    BY <2>1 DEF ViewsInv, Reading, AtLeast, RowsOf, shop, views
  <2> QED BY <1>2, <2>2, <2>3, <2>4 DEF ViewsInv
<1>4. CASE RefreshSales
  <2>1. /\ job.leg = "sales" /\ job'.leg = "counts" /\ job'.at = job.at
        /\ job'.sales = [o \in Orders |-> [row |-> book[o], back |-> back[o]]]
        /\ UNCHANGED <<shop, views, page>>
    BY <1>4, JobTypes DEF RefreshSales, TypeOK
  <2>2. Ordered'
    BY <1>1, <2>1 DEF ViewsInv, Ordered, shop, views
  <2>3. RowsOf(job.sales)' = book
    BY <2>1, ReadNow DEF RowsOf
  <2>4. Rebuilt'
    BY <2>1, <2>3 DEF ViewsInv, Rebuilt, Seen, InBook, RowsOf, shop, views, Punctual
  <2>5. Reading'
    BY <2>1, <2>3 DEF ViewsInv, Reading, AtLeast, RowsOf, shop, views
  <2> QED BY <1>2, <2>2, <2>4, <2>5 DEF ViewsInv
<1>5. CASE RefreshCounts
  <2>1. /\ job.leg = "counts" /\ job'.leg = "commit" /\ job'.at = job.at
        /\ job'.sales = job.sales /\ job'.counts = book
        /\ UNCHANGED <<shop, views, page>>
    BY <1>5, JobTypes DEF RefreshCounts, TypeOK
  <2>2. Ordered'
    BY <1>1, <2>1 DEF ViewsInv, Ordered, shop, views
  <2>3. Rebuilt'
    BY <2>1 DEF ViewsInv, Rebuilt, Seen, InBook, RowsOf, shop, views
  <2>4. Reading'
    BY <2>1 DEF ViewsInv, Reading, AtLeast, RowsOf, shop, views
  <2> QED BY <1>2, <2>2, <2>3, <2>4 DEF ViewsInv
<1>6. CASE CommitRefresh
  <2>1. /\ job.leg = "commit" /\ job'.leg = "idle"
        /\ sales' = job.sales /\ counts' = job.counts /\ refreshed' = job.at
        /\ UNCHANGED <<shop, page>>
    BY <1>6 DEF CommitRefresh, StampedAt, NoJob
  <2>2. Ordered'
    BY <1>1, <2>1 DEF ViewsInv, Ordered, shop
  <2>3. RowsOf(sales)' = RowsOf(job.sales)
    BY <2>1 DEF RowsOf
  <2>4. Rebuilt'
    BY <2>1, <2>3 DEF ViewsInv, Rebuilt, Seen, InBook, shop
  <2>5. Reading'
    BY <2>1, <2>3 DEF ViewsInv, Reading, AtLeast, shop
  <2> QED BY <1>2, <2>2, <2>4, <2>5 DEF ViewsInv
<1>7. CASE FailRefresh
  <2>1. job'.leg = "idle" /\ UNCHANGED <<shop, views, page>>
    BY <1>7 DEF FailRefresh, NoJob
  <2>2. Ordered'
    BY <1>1, <2>1 DEF ViewsInv, Ordered, shop, views
  <2>3. Rebuilt'
    BY <2>1 DEF ViewsInv, Rebuilt, Seen, InBook, RowsOf, shop, views
  <2>4. Reading'
    BY <2>1 DEF ViewsInv, Reading, AtLeast, RowsOf, shop, views
  <2> QED BY <1>2, <2>2, <2>3, <2>4 DEF ViewsInv
<1> QED BY <1>3, <1>4, <1>5, <1>6, <1>7

\* A page that begins is told the truth, and reads only what is as new.
LEMMA PageStep ==
  ASSUME TypeOK, ViewsInv, OpenPage \/ ReadRows \/ ReadCounts \/ ClosePage
  PROVE  ViewsInv'
<1>1. UNCHANGED <<shop, views, job>>
  BY DEF OpenPage, ReadRows, ReadCounts, ClosePage
<1>2. Ordered' /\ Rebuilt'
  BY <1>1 DEF ViewsInv, Ordered, Rebuilt, Seen, InBook, RowsOf, shop, views
<1>3. CASE OpenPage
  <2>1. page'.leg = "rows" /\ page'.asked = book /\ Current
    BY <1>3 DEF OpenPage, NoPage
  <2>2. \A o \in Orders : book[o] \in Int
    BY DEF TypeOK, Books, Gone
  <2>3. \A o \in Punctual : InBook(o) => RowsOf(sales)[o] = book[o] /\ counts[o] = book[o]
    BY <2>1, CurrentSaw, RowsType DEF ViewsInv, TypeOK, Punctual
  <2>4. ASSUME NEW o \in Punctual, InBook(o), job.leg # "idle" PROVE stamp[o] <= job.at
    <3>1. /\ stamp[o] \in Int /\ refreshed \in Int /\ job.at \in Int
          /\ stamp[o] <= refreshed /\ refreshed <= job.at
      BY <2>1, <2>4, JobTypes DEF TypeOK, Time, Never, Current, ViewsInv, Ordered, Punctual
    <3> QED BY <3>1
  <2>5. job.leg \in {"counts", "commit"} =>
          \A o \in Punctual : InBook(o) => RowsOf(job.sales)[o] = book[o]
    BY <2>4 DEF ViewsInv, Rebuilt, Seen
  <2>6. job.leg = "commit" => \A o \in Punctual : InBook(o) => job.counts[o] = book[o]
    BY <2>4 DEF ViewsInv, Rebuilt, Seen
  <2>7. /\ RowsOf(sales)' = RowsOf(sales) /\ RowsOf(job.sales)' = RowsOf(job.sales)
        /\ UNCHANGED <<book, counts, job>>
    BY <1>1 DEF RowsOf, shop, views
  <2>8. Reading'
    BY <2>1, <2>2, <2>3, <2>5, <2>6, <2>7 DEF Reading, AtLeast, InBook, Punctual
  <2>9. NeverOlderThanAsked'
    BY <2>1 DEF NeverOlderThanAsked
  <2> QED BY <1>2, <2>8, <2>9 DEF ViewsInv
<1>4. CASE ReadRows
  <2>1. /\ page.leg = "rows" /\ page'.leg = "counts" /\ page'.asked = page.asked
        /\ page'.sales = [o \in Orders |-> sales[o].row]
    BY <1>4, PageTypes DEF ReadRows, TypeOK
  <2>2. Reading'
    BY <1>1, <2>1 DEF ViewsInv, Reading, AtLeast, RowsOf, shop, views
  <2>3. page'.sales = RowsOf(sales)
    BY <2>1 DEF RowsOf
  <2>4. NeverOlderThanAsked'
    BY <2>1, <2>3 DEF NeverOlderThanAsked, ViewsInv, Reading, AtLeast
  <2> QED BY <1>2, <2>2, <2>4 DEF ViewsInv
<1>5. CASE ReadCounts
  <2>1. /\ page.leg = "counts" /\ page'.leg = "shown" /\ page'.asked = page.asked
        /\ page'.sales = page.sales /\ page'.counts = counts
    BY <1>5, PageTypes DEF ReadCounts, TypeOK
  <2>2. Reading'
    BY <1>1, <2>1 DEF ViewsInv, Reading, AtLeast, RowsOf, shop, views
  <2>3. NeverOlderThanAsked'
    BY <2>1 DEF NeverOlderThanAsked, ViewsInv, Reading, AtLeast
  <2> QED BY <1>2, <2>2, <2>3 DEF ViewsInv
<1>6. CASE ClosePage
  <2>1. page'.leg = "idle"
    BY <1>6 DEF ClosePage, NoPage
  <2> QED BY <1>2, <2>1 DEF ViewsInv, Reading, NeverOlderThanAsked
<1> QED BY <1>3, <1>4, <1>5, <1>6

\* A late change touches nothing of a punctual order.
LEMMA LateStep ==
  ASSUME TypeOK, ViewsInv,
         (\E t \in open : Commit(t)) \/ (\E o \in Orders, kind \in Kinds : Begin(o, kind))
  PROVE  ViewsInv'
<1>1. /\ \A p \in Punctual : book'[p] = book[p] /\ stamp'[p] = stamp[p]
      /\ \A t \in open' : t.order \in Late
      /\ clock \in Int /\ clock' \in {clock, clock + 1}
      /\ UNCHANGED <<views, job, page>>
  <2>1. CASE \E t \in open : Commit(t)
    <3> PICK t \in open : Commit(t)
      BY <2>1
    <3>1. /\ t.order \in Late /\ t.order \in Orders /\ t.kind \in Kinds /\ t.at \in Time
          /\ open' = open \ {t} /\ UNCHANGED <<clock, views, job, page>>
      BY DEF Commit, ViewsInv, Rebuilt, TypeOK, Changes
    <3>2. \A p \in Punctual : book'[p] = book[p] /\ stamp'[p] = stamp[p]
      <4>1. CASE Possible(t.order, t.kind)
        <5>1. Write(t.order, t.kind, t.at)
          BY <4>1 DEF Commit
        <5> QED BY <3>1, <4>1, <5>1, WriteLater DEF Punctual
      <4>2. CASE ~Possible(t.order, t.kind)
        BY <4>2 DEF Commit
      <4> QED BY <4>1, <4>2
    <3> QED BY <3>1, <3>2 DEF ViewsInv, Rebuilt, TypeOK, Time
  <2>2. CASE \E o \in Orders, kind \in Kinds : Begin(o, kind)
    BY <2>2 DEF Begin, ViewsInv, Rebuilt, TypeOK, Time
  <2> QED BY <2>1, <2>2
<1>2. /\ \A p \in Punctual : InBook(p)' = InBook(p)
      /\ RowsOf(sales)' = RowsOf(sales) /\ RowsOf(job.sales)' = RowsOf(job.sales)
      /\ UNCHANGED <<counts, refreshed>>
  BY <1>1 DEF InBook, RowsOf, views
<1>3. Ordered'
  BY <1>1, <1>2, JobTypes DEF ViewsInv, Ordered, TypeOK, Time, Never, Punctual
<1>4. \A at, view : Seen(at, view) => \A p \in Punctual :
        book'[p] \in Standing /\ stamp'[p] <= at => view[p] = book'[p]
  BY <1>1 DEF Seen, InBook
<1>5. Rebuilt'
  BY <1>1, <1>2, <1>4 DEF ViewsInv, Rebuilt, Seen, InBook
<1>6. Reading'
  BY <1>1, <1>2 DEF ViewsInv, Reading, AtLeast
<1>7. NeverOlderThanAsked'
  BY <1>1 DEF ViewsInv, NeverOlderThanAsked
<1> QED BY <1>3, <1>5, <1>6, <1>7 DEF ViewsInv

LEMMA ViewsStep == TypeOK /\ ViewsInv /\ [Next]_vars => ViewsInv'
<1> SUFFICES ASSUME TypeOK, ViewsInv, [Next]_vars PROVE ViewsInv'
  OBVIOUS
<1>1. ASSUME NEW o \in Orders, ReturnItems(o) PROVE ViewsInv'
  BY <1>1 DEF ReturnItems, ViewsInv, Ordered, Rebuilt, Reading, Seen, AtLeast, InBook, RowsOf,
     NeverOlderThanAsked, views
<1>2. CASE UNCHANGED vars
  BY <1>2 DEF vars, shop, views, ViewsInv, Ordered, Rebuilt, Reading, Seen, AtLeast, InBook,
     RowsOf, NeverOlderThanAsked
<1> QED BY <1>1, <1>2, ChangeStep, LateStep, RefreshStep, PageStep DEF Next

------------------------------------------------------------------------------

LEMMA ViewsAlways == Spec => [](TypeOK /\ ViewsInv)
BY TypeInit, TypeStep, ViewsInit, ViewsStep, PTL DEF Spec

\* When analytics_freshness is judged current, both views were made from every
\* order as it stands, but for those of which a change began before a refresh
\* and committed after it had read.
THEOREM SawOrders == Spec => []CurrentSawOrders
<1>1. TypeOK /\ ViewsInv => CurrentSawOrders
  BY CurrentSaw DEF ViewsInv, CurrentSawOrders
<1> QED BY <1>1, ViewsAlways, PTL

\* The counts are made after sales_daily, of a book that never goes back.
Later ==
  /\ \A o \in Orders : sales[o].row <= counts[o]
  /\ job.leg = "counts" => \A o \in Orders : job.sales[o].row <= book[o]
  /\ job.leg = "commit" => \A o \in Orders : job.sales[o].row <= job.counts[o]

LEMMA BookGrows ==
  ASSUME TypeOK, [Next]_vars
  PROVE  \A o \in Orders : book'[o] >= book[o]
<1>0. \A o \in Orders : book[o] \in Int
  BY DEF TypeOK, Books, Gone
<1>1. ASSUME NEW o \in Orders, NEW kind \in Kinds, Change(o, kind)
      PROVE  \A p \in Orders : book'[p] >= book[p]
  <2>1. clock' \in Time /\ Possible(o, kind) /\ Write(o, kind, clock')
    BY <1>1 DEF Change, TypeOK, Time
  <2> QED BY <2>1, WriteLater
<1>2. ASSUME NEW t \in open, Commit(t) PROVE \A p \in Orders : book'[p] >= book[p]
  <2>1. t.order \in Orders /\ t.kind \in Kinds /\ t.at \in Time
    BY DEF TypeOK, Changes
  <2>2. CASE Possible(t.order, t.kind)
    <3>1. Write(t.order, t.kind, t.at)
      BY <1>2, <2>2 DEF Commit
    <3> QED BY <2>1, <2>2, <3>1, WriteLater
  <2>3. CASE ~Possible(t.order, t.kind)
    BY <1>0, <1>2, <2>3 DEF Commit
  <2> QED BY <2>2, <2>3
<1>3. CASE book' = book
  BY <1>0, <1>3
<1> QED BY <1>1, <1>2, <1>3
    DEF Next, Begin, ReturnItems, StartRefresh, RefreshSales, RefreshCounts, CommitRefresh,
        FailRefresh, OpenPage, ReadRows, ReadCounts, ClosePage, vars, shop

LEMMA LaterStep == TypeOK /\ Later /\ [Next]_vars => Later'
<1> SUFFICES ASSUME TypeOK, Later, [Next]_vars PROVE Later'
  OBVIOUS
<1>0. \A o \in Orders : /\ book[o] \in Int /\ book'[o] >= book[o] /\ book'[o] \in Int
                        /\ job.sales[o].row \in Int
  BY BookGrows, TypeStep, JobTypes DEF TypeOK, Books, Ledgers, Gone
<1>1. CASE UNCHANGED <<views, job>>
  <2>1. ASSUME NEW o \in Orders, job.sales[o].row <= book[o] PROVE job.sales[o].row <= book'[o]
    BY <1>0, <2>1
  <2> QED BY <1>1, <2>1 DEF Later, views
<1>2. CASE StartRefresh \/ FailRefresh
  <2>1. job'.leg \in {"idle", "sales"} /\ UNCHANGED <<sales, counts>>
    <3>1. CASE StartRefresh
      <4>1. job'.leg = "sales"
        BY <3>1, Zenon DEF StartRefresh, NoJob
      <4> QED BY <3>1, <4>1 DEF StartRefresh, views
    <3>2. CASE FailRefresh
      <4>1. job' = NoJob /\ UNCHANGED views
        BY <3>2 DEF FailRefresh
      <4> QED BY <4>1 DEF NoJob, views
    <3> QED BY <1>2, <3>1, <3>2
  <2> QED BY <2>1 DEF Later
<1>3. CASE RefreshSales
  <2>1. /\ job'.leg = "counts" /\ UNCHANGED <<sales, counts, book>>
        /\ job'.sales = [o \in Orders |-> [row |-> book[o], back |-> back[o]]]
    BY <1>3, JobTypes DEF RefreshSales, TypeOK, shop, views
  <2> QED BY <1>0, <2>1 DEF Later
<1>4. CASE RefreshCounts
  <2>1. /\ job.leg = "counts" /\ job'.leg = "commit" /\ UNCHANGED <<sales, counts>>
        /\ job'.sales = job.sales /\ job'.counts = book
    BY <1>4, JobTypes DEF RefreshCounts, TypeOK, views
  <2> QED BY <2>1 DEF Later
<1>5. CASE CommitRefresh
  BY <1>5 DEF CommitRefresh, NoJob, Later
<1> QED BY <1>1, <1>2, <1>3, <1>4, <1>5
    DEF Next, Change, Begin, Commit, ReturnItems, OpenPage, ReadRows, ReadCounts, ClosePage,
        vars

LEMMA LaterAlways == Spec => [](TypeOK /\ ViewsInv /\ Later)
<1>1. Init => Later
  <2>1. Init => job.leg = "idle" /\ \A o \in Orders : sales[o].row = 0 /\ counts[o] = 0
    BY DEF Init, NoLedger, NoBook, NoJob
  <2> QED BY <2>1 DEF Later
<1> QED BY <1>1, LaterStep, TypeInit, TypeStep, ViewsInit, ViewsStep, PTL DEF Spec

\* Equal numbers of orders are the same orders, once every punctual order of
\* the book has been counted: an order that was unwound is counted only in the
\* place of one that was placed late, and is in sales_daily besides only if it
\* left between the two statements of the refresh.
THEOREM CountsBook == Spec => []CurrentCountsBook
<1>1. TypeOK /\ ViewsInv /\ Later => CurrentCountsBook
  <2> SUFFICES ASSUME TypeOK, ViewsInv, Later, Current PROVE CurrentCountsBook
    BY DEF CurrentCountsBook
  <2> DEFINE Counted == {o \in Orders : counts[o] \in Standing}
             Booked == {o \in Orders : book[o] \in Standing}
             Ghosts == {o \in Orders :
                          /\ ~InBook(o)
                          /\ \/ counts[o] \in Standing
                             \/ sales[o].row \in Standing /\ counts[o] # Gone}
             Missing == {o \in Late : InBook(o) /\ counts[o] \notin Standing}
  <2>1. IsFiniteSet(Counted) /\ IsFiniteSet(Booked)
    BY FS_Subset
  <2>2. Cardinality(Counted) = Cardinality(Booked)
    BY DEF Current, OrdersIn
  <2>3. Ghosts = Counted \ Booked
    <3>1. ASSUME NEW o \in Orders, sales[o].row \in Standing, counts[o] # Gone
          PROVE  counts[o] \in Standing
      <4>1. counts[o] \in 0..Gone /\ sales[o].row <= counts[o] /\ MaxVersion \in Nat
        BY DEF TypeOK, Books, Later
      <4> QED BY <3>1, <4>1 DEF Standing, Gone
    <3> QED BY <3>1 DEF InBook
  <2>4. Missing = Booked \ Counted
    BY CurrentSaw DEF ViewsInv, InBook, Punctual
  <2>5. Counted \cap Booked = Booked \cap Counted
    OBVIOUS
  <2> HIDE DEF Counted, Booked, Ghosts, Missing
  <2>6. /\ Cardinality(Ghosts) = Cardinality(Counted) - Cardinality(Counted \cap Booked)
        /\ Cardinality(Missing) = Cardinality(Booked) - Cardinality(Booked \cap Counted)
    BY <2>1, <2>3, <2>4, FS_Difference
  <2>7. Cardinality(Counted) \in Nat /\ Cardinality(Counted \cap Booked) \in Nat
    BY <2>1, FS_CardinalityType, FS_Intersection
  <2>8. Cardinality(Ghosts) <= Cardinality(Missing)
    BY <2>2, <2>5, <2>6, <2>7
  <2> QED BY <2>8 DEF CurrentCountsBook, Ghosts, Missing
<1> QED BY <1>1, LaterAlways, PTL

\* However often the views are rebuilt between the page's question and its two
\* reads, no punctual order is shown older than it was at the question.
THEOREM NeverOlder == Spec => []NeverOlderThanAsked
<1>1. TypeOK /\ ViewsInv => NeverOlderThanAsked
  BY DEF ViewsInv
<1> QED BY <1>1, ViewsAlways, PTL
=============================================================================
