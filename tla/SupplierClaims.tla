---------------------------- MODULE SupplierClaims ----------------------------
(* Goods that go back to a supplier and the money that is owed for them.     *)
(* A claim is raised in two statements; it is answered from the chase list,  *)
(* as it was when the page was loaded, by a read and a write.                *)
EXTENDS Integers

CONSTANTS
  Claims, Staff,
  Expected,   \* what a claim may ask for, in its own currency
  Rates,      \* what a unit of that currency may be worth in USD
  Typed,      \* what staff type over the amount they are offered
  Closings,   \* how a claim may be closed: the screen offers "rejected" alone
  Faults      \* "refuse": lines may be refused; "crash": a server may die

ASSUME AmountsAssumption == /\ Expected \subseteq Nat /\ Rates \subseteq Nat \ {0}
                            /\ Typed \subseteq Nat
ASSUME ClosingsAssumption == Closings \subseteq {"rejected", "cancelled"}
ASSUME FaultsAssumption == Faults \subseteq {"refuse", "crash"}

VARIABLES
  claims,     \* supplier_returns, with whether the lines are there
  list,       \* list[s]: the chase list that member of staff is looking at
  pc, own,    \* a request of each, and what it has in hand
  cut,        \* history: claims whose request died before it had ended
  typed       \* history: claims for which another amount than 0 or the offer was typed

claimsVars == <<claims, list, pc, own, cut, typed>>

Statuses == {"sent", "credited", "rejected", "cancelled"}
Row == [status : Statuses, expected : Expected, rate : Rates, received : Nat,
        credited : BOOLEAN, lines : BOOLEAN]
NoRow == [status |-> "none"]
Entry == [claim : Claims, offer : Nat]
NoRequest == [claim |-> "none"]

ClaimsTypeOK ==
  /\ claims \in [Claims -> Row \cup {NoRow}]
  /\ cut \subseteq Claims /\ typed \subseteq Claims
  /\ list \in [Staff -> SUBSET Entry]
  /\ pc \in [Staff -> {"idle", "lines", "undo", "credit", "close"}]
  /\ DOMAIN own = Staff
  /\ \A s \in Staff :
       CASE pc[s] \in {"lines", "undo"} -> own[s] \in [claim : Claims]
         [] pc[s] = "credit" -> own[s] \in [claim : Claims, amount : Nat]
         [] pc[s] = "close" -> own[s] \in [claim : Claims, to : Closings]
         [] pc[s] = "idle" -> own[s] = NoRequest

ClaimsInit ==
  /\ claims = [c \in Claims |-> NoRow]
  /\ list = [s \in Staff |-> {}]
  /\ pc = [s \in Staff |-> "idle"]
  /\ own = [s \in Staff |-> NoRequest]
  /\ cut = {} /\ typed = {}

Exists(c) == claims[c] # NoRow

Goto(s, l, o) == pc' = [pc EXCEPT ![s] = l] /\ own' = [own EXCEPT ![s] = o]
End(s) == Goto(s, "idle", NoRequest)

\* A request that was answered reloads the page it came from.
Answered(s) == End(s) /\ list' = [list EXCEPT ![s] = {}] /\ UNCHANGED <<cut, typed>>

------------------------------------------------------------------------------
(* The database.                                                             *)

\* sync_supplier_return_status, before every insert and update.
SyncStatus(row) ==
  IF row.credited /\ row.received >= row.expected /\ row.status = "sent"
    THEN [row EXCEPT !.status = "credited"] ELSE row

\* An update by id, which finds nothing when the row is gone.
Update(c, row) ==
  claims' = IF Exists(c) THEN [claims EXCEPT ![c] = SyncStatus(row)] ELSE claims

------------------------------------------------------------------------------
(* What the screen shows, all of it in USD.                                  *)

Open(c) == Exists(c) /\ claims[c].status = "sent"

OutstandingUsd(row) ==
  LET gap == (row.expected - row.received) * row.rate IN IF gap > 0 THEN gap ELSE 0

OnChaseList(c) == Open(c) /\ ~claims[c].credited

ChaseList == {[claim |-> c, offer |-> OutstandingUsd(claims[c])] :
                c \in {d \in Claims : OnChaseList(d)}}

Load(s) ==
  /\ pc[s] = "idle"
  /\ list' = [list EXCEPT ![s] = ChaseList]
  /\ UNCHANGED <<claims, pc, own, cut, typed>>

------------------------------------------------------------------------------
(* recordSupplierReturn: the claim, then its lines, which take the stock.    *)
(* Its id is new: nobody has it in hand or on the screen.                    *)

InsertClaim(s) ==
  /\ pc[s] = "idle"
  /\ \E c \in Claims, e \in Expected, r \in Rates :
       /\ ~Exists(c)
       /\ \A t \in Staff : own[t].claim # c /\ \A x \in list[t] : x.claim # c
       /\ claims' = [claims EXCEPT ![c] = SyncStatus(
            [status |-> "sent", expected |-> e, rate |-> r, received |-> 0,
             credited |-> FALSE, lines |-> FALSE])]
       /\ Goto(s, "lines", [claim |-> c])
  /\ UNCHANGED <<list, cut, typed>>

InsertLines(s) ==
  /\ pc[s] = "lines"
  /\ claims' = [claims EXCEPT ![own[s].claim].lines = TRUE]
  /\ Answered(s)

\* The error is thrown and the claim left as it is.
MutantRefuseLines(s) ==
  /\ pc[s] = "lines" /\ "refuse" \in Faults
  /\ Answered(s)
  /\ UNCHANGED claims

RefuseLines(s) ==
  /\ pc[s] = "lines" /\ "refuse" \in Faults
  /\ Goto(s, "undo", own[s])
  /\ UNCHANGED <<claims, list, cut, typed>>

DeleteClaim(s) ==
  /\ pc[s] = "undo"
  /\ claims' = [claims EXCEPT ![own[s].claim] = NoRow]
  /\ Answered(s)

------------------------------------------------------------------------------
(* recordSupplierCredit: a button of the list, and the amount in its box.    *)

ReadClaim(s) ==
  /\ pc[s] = "idle"
  /\ \E e \in list[s] : \E amount \in Typed \cup {e.offer} :
       /\ Exists(e.claim) /\ claims[e.claim].status # "cancelled"
       /\ Goto(s, "credit", [claim |-> e.claim, amount |-> amount])
       /\ typed' = IF amount \in {0, e.offer} THEN typed ELSE typed \cup {e.claim}
  /\ UNCHANGED <<claims, list, cut>>

\* A date is stamped whatever arrived.
MutantCredited(amount) == TRUE

\* credited_at: null when nothing has arrived.
Credited(amount) == amount > 0

\* What comes is added to what was recorded.
MutantWriteCredit(s) ==
  /\ pc[s] = "credit"
  /\ LET c == own[s].claim  a == own[s].amount
     IN  Update(c, [claims[c] EXCEPT !.received = @ + a, !.credited = Credited(a)])
  /\ Answered(s)

WriteCredit(s) ==
  /\ pc[s] = "credit"
  /\ LET c == own[s].claim  a == own[s].amount
     IN  Update(c, [claims[c] EXCEPT !.received = a, !.credited = Credited(a)])
  /\ Answered(s)

(* closeSupplierReturn.                                                      *)

ReadNote(s) ==
  /\ pc[s] = "idle"
  /\ \E e \in list[s], to \in Closings :
       /\ Exists(e.claim)
       /\ Goto(s, "close", [claim |-> e.claim, to |-> to])
  /\ UNCHANGED <<claims, list, cut, typed>>

WriteClose(s) ==
  /\ pc[s] = "close"
  /\ LET c == own[s].claim IN Update(c, [claims[c] EXCEPT !.status = own[s].to])
  /\ Answered(s)

Crash(s) ==
  /\ "crash" \in Faults /\ pc[s] # "idle"
  /\ cut' = IF pc[s] \in {"lines", "undo"} THEN cut \cup {own[s].claim} ELSE cut
  /\ End(s)
  /\ UNCHANGED <<claims, list, typed>>

------------------------------------------------------------------------------
ClaimsNext ==
  \E s \in Staff :
    \/ Load(s) \/ InsertClaim(s) \/ InsertLines(s) \/ RefuseLines(s) \/ DeleteClaim(s)
    \/ ReadClaim(s) \/ WriteCredit(s) \/ ReadNote(s) \/ WriteClose(s) \/ Crash(s)

ClaimsSpec == ClaimsInit /\ [][ClaimsNext]_claimsVars

------------------------------------------------------------------------------
(* Properties.                                                               *)

\* A claim has its lines when no request is at it, unless a server died
\* between the two: no half-return, whose units are still on the shelf, is
\* left for staff to chase.
NoHalfClaim ==
  \A c \in Claims \ cut :
    Exists(c) /\ (\A s \in Staff : ~(pc[s] \in {"lines", "undo"} /\ own[s].claim = c))
      => claims[c].lines

\* A claim that is open is on the list that staff chase, unless its supplier
\* paid a part of it: whatever staff type, and however late they answer, no
\* other claim is forgotten (chaseList). A part payment takes a claim off the
\* list (returns.ts:372), though the trigger keeps it open as "an unfinished
\* argument" (supplier-returns.sql:171).
OwedIsChased ==
  \A c \in Claims :
    Open(c) => \/ OnChaseList(c)
               \/ 0 < claims[c].received /\ claims[c].received < claims[c].expected

\* What the list offers for a claim that nobody has answered, in USD.
InFull(c) == claims[c].expected * claims[c].rate

\* However many answer a claim from lists of the same morning, with what they
\* are offered or with nothing, it holds nothing or the whole of what it was
\* offered at, once (recordSupplierCredit). The offer is in USD and is saved in
\* the claim's own currency (ReturnsDashboard.tsx:418, supplier-returns.ts:163):
\* it is what the claim asked for only when a unit of that is worth 1 USD.
CreditedInFull ==
  \A c \in Claims \ typed : Exists(c) => claims[c].received \in {0, InFull(c)}

------------------------------------------------------------------------------
(* The inductive strengthenings.                                             *)

\* A credit is dated exactly when something came, and what came in full has
\* closed the claim.
DatedCredit ==
  \A c \in Claims : Exists(c) =>
    /\ claims[c].credited = (claims[c].received > 0)
    /\ Open(c) /\ claims[c].credited => claims[c].received < claims[c].expected

\* Whoever is about to answer a claim over whose offer nobody typed has the
\* whole of it in hand or nothing.
FullOrNothing ==
  /\ CreditedInFull
  /\ \A s \in Staff : \A e \in list[s] :
       Exists(e.claim) /\ e.claim \notin typed => e.offer = InFull(e.claim)
  /\ \A s \in Staff :
       pc[s] = "credit" /\ Exists(own[s].claim) /\ own[s].claim \notin typed =>
         own[s].amount \in {0, InFull(own[s].claim)}
=============================================================================
