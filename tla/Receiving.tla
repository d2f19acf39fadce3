------------------------------ MODULE Receiving ------------------------------
(* A purchase order and its goods landing on the shelf: the status buttons  *)
(* and the form of an order, savePurchaseOrderIn() replacing its lines, and *)
(* applyReceipt() turning each resale line into a product, a variant and a  *)
(* movement -- each split where the code awaits.                            *)
(*                                                                          *)
(* Left out, because no property tells it apart: the costs, prices, sizes   *)
(* and answers a receipt also writes on a product, which it never reads     *)
(* back to decide what lands, and the office lines it skips.                *)
EXTENDS Integers

CONSTANTS
  Runs,           \* requests: each is one press of a button or one save
  Filed,          \* what wrote the lines the order starts with
  Pos,            \* positions of an order: what the buyer wrote down once
  Names,          \* product names, folded as productKey() folds them
  Labels,         \* variant labels ("S / Black")
  NoLabel,        \* of a line that answers no variant axis
  Orders,         \* the orders an instance may be about: what each position buys
  Catalogue,      \* products of the shop are 1..Catalogue to begin with
  Variants        \* the variants those products have

NoProduct == 0
NoVariant == <<NoProduct, NoLabel>>
Bought == [name : Names, label : Labels \cup {NoLabel}, link : 0..Catalogue]

ASSUME FiledAssumption == Filed \notin Runs
ASSUME NoLabelAssumption == NoLabel \notin Labels
ASSUME CatalogueAssumption == Catalogue \in Nat
ASSUME OrdersAssumption == Orders \subseteq [Pos -> Bought]
ASSUME VariantsAssumption == Variants \subseteq (1..Catalogue) \X Labels

VARIABLES
  order,      \* what was ordered: fixed
  status,     \* purchase_orders.status, "deleted" when there is no row
  dated,      \* actual_arrival is filled in
  ahead,      \* order_date was later than the day it was last written on
  lines,      \* purchase_order_items
  moves,      \* stock_movements with reason 'purchase_receipt'
  products,   \* products are numbered 1..products, by their ref
  variants,   \* product_variants
  pc,         \* pc[r]: where request r is
  own,        \* own[r]: its local variables, Fresh before and after it
  \* What has happened, for the properties to speak of:
  raced,      \* two receipts of the order have been under way at once
  crossed,    \* positions landed, or written over, between a save's check
              \* for receipts and its lines
  blanked     \* a save emptied the arrival date a button had just found

book == <<order, status, dated, ahead, lines>>
shop == <<moves, products, variants>>
past == <<raced, crossed, blanked>>
vars == <<book, shop, pc, own, past>>

Landed == {"arrived", "received"}
Asked == {"ordered"} \cup Landed
Status == Asked \cup {"deleted"}
PC == {"idle", "ended", "stamping", "loading", "receiving", "creating",
       "linking", "looking", "adding", "landing", "checking", "comparing",
       "paying", "heading", "clearing", "inserting"}
Receipt == {"receiving", "creating", "linking", "looking", "adding", "landing"}
Replacing == {"heading", "clearing", "inserting"}

\* A line is known by the request that inserted it and its position.
LineId == (Runs \cup {Filed}) \X Pos
Line == [id : LineId, link : Nat]
FormRow == [pos : Pos, link : Nat]
Variant == Nat \X (Labels \cup {NoLabel})
Movement == [line : LineId, product : Nat, variant : Variant]
Nowhere == [line |-> <<>>, product |-> NoProduct, variant |-> NoVariant]

Own ==
  [ask   : Asked,                   \* the status it was asked to set
   stamp : BOOLEAN,                 \* it writes an arrival date
   ahead : BOOLEAN,                 \* the form's order date is later than today
   form  : SUBSET FormRow,          \* the lines the form submits
   seen  : SUBSET Line,             \* the lines the receipt read
   todo  : SUBSET Line,             \* ... those still to process
   at    : Movement \cup {Nowhere}, \* ... the one being processed
   here  : SUBSET (Names \X Nat)]   \* createdHere: products it made
Fresh == [ask |-> "ordered", stamp |-> FALSE, ahead |-> FALSE, form |-> {},
          seen |-> {}, todo |-> {}, at |-> Nowhere, here |-> {}]

TypeOK ==
  /\ order \in Orders
  /\ status \in Status
  /\ dated \in BOOLEAN
  /\ ahead \in BOOLEAN
  /\ lines \subseteq Line
  /\ moves \subseteq Movement
  /\ products \in Nat
  /\ variants \subseteq Variant
  /\ pc \in [Runs -> PC]
  /\ own \in [Runs -> Own]
  /\ raced \in BOOLEAN
  /\ crossed \subseteq Pos
  /\ blanked \in BOOLEAN

\* An order that was saved and never received.
Init ==
  /\ order \in Orders
  /\ status = "ordered"
  /\ dated \in BOOLEAN
  /\ ahead = FALSE
  /\ lines = {[id |-> <<Filed, i>>, link |-> order[i].link] : i \in Pos}
  /\ moves = {}
  /\ products = Catalogue
  /\ variants = Variants
  /\ pc = [r \in Runs |-> "idle"]
  /\ own = [r \in Runs |-> Fresh]
  /\ raced = FALSE
  /\ crossed = {}
  /\ blanked = FALSE

Goto(r, label) == pc' = [pc EXCEPT ![r] = label]
End(r) == Goto(r, "ended") /\ own' = [own EXCEPT ![r] = Fresh]
LineIds == {l.id : l \in lines}

\* (Definitions named Mutant... are the bugs the runs are seen to catch.)

------------------------------------------------------------------------------
\* Opening a request: two people may press at once, and one may press again

\* The buttons stamp the arrival of goods received only.
MutantBeginStatus(r) ==
  /\ pc[r] = "idle"
  /\ status # "deleted"
  /\ \E s \in Asked :
       own' = [own EXCEPT ![r].ask = s, ![r].stamp = s = "received" /\ ~dated]
  /\ Goto(r, "stamping")
  /\ UNCHANGED <<book, shop, past>>

\* setPurchaseOrderStatusIn: the owner is checked, and for a landed status
\* the arrival date is read.
BeginStatus(r) ==
  /\ pc[r] = "idle"
  /\ status # "deleted"
  /\ \E s \in Asked :
       own' = [own EXCEPT ![r].ask = s, ![r].stamp = s \in Landed /\ ~dated]
  /\ Goto(r, "stamping")
  /\ UNCHANGED <<book, shop, past>>

\* "received" goes on to the receipt, which takes nothing over.
ThenReceive(r) ==
  /\ Goto(r, IF own[r].ask = "received" THEN "loading" ELSE "ended")
  /\ own' = [own EXCEPT ![r] = Fresh]

\* ... and the patch is written. The update of a row that is gone changes
\* nothing and is no error.
WriteStatus(r) ==
  /\ pc[r] = "stamping"
  /\ IF status = "deleted"
     THEN UNCHANGED <<status, dated>>
     ELSE status' = own[r].ask /\ dated' = (dated \/ own[r].stamp)
  /\ ThenReceive(r)
  /\ UNCHANGED <<order, ahead, lines, shop, past>>

\* receivePurchaseOrder: the receipt on its own.
BeginReceive(r) ==
  /\ pc[r] = "idle"
  /\ Goto(r, "loading")
  /\ UNCHANGED <<book, shop, own, past>>

\* deletePurchaseOrderIn: the lines go with the order, and the movements of
\* both are left without a document.
Delete(r) ==
  /\ pc[r] = "idle"
  /\ status # "deleted"
  /\ status' = "deleted"
  /\ lines' = {}
  /\ End(r)
  /\ UNCHANGED <<order, dated, ahead, shop, past>>

------------------------------------------------------------------------------
\* savePurchaseOrderIn() of an order that exists

\* The lines as a form holds them.
FormRows == {[pos |-> l.id[2], link |-> l.link] : l \in lines}

\* What the form was drawn from: the lines as they were, or -- when an
\* earlier save lost them -- what the buyer types again.
Loaded == IF lines # {} THEN FormRows
          ELSE {[pos |-> i, link |-> order[i].link] : i \in Pos}

\* The buyer may have struck lines, and typed or blanked the arrival date.
\* Today is stamped where there is none, though not onto an order that is
\* dated in the future.
BeginSave(r) ==
  /\ pc[r] = "idle"
  /\ status # "deleted"
  /\ \E rows \in SUBSET Loaded \ {{}}, s \in Asked, typed, later \in BOOLEAN :
       own' = [own EXCEPT ![r].ask = s, ![r].form = rows, ![r].ahead = later,
                          ![r].stamp = typed \/ (s \in Landed /\ ~later)]
  /\ Goto(r, "checking")
  /\ UNCHANGED <<book, shop, past>>

\* The lines are replaced whatever has landed.
MutantCheckReceipts(r) ==
  /\ pc[r] = "checking"
  /\ Goto(r, "heading")
  /\ UNCHANGED <<book, shop, own, past>>

\* Has anything of this order landed? A deleted order's movements no longer
\* name it.
CheckReceipts(r) ==
  /\ pc[r] = "checking"
  /\ Goto(r, IF moves # {} /\ status # "deleted" THEN "comparing" ELSE "heading")
  /\ UNCHANGED <<book, shop, own, past>>

\* sameLines and the locked fields, the order date among them: goods that
\* landed are closed to edits. (A date that was not ahead cannot be now.)
CompareLines(r) ==
  /\ pc[r] = "comparing"
  /\ IF own[r].form = FormRows /\ (own[r].ahead => ahead)
     THEN Goto(r, "paying") /\ UNCHANGED own ELSE End(r)
  /\ UNCHANGED <<book, shop, past>>

\* The update of the header; of an order that is gone it changes nothing.
Rewrite(r) ==
  IF status = "deleted"
  THEN UNCHANGED <<status, dated, ahead, blanked>>
  ELSE /\ status' = own[r].ask
       /\ dated' = own[r].stamp
       /\ ahead' = own[r].ahead
       /\ blanked' = (blanked \/ (~own[r].stamp /\ \E q \in Runs : pc[q] = "stamping"))

\* What happens after the goods land can still be saved. No receipt follows.
SavePayment(r) ==
  /\ pc[r] = "paying"
  /\ Rewrite(r)
  /\ End(r)
  /\ UNCHANGED <<order, lines, shop, raced, crossed>>

SaveHeader(r) ==
  /\ pc[r] = "heading"
  /\ Rewrite(r)
  /\ Goto(r, "clearing")
  /\ UNCHANGED <<order, lines, shop, own, raced, crossed>>

\* Lines are replaced wholesale. A movement that names a deleted line is set
\* to null, and leaves the receipt index.
ClearLines(r) ==
  /\ pc[r] = "clearing"
  /\ lines' = {}
  /\ Goto(r, "inserting")
  /\ UNCHANGED <<order, status, dated, ahead, shop, own, past>>

\* The foreign key refuses the lines of an order that is gone. An order saved
\* as received is received.
InsertLines(r) ==
  /\ pc[r] = "inserting"
  /\ IF status = "deleted"
     THEN UNCHANGED <<lines, crossed>> /\ End(r)
     ELSE /\ lines' = lines \cup {[id |-> <<r, row.pos>>, link |-> row.link]
                                     : row \in own[r].form}
          /\ crossed' = crossed \cup ({l.id[2] : l \in lines} \cap {row.pos : row \in own[r].form})
          /\ ThenReceive(r)
  /\ UNCHANGED <<order, status, dated, ahead, shop, raced, blanked>>

------------------------------------------------------------------------------
\* applyReceipt()

\* One read of the order and its lines.
Load(r) ==
  /\ pc[r] = "loading"
  /\ IF status = "deleted"
     THEN UNCHANGED raced /\ End(r)
     ELSE /\ own' = [own EXCEPT ![r].todo = lines, ![r].seen = lines]
          /\ Goto(r, "receiving")
          /\ raced' = (raced \/ \E q \in Runs : pc[q] \in Receipt)
  /\ UNCHANGED <<book, shop, crossed, blanked>>

What(id) == order[id[2]]

\* The product a line lands on, if there is one: its own, or the one this
\* receipt made under the same name.
Known(r, l) ==
  IF l.link # NoProduct THEN {l.link}
  ELSE {m[2] : m \in {n \in own[r].here : n[1] = What(l.id).name}}

\* ensureVariant() goes looking for a line that answers an axis.
Shelving(id) == IF What(id).label = NoLabel THEN "landing" ELSE "looking"

Processing(r, l, p) ==
  own' = [own EXCEPT ![r].at = [line |-> l.id, product |-> p, variant |-> NoVariant]]

\* The next line, in no particular order. With no product to land on, the
\* next free reference is read: one more than the highest.
Take(r) ==
  /\ pc[r] = "receiving"
  /\ \E l \in own[r].todo :
       \/ /\ Known(r, l) = {}
          /\ Processing(r, l, products + 1)
          /\ Goto(r, "creating")
       \/ \E p \in Known(r, l) :
            /\ Processing(r, l, p)
            /\ Goto(r, Shelving(l.id))
  /\ UNCHANGED <<book, shop, past>>

\* The reference may have been taken since: products.ref is unique, and the
\* error ends the receipt.
Create(r) ==
  /\ pc[r] = "creating"
  /\ LET at == own[r].at IN
     IF at.product <= products
     THEN UNCHANGED products /\ End(r)
     ELSE /\ products' = at.product
          /\ own' = [own EXCEPT ![r].here = @ \cup {<<What(at.line).name, at.product>>}]
          /\ Goto(r, "linking")
  /\ UNCHANGED <<book, moves, variants, past>>

\* The line that made the product is pointed at it -- that one only.
Link(r) ==
  /\ pc[r] = "linking"
  /\ lines' = {[l EXCEPT !.link = IF l.id = own[r].at.line THEN own[r].at.product ELSE @]
                  : l \in lines}
  /\ Goto(r, Shelving(own[r].at.line))
  /\ UNCHANGED <<order, status, dated, ahead, shop, own, past>>

\* The variant of the line being processed.
Sought(r) == <<own[r].at.product, What(own[r].at.line).label>>
Varianted(r) == own' = [own EXCEPT ![r].at.variant = Sought(r)]

\* ensureVariant: found by label ...
LookForVariant(r) ==
  /\ pc[r] = "looking"
  /\ IF Sought(r) \in variants
     THEN Varianted(r) /\ Goto(r, "landing")
     ELSE UNCHANGED own /\ Goto(r, "adding")
  /\ UNCHANGED <<book, shop, past>>

\* ... or inserted. Any error is swallowed, the unique violation of a variant
\* added meanwhile included, and the line lands unvarianted.
AddVariant(r) ==
  /\ pc[r] = "adding"
  /\ IF Sought(r) \in variants
     THEN UNCHANGED <<variants, own>>
     ELSE variants' = variants \cup {Sought(r)} /\ Varianted(r)
  /\ Goto(r, "landing")
  /\ UNCHANGED <<book, moves, products, past>>

\* The index is on the bare variant_id, and nulls are distinct.
MutantSameCombination(m, n) ==
  m.line = n.line /\ m.variant = n.variant /\ m.variant # NoVariant

\* stock_movements_receipt_once: one receipt per line and variant, "no
\* variant" being one value like any other.
SameCombination(m, n) == m.line = n.line /\ m.variant = n.variant

Crossing(id) ==
  IF \E q \in Runs : pc[q] \in Replacing THEN crossed \cup {id[2]} ELSE crossed

\* A line that had landed ends the loop.
MutantLand(r) ==
  /\ pc[r] = "landing"
  /\ LET at == own[r].at IN
     IF at.line \notin LineIds
     THEN UNCHANGED <<moves, crossed>> /\ End(r)
     ELSE LET again == \E m \in moves : SameCombination(m, at)
          IN /\ moves' = IF again THEN moves ELSE moves \cup {at}
             /\ crossed' = Crossing(at.line)
             /\ own' = [own EXCEPT ![r].at = Nowhere,
                   ![r].todo = IF again THEN {} ELSE {l \in @ : l.id # at.line}]
             /\ Goto(r, "receiving")
  /\ UNCHANGED <<book, products, variants, raced, blanked>>

\* The movement. A line that is gone fails its foreign key and the receipt
\* with it; one that landed before is counted and passed over.
Land(r) ==
  /\ pc[r] = "landing"
  /\ LET at == own[r].at IN
     IF at.line \notin LineIds
     THEN UNCHANGED <<moves, crossed>> /\ End(r)
     ELSE /\ moves' = IF \E m \in moves : SameCombination(m, at)
                      THEN moves ELSE moves \cup {at}
          /\ crossed' = Crossing(at.line)
          /\ own' = [own EXCEPT ![r].at = Nowhere,
                                ![r].todo = {l \in @ : l.id # at.line}]
          /\ Goto(r, "receiving")
  /\ UNCHANGED <<book, products, variants, raced, blanked>>

Finish(r) ==
  /\ pc[r] = "receiving"
  /\ own[r].todo = {}
  /\ End(r)
  /\ UNCHANGED <<book, shop, past>>

------------------------------------------------------------------------------
\* A function instance dies, at its time limit or otherwise.
Crash(r) ==
  /\ pc[r] \notin {"idle", "ended"}
  /\ End(r)
  /\ UNCHANGED <<book, shop, past>>

Step(r) ==
  \/ BeginStatus(r) \/ WriteStatus(r) \/ BeginReceive(r) \/ Delete(r)
  \/ BeginSave(r) \/ CheckReceipts(r) \/ CompareLines(r) \/ SavePayment(r)
  \/ SaveHeader(r) \/ ClearLines(r) \/ InsertLines(r)
  \/ Load(r) \/ Take(r) \/ Create(r) \/ Link(r)
  \/ LookForVariant(r) \/ AddVariant(r) \/ Land(r) \/ Finish(r) \/ Crash(r)

Next == \E r \in Runs : Step(r)

Spec == Init /\ [][Next]_vars

------------------------------------------------------------------------------
\* What the orders are received by

\* A line whose variant the shop does not have yet ...
ToMake(i) == order[i].label # NoLabel /\ <<order[i].link, order[i].label>> \notin Variants
\* ... and one that shares the name of its product, to be made as well, with
\* another: the one that makes it is linked, the other is not.
Shares(i) ==
  \E j \in Pos \ {i} : \A k \in {i, j} : order[k].link = NoProduct /\ order[k].name = order[i].name

\* What was ordered once lands on the shelf once, however often it is
\* received, saved or deleted and whoever dies on the way (receiving.ts:
\* "lines already received are reported rather than re-applied"). It is kept
\* for every line that makes no variant, receipts overlapping or not, and for
\* those that make one while receipts do not overlap. The exceptions are the
\* code's own: a receipt between a save's check and its new lines, two saves
\* that both insert theirs, and -- the variant being in the index -- a line
\* that is given a second product or variant.
LandedOnce ==
  \A m, n \in moves :
    m.line[2] = n.line[2] /\ m # n =>
      \/ m.line[2] \in crossed
      \/ ToMake(m.line[2]) /\ (raced \/ Shares(m.line[2]))

\* A receipt leaves no line behind it: whatever it has passed over is on the
\* shelf, so a line that had landed before does not keep the rest of the
\* delivery off it.
ReceiptIsComplete ==
  \A r \in Runs : \A l \in own[r].seen \ own[r].todo :
    \E m \in moves : m.line = l.id

\* An order whose goods landed can be judged for lead time: it has an arrival
\* date, whichever of the two doors -- button or form -- it came through,
\* unless the form said it was ordered on a day to come, or a save took away
\* the date that a button had just found there.
LandedHasDate == status \in Landed => dated \/ ahead \/ blanked

\* The lines the ledger points at stay for as long as the order does: a save
\* replaces none that landed before its check, and those that landed since
\* are marked.
LinesStayClosed ==
  [][\A m \in moves : m.line \in LineIds \ LineIds' =>
       status' = "deleted" \/ m.line[2] \in crossed]_vars
=============================================================================
