---------------------------- MODULE AddOnProofs ----------------------------
(***************************************************************************)
(* Theorems about AddOnPurchases for every value of its constants.         *)
(* AddOnInv is shown inductive: what it says of the tables and what it     *)
(* says of handlers rests on facts about bills and administrators that no  *)
(* step takes back (Kept), so that a step has to be looked at only for the *)
(* row and the handler it writes.                                          *)
(***************************************************************************)
EXTENDS AddOnPurchases, TLAPS

\* The conjuncts of AddOnInv that are not about handlers.
Tables ==
  /\ purchases \in [Row -> PurchaseRow]
  /\ invoices \in [Row -> InvoiceRow]
  /\ bills \in [Bill -> BillRow]
  /\ blocked \in SUBSET Company
  /\ believed \in SUBSET Row
  /\ AddOnBacked
  /\ InvoiceBacked
  /\ BillsSound

ExpiredFor(r) == \E b \in Bill : bills[b] = [status |-> "EXPIRED", row |-> r]

\* What no step takes back.
Kept ==
  /\ \A r \in Row : Paid(r) => Paid(r)'
  /\ \A r \in Row : Settled(r) => Settled(r)'
  /\ \A r \in Row : ExpiredFor(r) => ExpiredFor(r)'
  /\ \A r \in Row, b \in Bill : OwnBill(r, b) => OwnBill(r, b)'

\* AddOnInv is the tables' part and the handlers' part.
LEMMA Parts ==
  AddOnInv <=> /\ Tables
               /\ job \in [Job -> JobRow]
               /\ \A j \in Job : Held(job[j])
  BY DEF AddOnInv, TypeOK, Tables

\* The fields of a handler.
LEMMA JobFields ==
  ASSUME AddOnInv, NEW j \in Job
  PROVE  /\ job[j] \in JobRow
         /\ job[j].pc \in PC
         /\ job[j].company \in Company \cup {NoCompany}
         /\ job[j].addOn \in AddOn \cup {NoAddOn}
         /\ job[j].row \in Row \cup {NoRow}
         /\ job[j].bill \in Bill \cup {NoBill}
         /\ job[j].due \in SUBSET (Row \X Bill)
         /\ Held(job[j])
<1>1. job[j] \in JobRow /\ Held(job[j])
  BY Parts
<1> QED
  BY <1>1 DEF JobRow

\* A handler that was sound stays so while nothing is taken back.
LEMMA HeldKept ==
  ASSUME Kept, NEW h \in JobRow, Held(h)
  PROVE  Held(h)'
<1>1. h.due \in SUBSET (Row \X Bill)
  BY DEF JobRow
<1>2. \A p \in h.due : OwnBill(p[1], p[2])'
  BY <1>1 DEF Held, Kept
<1>3. /\ h.pc \in {"activate", "settle"} => Settled(h.row)'
      /\ h.pc = "reopen" => Paid(h.row)'
  BY DEF Held, Kept
<1>4. h.pc = "url" => h.bill \in Bill /\ OwnBill(h.row, h.bill)'
  BY DEF Held, Kept
<1> QED
  BY <1>2, <1>3, <1>4 DEF Held

\* A step that writes at most one handler, and the tables soundly.
LEMMA JobMoves ==
  ASSUME AddOnInv, Tables', Kept, NEW j \in Job, NEW h \in JobRow, Held(h)',
         job' = [job EXCEPT ![j] = h]
  PROVE  AddOnInv'
<1>1. job \in [Job -> JobRow] /\ \A k \in Job : Held(job[k])
  BY Parts
<1>2. job' \in [Job -> JobRow]
  BY <1>1
<1>3. ASSUME NEW k \in Job PROVE Held(job[k])'
  <2>1. CASE k = j
    <3>1. job'[k] = h
      BY <1>1, <2>1
    <3> QED
      BY <3>1 DEF Held, Settled, Paid, OwnBill
  <2>2. CASE k # j
    <3>1. job[k] \in JobRow /\ Held(job[k]) /\ job'[k] = job[k]
      BY <1>1, <2>2
    <3>2. \A i \in JobRow : Held(i) => Held(i)'
      BY HeldKept
    <3>3. PICK i \in JobRow : i = job[k]
      BY <3>1
    <3>4. Held(i)'
      BY <3>1, <3>2, <3>3
    <3> QED
      BY <3>1, <3>3, <3>4 DEF Held, Settled, Paid, OwnBill
  <2> QED
    BY <2>1, <2>2
<1> QED
  BY <1>2, <1>3, Parts DEF AddOnInv, TypeOK, Tables

\* A step that writes no handler.
LEMMA JobStays ==
  ASSUME AddOnInv, Tables', Kept, job' = job
  PROVE  AddOnInv'
<1>1. job \in [Job -> JobRow] /\ \A k \in Job : Held(job[k])
  BY Parts
<1>2. \A i \in JobRow : Held(i) => Held(i)'
  BY HeldKept
<1>3. ASSUME NEW k \in Job PROVE Held(job[k])'
  <2>1. PICK i \in JobRow : i = job[k]
    BY <1>1
  <2>2. Held(i)' /\ job'[k] = i
    BY <1>1, <1>2, <2>1
  <2> QED
    BY <2>2 DEF Held, Settled, Paid, OwnBill
<1> QED
  BY <1>1, <1>3 DEF AddOnInv, TypeOK, Tables

----------------------------------------------------------------------------
(* Writes *)

\* Nothing is taken back when no bill changes and nobody is disowned.
LEMMA SameBillsKeep ==
  ASSUME bills' = bills, believed \subseteq believed'
  PROVE  Kept
  BY DEF Kept, Settled, Paid, ExpiredFor, OwnBill

\* Nothing is written but, perhaps, who is blocked.
LEMMA BlockedWrite ==
  ASSUME Tables, blocked' \in SUBSET Company,
         UNCHANGED <<purchases, invoices, bills, believed>>
  PROVE  Tables' /\ Kept
  BY SameBillsKeep
     DEF Tables, AddOnBacked, InvoiceBacked, BillsSound, Settled, Paid, OwnBill

\* A row of company_add_ons is written.
LEMMA PurchaseWrite ==
  ASSUME Tables, NEW r \in Row, NEW v \in PurchaseRow,
         v.status = "active" => Settled(r)',
         purchases' = [purchases EXCEPT ![r] = v],
         believed \subseteq believed', believed' \in SUBSET Row,
         UNCHANGED <<invoices, bills, blocked>>
  PROVE  Tables' /\ Kept
<1>1. Kept
  BY SameBillsKeep
<1>2. AddOnBacked'
  <2> SUFFICES ASSUME NEW q \in Row, purchases'[q].status = "active"
               PROVE  Settled(q)'
    BY DEF AddOnBacked
  <2>1. CASE q = r
    BY <2>1 DEF Tables
  <2>2. CASE q # r
    BY <2>2, <1>1 DEF Tables, AddOnBacked, Kept
  <2> QED
    BY <2>1, <2>2
<1>3. InvoiceBacked' /\ BillsSound'
  BY <1>1 DEF Tables, InvoiceBacked, BillsSound, Kept, OwnBill
<1> QED
  BY <1>1, <1>2, <1>3 DEF Tables

\* An invoice is written.
LEMMA InvoiceWrite ==
  ASSUME Tables, NEW r \in Row, NEW v \in InvoiceRow,
         v.status = "paid" => Settled(r)',
         v.status = "failed" => ExpiredFor(r),
         \A b \in Bill : /\ b = v.url => OwnBill(r, b)
                         /\ b = v.ref => OwnBill(r, b) \/ r \in believed',
         invoices' = [invoices EXCEPT ![r] = v],
         believed \subseteq believed', believed' \in SUBSET Row,
         UNCHANGED <<purchases, bills, blocked>>
  PROVE  Tables' /\ Kept
<1>1. Kept
  BY SameBillsKeep
<1>2. AddOnBacked'
  BY <1>1 DEF Tables, AddOnBacked, Kept
<1>3. InvoiceBacked'
  <2> SUFFICES ASSUME NEW q \in Row
               PROVE  /\ invoices'[q].status = "paid" => Settled(q)'
                      /\ invoices'[q].status = "failed" => ExpiredFor(q)'
    BY DEF InvoiceBacked, ExpiredFor
  <2>1. CASE q = r
    BY <2>1, <1>1 DEF Tables, Kept
  <2>2. CASE q # r
    BY <2>2, <1>1 DEF Tables, InvoiceBacked, ExpiredFor, Kept
  <2> QED
    BY <2>1, <2>2
<1>4. BillsSound'
  <2>1. ASSUME NEW q \in Row, NEW b \in Bill
        PROVE  /\ b = invoices'[q].url => OwnBill(q, b)
               /\ b = invoices'[q].ref => OwnBill(q, b) \/ q \in believed'
    <3>1. CASE q = r
      BY <3>1 DEF Tables
    <3>2. CASE q # r
      BY <3>2 DEF Tables, BillsSound
    <3> QED
      BY <3>1, <3>2
  <2> QED
    BY <2>1 DEF Tables, BillsSound, OwnBill
<1> QED
  BY <1>1, <1>2, <1>3, <1>4 DEF Tables

\* A bill is created, or one that is pending is decided.
LEMMA BillWrite ==
  ASSUME Tables, NEW b \in Bill, NEW v \in BillRow,
         bills[b].status \in {"none", "PENDING"},
         bills[b].status = "PENDING" => v.row = bills[b].row,
         v.status # "none", v.row \in Row,
         bills' = [bills EXCEPT ![b] = v],
         UNCHANGED <<purchases, invoices, blocked, believed>>
  PROVE  Tables' /\ Kept
<1>1. \A d \in Bill : bills'[d] = IF d = b THEN v ELSE bills[d]
  BY DEF Tables
<1>p. \A r \in Row : Paid(r) => Paid(r)'
  <2> SUFFICES ASSUME NEW r \in Row, Paid(r) PROVE Paid(r)'
    OBVIOUS
  <2>1. PICK d \in Bill : bills[d] = [status |-> "PAID", row |-> r]
    BY DEF Paid
  <2>2. d # b
    BY <2>1
  <2> QED
    BY <1>1, <2>1, <2>2 DEF Paid
<1>2. \A r \in Row : Settled(r) => Settled(r)'
  BY <1>p DEF Settled
<1>3. \A r \in Row : ExpiredFor(r) => ExpiredFor(r)'
  <2> SUFFICES ASSUME NEW r \in Row, ExpiredFor(r) PROVE ExpiredFor(r)'
    OBVIOUS
  <2>1. PICK d \in Bill : bills[d] = [status |-> "EXPIRED", row |-> r]
    BY DEF ExpiredFor
  <2>2. d # b
    BY <2>1
  <2> QED
    BY <1>1, <2>1, <2>2 DEF ExpiredFor
<1>4. \A r \in Row, d \in Bill : OwnBill(r, d) => OwnBill(r, d)'
  BY <1>1 DEF OwnBill, Tables
<1>5. Kept
  BY <1>p, <1>2, <1>3, <1>4 DEF Kept
<1>6. AddOnBacked'
  BY <1>2 DEF Tables, AddOnBacked
<1>7. InvoiceBacked'
  BY <1>2, <1>3 DEF Tables, InvoiceBacked, ExpiredFor
<1>8. BillsSound'
  <2>1. \A d \in Bill : bills'[d].status # "none" => bills'[d].row \in Row
    BY <1>1 DEF Tables, BillsSound
  <2>2. \A r \in Row : \A d \in Bill :
           /\ d = invoices[r].url => OwnBill(r, d)'
           /\ d = invoices[r].ref => OwnBill(r, d)' \/ r \in believed
    BY <1>4 DEF Tables, BillsSound
  <2> QED
    BY <2>1, <2>2 DEF BillsSound
<1>9. bills' \in [Bill -> BillRow]
  BY DEF Tables
<1> QED
  BY <1>5, <1>6, <1>7, <1>8, <1>9 DEF Tables

----------------------------------------------------------------------------
(* Handlers *)

\* A handler that ends, after a write of the tables that is sound.
LEMMA DoneKeeps ==
  ASSUME AddOnInv, Tables', Kept, NEW j \in Job, Done(j)
  PROVE  AddOnInv'
<1>1. IdleJob \in JobRow /\ Held(IdleJob)'
  BY DEF IdleJob, JobRow, PC, Held
<1> QED
  BY <1>1, JobMoves DEF Done

\* A handler that starts on a row.
LEMMA StartKeeps ==
  ASSUME AddOnInv, Tables', Kept, NEW j \in Job, NEW r \in Row,
         NEW pc \in PC \ {"url"}, Start(j, pc, r),
         pc \in {"activate", "settle"} => Settled(r)', pc # "reopen"
  PROVE  AddOnInv'
<1> DEFINE h == [IdleJob EXCEPT !.pc = pc, !.row = r]
<1>1. h \in JobRow
  BY DEF IdleJob, JobRow
<1>2. h.pc = pc /\ h.row = r /\ h.due = {}
  BY DEF IdleJob
<1>3. job' = [job EXCEPT ![j] = h]
  BY DEF Start
<1> HIDE DEF h
<1>4. Held(h)'
  BY <1>2 DEF Held
<1> QED
  BY <1>1, <1>3, <1>4, JobMoves

\* A handler that goes on, knowing what it knew.
LEMMA GotoKeeps ==
  ASSUME AddOnInv, Tables', Kept, NEW j \in Job,
         NEW pc \in PC \ {"url"}, Goto(j, pc),
         pc # "payLoop" => job[j].row \in Row,
         pc \in {"activate", "settle"} => Settled(job[j].row), pc # "reopen"
  PROVE  AddOnInv'
<1>1. job[j] \in JobRow /\ Held(job[j])
  BY JobFields
<1>2. [job[j] EXCEPT !.pc = pc] \in JobRow
  BY <1>1 DEF JobRow
<1>3. PICK h \in JobRow : h = [job[j] EXCEPT !.pc = pc]
  BY <1>2
<1>4. h.pc = pc /\ h.row = job[j].row /\ h.due = job[j].due
  BY <1>1, <1>3 DEF JobRow
<1>5. job' = [job EXCEPT ![j] = h]
  BY <1>3 DEF Goto
<1>6. \A p \in h.due : OwnBill(p[1], p[2])'
  <2>1. h.due \in SUBSET (Row \X Bill)
    BY DEF JobRow
  <2> QED
    BY <1>1, <1>4, <2>1 DEF Held, Kept
<1>7. h.pc \in {"invoice", "link", "bill", "activate", "settle", "reopen"}
        => h.row \in Row
  BY <1>4
<1>8. h.pc \in {"activate", "settle"} => Settled(h.row)'
  BY <1>4, <1>7 DEF Kept
<1>9. h.pc \notin {"url", "reopen"}
  BY <1>4
<1>10. Held(h)'
  BY <1>6, <1>7, <1>8, <1>9 DEF Held
<1> QED
  BY <1>5, <1>10, JobMoves

\* A handler that has listed, or worked off, bills of invoices.
LEMMA ListKeeps ==
  ASSUME AddOnInv, Tables', Kept, NEW j \in Job,
         NEW h \in JobRow, job' = [job EXCEPT ![j] = h],
         h.pc \in {"payLoop", "reopen"},
         h.pc = "reopen" => h.row \in Row /\ Paid(h.row),
         \A p \in h.due : OwnBill(p[1], p[2])
  PROVE  AddOnInv'
<1>1. h.due \in SUBSET (Row \X Bill)
  BY DEF JobRow
<1>2. \A p \in h.due : OwnBill(p[1], p[2])'
  BY <1>1 DEF Kept
<1>3. Held(h)'
  BY <1>2 DEF Held, Kept
<1> QED
  BY <1>3, JobMoves

\* Changing only the status of a purchase or of an invoice.
LEMMA SetPurchaseType ==
  ASSUME AddOnInv, NEW r \in Row,
         NEW status \in {"pending_payment", "active", "cancelled"},
         SetPurchase(r, status)
  PROVE  \E v \in PurchaseRow :
            v.status = status /\ purchases' = [purchases EXCEPT ![r] = v]
<1> DEFINE v == [purchases[r] EXCEPT !.status = status]
<1>1. purchases[r] \in PurchaseRow
  BY DEF AddOnInv, TypeOK
<1>2. v \in PurchaseRow /\ v.status = status
  BY <1>1 DEF PurchaseRow
<1>3. purchases' = [purchases EXCEPT ![r] = v]
  BY DEF SetPurchase
<1> QED
  BY <1>2, <1>3

LEMMA SetInvoiceKeeps ==
  ASSUME AddOnInv, NEW r \in Row,
         NEW status \in {"pending", "paid", "failed", "cancelled"},
         SetInvoice(r, status),
         status = "paid" => Settled(r)',
         status = "failed" => ExpiredFor(r),
         believed \subseteq believed', believed' \in SUBSET Row,
         UNCHANGED <<purchases, bills, blocked>>
  PROVE  Tables' /\ Kept
<1> DEFINE v == [invoices[r] EXCEPT !.status = status]
<1>1. invoices[r] \in InvoiceRow
  BY DEF AddOnInv, TypeOK
<1>2. v \in InvoiceRow /\ v.status = status
      /\ v.url = invoices[r].url /\ v.ref = invoices[r].ref
  BY <1>1 DEF InvoiceRow
<1>3. invoices' = [invoices EXCEPT ![r] = v]
  BY DEF SetInvoice
<1> HIDE DEF v
<1>4. Tables
  BY Parts
<1>5. \A b \in Bill : /\ b = v.url => OwnBill(r, b)
                      /\ b = v.ref => OwnBill(r, b) \/ r \in believed'
  BY <1>2, <1>4 DEF Tables, BillsSound
<1> QED
  BY <1>2, <1>3, <1>4, <1>5, InvoiceWrite

\* The tables as they are.
LEMMA Unwritten ==
  ASSUME AddOnInv, UNCHANGED <<purchases, invoices, bills, blocked, believed>>
  PROVE  Tables' /\ Kept
<1>1. Tables
  BY Parts
<1>2. blocked' \in SUBSET Company
  BY <1>1 DEF Tables
<1> QED
  BY <1>1, <1>2, BlockedWrite

----------------------------------------------------------------------------
(* Steps of a handler *)

\* A purchase that is inserted, or saved again, is pending.
LEMMA PurchaseInsertKeeps ==
  ASSUME AddOnInv, NEW j \in Job, NEW r \in Row, PurchaseInsert(j, r)
  PROVE  AddOnInv'
<1> DEFINE v == [company |-> job[j].company, addOn |-> job[j].addOn,
                 status |-> "pending_payment"]
<1>1. v \in PurchaseRow /\ v.status # "active"
  BY JobFields DEF PurchaseRow
<1>2. purchases' = [purchases EXCEPT ![r] = v]
      /\ UNCHANGED <<invoices, bills, blocked, believed>>
  BY DEF PurchaseInsert
<1> HIDE DEF v
<1>3. Tables' /\ Kept
  BY <1>1, <1>2, Parts, PurchaseWrite DEF Tables
<1>4. Start(j, "invoice", r)
  BY DEF PurchaseInsert
<1> QED
  BY <1>3, <1>4, StartKeeps DEF PC

LEMMA LinkInvoiceKeeps ==
  ASSUME AddOnInv, NEW j \in Job, LinkInvoice(j)
  PROVE  AddOnInv'
<1>1. job[j].row \in Row
  BY JobFields DEF LinkInvoice, Held
<1>2. PICK v \in PurchaseRow :
         /\ v.status = "pending_payment"
         /\ purchases' = [purchases EXCEPT ![job[j].row] = v]
  BY <1>1, SetPurchaseType DEF LinkInvoice
<1>3. Tables' /\ Kept
  BY <1>1, <1>2, Parts, PurchaseWrite DEF LinkInvoice, Tables
<1> QED
  BY <1>1, <1>3, GotoKeeps DEF LinkInvoice, PC

LEMMA CreateAddOnInvoiceKeeps ==
  ASSUME AddOnInv, NEW j \in Job, CreateAddOnInvoice(j)
  PROVE  AddOnInv'
<1>1. job[j].row \in Row
  BY JobFields DEF CreateAddOnInvoice, Held
<1>2. believed \subseteq believed' /\ believed' \in SUBSET Row
  BY Parts DEF CreateAddOnInvoice, Tables
<1>3. Tables' /\ Kept
  BY <1>1, <1>2, SetInvoiceKeeps DEF CreateAddOnInvoice
<1> QED
  BY <1>1, <1>3, GotoKeeps DEF CreateAddOnInvoice, PC

\* A new bill is the handler's row's own, and is kept as such.
LEMMA CreateBillKeeps ==
  ASSUME AddOnInv, NEW j \in Job, NEW b \in Bill, CreateBill(j, b)
  PROVE  AddOnInv'
<1> DEFINE v == [status |-> "PENDING", row |-> job[j].row]
<1>1. job[j].row \in Row /\ job[j] \in JobRow /\ Held(job[j])
  BY JobFields DEF CreateBill, Held
<1>2. v \in BillRow /\ v.status = "PENDING" /\ v.row \in Row
  BY <1>1 DEF BillRow
<1>3. /\ bills[b].status = "none"
      /\ bills' = [bills EXCEPT ![b] = v]
      /\ UNCHANGED <<purchases, invoices, blocked, believed>>
  BY DEF CreateBill
<1>4. Tables /\ bills \in [Bill -> BillRow]
  BY Parts DEF Tables
<1>5. bills'[b].status # "none" /\ bills'[b].row = job[j].row
  BY <1>3, <1>4
<1> HIDE DEF v
<1>6. Tables' /\ Kept
  BY <1>2, <1>3, <1>4, BillWrite
<1>7. [job[j] EXCEPT !.pc = "url", !.bill = b] \in JobRow
  BY <1>1 DEF JobRow, PC
<1>8. PICK h \in JobRow : h = [job[j] EXCEPT !.pc = "url", !.bill = b]
  BY <1>7
<1>9. /\ h.pc = "url" /\ h.row = job[j].row /\ h.bill = b
      /\ h.due = job[j].due
  BY <1>1, <1>8 DEF JobRow
<1>10. job' = [job EXCEPT ![j] = h]
  BY <1>1, <1>8 DEF CreateBill
<1>11. \A p \in h.due : OwnBill(p[1], p[2])'
  <2>1. h.due \in SUBSET (Row \X Bill)
    BY DEF JobRow
  <2> QED
    BY <1>1, <1>6, <1>9, <2>1 DEF Held, Kept
<1>12. OwnBill(h.row, h.bill)'
  BY <1>5, <1>9 DEF OwnBill
<1>13. Held(h)'
  BY <1>1, <1>9, <1>11, <1>12 DEF Held
<1> QED
  BY <1>6, <1>10, <1>13, JobMoves

\* The URL that is saved is that of a bill of the invoice's own.
LEMMA SaveUrlKeeps ==
  ASSUME AddOnInv, NEW j \in Job, SaveUrl(j)
  PROVE  AddOnInv'
<1>1. PICK r \in Row : /\ r = job[j].row
                       /\ job[j].bill \in Bill
                       /\ OwnBill(r, job[j].bill)
  BY JobFields DEF SaveUrl, Held
<1>2. Tables
  BY Parts
<1>3. invoices[r] \in InvoiceRow
  BY <1>2 DEF Tables
<1>4. [invoices[r] EXCEPT !.url = job[j].bill] \in InvoiceRow
  BY <1>1, <1>3 DEF InvoiceRow
<1>5. PICK v \in InvoiceRow : v = [invoices[r] EXCEPT !.url = job[j].bill]
  BY <1>4
<1>6. /\ v.url = job[j].bill
      /\ v.status = invoices[r].status /\ v.ref = invoices[r].ref
  BY <1>3, <1>5 DEF InvoiceRow
<1>7. /\ invoices' = [invoices EXCEPT ![r] = v]
      /\ UNCHANGED <<purchases, bills, blocked, believed>>
  BY <1>1, <1>5 DEF SaveUrl
<1>8. \A b \in Bill : /\ b = v.url => OwnBill(r, b)
                      /\ b = v.ref => OwnBill(r, b) \/ r \in believed'
  BY <1>1, <1>2, <1>6, <1>7 DEF Tables, BillsSound
<1>9. /\ v.status = "paid" => Settled(r)'
      /\ v.status = "failed" => ExpiredFor(r)
  BY <1>2, <1>6, <1>7 DEF Tables, InvoiceBacked, ExpiredFor, Settled, Paid
<1>10. believed \subseteq believed' /\ believed' \in SUBSET Row
  BY <1>2, <1>7 DEF Tables
<1>11. Tables' /\ Kept
  BY <1>2, <1>7, <1>8, <1>9, <1>10, InvoiceWrite
<1> QED
  BY <1>11, DoneKeeps DEF SaveUrl

\* An add-on is activated, and its invoice settled, after a payment.
LEMMA ActivateAddOnKeeps ==
  ASSUME AddOnInv, NEW j \in Job, ActivateAddOn(j)
  PROVE  AddOnInv'
<1>1. job[j].row \in Row /\ Settled(job[j].row)
  BY JobFields DEF ActivateAddOn, Held
<1>2. PICK v \in PurchaseRow :
         /\ v.status = "active"
         /\ purchases' = [purchases EXCEPT ![job[j].row] = v]
  BY <1>1, SetPurchaseType DEF ActivateAddOn
<1>3. Settled(job[j].row) /\ bills' = bills /\ believed' = believed
  BY <1>1 DEF ActivateAddOn
<1>4. \A r \in Row : Settled(r) => Settled(r)'
  BY <1>3 DEF Settled, Paid
<1>5. PICK r \in Row : r = job[j].row
  BY <1>1
<1>6. Settled(r)'
  BY <1>3, <1>4, <1>5
<1>7. Tables' /\ Kept
  BY <1>2, <1>5, <1>6, Parts, PurchaseWrite DEF ActivateAddOn, Tables
<1> QED
  BY <1>1, <1>7, GotoKeeps DEF ActivateAddOn, PC

LEMMA SettleInvoiceKeeps ==
  ASSUME AddOnInv, NEW j \in Job, SettleInvoice(j)
  PROVE  AddOnInv'
<1>1. job[j].row \in Row /\ Settled(job[j].row)
  BY JobFields DEF SettleInvoice, Held
<1>2. bills' = bills /\ believed' = believed
  BY DEF SettleInvoice
<1>3. \A r \in Row : Settled(r) => Settled(r)'
  BY <1>2 DEF Settled, Paid
<1>4. PICK r \in Row : r = job[j].row
  BY <1>1
<1>5. SetInvoice(r, "paid") /\ Settled(r)'
  BY <1>1, <1>3, <1>4 DEF SettleInvoice
<1>6. believed \subseteq believed' /\ believed' \in SUBSET Row
  BY <1>2, Parts DEF Tables
<1>7. Tables' /\ Kept
  BY <1>5, <1>6, SetInvoiceKeeps DEF SettleInvoice
<1> QED
  BY <1>7, DoneKeeps DEF SettleInvoice

----------------------------------------------------------------------------
(* The payment job *)

\* A bill the job has listed is the own bill of its row.
LEMMA DuePair ==
  ASSUME AddOnInv, NEW j \in Job, NEW p \in job[j].due
  PROVE  p \in Row \X Bill /\ p[1] \in Row /\ OwnBill(p[1], p[2])
<1>1. p \in Row \X Bill /\ OwnBill(p[1], p[2])
  BY JobFields DEF Held
<1> QED
  BY <1>1

\* The next one is taken off the list.
LEMMA NextDueKeeps ==
  ASSUME AddOnInv, Tables', Kept, NEW j \in Job, NEW p \in job[j].due,
         NEW pc \in {"payLoop", "reopen"}, NextDue(j, p, pc),
         pc = "reopen" => Paid(p[1])
  PROVE  AddOnInv'
<1>1. job[j] \in JobRow /\ Held(job[j]) /\ p[1] \in Row
  BY JobFields, DuePair
<1> DEFINE g == [job[j] EXCEPT !.pc = pc, !.row = p[1], !.due = @ \ {p}]
<1>2. g \in JobRow
  BY <1>1 DEF JobRow, PC
<1>3. PICK h \in JobRow : h = g
  BY <1>2
<1>4. h.pc = pc /\ h.row = p[1] /\ h.due = job[j].due \ {p}
  BY <1>1, <1>3 DEF JobRow
<1>5. job' = [job EXCEPT ![j] = h]
  BY <1>3 DEF NextDue
<1>6. \A q \in h.due : OwnBill(q[1], q[2])
  BY <1>1, <1>4 DEF Held
<1> QED
  BY <1>1, <1>4, <1>5, <1>6, ListKeeps

\* A bill that the job finds paid, or expired, settles its own invoice.
LEMMA PaymentFoundKeeps ==
  ASSUME AddOnInv, NEW j \in Job, NEW p \in Row \X Bill, PaymentFound(j, p)
  PROVE  AddOnInv'
<1>1. p \in job[j].due /\ p[1] \in Row /\ p[2] \in Bill
      /\ OwnBill(p[1], p[2])
  BY DuePair DEF PaymentFound
<1>2. Tables /\ bills \in [Bill -> BillRow]
  BY Parts DEF Tables
<1>3. bills[p[2]] = [status |-> "PAID", row |-> p[1]]
  BY <1>1, <1>2 DEF PaymentFound, OwnBill, BillRow
<1>4. Paid(p[1])
  BY <1>1, <1>3 DEF Paid
<1>5. Settled(p[1])' /\ believed \subseteq believed' /\ believed' \in SUBSET Row
  BY <1>2, <1>4 DEF PaymentFound, Settled, Paid, Tables
<1>6. Tables' /\ Kept
  BY <1>1, <1>5, SetInvoiceKeeps DEF PaymentFound
<1> QED
  BY <1>1, <1>4, <1>6, NextDueKeeps DEF PaymentFound

LEMMA PaymentExpiredKeeps ==
  ASSUME AddOnInv, NEW j \in Job, NEW p \in Row \X Bill, PaymentExpired(j, p)
  PROVE  AddOnInv'
<1>1. p \in job[j].due /\ p[1] \in Row /\ p[2] \in Bill
      /\ OwnBill(p[1], p[2])
  BY DuePair DEF PaymentExpired
<1>2. Tables /\ bills \in [Bill -> BillRow]
  BY Parts DEF Tables
<1>3. bills[p[2]] = [status |-> "EXPIRED", row |-> p[1]]
  BY <1>1, <1>2 DEF PaymentExpired, OwnBill, BillRow
<1>4. ExpiredFor(p[1])
  BY <1>1, <1>3 DEF ExpiredFor
<1>5. believed \subseteq believed' /\ believed' \in SUBSET Row
  BY <1>2 DEF PaymentExpired, Tables
<1>6. Tables' /\ Kept
  BY <1>1, <1>4, <1>5, SetInvoiceKeeps DEF PaymentExpired
<1> QED
  BY <1>1, <1>6, NextDueKeeps DEF PaymentExpired

LEMMA PaymentUnknownKeeps ==
  ASSUME AddOnInv, NEW j \in Job, NEW p \in Row \X Bill, PaymentUnknown(j, p)
  PROVE  AddOnInv'
<1>1. Tables' /\ Kept
  BY Unwritten DEF PaymentUnknown
<1> QED
  BY <1>1, NextDueKeeps DEF PaymentUnknown

\* Opening a company changes no row that AddOnInv is about.
LEMMA ReopenCompanyKeeps ==
  ASSUME AddOnInv, NEW j \in Job, ReopenCompany(j)
  PROVE  AddOnInv'
<1>1. blocked' \in SUBSET Company
  BY Parts DEF ReopenCompany, Tables
<1>2. Tables' /\ Kept
  BY <1>1, Parts, BlockedWrite DEF ReopenCompany
<1> QED
  BY <1>2, GotoKeeps DEF ReopenCompany, PC

\* The list is of invoices with bills of their own.
LEMMA PaymentCheckStartKeeps ==
  ASSUME AddOnInv, NEW j \in Job, PaymentCheckStart(j)
  PROVE  AddOnInv'
<1>1. PICK due \in SUBSET Due :
         job' = [job EXCEPT ![j] = [IdleJob EXCEPT !.pc = "payLoop",
                                                   !.due = due]]
  BY DEF PaymentCheckStart
<1>2. due \in SUBSET (Row \X Bill)
  BY DEF Due
<1>3. [IdleJob EXCEPT !.pc = "payLoop", !.due = due] \in JobRow
  BY <1>2 DEF IdleJob, JobRow, PC
<1>4. PICK h \in JobRow : h = [IdleJob EXCEPT !.pc = "payLoop", !.due = due]
  BY <1>3
<1>5. h.pc = "payLoop" /\ h.due = due
  BY <1>4 DEF IdleJob
<1>6. BillsSound
  BY DEF AddOnInv
<1>7. \A p \in h.due : OwnBill(p[1], p[2])
  BY <1>5, <1>6 DEF Due, BillsSound
<1>8. Tables' /\ Kept
  BY Unwritten DEF PaymentCheckStart
<1> QED
  BY <1>1, <1>4, <1>5, <1>7, <1>8, ListKeeps

----------------------------------------------------------------------------
(* Requests, the gateway and administrators *)

\* A purchase starts by finding out that it may.
LEMMA PurchaseCheckKeeps ==
  ASSUME AddOnInv, NEW j \in Job, NEW c \in Company, NEW a \in AddOn,
         PurchaseCheck(j, c, a)
  PROVE  AddOnInv'
<1> DEFINE h == [IdleJob EXCEPT !.pc = "insert", !.company = c, !.addOn = a]
<1>1. h \in JobRow /\ h.pc = "insert" /\ h.due = {}
  BY DEF IdleJob, JobRow, PC
<1>2. job' = [job EXCEPT ![j] = h]
  BY DEF PurchaseCheck
<1> HIDE DEF h
<1>3. Held(h)'
  BY <1>1 DEF Held
<1>4. Tables' /\ Kept
  BY Unwritten DEF PurchaseCheck
<1> QED
  BY <1>1, <1>2, <1>3, <1>4, JobMoves

\* A notification is the gateway's, about a bill of the invoice's own, or it
\* is one that was believed.
LEMMA WebhookKeeps ==
  ASSUME AddOnInv, NEW j \in Job, NEW r \in Row, NEW b \in Bill \cup {NoBill},
         NEW status, Webhook(j, r, b, status)
  PROVE  AddOnInv'
<1>1. Tables /\ invoices[r] \in InvoiceRow
  BY Parts DEF Tables
<1>2. [invoices[r] EXCEPT !.ref = b] \in InvoiceRow
  BY <1>1 DEF InvoiceRow
<1>3. PICK v \in InvoiceRow : v = [invoices[r] EXCEPT !.ref = b]
  BY <1>2
<1>4. /\ v.ref = b
      /\ v.status = invoices[r].status /\ v.url = invoices[r].url
  BY <1>1, <1>3 DEF InvoiceRow
<1>5. /\ invoices' = [invoices EXCEPT ![r] = v]
      /\ UNCHANGED <<purchases, bills, blocked>>
  BY <1>3 DEF Webhook
<1>6. /\ believed \subseteq believed' /\ believed' \in SUBSET Row
      /\ Genuine(r, b, status) \/ r \in believed'
  BY <1>1 DEF Webhook, Tables
<1>7. \A d \in Bill : /\ d = v.url => OwnBill(r, d)
                      /\ d = v.ref => OwnBill(r, d) \/ r \in believed'
  BY <1>1, <1>4, <1>6 DEF Tables, BillsSound, Genuine, OwnBill
<1>8. /\ v.status = "paid" => Settled(r)'
      /\ v.status = "failed" => ExpiredFor(r)
  BY <1>1, <1>4, <1>5, <1>6
     DEF Tables, InvoiceBacked, ExpiredFor, Settled, Paid
<1>9. Tables' /\ Kept
  BY <1>1, <1>5, <1>6, <1>7, <1>8, InvoiceWrite
<1>10. CASE job' = job
  BY <1>9, <1>10, JobStays
<1>11. CASE status = "PAID" /\ Start(j, "activate", r)
  <2>1. Genuine(r, b, status) => Settled(r)'
    <3>1. b \in Bill => bills[b] \in BillRow
      BY <1>1 DEF Tables
    <3> QED
      BY <1>5, <1>11, <3>1 DEF Genuine, Settled, Paid, BillRow
  <2>2. Settled(r)'
    BY <1>6, <2>1 DEF Settled
  <2> QED
    BY <1>9, <1>11, <2>2, StartKeeps DEF PC
<1> QED
  BY <1>10, <1>11 DEF Webhook

\* A check that goes on has asked about a bill of the invoice's own, or about
\* one that a notification brought.
LEMMA CheckPaymentKeeps ==
  ASSUME AddOnInv, NEW j \in Job, NEW r \in Row, CheckPayment(j, r)
  PROVE  AddOnInv'
<1>1. Tables
  BY Parts
<1>2. PICK b \in Bill : b = invoices[r].ref
  BY <1>1 DEF CheckPayment, Tables, InvoiceRow
<1>3. /\ bills[b].status = "PAID" /\ bills[b] \in BillRow
      /\ bills[b].row = r \/ r \in believed
  BY <1>1, <1>2 DEF CheckPayment, Tables, BillsSound, OwnBill
<1>4. bills[b] = [status |-> "PAID", row |-> r] \/ r \in believed
  BY <1>3 DEF BillRow
<1>5. Settled(r)'
  BY <1>4 DEF CheckPayment, Settled, Paid
<1>6. Tables' /\ Kept
  BY Unwritten DEF CheckPayment
<1> QED
  BY <1>5, <1>6, StartKeeps DEF CheckPayment, PC

\* A verification of an invoice that is paid already adds no ground: there
\* is one.
LEMMA AdminVerifyKeeps ==
  ASSUME AddOnInv, NEW j \in Job, NEW r \in Row, AdminVerify(j, r)
  PROVE  AddOnInv'
<1>1. Tables
  BY Parts
<1>2. CASE invoices[r].status = "paid" /\ UNCHANGED <<invoices, believed>>
  <2>1. Tables' /\ Kept
    BY <1>2, Unwritten DEF AdminVerify
  <2>2. Settled(r)'
    BY <1>1, <1>2, <2>1 DEF Tables, InvoiceBacked, Kept
  <2> QED
    BY <2>1, <2>2, StartKeeps DEF AdminVerify, PC
<1>3. CASE SetInvoice(r, "paid") /\ believed' = believed \cup {r}
  <2>1. believed \subseteq believed' /\ believed' \in SUBSET Row
    BY <1>1, <1>3 DEF Tables
  <2>2. Settled(r)'
    BY <1>3 DEF Settled
  <2>3. Tables' /\ Kept
    BY <1>3, <2>1, <2>2, SetInvoiceKeeps DEF AdminVerify
  <2> QED
    BY <2>2, <2>3, StartKeeps DEF AdminVerify, PC
<1> QED
  BY <1>2, <1>3 DEF AdminVerify

LEMMA PayInvoiceKeeps ==
  ASSUME AddOnInv, NEW j \in Job, NEW r \in Row, PayInvoice(j, r)
  PROVE  AddOnInv'
<1>1. Tables' /\ Kept
  BY Unwritten DEF PayInvoice
<1> QED
  BY <1>1, StartKeeps DEF PayInvoice, PC

\* The single writes of members and administrators.
LEMMA CancelAddOnKeeps ==
  ASSUME AddOnInv, NEW r \in Row, CancelAddOn(r)
  PROVE  AddOnInv'
<1>1. PICK v \in PurchaseRow :
         v.status = "cancelled" /\ purchases' = [purchases EXCEPT ![r] = v]
  BY SetPurchaseType DEF CancelAddOn
<1>2. Tables' /\ Kept
  BY <1>1, Parts, PurchaseWrite DEF CancelAddOn, Tables
<1> QED
  BY <1>2, JobStays DEF CancelAddOn

LEMMA AdminActivateAddOnKeeps ==
  ASSUME AddOnInv, NEW r \in Row, AdminActivateAddOn(r)
  PROVE  AddOnInv'
<1>1. PICK v \in PurchaseRow :
         v.status = "active" /\ purchases' = [purchases EXCEPT ![r] = v]
  BY SetPurchaseType DEF AdminActivateAddOn
<1>2. Tables /\ believed' = believed \cup {r}
  BY Parts DEF AdminActivateAddOn
<1>3. Settled(r)'
  BY <1>2 DEF Settled
<1>4. believed \subseteq believed' /\ believed' \in SUBSET Row
  BY <1>2 DEF Tables
<1>5. Tables' /\ Kept
  BY <1>1, <1>2, <1>3, <1>4, PurchaseWrite DEF AdminActivateAddOn
<1> QED
  BY <1>5, JobStays DEF AdminActivateAddOn

LEMMA CancelInvoiceKeeps ==
  ASSUME AddOnInv, NEW r \in Row, CancelInvoice(r)
  PROVE  AddOnInv'
<1>1. believed \subseteq believed' /\ believed' \in SUBSET Row
  BY Parts DEF CancelInvoice, Tables
<1>2. Tables' /\ Kept
  BY <1>1, SetInvoiceKeeps DEF CancelInvoice
<1> QED
  BY <1>2, JobStays DEF CancelInvoice

LEMMA SetBlockedKeeps ==
  ASSUME AddOnInv, NEW c \in Company, SetBlocked(c)
  PROVE  AddOnInv'
<1>1. blocked' \in SUBSET Company
  BY Parts DEF SetBlocked, Tables
<1>2. Tables' /\ Kept
  BY <1>1, Parts, BlockedWrite DEF SetBlocked
<1> QED
  BY <1>2, JobStays DEF SetBlocked

\* The gateway decides a bill once.
LEMMA GatewayKeeps ==
  ASSUME AddOnInv, NEW b \in Bill, PayBill(b) \/ BillExpires(b)
  PROVE  AddOnInv'
<1>1. Tables /\ bills[b] \in BillRow /\ bills[b].status = "PENDING"
  BY Parts DEF Tables, PayBill, BillExpires
<1>2. bills[b].row \in Row
  BY <1>1 DEF Tables, BillsSound
<1>3. PICK status \in {"PAID", "EXPIRED"} :
         bills' = [bills EXCEPT ![b].status = status]
  BY DEF PayBill, BillExpires
<1> DEFINE v == [bills[b] EXCEPT !.status = status]
<1>4. v \in BillRow /\ v.status = status /\ v.row = bills[b].row
  BY <1>1 DEF BillRow
<1>5. bills' = [bills EXCEPT ![b] = v]
  BY <1>3
<1> HIDE DEF v
<1>6. UNCHANGED <<purchases, invoices, blocked, believed, job>>
  BY DEF PayBill, BillExpires
<1>7. PICK w \in BillRow : w = v
  BY <1>4
<1>8. Tables' /\ Kept
  BY <1>1, <1>2, <1>4, <1>5, <1>6, <1>7, BillWrite
<1> QED
  BY <1>6, <1>8, JobStays

----------------------------------------------------------------------------
(* The theorems *)

LEMMA RequestKeeps ==
  ASSUME AddOnInv, Request
  PROVE  AddOnInv'
  BY PurchaseCheckKeeps, PayInvoiceKeeps, CheckPaymentKeeps,
     AdminVerifyKeeps, WebhookKeeps, PaymentCheckStartKeeps,
     CancelAddOnKeeps, AdminActivateAddOnKeeps, CancelInvoiceKeeps,
     GatewayKeeps, SetBlockedKeeps
     DEF Request

LEMMA StepKeeps ==
  ASSUME AddOnInv, NEW j \in Job, Step(j)
  PROVE  AddOnInv'
<1>1. ASSUME PaymentCheckEnd(j) PROVE AddOnInv'
  BY <1>1, Unwritten, DoneKeeps DEF PaymentCheckEnd
<1> QED
  BY <1>1, PurchaseInsertKeeps, CreateAddOnInvoiceKeeps, LinkInvoiceKeeps,
     CreateBillKeeps, SaveUrlKeeps, ActivateAddOnKeeps, SettleInvoiceKeeps,
     PaymentFoundKeeps, PaymentExpiredKeeps, PaymentUnknownKeeps,
     ReopenCompanyKeeps
     DEF Step

LEMMA NextKeeps ==
  ASSUME AddOnInv, [Next]_vars
  PROVE  AddOnInv'
<1>1. ASSUME NEW j \in Job, Abort(j) PROVE AddOnInv'
  BY <1>1, Unwritten, DoneKeeps DEF Abort
<1>2. CASE UNCHANGED vars
  BY <1>2, Unwritten, JobStays DEF vars
<1> QED
  BY <1>1, <1>2, RequestKeeps, StepKeeps DEF Next

LEMMA InvInit == Init => AddOnInv
<1> SUFFICES ASSUME Init PROVE AddOnInv
  OBVIOUS
<1>1. TypeOK
  BY DEF Init, TypeOK, PurchaseRow, NoPurchase, InvoiceRow, NoInvoice,
         BillRow, JobRow, IdleJob, PC
<1>2. AddOnBacked /\ InvoiceBacked
  BY DEF Init, AddOnBacked, InvoiceBacked, NoPurchase, NoInvoice
<1>3. BillsSound
  BY AddOnAssumption DEF Init, BillsSound, NoInvoice, OwnBill
<1>4. \A j \in Job : Held(job[j])
  BY DEF Init, Held, IdleJob
<1> QED
  BY <1>1, <1>2, <1>3, <1>4 DEF AddOnInv

(* Whichever way the payment of an add-on is learnt, and however late a    *)
(* handler's saves come, add-ons are active and invoices are paid only     *)
(* after a payment, an administrator's word, or a notification that was    *)
(* not the gateway's, and failed only after a bill expired.                *)
THEOREM AddOnInvariance == Spec => []AddOnInv
<1>1. AddOnInv /\ [Next]_vars => AddOnInv'
  BY NextKeeps
<1> QED
  BY InvInit, <1>1, PTL DEF Spec

(* A blocked company is let in by those who block it, or after a payment   *)
(* for an add-on of its own.                                               *)
THEOREM LiftedOnlyForPayment == Spec => LiftedForPayment
<1> DEFINE Lifted ==
      \A c \in blocked \ blocked' :
         \/ SetBlocked(c)
         \/ \E r \in Row : purchases[r].company = c /\ Paid(r)
<1>1. ASSUME AddOnInv, Next PROVE Lifted
  <2> SUFFICES ASSUME NEW c \in blocked \ blocked'
               PROVE  \/ SetBlocked(c)
                      \/ \E r \in Row : /\ purchases[r].company = c
                                        /\ Paid(r)
    OBVIOUS
  <2>1. ASSUME NEW d \in Company, SetBlocked(d) PROVE SetBlocked(c)
    <3>1. c = d
      BY <2>1 DEF SetBlocked
    <3> QED
      BY <2>1, <3>1
  <2>2. ASSUME NEW j \in Job, ReopenCompany(j)
        PROVE  \E r \in Row : purchases[r].company = c /\ Paid(r)
    <3>1. purchases[job[j].row].company = c
      BY <2>2 DEF ReopenCompany
    <3>2. job[j].row \in Row /\ Paid(job[j].row)
      BY <1>1, <2>2, JobFields DEF ReopenCompany, Held
    <3> QED
      BY <3>1, <3>2
  <2>3. \/ \E d \in Company : SetBlocked(d)
        \/ \E j \in Job : ReopenCompany(j)
    BY <1>1 DEF Next, Request, Step, PurchaseCheck, PayInvoice,
       CheckPayment, AdminVerify, Webhook, PaymentCheckStart, CancelAddOn,
       AdminActivateAddOn, CancelInvoice, PayBill, BillExpires,
       PurchaseInsert, CreateAddOnInvoice, LinkInvoice, CreateBill, SaveUrl,
       ActivateAddOn, SettleInvoice, PaymentFound, PaymentExpired,
       PaymentUnknown, PaymentCheckEnd, Abort
  <2> QED
    BY <2>1, <2>2, <2>3
<1>2. AddOnInv /\ [Next]_vars => [Lifted]_vars
  BY <1>1
<1> QED
  BY AddOnInvariance, <1>2, PTL DEF Spec, LiftedForPayment
=============================================================================
