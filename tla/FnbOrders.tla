------------------------------ MODULE FnbOrders ------------------------------
(***************************************************************************)
(* F&B orders, their bills and their tables (apps/api/src/modules/fnb, and *)
(* the part of transactions.service.ts that pays and closes an order).     *)
(*                                                                         *)
(* An order's bill is a pending row of table transactions, numbered        *)
(* FNB-<order>; checkout turns it into a completed sale.  Only checkout    *)
(* uses a database transaction.  The other handlers send their statements  *)
(* one by one, so that each is a step and any of them may be the last one  *)
(* before an error or a crash.  save(entity) writes back the whole row as  *)
(* it was read, whatever was written to it since.                          *)
(*                                                                         *)
(* Amounts are counted in dishes, all of one price.  pending, preparing,   *)
(* ready and served are one status here: active.                           *)
(***************************************************************************)
EXTENDS Naturals, FiniteSets

CONSTANTS
    MaxOrders,   \* orders are 1..MaxOrders, in the order of created_at
    MaxSales,    \* rows of table transactions are 1..MaxSales
    Table,
    NoTable,
    Job,         \* slots for concurrently running handlers
    Dish,        \* products: checkout locks those in the cart
    MaxBill      \* bound: what an open bill adds up to

Order == 1..MaxOrders
NoOrder == 0
Sale == 1..MaxSales
NoSale == 0

ASSUME FnbAssumption ==
    /\ MaxOrders \in Nat
    /\ MaxSales \in Nat
    /\ NoTable \notin Table
    /\ IsFiniteSet(Dish)
    /\ MaxBill \in Nat

VARIABLES
    orders,   \* table fnb_orders
    sales,    \* table transactions, as committed: the bills and the sales
    tables,   \* table tables
    job       \* where each running handler is and what it has read

vars == <<orders, sales, tables, job>>

----------------------------------------------------------------------------
OrderStatus == {"none", "active", "completed", "cancelled"}

OrderRow == [status: OrderStatus,
             table: Table \cup {NoTable},   \* table_id
             sale: Sale \cup {NoSale}]      \* transaction_id

NoOrderRow == [status |-> "none", table |-> NoTable, sale |-> NoSale]

(* order is fnbOrderId in the metadata; "voided" is also refunded.         *)
SaleRow == [status: {"none", "pending", "completed", "voided"},
            order: Order \cup {NoOrder},
            subtotal: Nat,   \* with total, which goes with it
            items: Nat]      \* what the rows of transaction_items add up to

NoSaleRow == [status |-> "none", order |-> NoOrder,
              subtotal |-> 0, items |-> 0]

(* "other" are reserved, cleaning and maintenance.                         *)
TableStatus == {"available", "occupied", "other"}

TableRow == [status: TableStatus, active: BOOLEAN]

(* The steps of create, of updateStatus, of update, of addItems, of        *)
(* checkout and autoCompleteFnbOrder, of void and refund, of the table     *)
(* handlers and of syncTableStatuses.                                      *)
PC == {"idle",
       "newSale", "newItems", "newLink", "newTable",
       "statusSave", "freeTable",
       "editSave",
       "addSale", "addLink", "addBill", "addItems",
       "payCommit", "closeRead", "closeOrder", "closeTable",
       "voidSave",
       "tableSave",
       "syncCheck", "syncSave"}

JobRow == [pc: PC,
           order: Order \cup {NoOrder}, table: Table \cup {NoTable},
           sale: Sale \cup {NoSale},
           row: OrderRow,                  \* the order as it was read
           cart: SUBSET Dish,
           seen: Nat,                      \* the subtotal that was read
           status: OrderStatus \cup TableStatus,  \* the status to be set
           active: BOOLEAN,                \* the table is kept
           todo: SUBSET Table,             \* tables still to be synced
           shot: [Table -> TableStatus]]   \* their status as listed

IdleJob == [pc |-> "idle", order |-> NoOrder, table |-> NoTable,
            sale |-> NoSale, row |-> NoOrderRow, cart |-> {}, seen |-> 0,
            status |-> "none", active |-> TRUE, todo |-> {},
            shot |-> [t \in Table |-> "available"]]

TypeOK ==
    /\ orders \in [Order -> OrderRow]
    /\ sales \in [Sale -> SaleRow]
    /\ tables \in [Table -> TableRow]
    /\ job \in [Job -> JobRow]

Init ==
    /\ orders = [o \in Order |-> NoOrderRow]
    /\ sales = [s \in Sale |-> NoSaleRow]
    /\ tables = [t \in Table |-> [status |-> "available", active |-> TRUE]]
    /\ job = [j \in Job |-> IdleJob]

----------------------------------------------------------------------------
(* The tables *)

Placed(o) == orders[o].status # "none"

Pending(s, o) == sales[s].status = "pending" /\ sales[s].order = o

(* FNB-<order> is the number of its pending sale, and numbers are unique.  *)
NumberFree(o) == \A s \in Sale : ~ Pending(s, o)

FreeSale(s) == sales[s].status = "none"

(* What findOne of a table in updateStatus, update and remove finds.       *)
Shown(t) == tables[t].active

Free(j) == job[j].pc = "idle"

Goto(j, pc) == job' = [job EXCEPT ![j].pc = pc]

(* What is left to do is one statement on a table.                         *)
GotoTable(j, pc, t) ==
    job' = [job EXCEPT ![j] = [IdleJob EXCEPT !.pc = pc, !.table = t]]

Done(j) == job' = [job EXCEPT ![j] = IdleJob]

----------------------------------------------------------------------------
(* create *)

(* Nothing asks whether the table is free, or still there.                 *)
CreateOrder(j, o, t, cart) ==
    LET row == [status |-> "active", table |-> t, sale |-> NoSale]
    IN /\ Free(j)
       /\ ~ Placed(o) /\ \A p \in 1..(o - 1) : Placed(p)
       /\ orders' = [orders EXCEPT ![o] = row]
       /\ CASE cart # {} ->
                  job' = [job EXCEPT ![j] = [IdleJob EXCEPT
                             !.pc = "newSale", !.order = o, !.table = t,
                             !.row = row, !.cart = cart]]
            [] cart = {} /\ t # NoTable -> GotoTable(j, "newTable", t)
            [] OTHER -> UNCHANGED job
       /\ UNCHANGED <<sales, tables>>

CreateSale(j, s) ==
    LET h == job[j]
    IN /\ h.pc = "newSale"
       /\ FreeSale(s)
       /\ NumberFree(h.order)
       /\ sales' = [sales EXCEPT ![s] = [
                       status |-> "pending", order |-> h.order,
                       subtotal |-> Cardinality(h.cart), items |-> 0]]
       /\ job' = [job EXCEPT ![j].pc = "newItems", ![j].sale = s]
       /\ UNCHANGED <<orders, tables>>

CreateItems(j) ==
    LET h == job[j]
    IN /\ h.pc = "newItems"
       /\ sales' = [sales EXCEPT
                       ![h.sale].items = @ + Cardinality(h.cart)]
       /\ job' = [job EXCEPT ![j].pc = "newLink", ![j].cart = {}]
       /\ UNCHANGED <<orders, tables>>

(* Saves the order as it was created, with its sale.                       *)
CreateLink(j) ==
    LET h == job[j]
    IN /\ h.pc = "newLink"
       /\ orders' = [orders EXCEPT ![h.order] =
                        [h.row EXCEPT !.sale = h.sale]]
       /\ IF h.table = NoTable THEN Done(j)
          ELSE GotoTable(j, "newTable", h.table)
       /\ UNCHANGED <<sales, tables>>

(* The bill could not be written: the order is kept without it.            *)
CreateFails(j) ==
    LET h == job[j]
    IN /\ h.pc \in {"newSale", "newItems", "newLink"}
       /\ IF h.table = NoTable THEN Done(j)
          ELSE GotoTable(j, "newTable", h.table)
       /\ UNCHANGED <<orders, sales, tables>>

CreateTable(j) ==
    /\ job[j].pc = "newTable"
    /\ tables' = [tables EXCEPT ![job[j].table].status = "occupied"]
    /\ Done(j)
    /\ UNCHANGED <<orders, sales>>

----------------------------------------------------------------------------
(* updateStatus and update *)

(* Mutant of StatusRead: any status can be set.                            *)
StatusReadAny(j, o, status) ==
    /\ Free(j)
    /\ Placed(o)
    /\ status \in {"active", "completed", "cancelled"}
    /\ job' = [job EXCEPT ![j] = [IdleJob EXCEPT
                  !.pc = "statusSave", !.order = o, !.row = orders[o],
                  !.status = status]]
    /\ UNCHANGED <<orders, sales, tables>>

(* Only checkout completes an order; a finished one can be reopened.       *)
StatusRead(j, o, status) ==
    /\ Free(j)
    /\ Placed(o)
    /\ status \in {"active", "cancelled"}
    /\ job' = [job EXCEPT ![j] = [IdleJob EXCEPT
                  !.pc = "statusSave", !.order = o, !.row = orders[o],
                  !.status = status]]
    /\ UNCHANGED <<orders, sales, tables>>

StatusSave(j) ==
    LET h == job[j]
    IN /\ h.pc = "statusSave"
       /\ orders' = [orders EXCEPT ![h.order] =
                        [h.row EXCEPT !.status = h.status]]
       /\ IF h.status = "cancelled" /\ h.row.table # NoTable
          THEN GotoTable(j, "freeTable", h.row.table)
          ELSE Done(j)
       /\ UNCHANGED <<sales, tables>>

(* Whoever else sits there.                                                *)
FreeTable(j) ==
    /\ job[j].pc = "freeTable"
    /\ tables' = [tables EXCEPT ![job[j].table].status = "available"]
    /\ Done(j)
    /\ UNCHANGED <<orders, sales>>

(* The body can name another table and another existing sale, or none; it  *)
(* is not asked whose they are.  What it leaves out is saved as it was     *)
(* read.                                                                   *)
EditRead(j, o, t, s) ==
    /\ Free(j)
    /\ orders[o].status = "active"
    /\ s # NoSale => sales[s].status # "none"
    /\ job' = [job EXCEPT ![j] = [IdleJob EXCEPT
                  !.pc = "editSave", !.order = o,
                  !.row = [orders[o] EXCEPT !.table = t, !.sale = s]]]
    /\ UNCHANGED <<orders, sales, tables>>

EditSave(j) ==
    /\ job[j].pc = "editSave"
    /\ orders' = [orders EXCEPT ![job[j].order] = job[j].row]
    /\ Done(j)
    /\ UNCHANGED <<sales, tables>>

----------------------------------------------------------------------------
(* addItems *)

AddRead(j, o, cart) ==
    /\ Free(j)
    /\ cart # {}
    /\ orders[o].status = "active"
    /\ job' = [job EXCEPT ![j] =
                  IF orders[o].sale = NoSale
                  THEN [IdleJob EXCEPT !.pc = "addSale", !.order = o,
                                       !.row = orders[o], !.cart = cart]
                  ELSE [IdleJob EXCEPT !.pc = "addBill",
                                       !.sale = orders[o].sale,
                                       !.cart = cart]]
    /\ UNCHANGED <<orders, sales, tables>>

AddSale(j, s) ==
    LET h == job[j]
    IN /\ h.pc = "addSale"
       /\ FreeSale(s)
       /\ NumberFree(h.order)
       /\ sales' = [sales EXCEPT ![s] = [NoSaleRow EXCEPT
                       !.status = "pending", !.order = h.order,
                       !.subtotal = Cardinality(h.cart)]]
       /\ job' = [job EXCEPT ![j].pc = "addLink", ![j].sale = s]
       /\ UNCHANGED <<orders, tables>>

AddLink(j) ==
    LET h == job[j]
    IN /\ h.pc = "addLink"
       /\ orders' = [orders EXCEPT ![h.order] =
                        [h.row EXCEPT !.sale = h.sale]]
       /\ job' = [job EXCEPT ![j] = [IdleJob EXCEPT
                     !.pc = "addItems", !.sale = h.sale, !.cart = h.cart]]
       /\ UNCHANGED <<sales, tables>>

(* The bound of the bills; what is added to a paid sale is not bounded.     *)
Fits(s, amount) == sales[s].status = "pending" => amount <= MaxBill

(* Mutant of AddBill: the dishes are listed before they are billed.        *)
AddBillLate(j) ==
    LET h == job[j]
    IN /\ h.pc = "addBill"
       /\ Fits(h.sale, sales[h.sale].items + Cardinality(h.cart))
       /\ sales' = [sales EXCEPT ![h.sale].items = @ + Cardinality(h.cart)]
       /\ Goto(j, "addItems")
       /\ UNCHANGED <<orders, tables>>

(* Mutant of AddBill: the bill is saved as open, as it was when it was     *)
(* read.                                                                   *)
AddBillReopened(j) ==
    LET h == job[j]
    IN /\ h.pc = "addBill"
       /\ Fits(h.sale, sales[h.sale].subtotal + Cardinality(h.cart))
       /\ sales' = [sales EXCEPT
                       ![h.sale].subtotal = @ + Cardinality(h.cart),
                       ![h.sale].status = "pending"]
       /\ Goto(j, "addItems")
       /\ UNCHANGED <<orders, tables>>

(* An SQL increment, whatever has become of the sale.                      *)
AddBill(j) ==
    LET h == job[j]
    IN /\ h.pc = "addBill"
       /\ Fits(h.sale, sales[h.sale].subtotal + Cardinality(h.cart))
       /\ sales' = [sales EXCEPT
                       ![h.sale].subtotal = @ + Cardinality(h.cart)]
       /\ Goto(j, "addItems")
       /\ UNCHANGED <<orders, tables>>

AddItems(j) ==
    LET h == job[j]
    IN /\ h.pc = "addItems"
       /\ sales' = [sales EXCEPT
                       ![h.sale].items = @ + Cardinality(h.cart)]
       /\ Done(j)
       /\ UNCHANGED <<orders, tables>>

----------------------------------------------------------------------------
(* Checkout: create of transactions.service.ts *)

(* A checkout holds the locks of its products until it ends, and takes the *)
(* first one before the snapshot.                                          *)
Locked(j, cart) == \E k \in Job \ {j} :
    job[k].pc = "payCommit" /\ job[k].cart \cap cart # {}

(* The snapshot: the pending sale tagged with the order, if there is one.  *)
PayRead(j, o, t, cart, s) ==
    /\ Free(j)
    /\ cart # {}
    /\ ~ Locked(j, cart)
    /\ o # NoOrder => Placed(o)
    /\ IF o # NoOrder /\ ~ NumberFree(o) THEN s # NoSale /\ Pending(s, o)
       ELSE s = NoSale
    /\ job' = [job EXCEPT ![j] = [IdleJob EXCEPT
                  !.pc = "payCommit", !.order = o, !.table = t,
                  !.cart = cart, !.sale = s,
                  !.seen = IF s = NoSale THEN 0 ELSE sales[s].subtotal]]
    /\ UNCHANGED <<orders, sales, tables>>

(* autoCompleteFnbOrder is begun only with an order or a table.            *)
PayDone(j) ==
    IF job[j].order = NoOrder /\ job[j].table = NoTable THEN Done(j)
    ELSE job' = [job EXCEPT ![j] = [IdleJob EXCEPT
                    !.pc = "closeRead", !.order = job[j].order,
                    !.table = job[j].table]]

(* The bill becomes the sale, with the cart in place of its items.  Its    *)
(* totals are written unless they are what was read.                       *)
PayBill(j) ==
    LET h == job[j]
        n == Cardinality(h.cart)
    IN /\ h.pc = "payCommit"
       /\ h.sale # NoSale
       /\ sales' = [sales EXCEPT
                       ![h.sale].status = "completed",
                       ![h.sale].subtotal = IF n = h.seen THEN @ ELSE n,
                       ![h.sale].items = n]
       /\ PayDone(j)
       /\ UNCHANGED <<orders, tables>>

PayNew(j, s) ==
    LET h == job[j]
        n == Cardinality(h.cart)
    IN /\ h.pc = "payCommit"
       /\ h.sale = NoSale
       /\ FreeSale(s)
       /\ sales' = [sales EXCEPT ![s] = [
                       status |-> "completed", order |-> h.order,
                       subtotal |-> n, items |-> n]]
       /\ PayDone(j)
       /\ UNCHANGED <<orders, tables>>

(* The order the sale was tagged with; else the latest one at its table    *)
(* among those of its store, if it is open.  Which orders are of that      *)
(* store is left open: requests and edits give an order any store.         *)
Latest(t, o, here) ==
    /\ o \in here /\ orders[o].table = t
    /\ \A p \in here : orders[p].table = t => p <= o

CloseRead(j, o) ==
    LET h == job[j]
    IN /\ h.pc = "closeRead"
       /\ IF h.order # NoOrder THEN o = h.order
          ELSE /\ \E here \in SUBSET Order : Latest(h.table, o, here)
               /\ orders[o].status = "active"
       /\ job' = [job EXCEPT ![j].pc = "closeOrder", ![j].order = o,
                             ![j].table = orders[o].table]
       /\ UNCHANGED <<orders, sales, tables>>

CloseNothing(j) ==
    LET h == job[j]
    IN /\ h.pc = "closeRead"
       /\ h.order = NoOrder
       /\ \E here \in SUBSET Order : \A o \in Order :
             Latest(h.table, o, here) => orders[o].status # "active"
       /\ Done(j)
       /\ UNCHANGED <<orders, sales, tables>>

(* Also an order that was cancelled meanwhile.                             *)
CloseOrder(j) ==
    LET h == job[j]
    IN /\ h.pc = "closeOrder"
       /\ orders' = [orders EXCEPT ![h.order].status = "completed"]
       /\ IF h.table = NoTable THEN Done(j)
          ELSE GotoTable(j, "closeTable", h.table)
       /\ UNCHANGED <<sales, tables>>

CloseTable(j) ==
    /\ job[j].pc = "closeTable"
    /\ tables' = [tables EXCEPT ![job[j].table].status = "available"]
    /\ Done(j)
    /\ UNCHANGED <<orders, sales>>

----------------------------------------------------------------------------
(* voidTransaction and refundTransaction: the order is left as it is.  The *)
(* status is written over whatever it has become since it was read.        *)
VoidRead(j, s) ==
    /\ Free(j)
    /\ sales[s].status = "completed"
    /\ job' = [job EXCEPT ![j] = [IdleJob EXCEPT
                  !.pc = "voidSave", !.sale = s]]
    /\ UNCHANGED <<orders, sales, tables>>

VoidSave(j) ==
    /\ job[j].pc = "voidSave"
    /\ sales' = [sales EXCEPT ![job[j].sale].status = "voided"]
    /\ Done(j)
    /\ UNCHANGED <<orders, tables>>

----------------------------------------------------------------------------
(* tables.service.ts *)

(* updateStatus sets any status; update need not set one.                  *)
TableRead(j, t, status) ==
    /\ Free(j)
    /\ Shown(t)
    /\ job' = [job EXCEPT ![j] = [IdleJob EXCEPT
                  !.pc = "tableSave", !.table = t, !.status = status]]
    /\ UNCHANGED <<orders, sales, tables>>

RemoveRead(j, t) ==
    /\ Free(j)
    /\ Shown(t)
    /\ tables[t].status # "occupied"
    /\ job' = [job EXCEPT ![j] = [IdleJob EXCEPT
                  !.pc = "tableSave", !.table = t,
                  !.status = tables[t].status, !.active = FALSE]]
    /\ UNCHANGED <<orders, sales, tables>>

TableSave(j) ==
    LET h == job[j]
    IN /\ h.pc = "tableSave"
       /\ tables' = [tables EXCEPT ![h.table] =
                        [status |-> h.status, active |-> h.active]]
       /\ Done(j)
       /\ UNCHANGED <<orders, sales>>

(* syncTableStatuses lists the tables first, then looks at each.           *)
SyncRead(j) ==
    /\ Free(j)
    /\ \E t \in Table : Shown(t)
    /\ job' = [job EXCEPT ![j] = [IdleJob EXCEPT
                  !.pc = "syncCheck",
                  !.todo = {t \in Table : Shown(t)},
                  !.shot = [t \in Table |-> tables[t].status]]]
    /\ UNCHANGED <<orders, sales, tables>>

Occupied(t) == \E o \in Order :
    orders[o].table = t /\ orders[o].status = "active"

(* Mutant of SyncStatus: a cancelled order still occupies its table.       *)
SyncStatusCancelled(t, listed) ==
    IF \E o \in Order : /\ orders[o].table = t
                        /\ orders[o].status \in {"active", "cancelled"}
    THEN "occupied"
    ELSE IF listed = "occupied" THEN "available" ELSE listed

(* What a table's status should be, given what was listed.                 *)
SyncStatus(t, listed) ==
    IF Occupied(t) THEN "occupied"
    ELSE IF listed = "occupied" THEN "available" ELSE listed

SyncNext(j, t) ==
    job' = [job EXCEPT ![j] =
               IF job[j].todo = {t} THEN IdleJob
               ELSE [IdleJob EXCEPT !.pc = "syncCheck",
                                    !.todo = job[j].todo \ {t},
                                    !.shot = [job[j].shot EXCEPT
                                                 ![t] = "available"]]]

SyncCheck(j, t) ==
    LET h == job[j]
        new == SyncStatus(t, h.shot[t])
    IN /\ h.pc = "syncCheck"
       /\ t \in h.todo
       /\ IF new = h.shot[t] THEN SyncNext(j, t)
          ELSE job' = [job EXCEPT ![j].pc = "syncSave", ![j].table = t,
                                  ![j].status = new]
       /\ UNCHANGED <<orders, sales, tables>>

SyncSave(j) ==
    LET h == job[j]
    IN /\ h.pc = "syncSave"
       /\ tables' = [tables EXCEPT ![h.table].status = h.status]
       /\ SyncNext(j, h.table)
       /\ UNCHANGED <<orders, sales>>

----------------------------------------------------------------------------
(* A statement fails, or the process ends.  The transaction of a checkout  *)
(* is rolled back.                                                         *)
Abort(j) ==
    /\ ~ Free(j)
    /\ Done(j)
    /\ UNCHANGED <<orders, sales, tables>>

Carts == SUBSET Dish

Request(j) ==
    \/ \E o \in Order, t \in Table \cup {NoTable}, cart \in Carts :
          CreateOrder(j, o, t, cart)
    \/ \E o \in Order, status \in OrderStatus : StatusRead(j, o, status)
    \/ \E o \in Order, t \in Table \cup {NoTable}, s \in Sale \cup {NoSale} :
          EditRead(j, o, t, s)
    \/ \E o \in Order, cart \in Carts : AddRead(j, o, cart)
    \/ \E o \in Order \cup {NoOrder}, t \in Table \cup {NoTable},
          cart \in Carts, s \in Sale \cup {NoSale} :
          PayRead(j, o, t, cart, s)
    \/ \E s \in Sale : VoidRead(j, s)
    \/ \E t \in Table, status \in TableStatus : TableRead(j, t, status)
    \/ \E t \in Table : RemoveRead(j, t)
    \/ SyncRead(j)

SyncStep(j) ==
    \/ \E t \in Table : SyncCheck(j, t)
    \/ SyncSave(j)

Step(j) ==
    \/ \E s \in Sale : CreateSale(j, s)
    \/ CreateItems(j)
    \/ CreateLink(j)
    \/ CreateFails(j)
    \/ CreateTable(j)
    \/ StatusSave(j)
    \/ FreeTable(j)
    \/ EditSave(j)
    \/ \E s \in Sale : AddSale(j, s)
    \/ AddLink(j)
    \/ AddBill(j)
    \/ AddItems(j)
    \/ PayBill(j)
    \/ \E s \in Sale : PayNew(j, s)
    \/ \E o \in Order : CloseRead(j, o)
    \/ CloseNothing(j)
    \/ CloseOrder(j)
    \/ CloseTable(j)
    \/ VoidSave(j)
    \/ TableSave(j)
    \/ SyncStep(j)

Next == \E j \in Job : Request(j) \/ Step(j) \/ Abort(j)

Spec == Init /\ [][Next]_vars

(* A statement that was sent is answered.                                  *)
FairSpec == Spec /\ \A j \in Job : WF_vars(Step(j))
=============================================================================
