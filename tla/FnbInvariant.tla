---------------------------- MODULE FnbInvariant ----------------------------
(* What holds of orders, bills and tables whatever the handlers do.        *)
EXTENDS FnbOrders

Known(s) == s # NoSale => sales[s].status # "none"

(* The sale an order points to exists: items added to it have a bill.      *)
LinkSound == \A o \in Order : Known(orders[o].sale)

(* An order has one open bill, so that checkout finds the one there is.    *)
OneBill == \A o \in Order : \A s, u \in Sale :
    Pending(s, o) /\ Pending(u, o) => s = u

(* A checkout made the sale, though it may have been voided since.         *)
CheckedOut(s) == sales[s].status \in {"completed", "voided"}

(* A sale that names no order may have closed any at its table.            *)
WasPaid(o) == \E s \in Sale :
    CheckedOut(s) /\ sales[s].order \in {o, NoOrder}

(* No row written back, and no status or edit asked for, completes an      *)
(* order: that takes a checkout, of a sale that names it or names none.    *)
CompletedWasPaid == \A o \in Order :
    orders[o].status = "completed" => WasPaid(o)

(* What the handlers hold: an order that is saved as it was read was open  *)
(* then, unless its status is what is set.                                 *)
WritesOrder == {"newSale", "newItems", "newLink", "statusSave", "editSave",
                "addSale", "addLink"}

RowHeld(h) ==
    h.pc \in WritesOrder =>
       /\ h.order # NoOrder
       /\ Placed(h.order)
       /\ h.row.status # "none"
       /\ h.pc # "statusSave" => h.row.status = "active"
       /\ h.pc = "statusSave" => h.status \in {"active", "cancelled"}
       /\ Known(h.row.sale)

(* A bill read or written for an order stays that order's.                 *)
Owns(s, o) == s # NoSale => sales[s].status # "none" /\ sales[s].order = o

SaleHeld(h) ==
    /\ h.pc \in {"newItems", "newLink", "addLink"} =>
           h.sale # NoSale /\ Owns(h.sale, h.order)
    /\ h.pc \in {"addBill", "addItems"} =>
           h.sale # NoSale /\ sales[h.sale].status # "none"
    /\ h.pc = "payCommit" => Owns(h.sale, h.order)
    /\ h.pc = "payCommit" /\ h.sale # NoSale => h.order # NoOrder
    /\ h.pc = "voidSave" => h.sale # NoSale /\ CheckedOut(h.sale)

CloseHeld(h) ==
    /\ h.pc \in {"payCommit", "closeRead", "closeOrder"} =>
           (h.order # NoOrder => Placed(h.order))
    /\ h.pc = "closeRead" => \E s \in Sale :
           CheckedOut(s) /\ sales[s].order = h.order
    /\ h.pc = "closeOrder" => h.order # NoOrder /\ WasPaid(h.order)

TableHeld(h) ==
    /\ h.pc \in {"newTable", "freeTable", "closeTable", "tableSave",
                  "syncSave"} => h.table # NoTable
    /\ h.pc \in {"tableSave", "syncSave"} => h.status \in TableStatus

Held == \A j \in Job :
    LET h == job[j]
    IN RowHeld(h) /\ SaleHeld(h) /\ CloseHeld(h) /\ TableHeld(h)

FnbInv == TypeOK /\ LinkSound /\ OneBill /\ CompletedWasPaid /\ Held

(* The customer is shown no dish that the bill does not count: of an open  *)
(* bill, the items add up to no more than its total, although totals and   *)
(* items are written by separate statements of several handlers.           *)
BilledBeforeListed == \A s \in Sale :
    sales[s].status = "pending" => sales[s].items <= sales[s].subtotal

(* syncTableStatuses repairs whatever the unordered writes of the other    *)
(* handlers left behind, its own late ones included: once nothing but      *)
(* syncs run, and they do run, a table is occupied exactly when an open    *)
(* order sits at it.                                                       *)
TableFits(t) == Shown(t) => (tables[t].status = "occupied" <=> Occupied(t))

OnlySyncs == <>[][\E j \in Job : SyncRead(j) \/ SyncStep(j)]_vars

SyncsRun == []<><<\E j \in Job : SyncRead(j)>>_vars

TablesSettle ==
    OnlySyncs /\ SyncsRun => <>[](\A t \in Table : TableFits(t))

(* FnbOrders implements Tabs: whatever rows are saved back over each other *)
(* and however many checkouts share a bill, an order is closed only by a   *)
(* checkout that has committed a sale and is owed this order for it, each  *)
(* sale made closes at most one, and a bill once paid is never open again. *)
TabOf(o) == [status |-> orders[o].status, table |-> orders[o].table]

SlipOf(s) == [status |-> sales[s].status, order |-> sales[s].order]

DeskOf(h) ==
    CASE h.pc = "payCommit" ->
             [at |-> "till", order |-> h.order, table |-> h.table,
              sale |-> h.sale]
      [] h.pc = "closeRead" ->
             [at |-> "paid", order |-> h.order, table |-> h.table,
              sale |-> NoSale]
      [] h.pc = "closeOrder" ->
             [at |-> "close", order |-> h.order, table |-> NoTable,
              sale |-> NoSale]
      [] OTHER -> [at |-> "away", order |-> NoOrder, table |-> NoTable,
                   sale |-> NoSale]

Tabs == INSTANCE Tabs WITH tabs <- [o \in Order |-> TabOf(o)],
                           slips <- [s \in Sale |-> SlipOf(s)],
                           desk <- [j \in Job |-> DeskOf(job[j])]

ImplementsTabs == Tabs!Spec
=============================================================================
