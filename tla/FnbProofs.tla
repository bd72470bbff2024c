------------------------------ MODULE FnbProofs ------------------------------
(***************************************************************************)
(* Theorems about FnbOrders for every value of its constants.  FnbInv is   *)
(* shown inductive: whatever an action writes, orders and sales go on      *)
(* existing, a sale names the order it named and one made at a checkout is *)
(* not open again (Frame), so that what the other handlers hold stays true *)
(* of them (lemma Keeps).                                                  *)
(***************************************************************************)
EXTENDS FnbInvariant, FiniteSetTheorems, TLAPS

----------------------------------------------------------------------------
(* Types *)

\* An idle job slot is a job row, and it holds nothing.
LEMMA IdleType == IdleJob \in JobRow
<1>1. NoOrderRow \in OrderRow
  BY DEF NoOrderRow, OrderRow, OrderStatus
<1> QED
  BY <1>1 DEF JobRow, IdleJob, PC, TableStatus, OrderStatus

\* The fields of a job row.
LEMMA JobFields ==
  ASSUME NEW h \in JobRow
  PROVE  /\ h.pc \in PC
         /\ h.order \in Order \cup {NoOrder}
         /\ h.table \in Table \cup {NoTable}
         /\ h.sale \in Sale \cup {NoSale}
         /\ h.row \in OrderRow
         /\ h.cart \in SUBSET Dish
         /\ h.seen \in Nat
         /\ h.status \in OrderStatus \cup TableStatus
         /\ h.active \in BOOLEAN
         /\ h.todo \in SUBSET Table
         /\ h.shot \in [Table -> TableStatus]
  BY DEF JobRow

\* 0 is neither an order nor a sale.
LEMMA Zero == NoOrder \notin Order /\ NoSale \notin Sale
  BY DEF Order, Sale, NoOrder, NoSale

\* A cart has a number of dishes.
LEMMA CartSize ==
  ASSUME NEW cart \in SUBSET Dish
  PROVE  Cardinality(cart) \in Nat
  BY FnbAssumption, FS_Subset, FS_CardinalityType

----------------------------------------------------------------------------
(* What every action keeps *)

\* What one handler holds.
AllHeld(h) == RowHeld(h) /\ SaleHeld(h) /\ CloseHeld(h) /\ TableHeld(h)

\* Orders and sales that exist go on existing, a sale for the same order;
\* one that a checkout made stays so, voided or not.
Frame ==
  /\ \A o \in Order : Placed(o) => Placed(o)'
  /\ \A s \in Sale : sales[s].status # "none" =>
        /\ sales'[s].status # "none"
        /\ sales'[s].order = sales[s].order
        /\ CheckedOut(s) => CheckedOut(s)'

\* Under Frame, what a handler holds stays true.
LEMMA StillHeld ==
  ASSUME TypeOK, Frame, NEW h \in JobRow, AllHeld(h)
  PROVE  AllHeld(h)'
<1> USE Zero, JobFields
<1>1. \A s \in Sale \cup {NoSale}, o \in Order \cup {NoOrder} :
         (Owns(s, o) => Owns(s, o)') /\ (Known(s) => Known(s)')
  BY DEF Frame, Owns, Known
<1>2. /\ \A o \in Order : WasPaid(o) => WasPaid(o)'
      /\ \A s \in Sale : CheckedOut(s) => CheckedOut(s)'
  BY DEF Frame, WasPaid, CheckedOut
<1>3. RowHeld(h)'
  <2>1. h.row.sale \in Sale \cup {NoSale}
    BY DEF OrderRow
  <2> QED
    BY <1>1, <2>1 DEF AllHeld, RowHeld, Frame
<1>4. SaleHeld(h)'
  BY <1>1, <1>2 DEF AllHeld, SaleHeld, Frame
<1>5. CloseHeld(h)'
  <2>1. h.pc \in {"payCommit", "closeRead", "closeOrder"} =>
           (h.order # NoOrder => Placed(h.order)')
    BY DEF AllHeld, CloseHeld, Frame
  <2>2. h.pc = "closeRead" => \E s \in Sale :
           CheckedOut(s)' /\ sales'[s].order = h.order
    BY <1>2 DEF AllHeld, CloseHeld, Frame, CheckedOut
  <2>3. h.pc = "closeOrder" => h.order # NoOrder /\ WasPaid(h.order)'
    BY <1>2 DEF AllHeld, CloseHeld
  <2> QED
    BY <2>1, <2>2, <2>3 DEF CloseHeld
<1>6. TableHeld(h)'
  BY DEF AllHeld, TableHeld
<1> QED
  BY <1>3, <1>4, <1>5, <1>6 DEF AllHeld

\* What an action has to do to keep FnbInv.
LEMMA Keeps ==
  ASSUME FnbInv, Frame, NEW j \in Job, NEW h \in JobRow, AllHeld(h)',
         job' = [job EXCEPT ![j] = h],
         orders' \in [Order -> OrderRow],
         sales' \in [Sale -> SaleRow],
         tables' \in [Table -> TableRow],
         \A o \in Order : \/ orders'[o].sale = orders[o].sale
                          \/ Known(orders[o].sale)',
         \A o \in Order : orders'[o].status = "completed" =>
            orders[o].status = "completed" \/ WasPaid(o),
         OneBill'
  PROVE  FnbInv'
<1> USE Zero
<1>1. TypeOK'
  BY DEF FnbInv, TypeOK
<1>2. LinkSound'
  <2> SUFFICES ASSUME NEW o \in Order PROVE Known(orders[o].sale)'
    BY DEF LinkSound
  <2>1. CASE orders'[o].sale = orders[o].sale
    <3>1. Known(orders[o].sale) /\ orders[o].sale \in Sale \cup {NoSale}
      BY DEF FnbInv, LinkSound, TypeOK, OrderRow
    <3> QED
      BY <2>1, <3>1 DEF Known, Frame
  <2> QED
    BY <2>1
<1>3. CompletedWasPaid'
  <2> SUFFICES ASSUME NEW o \in Order, orders'[o].status = "completed"
               PROVE  WasPaid(o)'
    BY DEF CompletedWasPaid
  <2>1. WasPaid(o)
    BY DEF FnbInv, CompletedWasPaid
  <2> QED
    BY <2>1 DEF WasPaid, CheckedOut, Frame
<1>4. Held'
  <2> SUFFICES ASSUME NEW k \in Job, NEW g \in JobRow, g = job'[k]
               PROVE  AllHeld(g)'
    BY <1>1 DEF Held, AllHeld, TypeOK, RowHeld, SaleHeld, CloseHeld, TableHeld
  <2>1. CASE k = j
    BY <2>1 DEF FnbInv, TypeOK
  <2>2. CASE k # j
    <3>1. g = job[k] /\ TypeOK
      BY <2>2 DEF FnbInv, TypeOK
    <3>2. AllHeld(g)
      BY <3>1 DEF FnbInv, Held, AllHeld
    <3> QED
      BY <3>1, <3>2, StillHeld
  <2> QED
    BY <2>1, <2>2
<1> QED
  BY <1>1, <1>2, <1>3, <1>4 DEF FnbInv

\* An action that writes neither orders nor sales.
LEMMA KeepsJob ==
  ASSUME FnbInv, NEW j \in Job, NEW h \in JobRow, AllHeld(h),
         job' = [job EXCEPT ![j] = h],
         UNCHANGED <<orders, sales>>, tables' \in [Table -> TableRow]
  PROVE  FnbInv'
<1>1. Frame
  BY DEF Frame, Placed, CheckedOut
<1>2. AllHeld(h)'
  BY <1>1, StillHeld DEF FnbInv
<1>3. OneBill'
  BY DEF FnbInv, OneBill, Pending
<1>4. orders' \in [Order -> OrderRow] /\ sales' \in [Sale -> SaleRow]
  BY DEF FnbInv, TypeOK
<1> QED
  BY <1>1, <1>2, <1>3, <1>4, Keeps

\* An action that writes an order that exists.
LEMMA KeepsOrder ==
  ASSUME FnbInv, NEW j \in Job, NEW h \in JobRow, AllHeld(h),
         job' = [job EXCEPT ![j] = h], UNCHANGED <<sales, tables>>,
         NEW o \in Order, Placed(o), NEW row \in OrderRow,
         orders' = [orders EXCEPT ![o] = row],
         row.status # "none", Known(row.sale),
         row.status = "completed" =>
            orders[o].status = "completed" \/ WasPaid(o)
  PROVE  FnbInv'
<1>1. /\ orders' \in [Order -> OrderRow]
      /\ sales' \in [Sale -> SaleRow]
      /\ tables' \in [Table -> TableRow]
  BY DEF FnbInv, TypeOK
<1>2. \A p \in Order : orders'[p] = IF p = o THEN row ELSE orders[p]
  BY DEF FnbInv, TypeOK
<1>3. Frame
  BY <1>2 DEF Frame, Placed, CheckedOut
<1>4. AllHeld(h)'
  BY <1>3, StillHeld DEF FnbInv
<1>5. OneBill'
  BY DEF FnbInv, OneBill, Pending
<1>6. \A p \in Order : \/ orders'[p].sale = orders[p].sale
                        \/ Known(orders[p].sale)'
  BY <1>2 DEF Known
<1>7. \A p \in Order : orders'[p].status = "completed" =>
         orders[p].status = "completed" \/ WasPaid(p)
  BY <1>2
<1> QED
  BY <1>1, <1>3, <1>4, <1>5, <1>6, <1>7, Keeps

\* An action that writes one sale, or inserts it.
LEMMA KeepsSale ==
  ASSUME FnbInv, NEW j \in Job, NEW h \in JobRow,
         job' = [job EXCEPT ![j] = h], UNCHANGED <<orders, tables>>,
         NEW s \in Sale, NEW row \in SaleRow,
         sales' = [sales EXCEPT ![s] = row],
         row.status # "none",
         sales[s].status # "none" => row.order = sales[s].order,
         CheckedOut(s) => row.status \in {"completed", "voided"},
         row.status = "pending" =>
            sales[s].status = "pending" \/ NumberFree(row.order),
         AllHeld(h)'
  PROVE  FnbInv'
<1>1. /\ orders' \in [Order -> OrderRow]
      /\ sales' \in [Sale -> SaleRow]
      /\ tables' \in [Table -> TableRow]
  BY DEF FnbInv, TypeOK
<1>2. \A u \in Sale : sales'[u] = IF u = s THEN row ELSE sales[u]
  BY DEF FnbInv, TypeOK
<1>3. Frame
  BY <1>2 DEF Frame, Placed, CheckedOut
<1>4. OneBill'
  <2> SUFFICES ASSUME NEW o \in Order, NEW u \in Sale, NEW v \in Sale,
                      Pending(u, o)', Pending(v, o)'
               PROVE  u = v
    BY DEF OneBill
  <2>1. CASE u # s /\ v # s
    BY <1>2, <2>1 DEF FnbInv, OneBill, Pending
  <2>2. CASE u = s /\ v # s
    BY <1>2, <2>2 DEF FnbInv, OneBill, Pending, NumberFree
  <2>3. CASE u # s /\ v = s
    BY <1>2, <2>3 DEF FnbInv, OneBill, Pending, NumberFree
  <2> QED
    BY <2>1, <2>2, <2>3
<1> QED
  BY <1>1, <1>3, <1>4, Keeps

\* An action that adds to the total or to the items of a sale.
LEMMA ItemsKeep ==
  ASSUME FnbInv, NEW j \in Job, NEW h \in JobRow, AllHeld(h),
         job' = [job EXCEPT ![j] = h], UNCHANGED <<orders, tables>>,
         NEW s \in Sale, sales[s].status # "none", NEW n \in Nat,
         \/ sales' = [sales EXCEPT ![s].items = @ + n]
         \/ sales' = [sales EXCEPT ![s].subtotal = @ + n]
  PROVE  FnbInv'
<1> PICK row \in SaleRow : /\ row = sales'[s]
                           /\ sales' = [sales EXCEPT ![s] = row]
  <2>1. sales \in [Sale -> SaleRow] /\ sales[s] \in SaleRow
    BY DEF FnbInv, TypeOK
  <2>2. CASE sales' = [sales EXCEPT ![s].items = @ + n]
    <3>1. sales'[s] = [sales[s] EXCEPT !.items = @ + n]
      BY <2>1, <2>2
    <3>2. sales'[s] \in SaleRow
      BY <2>1, <3>1 DEF SaleRow
    <3> QED
      BY <2>1, <2>2, <3>1, <3>2
  <2>3. CASE sales' = [sales EXCEPT ![s].subtotal = @ + n]
    <3>1. sales'[s] = [sales[s] EXCEPT !.subtotal = @ + n]
      BY <2>1, <2>3
    <3>2. sales'[s] \in SaleRow
      BY <2>1, <3>1 DEF SaleRow
    <3> QED
      BY <2>1, <2>3, <3>1, <3>2
  <2> QED
    BY <2>2, <2>3
<1>1. /\ row.status = sales[s].status /\ row.order = sales[s].order
  BY DEF FnbInv, TypeOK, SaleRow
<1>2. Frame
  BY <1>1 DEF Frame, Placed, CheckedOut, FnbInv, TypeOK
<1>3. AllHeld(h)'
  BY <1>2, StillHeld DEF FnbInv
<1>4. /\ row.status # "none"
      /\ sales[s].status # "none" => row.order = sales[s].order
      /\ CheckedOut(s) => row.status \in {"completed", "voided"}
      /\ row.status = "pending" =>
            sales[s].status = "pending" \/ NumberFree(row.order)
  BY <1>1 DEF CheckedOut
<1>5. sales' = [sales EXCEPT ![s] = row]
  OBVIOUS
<1> QED
  BY <1>3, <1>4, <1>5, KeepsSale

----------------------------------------------------------------------------
(* create *)

\* An idle slot holds nothing, and a slot with a table left to write only it.
LEMMA IdleHeld == AllHeld(IdleJob)
  BY DEF AllHeld, RowHeld, SaleHeld, CloseHeld, TableHeld, IdleJob,
         WritesOrder

LEMMA TableLeft ==
  ASSUME NEW pc \in {"newTable", "freeTable", "closeTable"}, NEW t \in Table
  PROVE  /\ [IdleJob EXCEPT !.pc = pc, !.table = t] \in JobRow
         /\ AllHeld([IdleJob EXCEPT !.pc = pc, !.table = t])
<1> DEFINE h == [IdleJob EXCEPT !.pc = pc, !.table = t]
<1>1. h \in JobRow
  BY IdleType DEF JobRow, PC
<1>2. h.pc = pc /\ h.table = t
  BY DEF IdleJob
<1>3. t # NoTable
  BY FnbAssumption
<1> HIDE DEF h
<1>4. AllHeld(h)
  BY <1>2, <1>3 DEF AllHeld, RowHeld, SaleHeld, CloseHeld, TableHeld,
                    WritesOrder
<1> QED
  BY <1>1, <1>4 DEF h

\* A handler that is done, or goes on to its table, if there is one.
LEMMA DoneOrTable ==
  ASSUME NEW j \in Job, NEW t \in Table \cup {NoTable},
         \/ Done(j)
         \/ /\ t # NoTable
            /\ \E pc \in {"newTable", "freeTable", "closeTable"} :
                  GotoTable(j, pc, t)
  PROVE  \E h \in JobRow : AllHeld(h) /\ job' = [job EXCEPT ![j] = h]
<1>1. CASE Done(j)
  BY <1>1, IdleType, IdleHeld DEF Done
<1>2. CASE /\ t # NoTable
           /\ \E pc \in {"newTable", "freeTable", "closeTable"} :
                 GotoTable(j, pc, t)
  BY <1>2, TableLeft DEF GotoTable
<1> QED
  BY <1>1, <1>2

\* What FnbInv says of the handler that takes a step.
LEMMA Handler ==
  ASSUME FnbInv, NEW j \in Job
  PROVE  TypeOK /\ job[j] \in JobRow /\ AllHeld(job[j])
  BY DEF FnbInv, TypeOK, Held, AllHeld

LEMMA CreateOrderKeeps ==
  ASSUME FnbInv, NEW j \in Job, NEW o \in Order,
         NEW t \in Table \cup {NoTable}, NEW cart \in SUBSET Dish,
         CreateOrder(j, o, t, cart)
  PROVE  FnbInv'
<1> DEFINE row == [status |-> "active", table |-> t, sale |-> NoSale]
           g == [IdleJob EXCEPT !.pc = "newSale", !.order = o, !.table = t,
                                !.row = row, !.cart = cart]
<1>1. /\ orders' = [orders EXCEPT ![o] = row] /\ ~ Placed(o)
      /\ UNCHANGED <<sales, tables>>
  BY DEF CreateOrder
<1>2. row \in OrderRow
  BY DEF OrderRow, OrderStatus
<1>3. /\ orders' \in [Order -> OrderRow]
      /\ sales' \in [Sale -> SaleRow]
      /\ tables' \in [Table -> TableRow]
      /\ \A p \in Order : orders'[p] = IF p = o THEN row ELSE orders[p]
  BY <1>1, <1>2 DEF FnbInv, TypeOK
<1>4. Frame
  BY <1>1, <1>3 DEF Frame, Placed, CheckedOut
<1>5. OneBill'
  BY <1>1 DEF FnbInv, OneBill, Pending
<1>6. \A p \in Order : \/ orders'[p].sale = orders[p].sale
                        \/ Known(orders[p].sale)'
  BY <1>3 DEF Known
<1>7. \A p \in Order : orders'[p].status = "completed" =>
         orders[p].status = "completed" \/ WasPaid(p)
  BY <1>3
<1>8. \E h \in JobRow : job' = [job EXCEPT ![j] = h] /\ AllHeld(h)'
  <2>1. CASE cart # {}
    <3>1. job' = [job EXCEPT ![j] = g]
      BY <2>1 DEF CreateOrder
    <3>2. g \in JobRow
      BY <1>2, IdleType DEF JobRow, PC
    <3>3. /\ g.pc = "newSale" /\ g.order = o /\ g.row = row
      BY DEF IdleJob
    <3> PICK h \in JobRow : h = g
      BY <3>2
    <3>4. RowHeld(h)'
      <4>1. Placed(o)'
        BY <1>3 DEF Placed
      <4>2. o # NoOrder
        BY Zero
      <4> HIDE DEF g
      <4> QED
        BY <3>3, <4>1, <4>2 DEF RowHeld, Known
    <3>5. AllHeld(h)'
      <4> HIDE DEF g
      <4> QED
        BY <3>3, <3>4 DEF AllHeld, SaleHeld, CloseHeld, TableHeld
    <3> QED
      BY <3>1, <3>5
  <2>2. CASE cart = {} /\ t # NoTable
    <3>1. job' = [job EXCEPT ![j] =
                    [IdleJob EXCEPT !.pc = "newTable", !.table = t]]
      BY <2>2 DEF CreateOrder, GotoTable
    <3>2. PICK h \in JobRow :
             h = [IdleJob EXCEPT !.pc = "newTable", !.table = t] /\ AllHeld(h)
      BY <2>2, TableLeft
    <3> QED
      BY <1>4, <3>1, <3>2, StillHeld DEF FnbInv
  <2>3. CASE cart = {} /\ t = NoTable
    <3>1. job' = job
      BY <2>3 DEF CreateOrder
    <3>2. PICK h \in JobRow : h = job[j] /\ AllHeld(h)
      BY Handler
    <3>3. job' = [job EXCEPT ![j] = h]
      BY <3>1, <3>2 DEF FnbInv, TypeOK
    <3> QED
      BY <1>4, <3>2, <3>3, StillHeld DEF FnbInv
  <2> QED
    BY <2>1, <2>2, <2>3
<1> QED
  BY <1>3, <1>4, <1>5, <1>6, <1>7, <1>8, Keeps

LEMMA CreateSaleKeeps ==
  ASSUME FnbInv, NEW j \in Job, NEW s \in Sale, CreateSale(j, s)
  PROVE  FnbInv'
<1> PICK g \in JobRow : g = job[j] /\ AllHeld(g)
  BY Handler
<1> DEFINE row == [status |-> "pending", order |-> g.order,
                   subtotal |-> Cardinality(g.cart), items |-> 0]
<1>1. /\ g.pc = "newSale" /\ FreeSale(s) /\ NumberFree(g.order)
      /\ sales' = [sales EXCEPT ![s] = row]
      /\ job' = [job EXCEPT ![j] = [g EXCEPT !.pc = "newItems", !.sale = s]]
      /\ UNCHANGED <<orders, tables>>
  BY DEF CreateSale, FnbInv, TypeOK
<1>2. row \in SaleRow
  BY JobFields, CartSize DEF SaleRow
<1> PICK h \in JobRow : h = [g EXCEPT !.pc = "newItems", !.sale = s]
  BY DEF JobRow, PC
<1>3. /\ h.pc = "newItems" /\ h.sale = s /\ h.order = g.order
      /\ h.row = g.row
  BY DEF JobRow
<1>4. sales'[s] = row
  BY <1>1 DEF FnbInv, TypeOK
<1>5. AllHeld(h)'
  <2>1. RowHeld(g)'
    <3>1. Known(g.row.sale)'
      <4>1. g.row.sale \in Sale \cup {NoSale} /\ Known(g.row.sale)
        BY <1>1, JobFields DEF OrderRow, AllHeld, RowHeld, WritesOrder
      <4> QED
        BY <1>1, <4>1 DEF Known, FreeSale, FnbInv, TypeOK
    <3> QED
      BY <1>1, <3>1 DEF AllHeld, RowHeld, WritesOrder, Placed
  <2>2. RowHeld(h)'
    BY <1>1, <1>3, <2>1 DEF RowHeld, WritesOrder
  <2>3. SaleHeld(h)'
    BY <1>3, <1>4, Zero DEF SaleHeld, Owns
  <2> QED
    BY <1>3, <2>2, <2>3 DEF AllHeld, CloseHeld, TableHeld
<1> HIDE DEF row
<1>6. /\ row.status = "pending" /\ row.order = g.order
      /\ sales[s].status = "none"
  BY <1>1 DEF row, FreeSale
<1>7. job' = [job EXCEPT ![j] = h]
  BY <1>1
<1> QED
  BY <1>1, <1>2, <1>5, <1>6, <1>7, KeepsSale DEF CheckedOut

LEMMA CreateItemsKeeps ==
  ASSUME FnbInv, NEW j \in Job, CreateItems(j)
  PROVE  FnbInv'
<1> PICK g \in JobRow : g = job[j] /\ AllHeld(g)
  BY Handler
<1> PICK h \in JobRow : h = [g EXCEPT !.pc = "newLink", !.cart = {}]
  BY DEF JobRow, PC
<1>1. /\ g.pc = "newItems"
      /\ sales' = [sales EXCEPT ![g.sale].items = @ + Cardinality(g.cart)]
      /\ job' = [job EXCEPT ![j] = h]
      /\ UNCHANGED <<orders, tables>>
  BY DEF CreateItems, FnbInv, TypeOK
<1>2. /\ h.pc = "newLink" /\ h.sale = g.sale /\ h.order = g.order
      /\ h.row = g.row
  BY DEF JobRow
<1>3. g.sale \in Sale /\ sales[g.sale].status # "none"
  BY <1>1, JobFields DEF AllHeld, SaleHeld, Owns
<1>4. AllHeld(h)
  BY <1>1, <1>2 DEF AllHeld, RowHeld, SaleHeld, CloseHeld, TableHeld,
                    WritesOrder
<1>5. Cardinality(g.cart) \in Nat
  BY JobFields, CartSize
<1> QED
  BY <1>1, <1>3, <1>4, <1>5, ItemsKeep

LEMMA CreateLinkKeeps ==
  ASSUME FnbInv, NEW j \in Job, CreateLink(j)
  PROVE  FnbInv'
<1> PICK g \in JobRow : g = job[j] /\ AllHeld(g)
  BY Handler
<1> DEFINE row == [g.row EXCEPT !.sale = g.sale]
<1>1. /\ g.pc = "newLink"
      /\ orders' = [orders EXCEPT ![g.order] = row]
      /\ UNCHANGED <<sales, tables>>
      /\ IF g.table = NoTable THEN Done(j)
         ELSE GotoTable(j, "newTable", g.table)
  BY DEF CreateLink
<1>2. /\ g.order \in Order /\ Placed(g.order)
      /\ g.row.status = "active" /\ Known(g.sale)
  BY <1>1, JobFields
     DEF AllHeld, RowHeld, SaleHeld, WritesOrder, Owns, Known
<1>3. row \in OrderRow /\ row.status = "active" /\ row.sale = g.sale
  BY <1>2, JobFields DEF OrderRow
<1>4. PICK h \in JobRow : AllHeld(h) /\ job' = [job EXCEPT ![j] = h]
  BY <1>1, DoneOrTable, JobFields
<1> HIDE DEF row
<1> QED
  BY <1>1, <1>2, <1>3, <1>4, KeepsOrder

LEMMA CreateFailsKeeps ==
  ASSUME FnbInv, NEW j \in Job, CreateFails(j)
  PROVE  FnbInv'
<1> PICK g \in JobRow : g = job[j] /\ AllHeld(g)
  BY Handler
<1>1. /\ UNCHANGED <<orders, sales, tables>>
      /\ IF g.table = NoTable THEN Done(j)
         ELSE GotoTable(j, "newTable", g.table)
  BY DEF CreateFails
<1>2. PICK h \in JobRow : AllHeld(h) /\ job' = [job EXCEPT ![j] = h]
  BY <1>1, DoneOrTable, JobFields
<1> QED
  BY <1>1, <1>2, KeepsJob DEF FnbInv, TypeOK

----------------------------------------------------------------------------
(* updateStatus and update *)

LEMMA StatusReadKeeps ==
  ASSUME FnbInv, NEW j \in Job, NEW o \in Order, NEW status,
         StatusRead(j, o, status)
  PROVE  FnbInv'
<1> PICK r \in OrderRow : r = orders[o]
  BY DEF FnbInv, TypeOK
<1> DEFINE g == [IdleJob EXCEPT !.pc = "statusSave", !.order = o, !.row = r,
                                !.status = status]
<1>1. /\ Placed(o) /\ status \in {"active", "cancelled"}
      /\ job' = [job EXCEPT ![j] = g] /\ UNCHANGED <<orders, sales, tables>>
  BY DEF StatusRead
<1>2. g \in JobRow
  BY <1>1, IdleType DEF JobRow, PC, OrderStatus
<1>3. /\ g.pc = "statusSave" /\ g.order = o /\ g.row = r
      /\ g.status = status
  BY DEF IdleJob
<1> HIDE DEF g
<1>4. Known(r.sale)
  BY DEF FnbInv, LinkSound
<1>5. AllHeld(g)
  BY <1>1, <1>3, <1>4, Zero
     DEF AllHeld, RowHeld, SaleHeld, CloseHeld, TableHeld, WritesOrder, Placed
<1> QED
  BY <1>1, <1>2, <1>5, KeepsJob DEF FnbInv, TypeOK

LEMMA StatusSaveKeeps ==
  ASSUME FnbInv, NEW j \in Job, StatusSave(j)
  PROVE  FnbInv'
<1> PICK g \in JobRow : g = job[j] /\ AllHeld(g)
  BY Handler
<1> DEFINE row == [g.row EXCEPT !.status = g.status]
<1>1. /\ g.pc = "statusSave"
      /\ orders' = [orders EXCEPT ![g.order] = row]
      /\ UNCHANGED <<sales, tables>>
      /\ IF g.status = "cancelled" /\ g.row.table # NoTable
         THEN GotoTable(j, "freeTable", g.row.table)
         ELSE Done(j)
  BY DEF StatusSave
<1>2. /\ g.order \in Order /\ Placed(g.order)
      /\ g.status \in {"active", "cancelled"} /\ Known(g.row.sale)
  BY <1>1, JobFields DEF AllHeld, RowHeld, WritesOrder
<1>3. /\ row \in OrderRow /\ row.status \in {"active", "cancelled"}
      /\ row.sale = g.row.sale
  BY <1>2, JobFields DEF OrderRow, OrderStatus
<1>4. PICK h \in JobRow : AllHeld(h) /\ job' = [job EXCEPT ![j] = h]
  <2>1. g.row.table \in Table \cup {NoTable}
    BY JobFields DEF OrderRow
  <2> QED
    BY <1>1, <2>1, DoneOrTable
<1> HIDE DEF row
<1> QED
  BY <1>1, <1>2, <1>3, <1>4, KeepsOrder

LEMMA EditReadKeeps ==
  ASSUME FnbInv, NEW j \in Job, NEW o \in Order,
         NEW t \in Table \cup {NoTable}, NEW s \in Sale \cup {NoSale},
         EditRead(j, o, t, s)
  PROVE  FnbInv'
<1> PICK r \in OrderRow : r = [orders[o] EXCEPT !.table = t, !.sale = s]
  BY DEF FnbInv, TypeOK, OrderRow
<1> DEFINE g == [IdleJob EXCEPT !.pc = "editSave", !.order = o, !.row = r]
<1>1. /\ job' = [job EXCEPT ![j] = g] /\ UNCHANGED <<orders, sales, tables>>
      /\ orders[o].status = "active" /\ Known(s)
  BY DEF EditRead, Known
<1>2. g \in JobRow
  BY <1>1, IdleType DEF JobRow, PC
<1>3. g.pc = "editSave" /\ g.order = o /\ g.row = r
  BY DEF IdleJob
<1> HIDE DEF g
<1>4. r.status = "active" /\ Known(r.sale)
  BY <1>1 DEF FnbInv, TypeOK, OrderRow
<1>5. AllHeld(g)
  BY <1>1, <1>3, <1>4, Zero
     DEF AllHeld, RowHeld, SaleHeld, CloseHeld, TableHeld, WritesOrder, Placed
<1> QED
  BY <1>1, <1>2, <1>5, KeepsJob DEF FnbInv, TypeOK

LEMMA EditSaveKeeps ==
  ASSUME FnbInv, NEW j \in Job, EditSave(j)
  PROVE  FnbInv'
<1> PICK g \in JobRow : g = job[j] /\ AllHeld(g)
  BY Handler
<1> PICK row \in OrderRow : row = g.row
  BY JobFields
<1>1. /\ g.pc = "editSave"
      /\ orders' = [orders EXCEPT ![g.order] = row]
      /\ UNCHANGED <<sales, tables>> /\ job' = [job EXCEPT ![j] = IdleJob]
  BY DEF EditSave, Done
<1>2. /\ g.order \in Order /\ Placed(g.order)
      /\ row.status = "active" /\ Known(row.sale)
  BY <1>1, JobFields DEF AllHeld, RowHeld, WritesOrder
<1> QED
  BY <1>1, <1>2, IdleType, IdleHeld, KeepsOrder

----------------------------------------------------------------------------
(* addItems *)

LEMMA AddReadKeeps ==
  ASSUME FnbInv, NEW j \in Job, NEW o \in Order, NEW cart \in SUBSET Dish,
         AddRead(j, o, cart)
  PROVE  FnbInv'
<1> PICK r \in OrderRow : r = orders[o]
  BY DEF FnbInv, TypeOK
<1> DEFINE g == [IdleJob EXCEPT !.pc = "addSale", !.order = o, !.row = r,
                                !.cart = cart]
           f == [IdleJob EXCEPT !.pc = "addBill", !.sale = r.sale,
                                !.cart = cart]
<1>1. /\ r.status = "active" /\ UNCHANGED <<orders, sales, tables>>
      /\ job' = [job EXCEPT ![j] = IF r.sale = NoSale THEN g ELSE f]
  BY DEF AddRead
<1>2. g \in JobRow /\ f \in JobRow
  BY IdleType DEF JobRow, PC, OrderRow
<1>3. /\ g.pc = "addSale" /\ g.order = o /\ g.row = r
      /\ f.pc = "addBill" /\ f.sale = r.sale
  BY DEF IdleJob
<1> HIDE DEF f, g
<1>4. Known(r.sale)
  BY DEF FnbInv, LinkSound
<1>5. AllHeld(g)
  BY <1>1, <1>3, <1>4, Zero
     DEF AllHeld, RowHeld, SaleHeld, CloseHeld, TableHeld, WritesOrder, Placed
<1>6. r.sale # NoSale => AllHeld(f)
  BY <1>3, <1>4
     DEF AllHeld, RowHeld, SaleHeld, CloseHeld, TableHeld, WritesOrder, Known
<1>7. PICK h \in JobRow : AllHeld(h) /\ job' = [job EXCEPT ![j] = h]
  BY <1>1, <1>2, <1>5, <1>6
<1> QED
  BY <1>1, <1>7, KeepsJob DEF FnbInv, TypeOK

LEMMA AddSaleKeeps ==
  ASSUME FnbInv, NEW j \in Job, NEW s \in Sale, AddSale(j, s)
  PROVE  FnbInv'
<1> PICK g \in JobRow : g = job[j] /\ AllHeld(g)
  BY Handler
<1> DEFINE row == [NoSaleRow EXCEPT !.status = "pending", !.order = g.order,
                                    !.subtotal = Cardinality(g.cart)]
<1>1. /\ g.pc = "addSale" /\ FreeSale(s) /\ NumberFree(g.order)
      /\ sales' = [sales EXCEPT ![s] = row]
      /\ job' = [job EXCEPT ![j] = [g EXCEPT !.pc = "addLink", !.sale = s]]
      /\ UNCHANGED <<orders, tables>>
  BY DEF AddSale, FnbInv, TypeOK
<1>2. row \in SaleRow /\ row.status = "pending" /\ row.order = g.order
  BY JobFields, CartSize DEF SaleRow, NoSaleRow
<1> HIDE DEF row
<1> PICK h \in JobRow : h = [g EXCEPT !.pc = "addLink", !.sale = s]
  BY DEF JobRow, PC
<1>3. /\ h.pc = "addLink" /\ h.sale = s /\ h.order = g.order
      /\ h.row = g.row
  BY DEF JobRow
<1>4. sales'[s] = row
  BY <1>1 DEF FnbInv, TypeOK
<1>5. AllHeld(h)'
  <2>1. RowHeld(g)'
    <3>1. Known(g.row.sale)'
      <4>1. g.row.sale \in Sale \cup {NoSale} /\ Known(g.row.sale)
        BY <1>1, JobFields DEF OrderRow, AllHeld, RowHeld, WritesOrder
      <4> QED
        BY <1>1, <4>1 DEF Known, FreeSale, FnbInv, TypeOK
    <3> QED
      BY <1>1, <3>1 DEF AllHeld, RowHeld, WritesOrder, Placed
  <2>2. RowHeld(h)'
    BY <1>1, <1>3, <2>1 DEF RowHeld, WritesOrder
  <2>3. SaleHeld(h)'
    BY <1>2, <1>3, <1>4, Zero DEF SaleHeld, Owns
  <2> QED
    BY <1>3, <2>2, <2>3 DEF AllHeld, CloseHeld, TableHeld
<1>6. sales[s].status = "none"
  BY <1>1 DEF FreeSale
<1>7. job' = [job EXCEPT ![j] = h]
  BY <1>1
<1> QED
  BY <1>1, <1>2, <1>5, <1>6, <1>7, KeepsSale DEF CheckedOut

LEMMA AddLinkKeeps ==
  ASSUME FnbInv, NEW j \in Job, AddLink(j)
  PROVE  FnbInv'
<1> PICK g \in JobRow : g = job[j] /\ AllHeld(g)
  BY Handler
<1> DEFINE row == [g.row EXCEPT !.sale = g.sale]
           h == [IdleJob EXCEPT !.pc = "addItems", !.sale = g.sale,
                                !.cart = g.cart]
<1>1. /\ g.pc = "addLink"
      /\ orders' = [orders EXCEPT ![g.order] = row]
      /\ UNCHANGED <<sales, tables>> /\ job' = [job EXCEPT ![j] = h]
  BY DEF AddLink
<1>2. /\ g.order \in Order /\ Placed(g.order)
      /\ g.row.status = "active"
      /\ g.sale # NoSale /\ Known(g.sale)
  BY <1>1, JobFields
     DEF AllHeld, RowHeld, SaleHeld, WritesOrder, Owns, Known
<1>3. row \in OrderRow /\ row.status = "active" /\ row.sale = g.sale
  BY <1>2, JobFields DEF OrderRow
<1>4. h \in JobRow
  <2>1. g.sale \in Sale \cup {NoSale} /\ g.cart \in SUBSET Dish
    BY JobFields
  <2> QED
    BY <2>1, IdleType DEF JobRow, PC
<1>5. h.pc = "addItems" /\ h.sale = g.sale
  BY DEF IdleJob
<1> HIDE DEF row, h
<1>6. AllHeld(h)
  BY <1>2, <1>5 DEF AllHeld, RowHeld, SaleHeld, CloseHeld, TableHeld,
                    WritesOrder, Known
<1> QED
  BY <1>1, <1>2, <1>3, <1>4, <1>6, KeepsOrder

LEMMA AddBillKeeps ==
  ASSUME FnbInv, NEW j \in Job, AddBill(j)
  PROVE  FnbInv'
<1> PICK g \in JobRow : g = job[j] /\ AllHeld(g)
  BY Handler
<1> PICK h \in JobRow : h = [g EXCEPT !.pc = "addItems"]
  BY DEF JobRow, PC
<1>1. /\ g.pc = "addBill"
      /\ sales' = [sales EXCEPT
                      ![g.sale].subtotal = @ + Cardinality(g.cart)]
      /\ job' = [job EXCEPT ![j] = h]
      /\ UNCHANGED <<orders, tables>>
  BY DEF AddBill, Goto, FnbInv, TypeOK
<1>2. h.pc = "addItems" /\ h.sale = g.sale
  BY DEF JobRow
<1>3. g.sale \in Sale /\ sales[g.sale].status # "none"
  BY <1>1, JobFields DEF AllHeld, SaleHeld
<1>4. AllHeld(h)
  BY <1>1, <1>2 DEF AllHeld, RowHeld, SaleHeld, CloseHeld, TableHeld,
                    WritesOrder
<1>5. Cardinality(g.cart) \in Nat
  BY JobFields, CartSize
<1> QED
  BY <1>1, <1>3, <1>4, <1>5, ItemsKeep

LEMMA AddItemsKeeps ==
  ASSUME FnbInv, NEW j \in Job, AddItems(j)
  PROVE  FnbInv'
<1> PICK g \in JobRow : g = job[j] /\ AllHeld(g)
  BY Handler
<1>1. /\ g.pc = "addItems"
      /\ sales' = [sales EXCEPT ![g.sale].items = @ + Cardinality(g.cart)]
      /\ job' = [job EXCEPT ![j] = IdleJob]
      /\ UNCHANGED <<orders, tables>>
  BY DEF AddItems, Done
<1>2. g.sale \in Sale /\ sales[g.sale].status # "none"
  BY <1>1, JobFields DEF AllHeld, SaleHeld
<1>3. Cardinality(g.cart) \in Nat
  BY JobFields, CartSize
<1> QED
  BY <1>1, <1>2, <1>3, IdleType, IdleHeld, ItemsKeep

----------------------------------------------------------------------------
(* Checkout *)

LEMMA PayReadKeeps ==
  ASSUME FnbInv, NEW j \in Job, NEW o \in Order \cup {NoOrder},
         NEW t \in Table \cup {NoTable}, NEW cart \in SUBSET Dish,
         NEW s \in Sale \cup {NoSale}, PayRead(j, o, t, cart, s)
  PROVE  FnbInv'
<1> PICK n \in Nat : n = IF s = NoSale THEN 0 ELSE sales[s].subtotal
  BY DEF FnbInv, TypeOK, SaleRow
<1> DEFINE h == [IdleJob EXCEPT !.pc = "payCommit", !.order = o, !.table = t,
                                !.cart = cart, !.sale = s, !.seen = n]
<1>1. /\ o # NoOrder => Placed(o)
      /\ s # NoSale => o # NoOrder /\ Pending(s, o)
      /\ job' = [job EXCEPT ![j] = h] /\ UNCHANGED <<orders, sales, tables>>
  BY DEF PayRead
<1>2. h \in JobRow
  BY IdleType DEF JobRow, PC
<1>3. h.pc = "payCommit" /\ h.order = o /\ h.sale = s
  BY DEF IdleJob
<1> HIDE DEF h
<1>4. AllHeld(h)
  BY <1>1, <1>3 DEF AllHeld, RowHeld, SaleHeld, CloseHeld, TableHeld,
                    WritesOrder, Owns, Pending
<1> QED
  BY <1>1, <1>2, <1>4, KeepsJob DEF FnbInv, TypeOK

\* After the commit of row s the handler is done, or goes on to close the
\* order that s names or, if it names none, one at its table.
LEMMA PayDoneHeld ==
  ASSUME FnbInv, NEW j \in Job, PayDone(j), NEW s \in Sale,
         NEW row \in SaleRow, sales' = [sales EXCEPT ![s] = row],
         row.status = "completed", row.order = job[j].order,
         UNCHANGED orders,
         job[j].pc = "payCommit"
  PROVE  \E h \in JobRow : job' = [job EXCEPT ![j] = h] /\ AllHeld(h)'
<1> PICK g \in JobRow : g = job[j] /\ AllHeld(g)
  BY Handler
<1> DEFINE f == [IdleJob EXCEPT !.pc = "closeRead", !.order = g.order,
                                !.table = g.table]
<1>1. CASE g.order = NoOrder /\ g.table = NoTable
  <2>1. job' = [job EXCEPT ![j] = IdleJob]
    BY <1>1 DEF PayDone, Done
  <2>2. AllHeld(IdleJob)'
    BY DEF AllHeld, RowHeld, SaleHeld, CloseHeld, TableHeld, IdleJob,
           WritesOrder
  <2> QED
    BY <2>1, <2>2, IdleType
<1>2. CASE ~ (g.order = NoOrder /\ g.table = NoTable)
  <2>1. job' = [job EXCEPT ![j] = f]
    BY <1>2 DEF PayDone
  <2>2. f \in JobRow
    <3>1. /\ g.order \in Order \cup {NoOrder}
          /\ g.table \in Table \cup {NoTable}
      BY JobFields
    <3> QED
      BY <3>1, IdleType DEF JobRow, PC
  <2>3. f.pc = "closeRead" /\ f.order = g.order /\ f.table = g.table
    BY DEF IdleJob
  <2> HIDE DEF f
  <2> PICK h \in JobRow : h = f
    BY <2>2
  <2>4. sales'[s] = row
    BY DEF FnbInv, TypeOK
  <2>5. g.order # NoOrder => Placed(g.order)'
    BY DEF AllHeld, CloseHeld, Placed
  <2>6. CloseHeld(h)'
    BY <2>3, <2>4, <2>5 DEF CloseHeld, CheckedOut
  <2>7. AllHeld(h)'
    BY <2>3, <2>6 DEF AllHeld, RowHeld, SaleHeld, TableHeld, WritesOrder
  <2> QED
    BY <2>1, <2>7
<1> QED
  BY <1>1, <1>2

LEMMA PayBillKeeps ==
  ASSUME FnbInv, NEW j \in Job, PayBill(j)
  PROVE  FnbInv'
<1> PICK g \in JobRow : g = job[j] /\ AllHeld(g)
  BY Handler
<1> PICK n \in Nat : n = Cardinality(g.cart)
  BY JobFields, CartSize
<1> PICK old \in SaleRow : g.sale \in Sale /\ old = sales[g.sale]
  BY JobFields DEF PayBill, FnbInv, TypeOK
<1> DEFINE row == [old EXCEPT !.status = "completed",
                              !.subtotal = IF n = g.seen THEN @ ELSE n,
                              !.items = n]
<1>1. /\ g.pc = "payCommit" /\ g.sale # NoSale
      /\ sales' = [sales EXCEPT ![g.sale] = row]
      /\ PayDone(j) /\ UNCHANGED <<orders, tables>>
  BY DEF PayBill, FnbInv, TypeOK
<1>2. /\ row \in SaleRow /\ row.status = "completed"
      /\ row.order = old.order
  BY JobFields DEF SaleRow
<1> HIDE DEF row
<1>3. old.order = g.order /\ g.order # NoOrder
  BY <1>1 DEF AllHeld, SaleHeld, Owns
<1>4. PICK h \in JobRow : job' = [job EXCEPT ![j] = h] /\ AllHeld(h)'
  BY <1>1, <1>2, <1>3, PayDoneHeld
<1> QED
  BY <1>1, <1>2, <1>3, <1>4, KeepsSale

LEMMA PayNewKeeps ==
  ASSUME FnbInv, NEW j \in Job, NEW s \in Sale, PayNew(j, s)
  PROVE  FnbInv'
<1> PICK g \in JobRow : g = job[j] /\ AllHeld(g)
  BY Handler
<1> PICK n \in Nat : n = Cardinality(g.cart)
  BY JobFields, CartSize
<1> DEFINE row == [status |-> "completed", order |-> g.order,
                   subtotal |-> n, items |-> n]
<1>1. /\ g.pc = "payCommit" /\ sales[s].status = "none"
      /\ sales' = [sales EXCEPT ![s] = row]
      /\ PayDone(j) /\ UNCHANGED <<orders, tables>>
  BY DEF PayNew, FreeSale
<1>2. /\ row \in SaleRow /\ row.status = "completed"
      /\ row.order = g.order
  BY JobFields DEF SaleRow
<1> HIDE DEF row
<1>3. PICK h \in JobRow : job' = [job EXCEPT ![j] = h] /\ AllHeld(h)'
  BY <1>1, <1>2, PayDoneHeld
<1> QED
  BY <1>1, <1>2, <1>3, KeepsSale DEF CheckedOut

(* Void and refund *)

LEMMA VoidReadKeeps ==
  ASSUME FnbInv, NEW j \in Job, NEW s \in Sale, VoidRead(j, s)
  PROVE  FnbInv'
<1> DEFINE h == [IdleJob EXCEPT !.pc = "voidSave", !.sale = s]
<1>1. /\ CheckedOut(s)
      /\ job' = [job EXCEPT ![j] = h] /\ UNCHANGED <<orders, sales, tables>>
  BY DEF VoidRead, CheckedOut
<1>2. h \in JobRow
  BY IdleType DEF JobRow, PC
<1>3. h.pc = "voidSave" /\ h.sale = s
  BY DEF IdleJob
<1> HIDE DEF h
<1>4. AllHeld(h)
  BY <1>1, <1>3, Zero DEF AllHeld, RowHeld, SaleHeld, CloseHeld, TableHeld,
                          WritesOrder
<1> QED
  BY <1>1, <1>2, <1>4, KeepsJob DEF FnbInv, TypeOK

LEMMA VoidSaveKeeps ==
  ASSUME FnbInv, NEW j \in Job, VoidSave(j)
  PROVE  FnbInv'
<1> PICK g \in JobRow : g = job[j] /\ AllHeld(g)
  BY Handler
<1>1. g.pc = "voidSave" /\ g.sale \in Sale /\ CheckedOut(g.sale)
  BY JobFields DEF VoidSave, AllHeld, SaleHeld
<1> PICK old \in SaleRow : old = sales[g.sale]
  BY <1>1 DEF FnbInv, TypeOK
<1> PICK row \in SaleRow : row = [old EXCEPT !.status = "voided"]
  BY DEF SaleRow
<1>2. /\ sales' = [sales EXCEPT ![g.sale] = row]
      /\ UNCHANGED <<orders, tables>> /\ job' = [job EXCEPT ![j] = IdleJob]
  BY <1>1 DEF VoidSave, Done, FnbInv, TypeOK
<1>3. row.status = "voided" /\ row.order = old.order
  BY DEF SaleRow
<1>4. AllHeld(IdleJob)'
  BY DEF AllHeld, RowHeld, SaleHeld, CloseHeld, TableHeld, IdleJob,
         WritesOrder
<1> QED
  BY <1>1, <1>2, <1>3, <1>4, IdleType, KeepsSale

LEMMA CloseReadKeeps ==
  ASSUME FnbInv, NEW j \in Job, NEW o \in Order, CloseRead(j, o)
  PROVE  FnbInv'
<1> PICK g \in JobRow : g = job[j] /\ AllHeld(g)
  BY Handler
<1> PICK t \in Table \cup {NoTable} : t = orders[o].table
  BY DEF FnbInv, TypeOK, OrderRow
<1> PICK h \in JobRow :
       h = [g EXCEPT !.pc = "closeOrder", !.order = o, !.table = t]
  BY DEF JobRow, PC
<1>1. /\ g.pc = "closeRead"
      /\ IF g.order # NoOrder THEN o = g.order
         ELSE orders[o].status = "active"
      /\ job' = [job EXCEPT ![j] = h] /\ UNCHANGED <<orders, sales, tables>>
  BY DEF CloseRead, FnbInv, TypeOK
<1>2. h.pc = "closeOrder" /\ h.order = o
  BY DEF JobRow
<1>3. Placed(o)
  BY <1>1 DEF AllHeld, CloseHeld, Placed
<1>4. WasPaid(o)
  BY <1>1 DEF AllHeld, CloseHeld, WasPaid
<1>5. AllHeld(h)
  BY <1>2, <1>3, <1>4, Zero DEF AllHeld, RowHeld, SaleHeld, CloseHeld,
     TableHeld, WritesOrder
<1> QED
  BY <1>1, <1>5, KeepsJob DEF FnbInv, TypeOK

LEMMA CloseOrderKeeps ==
  ASSUME FnbInv, NEW j \in Job, CloseOrder(j)
  PROVE  FnbInv'
<1> PICK g \in JobRow : g = job[j] /\ AllHeld(g)
  BY Handler
<1>1. /\ g.pc = "closeOrder" /\ g.order \in Order
      /\ Placed(g.order) /\ WasPaid(g.order)
  BY JobFields DEF CloseOrder, AllHeld, CloseHeld
<1> PICK old \in OrderRow : old = orders[g.order]
  BY <1>1 DEF FnbInv, TypeOK
<1> DEFINE row == [old EXCEPT !.status = "completed"]
<1>2. /\ orders' = [orders EXCEPT ![g.order] = row]
      /\ UNCHANGED <<sales, tables>>
      /\ IF g.table = NoTable THEN Done(j)
         ELSE GotoTable(j, "closeTable", g.table)
  BY <1>1 DEF CloseOrder, FnbInv, TypeOK
<1>3. row \in OrderRow /\ row.status = "completed" /\ row.sale = old.sale
  BY DEF OrderRow, OrderStatus
<1> HIDE DEF row
<1>4. PICK h \in JobRow : AllHeld(h) /\ job' = [job EXCEPT ![j] = h]
  BY <1>2, DoneOrTable, JobFields
<1>5. Known(row.sale)
  BY <1>1, <1>3 DEF FnbInv, LinkSound
<1> QED
  BY <1>1, <1>2, <1>3, <1>4, <1>5, KeepsOrder

----------------------------------------------------------------------------
(* Tables, and the steps that write nothing *)

\* An action that at most writes one table, and ends its handler.
LEMMA TableKeeps ==
  ASSUME FnbInv, NEW j \in Job, Done(j), UNCHANGED <<orders, sales>>,
         tables' \in [Table -> TableRow]
  PROVE  FnbInv'
  BY IdleType, IdleHeld, KeepsJob DEF Done

\* Writing a status, or a whole row, leaves a table of rows.
LEMMA TableTyped ==
  ASSUME TypeOK, NEW t \in Table, NEW status \in TableStatus,
         NEW active \in BOOLEAN
  PROVE  /\ [tables EXCEPT ![t].status = status] \in [Table -> TableRow]
         /\ [tables EXCEPT ![t] = [status |-> status, active |-> active]]
               \in [Table -> TableRow]
  BY DEF TypeOK, TableRow

LEMMA TableWritesKeep ==
  ASSUME FnbInv, NEW j \in Job,
         \/ CreateTable(j) \/ FreeTable(j) \/ CloseTable(j) \/ TableSave(j)
  PROVE  FnbInv'
<1> PICK g \in JobRow : g = job[j] /\ AllHeld(g)
  BY Handler
<1>1. TypeOK
  BY DEF FnbInv
<1>2. CASE CreateTable(j) \/ FreeTable(j) \/ CloseTable(j)
  <2>1. g.table \in Table
    BY <1>2, JobFields
       DEF AllHeld, TableHeld, CreateTable, FreeTable, CloseTable
  <2>2. PICK status \in TableStatus :
           tables' = [tables EXCEPT ![g.table].status = status]
    BY <1>2 DEF CreateTable, FreeTable, CloseTable, TableStatus
  <2>3. tables' \in [Table -> TableRow]
    BY <1>1, <2>1, <2>2, TableTyped
  <2> QED
    BY <1>2, <2>3, TableKeeps DEF CreateTable, FreeTable, CloseTable
<1>3. CASE TableSave(j)
  <2>1. /\ g.table \in Table /\ g.status \in TableStatus
        /\ g.active \in BOOLEAN
    BY <1>3, JobFields DEF AllHeld, TableHeld, TableSave
  <2>2. tables' \in [Table -> TableRow]
    BY <1>1, <1>3, <2>1, TableTyped DEF TableSave
  <2> QED
    BY <1>3, <2>2, TableKeeps DEF TableSave
<1> QED
  BY <1>2, <1>3

\* A handler that is going to save table t with a status, or to sync.
LEMMA TableHeldRow ==
  ASSUME NEW h \in JobRow,
         \/ h.pc = "syncCheck"
         \/ /\ h.pc \in {"tableSave", "syncSave"}
            /\ h.table # NoTable /\ h.status \in TableStatus
  PROVE  AllHeld(h)
  BY DEF AllHeld, RowHeld, SaleHeld, CloseHeld, TableHeld, WritesOrder

LEMMA TableReadsKeep ==
  ASSUME FnbInv, NEW j \in Job, NEW t \in Table,
         \/ \E status \in TableStatus : TableRead(j, t, status)
         \/ RemoveRead(j, t)
  PROVE  FnbInv'
<1>1. PICK status \in TableStatus, active \in BOOLEAN :
        /\ job' = [job EXCEPT ![j] = [IdleJob EXCEPT
                      !.pc = "tableSave", !.table = t, !.status = status,
                      !.active = active]]
        /\ UNCHANGED <<orders, sales, tables>>
  <2>1. CASE \E status \in TableStatus : TableRead(j, t, status)
    <3>1. PICK status \in TableStatus : TableRead(j, t, status)
      BY <2>1
    <3>2. [IdleJob EXCEPT !.pc = "tableSave", !.table = t, !.status = status]
          = [IdleJob EXCEPT !.pc = "tableSave", !.table = t,
                            !.status = status, !.active = TRUE]
      <4>1. IdleJob.active = TRUE
        BY DEF IdleJob
      <4> QED
        BY <4>1 DEF IdleJob
    <3> QED
      BY <3>1, <3>2 DEF TableRead
  <2>2. CASE RemoveRead(j, t)
    <3>1. tables[t].status \in TableStatus
      BY DEF FnbInv, TypeOK, TableRow
    <3> QED
      BY <2>2, <3>1 DEF RemoveRead
  <2> QED
    BY <2>1, <2>2
<1> DEFINE h == [IdleJob EXCEPT !.pc = "tableSave", !.table = t,
                                !.status = status, !.active = active]
<1>2. h \in JobRow
  BY IdleType DEF JobRow, PC
<1>3. h.pc = "tableSave" /\ h.table = t /\ h.status = status
  BY DEF IdleJob
<1>4. job' = [job EXCEPT ![j] = h]
  BY <1>1
<1> HIDE DEF h
<1>5. AllHeld(h)
  BY <1>2, <1>3, TableHeldRow, FnbAssumption
<1> QED
  BY <1>1, <1>2, <1>4, <1>5, KeepsJob DEF FnbInv, TypeOK

LEMMA SyncReadKeeps ==
  ASSUME FnbInv, NEW j \in Job, SyncRead(j)
  PROVE  FnbInv'
<1> PICK todo \in SUBSET Table : todo = {t \in Table : Shown(t)}
  OBVIOUS
<1> PICK shot \in [Table -> TableStatus] :
       shot = [t \in Table |-> tables[t].status]
  BY DEF FnbInv, TypeOK, TableRow
<1> DEFINE h == [IdleJob EXCEPT !.pc = "syncCheck", !.todo = todo,
                                !.shot = shot]
<1>1. job' = [job EXCEPT ![j] = h] /\ UNCHANGED <<orders, sales, tables>>
  BY DEF SyncRead
<1>2. h \in JobRow
  BY IdleType DEF JobRow, PC
<1>3. h.pc = "syncCheck"
  BY DEF IdleJob
<1> HIDE DEF h
<1> QED
  BY <1>1, <1>2, <1>3, TableHeldRow, KeepsJob DEF FnbInv, TypeOK

\* The next table of a sync, if one is left.
LEMMA SyncNextHeld ==
  ASSUME FnbInv, NEW j \in Job, NEW t \in Table, SyncNext(j, t)
  PROVE  \E h \in JobRow : AllHeld(h) /\ job' = [job EXCEPT ![j] = h]
<1> PICK g \in JobRow : g = job[j]
  BY Handler
<1>1. CASE g.todo = {t}
  BY <1>1, IdleType, IdleHeld DEF SyncNext
<1>2. CASE g.todo # {t}
  <2> PICK todo \in SUBSET Table : todo = g.todo \ {t}
    <3>1. g.todo \in SUBSET Table
      BY JobFields
    <3>2. g.todo \ {t} \in SUBSET Table
      BY <3>1
    <3> QED
      BY <3>2
  <2> PICK shot \in [Table -> TableStatus] :
         shot = [g.shot EXCEPT ![t] = "available"]
    BY JobFields DEF TableStatus
  <2> DEFINE h == [IdleJob EXCEPT !.pc = "syncCheck", !.todo = todo,
                                  !.shot = shot]
  <2>1. job' = [job EXCEPT ![j] = h]
    BY <1>2 DEF SyncNext
  <2>2. h \in JobRow
    BY ONLY IdleType, todo \in SUBSET Table,
            shot \in [Table -> TableStatus] DEF JobRow, PC
  <2>3. h.pc = "syncCheck"
    BY DEF IdleJob
  <2> HIDE DEF h
  <2> QED
    BY <2>1, <2>2, <2>3, TableHeldRow
<1> QED
  BY <1>1, <1>2

LEMMA SyncStepKeeps ==
  ASSUME FnbInv, NEW j \in Job, SyncStep(j)
  PROVE  FnbInv'
<1> PICK g \in JobRow : g = job[j] /\ AllHeld(g)
  BY Handler
<1>1. ASSUME NEW t \in Table, SyncCheck(j, t) PROVE FnbInv'
  <2>1. SyncStatus(t, g.shot[t]) \in TableStatus
    BY JobFields DEF SyncStatus, TableStatus
  <2> PICK new \in TableStatus : new = SyncStatus(t, g.shot[t])
    BY <2>1
  <2> PICK f \in JobRow :
         f = [g EXCEPT !.pc = "syncSave", !.table = t, !.status = new]
    BY DEF JobRow, PC
  <2>2. /\ UNCHANGED <<orders, sales, tables>>
        /\ SyncNext(j, t) \/ job' = [job EXCEPT ![j] = f]
    BY <1>1 DEF SyncCheck, FnbInv, TypeOK
  <2>3. f.pc = "syncSave" /\ f.table = t /\ f.status = new
    BY DEF JobRow
  <2>4. AllHeld(f)
    BY <2>3, TableHeldRow, FnbAssumption
  <2>5. PICK h \in JobRow : AllHeld(h) /\ job' = [job EXCEPT ![j] = h]
    BY <2>2, <2>4, SyncNextHeld
  <2> QED
    BY <2>2, <2>5, KeepsJob DEF FnbInv, TypeOK
<1>2. ASSUME SyncSave(j) PROVE FnbInv'
  <2>1. g.table \in Table /\ g.status \in TableStatus
    BY <1>2, JobFields DEF AllHeld, TableHeld, SyncSave
  <2>2. /\ UNCHANGED <<orders, sales>> /\ SyncNext(j, g.table)
        /\ tables' \in [Table -> TableRow]
    BY <1>2, <2>1, TableTyped DEF SyncSave, FnbInv
  <2>3. PICK h \in JobRow : AllHeld(h) /\ job' = [job EXCEPT ![j] = h]
    BY <2>1, <2>2, SyncNextHeld
  <2> QED
    BY <2>2, <2>3, KeepsJob
<1> QED
  BY <1>1, <1>2 DEF SyncStep

LEMMA EndKeeps ==
  ASSUME FnbInv, NEW j \in Job, CloseNothing(j) \/ Abort(j)
  PROVE  FnbInv'
  BY TableKeeps DEF CloseNothing, Abort, FnbInv, TypeOK

----------------------------------------------------------------------------
(* The theorem *)

LEMMA InitInv == Init => FnbInv
<1> SUFFICES ASSUME Init PROVE FnbInv
  OBVIOUS
<1>1. NoOrderRow \in OrderRow /\ NoSaleRow \in SaleRow
  BY DEF NoOrderRow, OrderRow, OrderStatus, NoSaleRow, SaleRow
<1>2. TypeOK
  BY <1>1, IdleType DEF Init, TypeOK, TableRow, TableStatus
<1>3. LinkSound
  BY DEF Init, LinkSound, Known, NoOrderRow
<1>4. OneBill
  BY DEF Init, OneBill, Pending, NoSaleRow
<1>5. CompletedWasPaid
  BY DEF Init, CompletedWasPaid, NoOrderRow
<1>6. Held
  BY IdleHeld DEF Init, Held, AllHeld
<1> QED
  BY <1>2, <1>3, <1>4, <1>5, <1>6 DEF FnbInv

LEMMA RequestKeeps ==
  ASSUME FnbInv, NEW j \in Job, Request(j)
  PROVE  FnbInv'
<1>1. ASSUME NEW o \in Order, NEW t \in Table \cup {NoTable},
             NEW cart \in Carts, CreateOrder(j, o, t, cart)
      PROVE  FnbInv'
  BY <1>1, CreateOrderKeeps DEF Carts
<1>2. ASSUME NEW o \in Order, NEW status \in OrderStatus,
             StatusRead(j, o, status)
      PROVE  FnbInv'
  BY <1>2, StatusReadKeeps
<1>3. ASSUME NEW o \in Order, NEW t \in Table \cup {NoTable},
             NEW s \in Sale \cup {NoSale}, EditRead(j, o, t, s)
      PROVE  FnbInv'
  BY <1>3, EditReadKeeps
<1>4. ASSUME NEW o \in Order, NEW cart \in Carts, AddRead(j, o, cart)
      PROVE  FnbInv'
  BY <1>4, AddReadKeeps DEF Carts
<1>5. ASSUME NEW o \in Order \cup {NoOrder}, NEW t \in Table \cup {NoTable},
             NEW cart \in Carts, NEW s \in Sale \cup {NoSale},
             PayRead(j, o, t, cart, s)
      PROVE  FnbInv'
  BY <1>5, PayReadKeeps DEF Carts
<1>6. ASSUME NEW t \in Table, NEW status \in TableStatus,
             TableRead(j, t, status)
      PROVE  FnbInv'
  BY <1>6, TableReadsKeep
<1>7. ASSUME NEW t \in Table, RemoveRead(j, t) PROVE FnbInv'
  BY <1>7, TableReadsKeep
<1>8. ASSUME SyncRead(j) PROVE FnbInv'
  BY <1>8, SyncReadKeeps
<1>9. ASSUME NEW s \in Sale, VoidRead(j, s) PROVE FnbInv'
  BY <1>9, VoidReadKeeps
<1> QED
  BY <1>1, <1>2, <1>3, <1>4, <1>5, <1>6, <1>7, <1>8, <1>9 DEF Request

LEMMA StepKeeps ==
  ASSUME FnbInv, NEW j \in Job, Step(j)
  PROVE  FnbInv'
<1>1. ASSUME NEW s \in Sale, CreateSale(j, s) PROVE FnbInv'
  BY <1>1, CreateSaleKeeps
<1>2. ASSUME NEW s \in Sale, AddSale(j, s) PROVE FnbInv'
  BY <1>2, AddSaleKeeps
<1>3. ASSUME NEW s \in Sale, PayNew(j, s) PROVE FnbInv'
  BY <1>3, PayNewKeeps
<1>4. ASSUME NEW o \in Order, CloseRead(j, o) PROVE FnbInv'
  BY <1>4, CloseReadKeeps
<1>5. CASE CreateItems(j)
  BY <1>5, CreateItemsKeeps
<1>6. CASE CreateLink(j)
  BY <1>6, CreateLinkKeeps
<1>7. CASE CreateFails(j)
  BY <1>7, CreateFailsKeeps
<1>8. CASE CreateTable(j) \/ FreeTable(j) \/ CloseTable(j) \/ TableSave(j)
  BY <1>8, TableWritesKeep
<1>9. CASE StatusSave(j)
  BY <1>9, StatusSaveKeeps
<1>10. CASE EditSave(j)
  BY <1>10, EditSaveKeeps
<1>11. CASE AddLink(j)
  BY <1>11, AddLinkKeeps
<1>12. CASE AddBill(j)
  BY <1>12, AddBillKeeps
<1>13. CASE AddItems(j)
  BY <1>13, AddItemsKeeps
<1>14. CASE PayBill(j)
  BY <1>14, PayBillKeeps
<1>15. CASE CloseNothing(j)
  BY <1>15, EndKeeps
<1>16. CASE CloseOrder(j)
  BY <1>16, CloseOrderKeeps
<1>17. CASE SyncStep(j)
  BY <1>17, SyncStepKeeps
<1>18. CASE VoidSave(j)
  BY <1>18, VoidSaveKeeps
<1> QED
  BY <1>1, <1>2, <1>3, <1>4, <1>5, <1>6, <1>7, <1>8, <1>9, <1>10, <1>11,
     <1>12, <1>13, <1>14, <1>15, <1>16, <1>17, <1>18 DEF Step

LEMMA NextKeeps == FnbInv /\ [Next]_vars => FnbInv'
<1> SUFFICES ASSUME FnbInv, [Next]_vars PROVE FnbInv'
  OBVIOUS
<1>1. ASSUME NEW j \in Job, Request(j) PROVE FnbInv'
  BY <1>1, RequestKeeps
<1>2. ASSUME NEW j \in Job, Step(j) PROVE FnbInv'
  BY <1>2, StepKeeps
<1>3. ASSUME NEW j \in Job, Abort(j) PROVE FnbInv'
  BY <1>3, EndKeeps
<1>4. CASE UNCHANGED vars
  BY <1>4 DEF vars, FnbInv, TypeOK, LinkSound, OneBill, CompletedWasPaid,
     Held, RowHeld, SaleHeld, CloseHeld, TableHeld, Owns, Known, Pending,
     WasPaid, CheckedOut, Placed
<1> QED
  BY <1>1, <1>2, <1>3, <1>4 DEF Next

\* In every reachable state the rows are well typed, a link leads to a sale
\* that exists, an order has one open bill, and what handlers hold is sound,
\* whatever rows are saved as they were read and whatever edits ask for.
THEOREM FnbInvariance == Spec => []FnbInv
<1> QED
  BY InitInv, NextKeeps, PTL DEF Spec

\* In every reachable state a checkout has committed a sale for a completed
\* order, or one that names no order, in spite of the handlers that save
\* orders as they read them and of the edits.  It may be voided since.
THEOREM CompletedOrdersWerePaid == Spec => []CompletedWasPaid
<1>1. FnbInv => CompletedWasPaid
  BY DEF FnbInv
<1> QED
  BY <1>1, FnbInvariance, PTL

----------------------------------------------------------------------------
(* Bills count what they list *)

\* Handlers that have billed dishes they have not listed yet.
Owing(h) == h.pc \in {"newItems", "addLink", "addItems"}

\* The dishes that are billed and still to be listed, and by whom.
Owed(s) == {p \in Job \X Dish : /\ Owing(job[p[1]])
                                /\ job[p[1]].sale = s
                                /\ p[2] \in job[p[1]].cart}

\* An open bill counts what it lists and what will be listed.
Covered(s) ==
  /\ IsFiniteSet(Owed(s))
  /\ sales[s].status = "pending" =>
        sales[s].items + Cardinality(Owed(s)) <= sales[s].subtotal

ListedIsBilled == \A s \in Sale : Covered(s)

\* A sale's counts are numbers.
LEMMA SaleNumbers ==
  ASSUME TypeOK, NEW s \in Sale
  PROVE  sales[s].items \in Nat /\ sales[s].subtotal \in Nat
  BY DEF TypeOK, SaleRow

\* Less to be listed and no less billed keep a bill covered.
LEMMA FewerCovered ==
  ASSUME TypeOK, NEW s \in Sale, Covered(s), Owed(s)' \subseteq Owed(s),
         sales'[s].status = "pending" =>
            /\ sales[s].status = "pending"
            /\ sales'[s].items = sales[s].items
            /\ sales'[s].subtotal = sales[s].subtotal
  PROVE  Covered(s)'
<1>1. /\ IsFiniteSet(Owed(s)')
      /\ Cardinality(Owed(s)') <= Cardinality(Owed(s))
  BY FS_Subset DEF Covered
<1>2. Cardinality(Owed(s)') \in Nat /\ Cardinality(Owed(s)) \in Nat
  BY <1>1, FS_CardinalityType DEF Covered
<1>3. sales'[s].status = "pending" =>
         sales'[s].items + Cardinality(Owed(s)') <= sales'[s].subtotal
  BY <1>1, <1>2, SaleNumbers DEF Covered
<1> QED
  BY <1>1, <1>3 DEF Covered

\* What a handler owes to a sale is dropped, and nothing is added.
LEMMA OwedShrinks ==
  ASSUME NEW j \in Job, NEW s \in Sale,
         \A k \in Job \ {j} : job'[k] = job[k],
         Owing(job'[j]) /\ job'[j].sale = s =>
            /\ Owing(job[j]) /\ job[j].sale = s
            /\ job'[j].cart = job[j].cart
  PROVE  Owed(s)' \subseteq Owed(s)
<1> SUFFICES ASSUME NEW p \in Job \X Dish, Owing(job'[p[1]]),
                    job'[p[1]].sale = s, p[2] \in job'[p[1]].cart
             PROVE  Owing(job[p[1]]) /\ job[p[1]].sale = s
                      /\ p[2] \in job[p[1]].cart
  BY DEF Owed, Owing
<1>1. CASE p[1] = j
  BY <1>1
<1>2. CASE p[1] # j
  BY <1>2
<1> QED
  BY <1>1, <1>2

\* A step that leaves the sales alone and bills nothing.
LEMMA QuietCovered ==
  ASSUME TypeOK, ListedIsBilled, NEW j \in Job, sales' = sales,
         \A k \in Job \ {j} : job'[k] = job[k],
         Owing(job'[j]) => /\ Owing(job[j])
                           /\ job'[j].sale = job[j].sale
                           /\ job'[j].cart = job[j].cart
  PROVE  ListedIsBilled'
<1> SUFFICES ASSUME NEW s \in Sale PROVE Covered(s)'
  BY DEF ListedIsBilled
<1>1. Owed(s)' \subseteq Owed(s)
  BY OwedShrinks
<1> QED
  BY <1>1, FewerCovered DEF ListedIsBilled

\* The dishes of one handler's cart, as pairs.
LEMMA CartPairs ==
  ASSUME NEW j \in Job, NEW cart \in SUBSET Dish
  PROVE  /\ {j} \X cart \subseteq Job \X Dish
         /\ IsFiniteSet({j} \X cart)
         /\ Cardinality({j} \X cart) = Cardinality(cart)
         /\ Cardinality(cart) \in Nat
<1>1. IsFiniteSet(cart)
  BY FnbAssumption, FS_Subset
<1>2. IsFiniteSet({j}) /\ Cardinality({j}) = 1
  BY FS_Singleton
<1>3. /\ IsFiniteSet({j} \X cart)
      /\ Cardinality({j} \X cart) = 1 * Cardinality(cart)
  BY <1>1, <1>2, FS_Product
<1> QED
  BY <1>1, <1>3, FS_CardinalityType

\* A bill that does not exist is owed nothing.
LEMMA FreeSaleOwed ==
  ASSUME FnbInv, NEW s \in Sale, FreeSale(s)
  PROVE  Owed(s) = {}
<1> SUFFICES ASSUME NEW p \in Job \X Dish, Owing(job[p[1]]),
                    job[p[1]].sale = s
             PROVE  FALSE
  BY DEF Owed
<1>1. SaleHeld(job[p[1]])
  BY DEF FnbInv, Held
<1>2. sales[s].status # "none"
  BY <1>1, Zero DEF SaleHeld, Owing, Owns
<1> QED
  BY <1>2 DEF FreeSale

\* A handler adds no more than its own cart to what is owed.
LEMMA OwedGrows ==
  ASSUME NEW j \in Job, NEW s \in Sale,
         \A k \in Job \ {j} : job'[k] = job[k],
         NEW cart, job'[j].cart = cart
  PROVE  Owed(s)' \subseteq Owed(s) \cup ({j} \X cart)
<1> SUFFICES ASSUME NEW p \in Job \X Dish, Owing(job'[p[1]]),
                    job'[p[1]].sale = s, p[2] \in job'[p[1]].cart
             PROVE  p \in Owed(s) \cup ({j} \X cart)
  BY DEF Owed, Owing
<1>1. CASE p[1] = j
  BY <1>1
<1>2. CASE p[1] # j
  BY <1>2 DEF Owed
<1> QED
  BY <1>1, <1>2

\* A new bill counts the cart it was made for.
LEMMA NewBillCovered ==
  ASSUME FnbInv, NEW j \in Job, NEW s \in Sale, FreeSale(s),
         \A k \in Job \ {j} : job'[k] = job[k],
         NEW cart \in SUBSET Dish, job'[j].cart = cart,
         sales'[s].items = 0, sales'[s].subtotal = Cardinality(cart)
  PROVE  Covered(s)'
<1> PICK pairs : pairs = {j} \X cart
  OBVIOUS
<1>0. /\ IsFiniteSet(pairs) /\ Cardinality(pairs) = Cardinality(cart)
      /\ Cardinality(cart) \in Nat
  BY CartPairs
<1>1. Owed(s)' \subseteq pairs
  BY OwedGrows, FreeSaleOwed
<1>2. /\ IsFiniteSet(Owed(s)')
      /\ Cardinality(Owed(s)') <= Cardinality(cart)
  BY <1>0, <1>1, FS_Subset
<1>3. Cardinality(Owed(s)') \in Nat /\ Cardinality(cart) \in Nat
  BY <1>0, <1>2, FS_CardinalityType
<1>4. sales'[s].items + Cardinality(Owed(s)') <= sales'[s].subtotal
  BY <1>2, <1>3
<1> QED
  BY <1>2, <1>4 DEF Covered

\* A cart that is billed may be owed.
LEMMA MoreBilledCovered ==
  ASSUME TypeOK, NEW j \in Job, NEW s \in Sale, Covered(s),
         \A k \in Job \ {j} : job'[k] = job[k],
         NEW cart \in SUBSET Dish, job'[j].cart = cart,
         sales'[s].status = sales[s].status,
         sales'[s].items = sales[s].items,
         sales'[s].subtotal = sales[s].subtotal + Cardinality(cart)
  PROVE  Covered(s)'
<1> PICK pairs : pairs = {j} \X cart
  OBVIOUS
<1>0. /\ IsFiniteSet(pairs) /\ Cardinality(pairs) = Cardinality(cart)
      /\ Cardinality(cart) \in Nat
  BY CartPairs
<1> DEFINE both == Owed(s) \cup pairs
<1>1. IsFiniteSet(Owed(s)) /\ IsFiniteSet(pairs)
  BY <1>0 DEF Covered
<1>2. Owed(s)' \subseteq both
  BY OwedGrows
<1>3. /\ IsFiniteSet(both)
      /\ Cardinality(both) = Cardinality(Owed(s)) + Cardinality(cart)
                             - Cardinality(Owed(s) \cap pairs)
  BY ONLY <1>0, <1>1, FS_Union DEF both
<1>4. Cardinality(Owed(s) \cap pairs) \in Nat
  <2>1. IsFiniteSet(Owed(s) \cap pairs)
    BY <1>1, FS_Intersection
  <2> QED
    BY <2>1, FS_CardinalityType
<1>5. /\ IsFiniteSet(Owed(s)')
      /\ Cardinality(Owed(s)') <= Cardinality(both)
  BY <1>2, <1>3, FS_Subset
<1>6. /\ Cardinality(Owed(s)') \in Nat /\ Cardinality(Owed(s)) \in Nat
      /\ Cardinality(cart) \in Nat
  BY <1>0, <1>1, <1>5, FS_CardinalityType
<1> HIDE DEF both
<1>7. sales'[s].status = "pending" =>
         sales'[s].items + Cardinality(Owed(s)') <= sales'[s].subtotal
  BY <1>3, <1>4, <1>5, <1>6, SaleNumbers DEF Covered
<1> QED
  BY <1>5, <1>7 DEF Covered

\* A cart that is listed was owed, and no longer is.
LEMMA ListedCovered ==
  ASSUME TypeOK, NEW j \in Job, NEW s \in Sale, Covered(s),
         \A k \in Job \ {j} : job'[k] = job[k],
         Owing(job[j]), job[j].sale = s, ~ Owing(job'[j]),
         NEW cart \in SUBSET Dish, job[j].cart = cart,
         sales'[s].status = sales[s].status,
         sales'[s].items = sales[s].items + Cardinality(cart),
         sales'[s].subtotal = sales[s].subtotal
  PROVE  Covered(s)'
<1> PICK pairs : pairs = {j} \X cart
  OBVIOUS
<1>0. /\ IsFiniteSet(pairs) /\ Cardinality(pairs) = Cardinality(cart)
      /\ Cardinality(cart) \in Nat
  BY CartPairs
<1> DEFINE rest == Owed(s) \ pairs
<1>1. pairs \subseteq Owed(s)
  <2> SUFFICES ASSUME NEW p \in pairs PROVE p \in Owed(s)
    OBVIOUS
  <2>1. p \in Job \X Dish
    BY CartPairs
  <2> QED
    BY <2>1 DEF Owed
<1>2. Owed(s)' \subseteq rest
  <2> SUFFICES ASSUME NEW p \in Job \X Dish, Owing(job'[p[1]]),
                      job'[p[1]].sale = s, p[2] \in job'[p[1]].cart
               PROVE  p \in rest
    BY DEF Owed, Owing
  <2>1. p[1] # j
    OBVIOUS
  <2> QED
    BY <2>1 DEF Owed
<1>3. IsFiniteSet(Owed(s)) /\ Owed(s) \cap pairs = pairs
  BY <1>1 DEF Covered
<1>4. /\ IsFiniteSet(rest)
      /\ Cardinality(rest) = Cardinality(Owed(s)) - Cardinality(cart)
  <2>1. /\ IsFiniteSet(rest)
        /\ Cardinality(rest) = Cardinality(Owed(s))
                               - Cardinality(Owed(s) \cap pairs)
    BY ONLY <1>3, FS_Difference DEF rest
  <2>2. Cardinality(Owed(s) \cap pairs) = Cardinality(pairs)
    BY <1>3, Zenon
  <2> QED
    BY <1>0, <2>1, <2>2
<1>5. /\ IsFiniteSet(Owed(s)')
      /\ Cardinality(Owed(s)') <= Cardinality(rest)
  BY <1>2, <1>4, FS_Subset
<1>6. /\ Cardinality(Owed(s)') \in Nat /\ Cardinality(Owed(s)) \in Nat
      /\ Cardinality(cart) \in Nat
  BY <1>0, <1>3, <1>5, FS_CardinalityType
<1> HIDE DEF rest
<1>7. sales'[s].status = "pending" =>
         sales'[s].items + Cardinality(Owed(s)') <= sales'[s].subtotal
  BY <1>4, <1>5, <1>6, SaleNumbers DEF Covered
<1> QED
  BY <1>5, <1>7 DEF Covered

\* A step that writes one sale leaves the others covered.
LEMMA OneSaleCovered ==
  ASSUME TypeOK, ListedIsBilled, NEW j \in Job, NEW s \in Sale, Covered(s)',
         \A k \in Job \ {j} : job'[k] = job[k],
         Owing(job'[j]) => job'[j].sale = s,
         \A u \in Sale \ {s} : sales'[u] = sales[u]
  PROVE  ListedIsBilled'
<1> SUFFICES ASSUME NEW u \in Sale, u # s PROVE Covered(u)'
  BY DEF ListedIsBilled
<1>1. Owed(u)' \subseteq Owed(u)
  BY OwedShrinks
<1> QED
  BY <1>1, FewerCovered DEF ListedIsBilled

LEMMA BillWrittenListed ==
  ASSUME FnbInv, ListedIsBilled, NEW j \in Job, NEW s \in Sale,
         CreateSale(j, s) \/ AddSale(j, s)
  PROVE  ListedIsBilled'
<1> PICK g \in JobRow : g = job[j]
  BY Handler
<1>1. /\ FreeSale(s)
      /\ \A k \in Job \ {j} : job'[k] = job[k]
      /\ job'[j].sale = s /\ job'[j].cart = g.cart
  BY DEF CreateSale, AddSale, FnbInv, TypeOK, JobRow
<1>2. /\ sales'[s].items = 0 /\ sales'[s].subtotal = Cardinality(g.cart)
      /\ \A u \in Sale \ {s} : sales'[u] = sales[u]
  <2>1. CASE CreateSale(j, s)
    BY <2>1 DEF CreateSale, FnbInv, TypeOK
  <2>2. CASE AddSale(j, s)
    BY <2>2 DEF AddSale, FnbInv, TypeOK, NoSaleRow
  <2> QED
    BY <2>1, <2>2
<1>3. Covered(s)'
  BY <1>1, <1>2, NewBillCovered, JobFields
<1> QED
  BY <1>1, <1>2, <1>3, OneSaleCovered DEF FnbInv

LEMMA AddBillListed ==
  ASSUME FnbInv, ListedIsBilled, NEW j \in Job, AddBill(j)
  PROVE  ListedIsBilled'
<1> PICK g \in JobRow : g = job[j] /\ AllHeld(g)
  BY Handler
<1>1. /\ g.pc = "addBill"
      /\ sales' = [sales EXCEPT
                      ![g.sale].subtotal = @ + Cardinality(g.cart)]
      /\ \A k \in Job \ {j} : job'[k] = job[k]
      /\ job'[j].sale = g.sale /\ job'[j].cart = g.cart
  BY DEF AddBill, Goto, FnbInv, TypeOK, JobRow
<1>2. g.sale \in Sale
  BY <1>1, JobFields DEF AllHeld, SaleHeld
<1>3. /\ sales'[g.sale].status = sales[g.sale].status
      /\ sales'[g.sale].items = sales[g.sale].items
      /\ sales'[g.sale].subtotal
            = sales[g.sale].subtotal + Cardinality(g.cart)
      /\ \A u \in Sale \ {g.sale} : sales'[u] = sales[u]
  BY <1>1, <1>2 DEF FnbInv, TypeOK, SaleRow
<1>4. Covered(g.sale)'
  BY <1>1, <1>2, <1>3, MoreBilledCovered, JobFields
     DEF ListedIsBilled, FnbInv
<1> QED
  BY <1>1, <1>2, <1>3, <1>4, OneSaleCovered DEF FnbInv

LEMMA ItemsListed ==
  ASSUME FnbInv, ListedIsBilled, NEW j \in Job,
         CreateItems(j) \/ AddItems(j)
  PROVE  ListedIsBilled'
<1> PICK g \in JobRow : g = job[j] /\ AllHeld(g)
  BY Handler
<1>1. /\ g.pc \in {"newItems", "addItems"}
      /\ sales' = [sales EXCEPT ![g.sale].items = @ + Cardinality(g.cart)]
      /\ \A k \in Job \ {j} : job'[k] = job[k]
  BY DEF CreateItems, AddItems, Done, FnbInv, TypeOK
<1>2. job'[j].pc \in {"newLink", "idle"}
  BY DEF CreateItems, AddItems, Done, IdleJob, FnbInv, TypeOK, JobRow
<1>3. g.sale \in Sale
  BY <1>1, JobFields DEF AllHeld, SaleHeld
<1>4. /\ sales'[g.sale].status = sales[g.sale].status
      /\ sales'[g.sale].items = sales[g.sale].items + Cardinality(g.cart)
      /\ sales'[g.sale].subtotal = sales[g.sale].subtotal
      /\ \A u \in Sale \ {g.sale} : sales'[u] = sales[u]
  BY <1>1, <1>3 DEF FnbInv, TypeOK, SaleRow
<1>5. Owing(job[j]) /\ ~ Owing(job'[j])
  BY <1>1, <1>2 DEF Owing
<1>6. Covered(g.sale)'
  BY <1>1, <1>3, <1>4, <1>5, ListedCovered, JobFields
     DEF ListedIsBilled, FnbInv
<1> QED
  BY <1>1, <1>3, <1>4, <1>5, <1>6, OneSaleCovered DEF FnbInv

LEMMA PaymentListed ==
  ASSUME FnbInv, ListedIsBilled, NEW j \in Job,
         PayBill(j) \/ \E s \in Sale : PayNew(j, s)
  PROVE  ListedIsBilled'
<1> PICK g \in JobRow : g = job[j] /\ AllHeld(g)
  BY Handler
<1>1. PayDone(j) /\ g.pc = "payCommit"
  BY DEF PayBill, PayNew
<1>2. job'[j].pc \in {"idle", "closeRead"}
  <2> DEFINE f == [IdleJob EXCEPT !.pc = "closeRead", !.order = g.order,
                                  !.table = g.table]
  <2>1. f.pc = "closeRead" /\ IdleJob.pc = "idle"
    BY DEF IdleJob
  <2>2. job'[j] = IdleJob \/ job'[j] = f
    BY <1>1 DEF PayDone, Done, FnbInv, TypeOK
  <2> HIDE DEF f
  <2> QED
    BY <2>1, <2>2
<1>3. \A k \in Job \ {j} : job'[k] = job[k]
  BY <1>1 DEF PayDone, Done, FnbInv, TypeOK
<1>4. PICK s \in Sale : /\ sales'[s].status = "completed"
                        /\ \A u \in Sale \ {s} : sales'[u] = sales[u]
  <2>1. CASE PayBill(j)
    <3>1. g.sale \in Sale
      BY <2>1, JobFields DEF PayBill
    <3>2. /\ sales'[g.sale].status = "completed"
          /\ \A u \in Sale \ {g.sale} : sales'[u] = sales[u]
      BY <2>1, <3>1 DEF PayBill, FnbInv, TypeOK, SaleRow
    <3> QED
      BY <3>1, <3>2
  <2>2. CASE \E s \in Sale : PayNew(j, s)
    BY <2>2 DEF PayNew, FnbInv, TypeOK
  <2> QED
    BY <2>1, <2>2
<1>5. ~ Owing(job'[j])
  BY <1>2 DEF Owing
<1>6. Covered(s)'
  <2>1. Owed(s)' \subseteq Owed(s)
    BY <1>3, <1>5, OwedShrinks
  <2> QED
    BY <1>4, <2>1, FewerCovered DEF ListedIsBilled, FnbInv
<1> QED
  BY <1>3, <1>4, <1>5, <1>6, OneSaleCovered DEF FnbInv

\* After most steps that leave the sales alone the handler owes no dishes to
\* a bill and is not in the middle of a checkout.
Quiet == PC \ {"newItems", "addLink", "addItems",
               "payCommit", "closeRead", "closeOrder"}

GoesOn(j) ==
  /\ sales' = sales
  /\ \E h : h.pc \in Quiet /\ job' = [job EXCEPT ![j] = h]

LEMMA GoesOnListed ==
  ASSUME FnbInv, ListedIsBilled, NEW j \in Job, GoesOn(j)
  PROVE  ListedIsBilled'
<1> PICK h : h.pc \in Quiet /\ job' = [job EXCEPT ![j] = h]
  BY DEF GoesOn
<1>1. job'[j] = h /\ \A k \in Job \ {j} : job'[k] = job[k]
  BY DEF FnbInv, TypeOK
<1>2. ~ Owing(h) /\ sales' = sales
  BY DEF Owing, Quiet, GoesOn
<1> QED
  BY <1>1, <1>2, QuietCovered DEF FnbInv

\* A handler that ends, or goes on to a table.
LEMMA EndGoesOn ==
  ASSUME NEW j \in Job, sales' = sales,
         \/ Done(j)
         \/ \E pc \in {"newTable", "freeTable", "closeTable"},
               t \in Table \cup {NoTable} : GotoTable(j, pc, t)
  PROVE  GoesOn(j)
<1>1. CASE Done(j)
  <2>1. IdleJob.pc \in Quiet
    BY DEF Quiet, PC, IdleJob
  <2> QED
    BY <1>1, <2>1 DEF Done, GoesOn
<1>2. ASSUME NEW pc \in {"newTable", "freeTable", "closeTable"},
             NEW t \in Table \cup {NoTable}, GotoTable(j, pc, t)
      PROVE  GoesOn(j)
  <2> DEFINE h == [IdleJob EXCEPT !.pc = pc, !.table = t]
  <2>1. job' = [job EXCEPT ![j] = h] /\ h.pc = pc
    BY <1>2 DEF GotoTable, IdleJob
  <2> HIDE DEF h
  <2> QED
    BY <2>1 DEF GoesOn, Quiet, PC
<1> QED
  BY <1>1, <1>2

\* Requests read; create also places its order, and may be done with it.
Reads(j) ==
  \/ GoesOn(j)
  \/ sales' = sales /\ job' = job
  \/ \E o \in Order \cup {NoOrder}, t \in Table \cup {NoTable},
        cart \in Carts, s \in Sale \cup {NoSale} : PayRead(j, o, t, cart, s)

LEMMA RequestReads ==
  ASSUME FnbInv, NEW j \in Job, Request(j)
  PROVE  Reads(j)
<1>1. ASSUME NEW o \in Order, NEW t \in Table \cup {NoTable},
             NEW cart \in Carts, CreateOrder(j, o, t, cart)
      PROVE  Reads(j)
  <2>1. CASE job' = job
    BY <1>1, <2>1 DEF CreateOrder, Reads
  <2>2. CASE GotoTable(j, "newTable", t)
    BY <1>1, <2>2, EndGoesOn DEF CreateOrder, Reads
  <2>3. CASE cart # {}
    <3> DEFINE h == [IdleJob EXCEPT
                   !.pc = "newSale", !.order = o, !.table = t,
                   !.row = [status |-> "active", table |-> t,
                            sale |-> NoSale],
                   !.cart = cart]
    <3>1. job' = [job EXCEPT ![j] = h] /\ sales' = sales
      BY <1>1, <2>3 DEF CreateOrder
    <3>2. h.pc = "newSale"
      BY DEF IdleJob
    <3> HIDE DEF h
    <3> QED
      BY <3>1, <3>2, Zenon DEF Reads, GoesOn, Quiet, PC
  <2> QED
    BY <1>1, <2>1, <2>2, <2>3 DEF CreateOrder
<1>2. ASSUME NEW o \in Order, NEW status \in OrderStatus,
             StatusRead(j, o, status)
      PROVE  Reads(j)
  <2> DEFINE h == [IdleJob EXCEPT !.pc = "statusSave", !.order = o,
                                  !.row = orders[o], !.status = status]
  <2>1. job' = [job EXCEPT ![j] = h] /\ sales' = sales
    BY <1>2 DEF StatusRead
  <2>2. h.pc = "statusSave"
    BY DEF IdleJob
  <2> HIDE DEF h
  <2> QED
    BY <2>1, <2>2, Zenon DEF Reads, GoesOn, Quiet, PC
<1>3. ASSUME NEW o \in Order, NEW t \in Table \cup {NoTable},
             NEW s \in Sale \cup {NoSale}, EditRead(j, o, t, s)
      PROVE  Reads(j)
  <2> DEFINE h == [IdleJob EXCEPT
                     !.pc = "editSave", !.order = o,
                     !.row = [orders[o] EXCEPT !.table = t, !.sale = s]]
  <2>1. job' = [job EXCEPT ![j] = h] /\ sales' = sales
    BY <1>3 DEF EditRead
  <2>2. h.pc = "editSave"
    BY DEF IdleJob
  <2> HIDE DEF h
  <2> QED
    BY <2>1, <2>2, Zenon DEF Reads, GoesOn, Quiet, PC
<1>4. ASSUME NEW o \in Order, NEW cart \in Carts, AddRead(j, o, cart)
      PROVE  Reads(j)
  <2> DEFINE f == [IdleJob EXCEPT !.pc = "addSale", !.order = o,
                                  !.row = orders[o], !.cart = cart]
             g == [IdleJob EXCEPT !.pc = "addBill", !.sale = orders[o].sale,
                                  !.cart = cart]
  <2>1. /\ \/ job' = [job EXCEPT ![j] = f]
           \/ job' = [job EXCEPT ![j] = g]
        /\ sales' = sales
    BY <1>4 DEF AddRead
  <2>2. f.pc = "addSale" /\ g.pc = "addBill"
    BY DEF IdleJob
  <2> HIDE DEF f, g
  <2> QED
    BY <2>1, <2>2, Zenon DEF Reads, GoesOn, Quiet, PC
<1>5. ASSUME NEW s \in Sale, VoidRead(j, s) PROVE Reads(j)
  <2> DEFINE h == [IdleJob EXCEPT !.pc = "voidSave", !.sale = s]
  <2>1. job' = [job EXCEPT ![j] = h] /\ sales' = sales
    BY <1>5 DEF VoidRead
  <2>2. h.pc = "voidSave"
    BY DEF IdleJob
  <2> HIDE DEF h
  <2> QED
    BY <2>1, <2>2, Zenon DEF Reads, GoesOn, Quiet, PC
<1>6. ASSUME NEW t \in Table, RemoveRead(j, t) PROVE Reads(j)
  <2> DEFINE h == [IdleJob EXCEPT !.pc = "tableSave", !.table = t,
                                  !.status = tables[t].status,
                                  !.active = FALSE]
  <2>1. job' = [job EXCEPT ![j] = h] /\ sales' = sales
    BY <1>6 DEF RemoveRead
  <2>2. h.pc = "tableSave"
    BY DEF IdleJob
  <2> HIDE DEF h
  <2> QED
    BY <2>1, <2>2, Zenon DEF Reads, GoesOn, Quiet, PC
<1>7. ASSUME NEW t \in Table, NEW status \in TableStatus,
             TableRead(j, t, status)
      PROVE  Reads(j)
  <2> DEFINE h == [IdleJob EXCEPT !.pc = "tableSave", !.table = t,
                                  !.status = status]
  <2>1. job' = [job EXCEPT ![j] = h] /\ sales' = sales
    BY <1>7 DEF TableRead
  <2>2. h.pc = "tableSave"
    BY DEF IdleJob
  <2> HIDE DEF h
  <2> QED
    BY <2>1, <2>2, Zenon DEF Reads, GoesOn, Quiet, PC
<1>8. ASSUME SyncRead(j) PROVE Reads(j)
  <2> DEFINE h == [IdleJob EXCEPT
                   !.pc = "syncCheck", !.todo = {t \in Table : Shown(t)},
                   !.shot = [t \in Table |-> tables[t].status]]
  <2>1. job' = [job EXCEPT ![j] = h] /\ sales' = sales
    BY <1>8 DEF SyncRead
  <2>2. h.pc = "syncCheck"
    BY DEF IdleJob
  <2> HIDE DEF h
  <2> QED
    BY <2>1, <2>2, Zenon DEF Reads, GoesOn, Quiet, PC
<1> QED
  BY <1>1, <1>2, <1>3, <1>4, <1>5, <1>6, <1>7, <1>8 DEF Request, Reads

LEMMA RequestListed ==
  ASSUME FnbInv, ListedIsBilled, NEW j \in Job, Request(j)
  PROVE  ListedIsBilled'
<1>1. CASE sales' = sales /\ job' = job
  BY <1>1, QuietCovered DEF FnbInv
<1>2. ASSUME NEW o \in Order \cup {NoOrder}, NEW t \in Table \cup {NoTable},
             NEW cart \in Carts, NEW s \in Sale \cup {NoSale},
             PayRead(j, o, t, cart, s)
      PROVE  ListedIsBilled'
  <2>1. job'[j].pc = "payCommit" /\ \A k \in Job \ {j} : job'[k] = job[k]
    BY <1>2 DEF PayRead, IdleJob, FnbInv, TypeOK
  <2> QED
    BY <1>2, <2>1, QuietCovered DEF PayRead, FnbInv, Owing
<1> QED
  BY <1>1, <1>2, RequestReads, GoesOnListed DEF Reads

LEMMA SyncGoesOn ==
  ASSUME FnbInv, NEW j \in Job, SyncStep(j)
  PROVE  GoesOn(j)
<1> PICK g \in JobRow : g = job[j]
  BY Handler
<1>1. ASSUME NEW t \in Table, SyncNext(j, t), sales' = sales
      PROVE  GoesOn(j)
  <2> DEFINE h == [IdleJob EXCEPT
                     !.pc = "syncCheck", !.todo = job[j].todo \ {t},
                     !.shot = [job[j].shot EXCEPT ![t] = "available"]]
  <2>1. Done(j) \/ job' = [job EXCEPT ![j] = h]
    BY <1>1 DEF SyncNext, Done
  <2>2. h.pc = "syncCheck"
    BY DEF IdleJob
  <2> HIDE DEF h
  <2> QED
    BY <1>1, <2>1, <2>2, EndGoesOn DEF GoesOn, Quiet, PC
<1>2. ASSUME NEW t \in Table, SyncCheck(j, t), ~ SyncNext(j, t)
      PROVE  GoesOn(j)
  <2> PICK new : new = SyncStatus(t, g.shot[t])
    OBVIOUS
  <2> DEFINE h == [g EXCEPT !.pc = "syncSave", !.table = t, !.status = new]
  <2>0. h.pc = "syncSave"
    BY DEF JobRow
  <2>1. job' = [job EXCEPT ![j] = h] /\ sales' = sales
    BY <1>2 DEF SyncCheck, FnbInv, TypeOK
  <2> HIDE DEF h
  <2> QED
    BY <2>0, <2>1 DEF GoesOn, Quiet, PC
<1>3. ASSUME SyncSave(j) PROVE GoesOn(j)
  <2>1. g.table \in Table
    <3>1. AllHeld(g)
      BY Handler
    <3> QED
      BY <1>3, <3>1, JobFields DEF AllHeld, TableHeld, SyncSave
  <2> QED
    BY <1>1, <1>3, <2>1 DEF SyncSave
<1> QED
  BY <1>1, <1>2, <1>3 DEF SyncStep, SyncCheck

LEMMA CloseReadListed ==
  ASSUME FnbInv, ListedIsBilled, NEW j \in Job, NEW o \in Order,
         CloseRead(j, o)
  PROVE  ListedIsBilled'
<1>1. /\ job'[j].pc = "closeOrder" /\ sales' = sales
      /\ \A k \in Job \ {j} : job'[k] = job[k]
  BY DEF CloseRead, FnbInv, TypeOK, JobRow
<1> QED
  BY <1>1, QuietCovered DEF FnbInv, Owing

\* A sale that is voided is not open.
LEMMA VoidListed ==
  ASSUME FnbInv, ListedIsBilled, NEW j \in Job, VoidSave(j)
  PROVE  ListedIsBilled'
<1>1. PICK s \in Sale : s = job[j].sale
  BY Handler, JobFields DEF VoidSave, AllHeld, SaleHeld
<1>2. /\ sales'[s].status = "voided"
      /\ \A u \in Sale \ {s} : sales'[u] = sales[u]
      /\ \A k \in Job \ {j} : job'[k] = job[k]
      /\ job'[j].pc = "idle"
  BY <1>1 DEF VoidSave, Done, IdleJob, FnbInv, TypeOK, SaleRow
<1>3. Owed(s)' \subseteq Owed(s)
  BY <1>2, OwedShrinks DEF Owing
<1>4. Covered(s)'
  BY <1>2, <1>3, FewerCovered DEF ListedIsBilled, FnbInv
<1> QED
  BY <1>2, <1>4, OneSaleCovered DEF FnbInv, Owing

\* A last statement, or the one before the table's.
EndStep(j) ==
  \/ CreateLink(j) \/ CreateFails(j) \/ CreateTable(j) \/ StatusSave(j)
  \/ FreeTable(j) \/ EditSave(j) \/ CloseNothing(j) \/ CloseOrder(j)
  \/ CloseTable(j) \/ TableSave(j) \/ Abort(j)

LEMMA EndStepGoesOn ==
  ASSUME FnbInv, NEW j \in Job, EndStep(j)
  PROVE  GoesOn(j)
<1>1. sales' = sales
  BY DEF EndStep, CreateLink, CreateFails, CreateTable, StatusSave,
         FreeTable, EditSave, CloseNothing, CloseOrder, CloseTable,
         TableSave, Abort
<1>2. \/ Done(j)
      \/ \E pc \in {"newTable", "freeTable", "closeTable"},
            t \in Table \cup {NoTable} : GotoTable(j, pc, t)
  <2>1. /\ job[j].table \in Table \cup {NoTable}
        /\ job[j].row.table \in Table \cup {NoTable}
    BY Handler, JobFields DEF OrderRow
  <2> QED
    BY <2>1 DEF EndStep, CreateLink, CreateFails, CreateTable, StatusSave,
       FreeTable, EditSave, CloseNothing, CloseOrder, CloseTable,
       TableSave, Abort
<1> QED
  BY <1>1, <1>2, EndGoesOn

LEMMA AddLinkListed ==
  ASSUME FnbInv, ListedIsBilled, NEW j \in Job, AddLink(j)
  PROVE  ListedIsBilled'
<1>1. sales' = sales /\ \A k \in Job \ {j} : job'[k] = job[k]
  BY DEF AddLink, FnbInv, TypeOK
<1>2. /\ job[j].pc = "addLink"
      /\ job'[j].sale = job[j].sale /\ job'[j].cart = job[j].cart
  BY DEF AddLink, IdleJob, FnbInv, TypeOK
<1> QED
  BY <1>1, <1>2, QuietCovered DEF FnbInv, Owing

LEMMA InitListed == Init => ListedIsBilled
<1> SUFFICES ASSUME Init, NEW s \in Sale PROVE Covered(s)
  BY DEF ListedIsBilled
<1>1. Owed(s) = {}
  BY DEF Init, Owed, Owing, IdleJob
<1> QED
  BY <1>1, FS_EmptySet DEF Init, Covered, NoSaleRow

LEMMA NextListed == FnbInv /\ ListedIsBilled /\ [Next]_vars => ListedIsBilled'
<1> SUFFICES ASSUME FnbInv, ListedIsBilled, [Next]_vars
             PROVE  ListedIsBilled'
  OBVIOUS
<1>1. ASSUME NEW j \in Job, Request(j) PROVE ListedIsBilled'
  BY <1>1, RequestListed
<1>2. ASSUME NEW j \in Job, Step(j) \/ Abort(j) PROVE ListedIsBilled'
  <2>1. CASE EndStep(j)
    BY <2>1, EndStepGoesOn, GoesOnListed
  <2>2. CASE \E s \in Sale : CreateSale(j, s) \/ AddSale(j, s)
    BY <2>2, BillWrittenListed
  <2>3. CASE AddBill(j)
    BY <2>3, AddBillListed
  <2>4. CASE CreateItems(j) \/ AddItems(j)
    BY <2>4, ItemsListed
  <2>5. CASE PayBill(j) \/ \E s \in Sale : PayNew(j, s)
    BY <2>5, PaymentListed
  <2>6. CASE AddLink(j)
    BY <2>6, AddLinkListed
  <2>7. CASE SyncStep(j)
    BY <2>7, SyncGoesOn, GoesOnListed
  <2>8. CASE \E o \in Order : CloseRead(j, o)
    BY <2>8, CloseReadListed
  <2>9. CASE VoidSave(j)
    BY <2>9, VoidListed
  <2> QED
    BY <1>2, <2>1, <2>2, <2>3, <2>4, <2>5, <2>6, <2>7, <2>8, <2>9
       DEF Step, EndStep
<1>3. CASE UNCHANGED vars
  BY <1>3 DEF vars, ListedIsBilled, Covered, Owed, Owing
<1> QED
  BY <1>1, <1>2, <1>3 DEF Next

\* In every reachable state the items of an open bill add up to no more than
\* its total, however many handlers bill and list dishes at once: addItems
\* raises the total before it lists, and what is not listed yet is owed.
THEOREM BillsCountWhatTheyList == Spec => []BilledBeforeListed
<1>1. FnbInv /\ ListedIsBilled => BilledBeforeListed
  <2> SUFFICES ASSUME FnbInv, NEW s \in Sale, Covered(s),
                      sales[s].status = "pending"
               PROVE  sales[s].items <= sales[s].subtotal
    BY DEF BilledBeforeListed, ListedIsBilled
  <2>1. Cardinality(Owed(s)) \in Nat
    BY FS_CardinalityType DEF Covered
  <2> QED
    BY <2>1, SaleNumbers DEF Covered, FnbInv
<1> QED
  BY <1>1, InitListed, NextListed, FnbInvariance, PTL DEF Spec

----------------------------------------------------------------------------
(* FnbOrders implements Tabs.  Most steps leave tabs and slips alone; the  *)
(* others write one order, or one sale, and FnbInv says what the handler   *)
(* that writes it holds.                                                   *)

\* What Tabs sees of orders, of sales and of the handlers.
TabsNow == [o \in Order |-> TabOf(o)]
SlipsNow == [s \in Sale |-> SlipOf(s)]
DeskNow == [j \in Job |-> DeskOf(job[j])]

LEMMA Seen ==
  /\ \A o \in Order : Tabs!Blank(TabOf(o)) <=> ~ Placed(o)
  /\ \A s \in Sale : Tabs!Blank(SlipOf(s)) <=> FreeSale(s)
  /\ \A o \in Order, s \in Sale : s \in Tabs!Open(o) <=> Pending(s, o)
BY DEF Tabs!Blank, Tabs!Open, TabOf, SlipOf, Placed, FreeSale, Pending

LEMMA TabsStay == UNCHANGED orders => UNCHANGED TabsNow
BY DEF TabsNow, TabOf

LEMMA SlipsStay == UNCHANGED sales => UNCHANGED SlipsNow
BY DEF SlipsNow, SlipOf

\* One handler moves.
LEMMA DeskMoves ==
  ASSUME FnbInv, NEW j \in Job, NEW h, job' = [job EXCEPT ![j] = h]
  PROVE  DeskNow' = [DeskNow EXCEPT ![j] = DeskOf(h)]
BY DEF DeskNow, DeskOf, FnbInv, TypeOK

\* Who is not in the middle of a checkout is not at the desk.
LEMMA NotAtDesk ==
  ASSUME NEW h, h.pc \notin {"payCommit", "closeRead", "closeOrder"}
  PROVE  DeskOf(h) = Tabs!Away
BY DEF DeskOf, Tabs!Away

LEMMA DeskStays ==
  ASSUME FnbInv, NEW j \in Job,
         job[j].pc \notin {"payCommit", "closeRead", "closeOrder"}, NEW h,
         h.pc \notin {"payCommit", "closeRead", "closeOrder"},
         job' = [job EXCEPT ![j] = h]
  PROVE  UNCHANGED DeskNow
<1>1. DeskOf(job[j]) = Tabs!Away /\ DeskOf(h) = Tabs!Away
  BY NotAtDesk
<1>2. DeskNow' = [DeskNow EXCEPT ![j] = DeskOf(h)]
  BY DeskMoves
<1> QED
  BY <1>1, <1>2 DEF DeskNow

\* A step that writes neither orders nor sales, and not of a checkout.
LEMMA LeaveMaps ==
  ASSUME FnbInv, NEW j \in Job, GoesOn(j), UNCHANGED orders
  PROVE  Tabs!Next
<1> PICK h : h.pc \in Quiet /\ job' = [job EXCEPT ![j] = h]
  BY DEF GoesOn
<1>1. DeskOf(h) = Tabs!Away
  BY NotAtDesk DEF Quiet
<1>2. /\ DeskNow' = [DeskNow EXCEPT ![j] = Tabs!Away]
      /\ UNCHANGED <<TabsNow, SlipsNow>>
  BY <1>1, DeskMoves, TabsStay, SlipsStay DEF GoesOn
<1>3. Tabs!Leave(j)
  BY <1>2 DEF Tabs!Leave, TabsNow, SlipsNow, DeskNow
<1> QED
  BY <1>3 DEF Tabs!Next

\* A step that saves an open or cancelled row of an order that exists.
LEMMA SaveMaps ==
  ASSUME FnbInv, UNCHANGED <<sales, DeskNow>>, NEW o \in Order, Placed(o),
         NEW row \in OrderRow, orders' = [orders EXCEPT ![o] = row],
         row.status \in {"active", "cancelled"}
  PROVE  Tabs!Next
<1>1. ~ Tabs!Blank(TabOf(o)) /\ row.table \in Table \cup {NoTable}
  BY Seen DEF OrderRow
<1>2. TabsNow' = [TabsNow EXCEPT
                     ![o] = [status |-> row.status, table |-> row.table]]
  BY DEF TabsNow, TabOf, FnbInv, TypeOK
<1>3. Tabs!Change(o, row.status, row.table)
  BY <1>1, <1>2, SlipsStay DEF Tabs!Change, TabsNow, SlipsNow, DeskNow
<1> QED
  BY <1>1, <1>3 DEF Tabs!Next

\* Placing an order.
LEMMA CreateOrderMaps ==
  ASSUME FnbInv, NEW j \in Job, NEW o \in Order,
         NEW t \in Table \cup {NoTable}, NEW cart \in Carts,
         CreateOrder(j, o, t, cart), Request(j)
  PROVE  Tabs!Next
<1>1. /\ Tabs!Blank(TabOf(o))
      /\ \A p \in Order : p < o => ~ Tabs!Blank(TabOf(p))
  BY Seen DEF CreateOrder, Order
<1>2. TabsNow' = [TabsNow EXCEPT ![o] = [status |-> "active", table |-> t]]
  BY DEF CreateOrder, TabsNow, TabOf, FnbInv, TypeOK
<1>3. UNCHANGED DeskNow
  <2>1. job[j].pc = "idle"
    BY DEF CreateOrder, Free
  <2>2. CASE UNCHANGED job
    BY <2>2 DEF DeskNow, DeskOf
  <2>3. CASE GoesOn(j)
    <3> PICK h : h.pc \in Quiet /\ job' = [job EXCEPT ![j] = h]
      BY <2>3 DEF GoesOn
    <3> QED
      BY <2>1, DeskStays DEF Quiet
  <2>4. ~ \E p \in Order \cup {NoOrder}, u \in Table \cup {NoTable},
             c \in Carts, s \in Sale \cup {NoSale} : PayRead(j, p, u, c, s)
    <3>1. orders'[o].status = "active" /\ orders[o].status = "none"
      BY DEF CreateOrder, Placed, FnbInv, TypeOK
    <3> QED
      BY <3>1 DEF PayRead
  <2> QED
    BY <2>2, <2>3, <2>4, RequestReads DEF Reads
<1>4. UNCHANGED SlipsNow
  BY SlipsStay DEF CreateOrder
<1>5. Tabs!Place(o, t)
  BY <1>1, <1>2, <1>3, <1>4 DEF Tabs!Place, TabsNow, SlipsNow, DeskNow
<1> QED
  BY <1>5 DEF Tabs!Next

\* Saving an order back, as it was read, edited or with another status.
LEMMA OrderSaveMaps ==
  ASSUME FnbInv, NEW j \in Job,
         CreateLink(j) \/ AddLink(j) \/ StatusSave(j) \/ EditSave(j)
  PROVE  Tabs!Next
<1> DEFINE h == job[j]
<1>1. AllHeld(h) /\ h \in JobRow
  BY Handler
<1>2. /\ h.order \in Order /\ Placed(h.order)
      /\ h.row \in OrderRow
      /\ h.pc = "statusSave" => h.status \in {"active", "cancelled"}
      /\ h.pc # "statusSave" => h.row.status = "active"
  BY <1>1, JobFields
     DEF AllHeld, RowHeld, WritesOrder, CreateLink, AddLink, StatusSave,
         EditSave
<1>3. UNCHANGED <<sales, DeskNow>>
  <2>1. /\ job[j].pc \in {"newLink", "addLink", "statusSave", "editSave"}
        /\ sales' = sales
    BY DEF CreateLink, AddLink, StatusSave, EditSave
  <2>2. CASE AddLink(j)
    <3> DEFINE g == [IdleJob EXCEPT !.pc = "addItems", !.sale = job[j].sale,
                                    !.cart = job[j].cart]
    <3>1. job' = [job EXCEPT ![j] = g] /\ g.pc = "addItems"
      BY <2>2 DEF AddLink, IdleJob
    <3> HIDE DEF g
    <3> QED
      BY <2>1, <3>1, DeskStays
  <2>3. CASE EndStep(j)
    <3> PICK g : g.pc \in Quiet /\ job' = [job EXCEPT ![j] = g]
      BY <2>3, EndStepGoesOn DEF GoesOn
    <3>1. g.pc \notin {"payCommit", "closeRead", "closeOrder"}
      BY DEF Quiet
    <3> QED
      BY <2>1, <3>1, DeskStays
  <2> QED
    BY <2>2, <2>3 DEF EndStep
<1>4. ASSUME CreateLink(j) \/ AddLink(j)
      PROVE  Tabs!Next
  <2>1. [h.row EXCEPT !.sale = h.sale] \in OrderRow
    BY <1>1, <1>2, JobFields DEF OrderRow
  <2>2. /\ orders' = [orders EXCEPT ![h.order] =
                         [h.row EXCEPT !.sale = h.sale]]
        /\ h.row.status = "active"
    BY <1>2, <1>4 DEF CreateLink, AddLink
  <2> QED
    BY <1>2, <1>3, <2>1, <2>2, SaveMaps DEF OrderRow
<1>5. ASSUME StatusSave(j) PROVE Tabs!Next
  <2>1. [h.row EXCEPT !.status = h.status] \in OrderRow
    BY <1>2, <1>5 DEF OrderRow, OrderStatus, StatusSave
  <2>2. /\ orders' = [orders EXCEPT ![h.order] =
                         [h.row EXCEPT !.status = h.status]]
        /\ h.status \in {"active", "cancelled"}
    BY <1>2, <1>5 DEF StatusSave
  <2> QED
    BY <1>2, <1>3, <2>1, <2>2, SaveMaps DEF OrderRow
<1>6. ASSUME EditSave(j) PROVE Tabs!Next
  BY <1>2, <1>3, <1>6, SaveMaps DEF EditSave
<1> QED
  BY <1>4, <1>5, <1>6

\* Closing an order after checkout.
LEMMA CloseOrderMaps ==
  ASSUME FnbInv, NEW j \in Job, CloseOrder(j)
  PROVE  Tabs!Next
<1> DEFINE o == job[j].order
<1>1. o \in Order /\ job[j].pc = "closeOrder"
  BY Handler, JobFields DEF AllHeld, CloseHeld, CloseOrder
<1>2. DeskNow[j] = [at |-> "close", order |-> o, table |-> NoTable,
                    sale |-> NoSale]
  BY <1>1 DEF DeskNow, DeskOf
<1>3. TabsNow' = [TabsNow EXCEPT ![o].status = "completed"]
  BY <1>1 DEF CloseOrder, TabsNow, TabOf, FnbInv, TypeOK, OrderRow
<1>4. DeskNow' = [DeskNow EXCEPT ![j] = Tabs!Away]
  <2> PICK h : h.pc \in Quiet /\ job' = [job EXCEPT ![j] = h]
    BY EndStepGoesOn DEF EndStep, GoesOn
  <2>1. DeskOf(h) = Tabs!Away
    BY NotAtDesk DEF Quiet
  <2> QED
    BY <2>1, DeskMoves
<1>5. UNCHANGED SlipsNow
  BY SlipsStay DEF CloseOrder
<1> HIDE DEF o
<1>6. DeskNow[j].at = "close" /\ DeskNow[j].order = o
  BY <1>2
<1>7. TabsNow' = [TabsNow EXCEPT ![DeskNow[j].order].status = "completed"]
  BY <1>3, <1>6
<1>8. Tabs!Close(j)
  BY <1>4, <1>5, <1>6, <1>7, Zenon
     DEF Tabs!Close, TabsNow, SlipsNow, DeskNow
<1> QED
  BY <1>8 DEF Tabs!Next

\* Writing the bill of an order.
LEMMA BillMaps ==
  ASSUME FnbInv, NEW j \in Job, NEW s \in Sale,
         CreateSale(j, s) \/ AddSale(j, s)
  PROVE  Tabs!Next
<1> PICK h \in JobRow : h = job[j] /\ AllHeld(h)
  BY Handler
<1>1. /\ h.order \in Order /\ Placed(h.order)
      /\ h.pc \in {"newSale", "addSale"}
  BY JobFields DEF AllHeld, RowHeld, WritesOrder, CreateSale, AddSale
<1>2. FreeSale(s) /\ NumberFree(h.order) /\ UNCHANGED orders
  BY DEF CreateSale, AddSale
<1>3. SlipsNow' = [SlipsNow EXCEPT
                      ![s] = [status |-> "pending", order |-> h.order]]
  <2>1. /\ sales'[s].status = "pending" /\ sales'[s].order = h.order
        /\ \A u \in Sale \ {s} : sales'[u] = sales[u]
    <3>1. CASE CreateSale(j, s)
      BY <3>1 DEF CreateSale, FnbInv, TypeOK
    <3>2. CASE AddSale(j, s)
      BY <3>2 DEF AddSale, NoSaleRow, FnbInv, TypeOK
    <3> QED
      BY <3>1, <3>2
  <2> QED
    BY <2>1 DEF SlipsNow, SlipOf
<1>4. UNCHANGED DeskNow
  <2> PICK pc \in {"newItems", "addLink"} :
         job' = [job EXCEPT ![j] = [h EXCEPT !.pc = pc, !.sale = s]]
    BY DEF CreateSale, AddSale, FnbInv, TypeOK
  <2> PICK g \in JobRow : g = [h EXCEPT !.pc = pc, !.sale = s]
    BY DEF JobRow, PC
  <2>1. g.pc = pc
    BY DEF JobRow
  <2> QED
    BY <1>1, <2>1, DeskStays
<1>5. Tabs!Open(h.order) = {}
  BY <1>1, <1>2, Seen DEF NumberFree, Tabs!Open
<1>6. Tabs!Blank(SlipOf(s)) /\ ~ Tabs!Blank(TabOf(h.order))
  BY <1>1, <1>2, Seen
<1>7. Tabs!Bill(s, h.order)
  BY <1>1, <1>2, <1>3, <1>4, <1>5, <1>6, TabsStay
     DEF Tabs!Bill, TabsNow, SlipsNow, DeskNow
<1> QED
  BY <1>1, <1>7 DEF Tabs!Next

\* A checkout begins.
LEMMA PayReadMaps ==
  ASSUME FnbInv, NEW j \in Job, NEW o \in Order \cup {NoOrder},
         NEW t \in Table \cup {NoTable}, NEW cart,
         NEW s \in Sale \cup {NoSale}, PayRead(j, o, t, cart, s)
  PROVE  Tabs!Next
<1> DEFINE h == [IdleJob EXCEPT
                   !.pc = "payCommit", !.order = o, !.table = t,
                   !.cart = cart, !.sale = s,
                   !.seen = IF s = NoSale THEN 0 ELSE sales[s].subtotal]
<1>1. /\ job' = [job EXCEPT ![j] = h] /\ job[j].pc = "idle"
      /\ UNCHANGED <<orders, sales>>
  BY DEF PayRead, Free
<1>2. /\ h.pc = "payCommit" /\ h.order = o /\ h.table = t /\ h.sale = s
  BY DEF IdleJob
<1> HIDE DEF h
<1>3. DeskNow' = [DeskNow EXCEPT
                     ![j] = [at |-> "till", order |-> o, table |-> t,
                             sale |-> s]]
  <2>1. DeskOf(h) = [at |-> "till", order |-> o, table |-> t, sale |-> s]
    BY <1>2 DEF DeskOf
  <2> QED
    BY <1>1, <2>1, DeskMoves
<1>4. DeskNow[j] = Tabs!Away
  BY <1>1, NotAtDesk DEF DeskNow
<1>5. o # NoOrder => o \in Order /\ ~ Tabs!Blank(TabOf(o))
  BY Seen DEF PayRead
<1>6. IF o # NoOrder /\ Tabs!Open(o) # {}
      THEN s \in Tabs!Open(o) ELSE s = NoSale
  <2>1. CASE o = NoOrder
    BY <2>1 DEF PayRead
  <2>2. CASE o # NoOrder /\ NumberFree(o)
    <3>1. Tabs!Open(o) = {}
      BY <1>5, <2>2, Seen DEF NumberFree, Tabs!Open
    <3> QED
      BY <2>2, <3>1 DEF PayRead
  <2>3. CASE o # NoOrder /\ ~ NumberFree(o)
    <3>1. s \in Sale /\ Pending(s, o)
      BY <2>3 DEF PayRead
    <3>2. s \in Tabs!Open(o)
      BY <1>5, <2>3, <3>1, Seen
    <3> QED
      BY <2>3, <3>2
  <2> QED
    BY <2>1, <2>2, <2>3
<1>7. Tabs!Come(j, o, t, s)
  BY <1>1, <1>3, <1>4, <1>5, <1>6, TabsStay, SlipsStay
     DEF Tabs!Come, TabsNow, SlipsNow, DeskNow
<1> QED
  BY <1>7 DEF Tabs!Next

\* A checkout commits its sale.
LEMMA PaysMap ==
  ASSUME FnbInv, NEW j \in Job, PayBill(j) \/ \E s \in Sale : PayNew(j, s)
  PROVE  Tabs!Next
<1> PICK h \in JobRow : h = job[j] /\ AllHeld(h)
  BY Handler
<1>1. /\ h.pc = "payCommit" /\ PayDone(j) /\ UNCHANGED orders
      /\ h.order \in Order \cup {NoOrder} /\ h.table \in Table \cup {NoTable}
  BY JobFields DEF PayBill, PayNew
<1>2. PICK s \in Sale :
        /\ IF h.sale = NoSale THEN FreeSale(s) ELSE s = h.sale
        /\ SlipsNow' = [SlipsNow EXCEPT
                           ![s] = [status |-> "completed",
                                   order |-> h.order]]
  <2>1. CASE PayBill(j)
    <3>1. h.sale \in Sale /\ sales[h.sale].order = h.order
      BY <1>1, <2>1, JobFields, Zero DEF PayBill, AllHeld, SaleHeld, Owns
    <3>2. /\ sales'[h.sale].status = "completed"
          /\ sales'[h.sale].order = h.order
          /\ \A u \in Sale \ {h.sale} : sales'[u] = sales[u]
      BY <2>1, <3>1 DEF PayBill, FnbInv, TypeOK, SaleRow
    <3> QED
      BY <3>1, <3>2, Zero DEF SlipsNow, SlipOf
  <2>2. ASSUME NEW s \in Sale, PayNew(j, s)
        PROVE  /\ h.sale = NoSale /\ FreeSale(s)
               /\ SlipsNow' = [SlipsNow EXCEPT
                                  ![s] = [status |-> "completed",
                                          order |-> h.order]]
    BY <2>2 DEF PayNew, SlipsNow, SlipOf, FnbInv, TypeOK
  <2> QED
    BY <2>1, <2>2
<1>3. DeskNow[j] = [at |-> "till", order |-> h.order, table |-> h.table,
                    sale |-> h.sale]
  BY <1>1 DEF DeskNow, DeskOf
<1>4. DeskNow' = [DeskNow EXCEPT ![j] =
                     IF h.order = NoOrder /\ h.table = NoTable
                     THEN Tabs!Away
                     ELSE [at |-> "paid", order |-> h.order,
                           table |-> h.table, sale |-> NoSale]]
  <2>1. CASE h.order = NoOrder /\ h.table = NoTable
    <3>1. job' = [job EXCEPT ![j] = IdleJob] /\ IdleJob.pc = "idle"
      BY <1>1, <2>1 DEF PayDone, Done, IdleJob
    <3>2. DeskOf(IdleJob) = Tabs!Away
      BY <3>1, NotAtDesk
    <3> QED
      BY <2>1, <3>1, <3>2, DeskMoves
  <2>2. CASE ~ (h.order = NoOrder /\ h.table = NoTable)
    <3> DEFINE g == [IdleJob EXCEPT !.pc = "closeRead", !.order = h.order,
                                    !.table = h.table]
    <3>1. job' = [job EXCEPT ![j] = g]
      BY <1>1, <2>2 DEF PayDone
    <3>2. g.pc = "closeRead" /\ g.order = h.order /\ g.table = h.table
      BY DEF IdleJob
    <3> HIDE DEF g
    <3>3. DeskOf(g) = [at |-> "paid", order |-> h.order,
                       table |-> h.table, sale |-> NoSale]
      BY <3>2 DEF DeskOf
    <3> QED
      BY <2>2, <3>1, <3>3, DeskMoves
  <2> QED
    BY <2>1, <2>2
<1>5. UNCHANGED TabsNow
  BY <1>1, TabsStay
<1>6. h.sale = NoSale => Tabs!Blank(SlipOf(s))
  BY <1>2, Seen
<1>7. /\ DeskNow[j].at = "till" /\ DeskNow[j].order = h.order
      /\ DeskNow[j].table = h.table /\ DeskNow[j].sale = h.sale
  BY <1>3
<1>8. IF DeskNow[j].sale = NoSale THEN Tabs!Blank(SlipOf(s))
      ELSE s = DeskNow[j].sale
  BY <1>2, <1>6, <1>7
<1>9. SlipsNow' = [SlipsNow EXCEPT
                      ![s] = [status |-> "completed",
                              order |-> DeskNow[j].order]]
  BY <1>2, <1>7
<1>10. DeskNow' = [DeskNow EXCEPT ![j] =
                      IF DeskNow[j].order = NoOrder /\ DeskNow[j].table = NoTable
                      THEN Tabs!Away
                      ELSE [at |-> "paid", order |-> DeskNow[j].order,
                            table |-> DeskNow[j].table, sale |-> NoSale]]
  BY <1>4, <1>7
<1>11. SlipsNow[s] = SlipOf(s)
  BY DEF SlipsNow
<1>12. Tabs!Pay(j, s)
  BY <1>5, <1>7, <1>8, <1>9, <1>10, <1>11, Zenon
     DEF Tabs!Pay, TabsNow, SlipsNow, DeskNow
<1> QED
  BY <1>12 DEF Tabs!Next

\* A checkout finds the order it closes.
LEMMA CloseReadMaps ==
  ASSUME FnbInv, NEW j \in Job, NEW o \in Order, CloseRead(j, o)
  PROVE  Tabs!Next
<1> PICK h \in JobRow : h = job[j]
  BY Handler
<1> PICK t : t = orders[o].table
  OBVIOUS
<1> DEFINE g == [h EXCEPT !.pc = "closeOrder", !.order = o, !.table = t]
<1>1. /\ h.pc = "closeRead" /\ job' = [job EXCEPT ![j] = g]
      /\ UNCHANGED <<orders, sales>>
      /\ \/ o = h.order
         \/ h.order = NoOrder /\ orders[o].status = "active"
                              /\ orders[o].table = h.table
  BY DEF CloseRead, Latest, FnbInv, TypeOK
<1>2. g.pc = "closeOrder" /\ g.order = o
  BY DEF JobRow
<1> HIDE DEF g
<1>3. DeskNow[j] = [at |-> "paid", order |-> h.order, table |-> h.table,
                    sale |-> NoSale]
  BY <1>1 DEF DeskNow, DeskOf
<1>4. DeskNow' = [DeskNow EXCEPT
                     ![j] = [at |-> "close", order |-> o, table |-> NoTable,
                             sale |-> NoSale]]
  <2>1. DeskOf(g) = [at |-> "close", order |-> o, table |-> NoTable,
                     sale |-> NoSale]
    BY <1>2 DEF DeskOf
  <2>2. DeskNow' = [DeskNow EXCEPT ![j] = DeskOf(g)]
    BY <1>1, DeskMoves
  <2> QED
    BY <2>1, <2>2
<1>5. /\ TabsNow[o].status = orders[o].status
      /\ TabsNow[o].table = orders[o].table
  BY DEF TabsNow, TabOf
<1>6. Tabs!Look(j, o)
  BY <1>1, <1>3, <1>4, <1>5, TabsStay, SlipsStay
     DEF Tabs!Look, TabsNow, SlipsNow, DeskNow
<1> QED
  BY <1>6 DEF Tabs!Next

\* A void, or a refund, also of a sale that was voided meanwhile.
LEMMA VoidMaps ==
  ASSUME FnbInv, NEW j \in Job, VoidSave(j)
  PROVE  [Tabs!Next]_Tabs!vars
<1>1. PICK s \in Sale : s = job[j].sale /\ CheckedOut(s)
  BY Handler, JobFields DEF VoidSave, AllHeld, SaleHeld
<1>2. SlipsNow' = [SlipsNow EXCEPT ![s].status = "voided"]
  BY <1>1 DEF VoidSave, SlipsNow, SlipOf, FnbInv, TypeOK, SaleRow
<1>3. UNCHANGED <<TabsNow, DeskNow>>
  <2>1. /\ job' = [job EXCEPT ![j] = IdleJob] /\ job[j].pc = "voidSave"
        /\ IdleJob.pc = "idle" /\ UNCHANGED orders
    BY DEF VoidSave, Done, IdleJob
  <2> QED
    BY <2>1, DeskStays, TabsStay
<1>4. CASE sales[s].status = "completed"
  <2>1. Tabs!Void(s)
    BY <1>2, <1>3, <1>4 DEF Tabs!Void, TabsNow, SlipsNow, DeskNow, SlipOf
  <2> QED
    BY <2>1 DEF Tabs!Next
<1>5. CASE sales[s].status = "voided"
  <2>1. UNCHANGED SlipsNow
    BY <1>2, <1>5 DEF SlipsNow, SlipOf
  <2> QED
    BY <1>3, <2>1 DEF Tabs!vars, TabsNow, SlipsNow, DeskNow
<1> QED
  BY <1>1, <1>4, <1>5 DEF CheckedOut

\* Adding to a bill.
LEMMA AmountMaps ==
  ASSUME FnbInv, NEW j \in Job, CreateItems(j) \/ AddBill(j) \/ AddItems(j)
  PROVE  UNCHANGED Tabs!vars
<1> PICK h \in JobRow : h = job[j]
  BY Handler
<1>1. UNCHANGED SlipsNow
  <2>1. \A s \in Sale : SlipOf(s)' = SlipOf(s)
    BY DEF CreateItems, AddBill, AddItems, SlipOf, FnbInv, TypeOK, SaleRow
  <2> QED
    BY <2>1 DEF SlipsNow
<1>2. UNCHANGED TabsNow
  BY TabsStay DEF CreateItems, AddBill, AddItems
<1>3. UNCHANGED DeskNow
  <2>1. PICK g \in JobRow : /\ g.pc \in {"newLink", "addItems", "idle"}
                           /\ job' = [job EXCEPT ![j] = g]
    <3>1. CASE CreateItems(j)
      <4> PICK g \in JobRow : g = [h EXCEPT !.pc = "newLink", !.cart = {}]
        BY DEF JobRow, PC
      <4>1. g.pc = "newLink"
        BY DEF JobRow
      <4>2. job' = [job EXCEPT ![j] = g]
        BY <3>1 DEF CreateItems, FnbInv, TypeOK
      <4> QED
        BY <4>1, <4>2
    <3>2. CASE AddBill(j)
      <4> PICK g \in JobRow : g = [h EXCEPT !.pc = "addItems"]
        BY DEF JobRow, PC
      <4>1. g.pc = "addItems"
        BY DEF JobRow
      <4>2. job' = [job EXCEPT ![j] = g]
        BY <3>2 DEF AddBill, Goto, FnbInv, TypeOK
      <4> QED
        BY <4>1, <4>2
    <3>3. CASE AddItems(j)
      <4>1. IdleJob.pc = "idle"
        BY DEF IdleJob
      <4> QED
        BY <3>3, <4>1, IdleType DEF AddItems, Done
    <3> QED
      BY <3>1, <3>2, <3>3
  <2>2. h.pc \in {"newItems", "addBill", "addItems"}
    BY DEF CreateItems, AddBill, AddItems
  <2> QED
    BY <2>1, <2>2, DeskStays
<1> QED
  BY <1>1, <1>2, <1>3 DEF Tabs!vars, TabsNow, SlipsNow, DeskNow

\* Every step of FnbOrders is a step of Tabs, or changes nothing there.
LEMMA StepsMap == FnbInv /\ [Next]_vars => [Tabs!Next]_Tabs!vars
<1> SUFFICES ASSUME FnbInv, [Next]_vars PROVE [Tabs!Next]_Tabs!vars
  OBVIOUS
<1>1. ASSUME UNCHANGED <<orders, sales, job>> PROVE UNCHANGED Tabs!vars
  <2>1. UNCHANGED DeskNow
    BY <1>1 DEF DeskNow, DeskOf
  <2> QED
    BY <1>1, <2>1, TabsStay, SlipsStay
       DEF Tabs!vars, TabsNow, SlipsNow, DeskNow
<1>2. ASSUME NEW j \in Job, Request(j) PROVE [Tabs!Next]_Tabs!vars
  <2>1. ASSUME NEW o \in Order, NEW t \in Table \cup {NoTable},
               NEW cart \in Carts, CreateOrder(j, o, t, cart)
        PROVE  Tabs!Next
    BY <1>2, <2>1, CreateOrderMaps
  <2>2. ASSUME UNCHANGED orders PROVE [Tabs!Next]_Tabs!vars
    <3>1. CASE GoesOn(j)
      BY <2>2, <3>1, LeaveMaps
    <3>2. CASE sales' = sales /\ job' = job
      BY <1>1, <2>2, <3>2
    <3>3. ASSUME NEW o \in Order \cup {NoOrder},
                 NEW t \in Table \cup {NoTable},
                 NEW cart \in Carts, NEW s \in Sale \cup {NoSale},
                 PayRead(j, o, t, cart, s)
          PROVE  Tabs!Next
      BY <3>3, PayReadMaps
    <3> QED
      BY <1>2, <3>1, <3>2, <3>3, RequestReads DEF Reads
  <2>3. \/ UNCHANGED orders
        \/ \E o \in Order, t \in Table \cup {NoTable}, cart \in Carts :
              CreateOrder(j, o, t, cart)
    BY <1>2 DEF Request, StatusRead, EditRead, AddRead, PayRead, VoidRead,
                TableRead, RemoveRead, SyncRead
  <2> QED
    BY <2>1, <2>2, <2>3
<1>3. ASSUME NEW j \in Job, Step(j) \/ Abort(j) PROVE [Tabs!Next]_Tabs!vars
  <2>1. CASE CreateLink(j) \/ AddLink(j) \/ StatusSave(j) \/ EditSave(j)
    BY <2>1, OrderSaveMaps
  <2>2. CASE CloseOrder(j)
    BY <2>2, CloseOrderMaps
  <2>3. CASE \E s \in Sale : CreateSale(j, s) \/ AddSale(j, s)
    BY <2>3, BillMaps
  <2>4. CASE PayBill(j) \/ \E s \in Sale : PayNew(j, s)
    BY <2>4, PaysMap
  <2>5. CASE \E o \in Order : CloseRead(j, o)
    BY <2>5, CloseReadMaps
  <2>6. CASE CreateItems(j) \/ AddBill(j) \/ AddItems(j)
    BY <2>6, AmountMaps
  <2>7. CASE VoidSave(j)
    BY <2>7, VoidMaps
  <2>8. CASE EndStep(j) /\ UNCHANGED orders
    BY <2>8, EndStepGoesOn, LeaveMaps
  <2>9. CASE SyncStep(j)
    <3>1. UNCHANGED orders
      BY <2>9 DEF SyncStep, SyncCheck, SyncSave
    <3> QED
      BY <2>9, <3>1, SyncGoesOn, LeaveMaps
  <2> QED
    BY <1>3, <2>1, <2>2, <2>3, <2>4, <2>5, <2>6, <2>7, <2>8, <2>9
       DEF Step, EndStep, Abort, CreateFails, CreateTable, FreeTable,
           CloseNothing, CloseTable, TableSave
<1>4. CASE UNCHANGED vars
  BY <1>1, <1>4 DEF vars
<1> QED
  BY <1>2, <1>3, <1>4 DEF Next

\* FnbOrders implements Tabs: whatever rows are saved back over each other,
\* whatever edits ask for and however many checkouts share a bill, an order
\* has one open bill, a bill once paid is not open again, and an order is
\* closed only by a checkout that has committed a sale, one order for each:
\* the one the sale names or one that was open at its table
\* (fnb-orders.service.ts, and create and autoCompleteFnbOrder of
\* transactions.service.ts).
THEOREM OrdersAreTabs == Spec => ImplementsTabs
<1>1. Init => Tabs!Init
  <2> SUFFICES ASSUME Init PROVE Tabs!Init
    OBVIOUS
  <2>1. \A o \in Order : TabOf(o) = [status |-> "none", table |-> NoTable]
    BY DEF Init, TabOf, NoOrderRow
  <2>2. \A s \in Sale : SlipOf(s) = [status |-> "none", order |-> NoOrder]
    BY DEF Init, SlipOf, NoSaleRow
  <2>3. \A j \in Job : DeskOf(job[j]) = Tabs!Away
    <3>1. IdleJob.pc = "idle"
      BY DEF IdleJob
    <3> QED
      BY <3>1, NotAtDesk DEF Init
  <2> QED
    BY <2>1, <2>2, <2>3 DEF Tabs!Init
<1> QED
  BY <1>1, StepsMap, FnbInvariance, PTL
     DEF Spec, ImplementsTabs, Tabs!Spec
=============================================================================
