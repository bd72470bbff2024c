------------------------------ MODULE PosSales ------------------------------
(***************************************************************************)
(* The point of sale of all stores on one day: checkout, void and refund   *)
(* (apps/api/src/modules/transactions), the handlers that write the same   *)
(* rows (product edits, opening an F&B order, delivering laundry), and     *)
(* what MySQL makes of them.                                               *)
(*                                                                         *)
(* Checkout, void and refund each run in one database transaction at       *)
(* REPEATABLE READ, InnoDB's default.  SELECT ... FOR UPDATE waits for the *)
(* row's lock and reads its last committed value.  A plain SELECT reads    *)
(* the snapshot taken by the transaction's first plain SELECT.  TypeORM's  *)
(* save(entity) begins with a plain SELECT and updates only the columns in *)
(* which the entity differs from what that read.                           *)
(***************************************************************************)
EXTENDS Naturals, FiniteSets

CONSTANTS
    Product,        \* rows of table products
    InitialStock,   \* their stock in the beginning
    Sale,           \* rows of table transactions
    NoSale,
    Store,          \* the stores of all tenants
    Order,          \* F&B orders
    NoOrder,
    OrderStore,     \* the store an order is placed in and paid in
    KeyPerStore,    \* the unique keys on numbers are per store, as the entity
                    \* has them, or for the table, as schema.sql has them
    Job,            \* slots for concurrently running handlers
    Pool,           \* connections to the database: mysql2's default is 10
    Carts,          \* what customers buy: quantities per product
    StockValues     \* what administrators set a stock to

Cart == [Product -> Nat]
EmptyCart == [p \in Product |-> 0]

ASSUME SalesAssumption ==
    /\ IsFiniteSet(Sale)
    /\ InitialStock \in [Product -> Nat]
    /\ NoSale \notin Sale
    /\ NoOrder \notin Order
    /\ Store # {}
    /\ OrderStore \in [Order -> Store]
    /\ KeyPerStore \in BOOLEAN
    /\ Pool \in Nat
    /\ Carts \subseteq Cart
    /\ StockValues \subseteq Nat

VARIABLES
    stock,     \* products.stock, as committed
    sale,      \* table transactions with its items, as committed
    job,       \* where each running handler is and what it has read
    sold,      \* history: quantities checked out so far
    touched    \* history: products whose stock was edited or put back

vars == <<stock, sale, job, sold, touched>>

----------------------------------------------------------------------------
SaleStatus == {"none", "pending", "completed", "voided", "refunded"}

AnyStore == CHOOSE t \in Store : TRUE

(* trx and inv count the numbers TRX-<day>-nnnn and INV-<day>-nnnn; 0 is   *)
(* the FNB-<order> number of an order that is not paid yet.                *)
SaleRow == [status: SaleStatus, store: Store, cart: Cart,
            order: Order \cup {NoOrder}, trx: Nat, inv: Nat]

BlankSale == [status |-> "none", store |-> AnyStore, cart |-> EmptyCart,
              order |-> NoOrder, trx |-> 0, inv |-> 0]

(* The steps of create, of voidTransaction and refundTransaction, of       *)
(* updateProduct and of delivering laundry.                                *)
PC == {"idle",
       "saleNumber", "saleLines", "saleInvoice", "saleInsert", "saleReload",
       "restoreLines",
       "editSave",
       "deliveryNumber", "deliveryInsert"}

JobRow == [pc: PC,
           row: Sale \cup {NoSale},         \* the sale found or restored
           mark: {"voided", "refunded"},    \* what a restore makes of it
           store: Store, cart: Cart, order: Order \cup {NoOrder},
           todo: SUBSET Product,            \* lines not handled yet
           trx: Nat, inv: Nat,              \* the numbers generated
           read: BOOLEAN,                   \* the snapshot is taken
           shot: [Product -> Nat],          \* the stock it shows
           now: [Product -> Nat]]           \* uncommitted or unsaved stock

IdleJob == [pc |-> "idle", row |-> NoSale, mark |-> "voided",
            store |-> AnyStore, cart |-> EmptyCart, order |-> NoOrder,
            todo |-> {},
            trx |-> 0, inv |-> 0, read |-> FALSE,
            shot |-> EmptyCart, now |-> EmptyCart]

TypeOK ==
    /\ stock \in [Product -> Nat]
    /\ sale \in [Sale -> SaleRow]
    /\ job \in [Job -> JobRow]
    /\ sold \in [Product -> Nat]
    /\ touched \subseteq Product

Init ==
    /\ stock = InitialStock
    /\ sale = [s \in Sale |-> BlankSale]
    /\ job = [j \in Job |-> IdleJob]
    /\ sold = EmptyCart
    /\ touched = {}

----------------------------------------------------------------------------
(* The database *)

Items(cart) == {p \in Product : cart[p] > 0}

(* Handlers that hold a connection and an open transaction ...             *)
SalePCs == {"saleNumber", "saleLines", "saleInvoice", "saleInsert"}
InTransaction == SalePCs \cup {"restoreLines"}

(* ... and, until create has reloaded the sale, just the connection.       *)
Holding == InTransaction \cup {"saleReload"}

FreeConnection == Cardinality({j \in Job : job[j].pc \in Holding}) < Pool

Locked(j) ==
    IF job[j].pc \in InTransaction THEN Items(job[j].cart) \ job[j].todo
                                   ELSE {}

LockedByOther(j, p) == \E k \in Job \ {j} : p \in Locked(k)

Unlocked(p) == \A k \in Job : p \notin Locked(k)

(* The stock that commits with j's transaction.                            *)
Written(j) ==
    [p \in Product |-> IF p \in Locked(j) THEN job[j].now[p] ELSE stock[p]]

(* What save() leaves in a locked row: the new value, unless the snapshot  *)
(* already shows it, for then there is nothing to UPDATE.                  *)
Saved(p, value, shot) == IF value = shot[p] THEN stock[p] ELSE value

(* COUNT + 1 over a store's committed rows, on a connection of its own.    *)
Numbered(t) == {s \in Sale : sale[s].store = t /\ sale[s].trx # 0}
Invoiced(t) == {s \in Sale : sale[s].store = t /\ sale[s].inv # 0}

NextTrx(t) == Cardinality(Numbered(t)) + 1
NextInv(t) == Cardinality(Invoiced(t)) + 1

(* Another row of store t has one of the numbers that s is to get.         *)
TakenIn(t, s, trx, inv) ==
    \E u \in Sale \ {s} : /\ sale[u].store = t
                         /\ (sale[u].trx = trx \/ sale[u].inv = inv)

(* The unique keys, for a row s that is to get these numbers.              *)
NumbersFree(t, s, trx, inv) ==
    IF KeyPerStore THEN ~ TakenIn(t, s, trx, inv)
                   ELSE \A u \in Store : ~ TakenIn(u, s, trx, inv)

PendingRow(o) ==
    IF o # NoOrder /\ \E s \in Sale : sale[s].order = o
                                        /\ sale[s].status = "pending"
    THEN CHOOSE s \in Sale : sale[s].order = o /\ sale[s].status = "pending"
    ELSE NoSale

(* The first plain SELECT of j's transaction fixes what it sees: r is j's  *)
(* row with the snapshot in it.                                            *)
WithSnapshot(r) ==
    IF r.read THEN r
              ELSE [r EXCEPT !.read = TRUE, !.shot = stock,
                             !.row = PendingRow(r.order)]

Free(j) == job[j].pc = "idle"

Done(j) == job' = [job EXCEPT ![j] = IdleJob]

(* Bound: a handler begins only if the table has room for its row.         *)
Inserting == SalePCs \cup {"deliveryNumber", "deliveryInsert"}

Room ==
    Cardinality({j \in Job : job[j].pc \in Inserting})
      < Cardinality({s \in Sale : sale[s].status = "none"})

----------------------------------------------------------------------------
(* TransactionsService.create *)

SaleStart(j, t, c, o) ==
    /\ Free(j) /\ Room
    /\ o # NoOrder => t = OrderStore[o]
    /\ FreeConnection
    /\ job' = [job EXCEPT ![j] = [IdleJob EXCEPT
                  !.pc = "saleNumber", !.store = t, !.cart = c,
                  !.order = o, !.todo = Items(c)]]
    /\ UNCHANGED <<stock, sale, sold, touched>>

(* The first statement of generateTransactionNumber needs a second         *)
(* connection.                                                             *)
SaleNumber(j) ==
    /\ job[j].pc = "saleNumber"
    /\ FreeConnection
    /\ job' = [job EXCEPT ![j].pc = "saleLines",
                          ![j].trx = NextTrx(job[j].store)]
    /\ UNCHANGED <<stock, sale, sold, touched>>

(* Mutant of SellLine: SELECT without FOR UPDATE.                          *)
SellLineUnlocked(j, p) ==
    /\ job[j].pc = "saleLines"
    /\ p \in job[j].todo
    /\ stock[p] >= job[j].cart[p]
    /\ LET r == WithSnapshot(job[j])
       IN job' = [job EXCEPT ![j] = [r EXCEPT
                    !.todo = @ \ {p},
                    !.now[p] = Saved(p, stock[p] - r.cart[p], r.shot)]]
    /\ UNCHANGED <<stock, sale, sold, touched>>

(* Locks the product, checks its stock and saves what is left.             *)
SellLine(j, p) ==
    /\ job[j].pc = "saleLines"
    /\ p \in job[j].todo
    /\ ~ LockedByOther(j, p)
    /\ stock[p] >= job[j].cart[p]
    /\ LET r == WithSnapshot(job[j])
       IN job' = [job EXCEPT ![j] = [r EXCEPT
                    !.todo = @ \ {p},
                    !.now[p] = Saved(p, stock[p] - r.cart[p], r.shot)]]
    /\ UNCHANGED <<stock, sale, sold, touched>>

(* Mutant of SaleRejected: the lines handled so far are not rolled back.   *)
SaleRejectedKeepsLines(j, p) ==
    /\ job[j].pc = "saleLines"
    /\ p \in job[j].todo
    /\ ~ LockedByOther(j, p)
    /\ stock[p] < job[j].cart[p]
    /\ stock' = Written(j)
    /\ Done(j)
    /\ UNCHANGED <<sale, sold, touched>>

(* Mutant of SaleRejected: rejects only what is sold out.                  *)
SaleRejectedSoldOut(j, p) ==
    /\ job[j].pc = "saleLines"
    /\ p \in job[j].todo
    /\ ~ LockedByOther(j, p)
    /\ stock[p] = 0
    /\ Done(j)
    /\ UNCHANGED <<stock, sale, sold, touched>>

(* Not enough stock: the whole transaction is rolled back.                 *)
SaleRejected(j, p) ==
    /\ job[j].pc = "saleLines"
    /\ p \in job[j].todo
    /\ ~ LockedByOther(j, p)
    /\ stock[p] < job[j].cart[p]
    /\ Done(j)
    /\ UNCHANGED <<stock, sale, sold, touched>>

(* The plain SELECTs after the lines: of the store, and of the order's     *)
(* pending transaction.                                                    *)
SaleRead(j) ==
    /\ job[j].pc = "saleLines"
    /\ job[j].todo = {}
    /\ job' = [job EXCEPT ![j] = [WithSnapshot(job[j]) EXCEPT
                                    !.pc = "saleInvoice"]]
    /\ UNCHANGED <<stock, sale, sold, touched>>

SaleInvoice(j) ==
    /\ job[j].pc = "saleInvoice"
    /\ FreeConnection
    /\ job' = [job EXCEPT ![j].pc = "saleInsert",
                          ![j].inv = NextInv(job[j].store)]
    /\ UNCHANGED <<stock, sale, sold, touched>>

(* The row a checkout writes: the pending one it found, else a new one.    *)
TargetRow(j, s) ==
    IF job[j].row # NoSale THEN s = job[j].row ELSE sale[s].status = "none"

(* Mutant of SaleInsert: a table without the unique keys.                  *)
SaleInsertUnchecked(j, s) ==
    LET r == job[j] IN
    /\ r.pc = "saleInsert"
    /\ TargetRow(j, s)
    /\ sale' = [sale EXCEPT ![s] = [status |-> "completed", store |-> r.store,
                                    cart |-> r.cart, order |-> r.order,
                                    trx |-> r.trx, inv |-> r.inv]]
    /\ stock' = Written(j)
    /\ sold' = [p \in Product |-> sold[p] + r.cart[p]]
    /\ job' = [job EXCEPT ![j] = [IdleJob EXCEPT !.pc = "saleReload"]]
    /\ UNCHANGED touched

(* Writes the transaction and its items and commits.                       *)
SaleInsert(j, s) ==
    LET r == job[j] IN
    /\ r.pc = "saleInsert"
    /\ TargetRow(j, s)
    /\ NumbersFree(r.store, s, r.trx, r.inv)
    /\ sale' = [sale EXCEPT ![s] = [status |-> "completed", store |-> r.store,
                                    cart |-> r.cart, order |-> r.order,
                                    trx |-> r.trx, inv |-> r.inv]]
    /\ stock' = Written(j)
    /\ sold' = [p \in Product |-> sold[p] + r.cart[p]]
    /\ job' = [job EXCEPT ![j] = [IdleJob EXCEPT !.pc = "saleReload"]]
    /\ UNCHANGED touched

(* Another row has one of the numbers by now: the checkout fails.          *)
NumberTaken(j) ==
    /\ job[j].pc = "saleInsert"
    /\ \E s \in Sale : /\ TargetRow(j, s)
                       /\ ~ NumbersFree(job[j].store, s, job[j].trx,
                                        job[j].inv)
    /\ Done(j)
    /\ UNCHANGED <<stock, sale, sold, touched>>

(* findOne(txId) on another connection, before this one is released.       *)
SaleReload(j) ==
    /\ job[j].pc = "saleReload"
    /\ FreeConnection
    /\ Done(j)
    /\ UNCHANGED <<stock, sale, sold, touched>>

----------------------------------------------------------------------------
(* voidTransaction (m = "voided") and refundTransaction (m = "refunded").  *)
(* The sale is read without a lock; this read also takes the snapshot.     *)

RestoreStart(j, s, m) ==
    /\ Free(j)
    /\ FreeConnection
    /\ sale[s].status = "completed"
    /\ job' = [job EXCEPT ![j] = [IdleJob EXCEPT
                  !.pc = "restoreLines", !.row = s, !.mark = m,
                  !.cart = sale[s].cart, !.todo = Items(sale[s].cart),
                  !.read = TRUE, !.shot = stock]]
    /\ UNCHANGED <<stock, sale, sold, touched>>

RestoreLine(j, p) ==
    /\ job[j].pc = "restoreLines"
    /\ p \in job[j].todo
    /\ ~ LockedByOther(j, p)
    /\ job' = [job EXCEPT
                 ![j].todo = @ \ {p},
                 ![j].now[p] = Saved(p, stock[p] + job[j].cart[p],
                                     job[j].shot)]
    /\ UNCHANGED <<stock, sale, sold, touched>>

(* Mutant of RestoreCommit: the number can be given out again.             *)
RestoreCommitFreesNumber(j) ==
    /\ job[j].pc = "restoreLines"
    /\ job[j].todo = {}
    /\ sale' = [sale EXCEPT ![job[j].row].status = job[j].mark,
                            ![job[j].row].trx = 0]
    /\ stock' = Written(j)
    /\ touched' = touched \cup Items(job[j].cart)
    /\ Done(j)
    /\ UNCHANGED sold

(* The status is written over whatever it is by now.                       *)
RestoreCommit(j) ==
    /\ job[j].pc = "restoreLines"
    /\ job[j].todo = {}
    /\ sale' = [sale EXCEPT ![job[j].row].status = job[j].mark]
    /\ stock' = Written(j)
    /\ touched' = touched \cup Items(job[j].cart)
    /\ Done(j)
    /\ UNCHANGED sold

----------------------------------------------------------------------------
(* The other writers of these tables, on connections of the pool *)

(* FnbOrdersService.create with items: a pending transaction, no stock.    *)
OpenOrder(s, o, c) ==
    /\ FreeConnection /\ Room
    /\ sale[s].status = "none"
    /\ \A t \in Sale : sale[t].order # o
    /\ sale' = [sale EXCEPT ![s] = [BlankSale EXCEPT
                  !.status = "pending", !.store = OrderStore[o],
                  !.cart = c, !.order = o]]
    /\ UNCHANGED <<stock, job, sold, touched>>

(* updateProduct: reads the product, saves it with the stock it had then.  *)
EditStart(j, p) ==
    /\ Free(j)
    /\ FreeConnection
    /\ job' = [job EXCEPT ![j] = [IdleJob EXCEPT
                  !.pc = "editSave", !.todo = {p}, !.now[p] = stock[p]]]
    /\ UNCHANGED <<stock, sale, sold, touched>>

(* save() finds the same stock and leaves that column alone ...            *)
EditSave(j) ==
    /\ job[j].pc = "editSave"
    /\ FreeConnection
    /\ \A p \in job[j].todo : stock[p] = job[j].now[p]
    /\ Done(j)
    /\ UNCHANGED <<stock, sale, sold, touched>>

(* ... or another one, and writes its own once the row is unlocked.        *)
EditOverwrites(j) ==
    /\ job[j].pc = "editSave"
    /\ FreeConnection
    /\ \A p \in job[j].todo : Unlocked(p) /\ stock[p] # job[j].now[p]
    /\ stock' = [p \in Product |-> IF p \in job[j].todo THEN job[j].now[p]
                                                        ELSE stock[p]]
    /\ touched' = touched \cup job[j].todo
    /\ Done(j)
    /\ UNCHANGED <<sale, sold>>

(* updateStock, bulkUpdateStock, updateProduct with a stock of its own.    *)
SetStock(p, n) ==
    /\ FreeConnection
    /\ Unlocked(p)
    /\ stock' = [stock EXCEPT ![p] = n]
    /\ touched' = touched \cup {p}
    /\ UNCHANGED <<sale, job, sold>>

(* Laundry, status DELIVERED: two counts and an INSERT without a           *)
(* transaction; a failure of the INSERT is only logged.                    *)
DeliveryStart(j, t) ==
    /\ Free(j) /\ Room
    /\ FreeConnection
    /\ job' = [job EXCEPT ![j] = [IdleJob EXCEPT
                  !.pc = "deliveryNumber", !.store = t, !.inv = NextInv(t)]]
    /\ UNCHANGED <<stock, sale, sold, touched>>

DeliveryNumber(j) ==
    /\ job[j].pc = "deliveryNumber"
    /\ FreeConnection
    /\ job' = [job EXCEPT ![j].pc = "deliveryInsert",
                          ![j].trx = NextTrx(job[j].store)]
    /\ UNCHANGED <<stock, sale, sold, touched>>

DeliveryInsert(j, s) ==
    /\ job[j].pc = "deliveryInsert"
    /\ FreeConnection
    /\ sale[s].status = "none"
    /\ NumbersFree(job[j].store, s, job[j].trx, job[j].inv)
    /\ sale' = [sale EXCEPT ![s] = [BlankSale EXCEPT
                  !.status = "completed", !.store = job[j].store,
                  !.trx = job[j].trx, !.inv = job[j].inv]]
    /\ Done(j)
    /\ UNCHANGED <<stock, sold, touched>>

DeliveryUnrecorded(j) ==
    /\ job[j].pc = "deliveryInsert"
    /\ FreeConnection
    /\ \E s \in Sale : /\ sale[s].status = "none"
                       /\ ~ NumbersFree(job[j].store, s, job[j].trx,
                                        job[j].inv)
    /\ Done(j)
    /\ UNCHANGED <<stock, sale, sold, touched>>

----------------------------------------------------------------------------
(* Failures *)

(* Handlers in S wait for rows that only others in S have locked.          *)
WaitInCircle(S) ==
    \A j \in S : /\ job[j].pc \in {"saleLines", "restoreLines"}
                 /\ job[j].todo # {}
                 /\ \A p \in job[j].todo : \E k \in S \ {j} : p \in Locked(k)

(* InnoDB detects the circle and rolls one of the transactions back.       *)
DeadlockVictim(j) ==
    /\ \E S \in SUBSET Job : j \in S /\ WaitInCircle(S)
    /\ Done(j)
    /\ UNCHANGED <<stock, sale, sold, touched>>

(* Any statement may fail, a lock wait time out, the process restart: what *)
(* is not committed is rolled back.                                        *)
Abort(j) ==
    /\ ~ Free(j)
    /\ Done(j)
    /\ UNCHANGED <<stock, sale, sold, touched>>

----------------------------------------------------------------------------
Request ==
    \/ \E j \in Job, t \in Store, c \in Carts, o \in Order \cup {NoOrder} :
          SaleStart(j, t, c, o)
    \/ \E j \in Job, s \in Sale, m \in {"voided", "refunded"} :
          RestoreStart(j, s, m)
    \/ \E j \in Job, p \in Product : EditStart(j, p)
    \/ \E j \in Job, t \in Store : DeliveryStart(j, t)
    \/ \E s \in Sale, o \in Order, c \in Carts : OpenOrder(s, o, c)
    \/ \E p \in Product, n \in StockValues : SetStock(p, n)

Step(j) ==
    \/ SaleNumber(j) \/ SaleRead(j) \/ SaleInvoice(j)
    \/ \E p \in Product :
          SellLine(j, p) \/ SaleRejected(j, p) \/ RestoreLine(j, p)
    \/ \E s \in Sale : SaleInsert(j, s) \/ DeliveryInsert(j, s)
    \/ NumberTaken(j) \/ SaleReload(j) \/ RestoreCommit(j)
    \/ EditSave(j) \/ EditOverwrites(j)
    \/ DeliveryNumber(j) \/ DeliveryUnrecorded(j)

Next ==
    \/ Request
    \/ \E j \in Job : Step(j) \/ DeadlockVictim(j) \/ Abort(j)

Spec == Init /\ [][Next]_vars

(* Waiters for a row's lock and for a connection are queued and served in  *)
(* turn, so a handler whose next step is possible again and again takes    *)
(* it, and InnoDB does not leave a circle alone.  Requests, edits and      *)
(* failures need never come.                                               *)
Fairness == \A j \in Job : SF_vars(Step(j)) /\ WF_vars(DeadlockVictim(j))

FairSpec == Spec /\ Fairness

----------------------------------------------------------------------------
(* Properties *)

(* The day's transaction numbers of a store are 1, 2, 3, ... without gap   *)
(* or double, although they are counted before the transaction they are    *)
(* for sees anything, and a second checkout of an order rewrites the row   *)
(* of the first: otherwise COUNT + 1 would be a number in use, for the     *)
(* whole day.                                                              *)
NumbersGapFree ==
    \A t \in Store :
       {sale[s].trx : s \in Numbered(t)} = 1..Cardinality(Numbered(t))

(* Checkouts running at once, some of them rejected, rolled back or of the *)
(* same order, lose no deduction and deduct nothing twice, as long as      *)
(* nobody edits the product or puts it back.                               *)
StockMatchesSales ==
    \A p \in Product \ touched : stock[p] + sold[p] = InitialStock[p]

(* Every handler ends: none waits for ever for a lock, for a connection or *)
(* for another handler that waits for it.                                  *)
HandlersEnd == \A j \in Job : ~ Free(j) ~> Free(j)
=============================================================================
