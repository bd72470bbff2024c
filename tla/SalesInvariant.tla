--------------------------- MODULE SalesInvariant ---------------------------
(* The inductive invariant of PosSales, and its refinement mapping to Till. *)
EXTENDS PosSales

Completing == {"saleLines", "saleInvoice", "saleInsert"}

(* A row has a number from when it is paid, and an order one store.        *)
RowsSound ==
    \A s \in Sale :
       /\ sale[s].status \in {"none", "pending"} <=> sale[s].trx = 0
       /\ (sale[s].status # "none" /\ sale[s].order # NoOrder) =>
             sale[s].store = OrderStore[sale[s].order]

(* What a running handler knows about numbers: its own is at most one      *)
(* above those in use, and no higher than the number its row got since.    *)
NumbersKnown(r) ==
    /\ r.pc \in Completing \cup {"deliveryInsert"} =>
          r.trx \in 1..(Cardinality(Numbered(r.store)) + 1)
    /\ (r.pc \in Completing /\ r.row # NoSale) =>
          /\ r.row \in Sale
          /\ sale[r.row].status # "none" /\ sale[r.row].store = r.store
          /\ sale[r.row].trx # 0 => r.trx <= sale[r.row].trx
    /\ r.pc = "saleNumber" => r.row = NoSale
    /\ (r.pc \in SalePCs /\ r.order # NoOrder) => r.store = OrderStore[r.order]
    /\ r.pc = "restoreLines" => r.row \in Sale /\ sale[r.row].trx # 0

(* ... and about stock: in a product that nobody edits, what it saved is   *)
(* the deduction of its cart, and its snapshot cannot hide this.           *)
StockKnown(r) ==
    /\ r.pc \in SalePCs => r.todo \subseteq Items(r.cart)
    /\ r.pc \in {"saleInvoice", "saleInsert"} => r.todo = {}
    /\ r.pc \in SalePCs => \A p \in Product \ touched :
          /\ p \in Items(r.cart) \ r.todo =>
                r.read /\ r.now[p] + r.cart[p] = stock[p]
          /\ r.read => r.shot[p] >= stock[p]

(* A row lock has one holder.                                              *)
LocksExclusive ==
    \A j, k \in Job : j # k => Locked(j) \cap Locked(k) = {}

SalesInv ==
    /\ TypeOK
    /\ RowsSound
    /\ NumbersGapFree
    /\ StockMatchesSales
    /\ \A j \in Job : NumbersKnown(job[j]) /\ StockKnown(job[j])
    /\ LocksExclusive

(* PosSales implements Till: whatever checkouts, voids, edits and          *)
(* deliveries do at once, each sale takes effect at its commit as if it    *)
(* were alone, with the number it counted and the stock it read long       *)
(* before that; and no later step changes a number that was handed out.    *)
ReceiptOf(s) ==
    [store |-> sale[s].store, number |-> sale[s].trx, sale |-> s]

ReceiptsGiven == {ReceiptOf(s) : s \in {r \in Sale : sale[r].trx # 0}}

Till == INSTANCE Till WITH receipts <- ReceiptsGiven

ImplementsTill == Till!Spec
=============================================================================
