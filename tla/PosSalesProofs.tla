--------------------------- MODULE PosSalesProofs ---------------------------
(***************************************************************************)
(* Theorems about PosSales for every value of its constants.  SalesInv is  *)
(* shown inductive.  Most actions change only the row of one handler       *)
(* (lemma JobStep); the six that write tables are shown to keep numbers    *)
(* and stock in the sense of NumbersGrow and StockKept, under which what   *)
(* the other handlers know stays true (lemma DataStep).                    *)
(***************************************************************************)
EXTENDS SalesInvariant, FiniteSetTheorems, TLAPS

----------------------------------------------------------------------------
(* Types of the rows *)

\* Nothing is bought in an empty cart.
LEMMA EmptyCartType == EmptyCart \in Cart /\ Items(EmptyCart) = {}
  BY DEF EmptyCart, Cart, Items

\* There is a store to fill in.
LEMMA AnyStoreType == AnyStore \in Store
  BY SalesAssumption DEF AnyStore

\* An idle job slot is a job row.
LEMMA IdleJobType == IdleJob \in JobRow
  BY EmptyCartType, AnyStoreType DEF JobRow, IdleJob, PC, Cart

\* A row that is not used is a row.
LEMMA BlankSaleType == BlankSale \in SaleRow
  BY EmptyCartType, AnyStoreType DEF SaleRow, BlankSale, SaleStatus

\* The fields of a job row.
LEMMA JobFields ==
  ASSUME NEW r \in JobRow
  PROVE  /\ r.pc \in PC
         /\ r.row \in Sale \cup {NoSale}
         /\ r.mark \in {"voided", "refunded"}
         /\ r.store \in Store
         /\ r.cart \in [Product -> Nat]
         /\ r.order \in Order \cup {NoOrder}
         /\ r.todo \in SUBSET Product
         /\ r.trx \in Nat /\ r.inv \in Nat
         /\ r.read \in BOOLEAN
         /\ r.shot \in [Product -> Nat]
         /\ r.now \in [Product -> Nat]
  BY DEF JobRow, Cart

\* The row of the pending transaction of an order.
LEMMA PendingRowType ==
  ASSUME NEW o
  PROVE  /\ PendingRow(o) \in Sale \cup {NoSale}
         /\ PendingRow(o) # NoSale =>
              /\ PendingRow(o) \in Sale
              /\ o # NoOrder
              /\ sale[PendingRow(o)].order = o
              /\ sale[PendingRow(o)].status = "pending"
  BY SalesAssumption DEF PendingRow

\* Taking the snapshot keeps a job row one.
LEMMA SnapshotType ==
  ASSUME TypeOK, NEW r \in JobRow
  PROVE  WithSnapshot(r) \in JobRow
<1>1. PendingRow(r.order) \in Sale \cup {NoSale}
  BY PendingRowType
<1> QED
  BY <1>1 DEF WithSnapshot, JobRow, TypeOK

----------------------------------------------------------------------------
(* Numbers *)

\* No step takes a number back, and a new one is the next of its store.
NumbersGrow ==
  /\ \A t \in Store :
        Cardinality(Numbered(t)) <= Cardinality(Numbered(t)')
  /\ \A s \in Sale :
        /\ sale[s].status # "none" =>
              sale'[s].status # "none" /\ sale'[s].store = sale[s].store
        /\ sale[s].trx # 0 => sale'[s].trx = sale[s].trx
        /\ (sale[s].trx = 0 /\ sale'[s].trx # 0) =>
              sale'[s].trx = Cardinality(Numbered(sale'[s].store)) + 1

\* The numbered rows of a store can be counted.
LEMMA NumberedFinite ==
  ASSUME NEW t \in Store
  PROVE  IsFiniteSet(Numbered(t)) /\ Cardinality(Numbered(t)) \in Nat
<1>1. Numbered(t) \subseteq Sale
  BY DEF Numbered
<1>2. IsFiniteSet(Numbered(t))
  BY <1>1, SalesAssumption, FS_Subset
<1> QED
  BY <1>2, FS_CardinalityType

\* A step that assigns no number.
LEMMA NumbersUntouched ==
  ASSUME TypeOK, RowsSound, NumbersGapFree,
         \A s \in Sale :
            /\ sale'[s].trx = sale[s].trx
            /\ sale[s].status # "none" =>
                 sale'[s].status # "none" /\ sale'[s].store = sale[s].store
  PROVE  NumbersGapFree' /\ NumbersGrow
<1>1. ASSUME NEW t \in Store PROVE Numbered(t)' = Numbered(t)
  BY <1>1 DEF Numbered, RowsSound
<1>2. NumbersGapFree'
  <2> SUFFICES ASSUME NEW t \in Store
               PROVE  {sale'[s].trx : s \in Numbered(t)'}
                         = 1..Cardinality(Numbered(t)')
    BY DEF NumbersGapFree
  <2>1. \A s \in Numbered(t) : sale'[s].trx = sale[s].trx
    BY DEF Numbered
  <2>2. {sale'[s].trx : s \in Numbered(t)} = {sale[s].trx : s \in Numbered(t)}
    BY <2>1
  <2> QED
    BY <1>1, <2>2 DEF NumbersGapFree
<1>3. \A t \in Store : Cardinality(Numbered(t)) <= Cardinality(Numbered(t)')
  BY <1>1, NumberedFinite
<1> QED
  BY <1>2, <1>3 DEF NumbersGrow

\* A row of store t gets number k: free, at most one above those in use, and
\* no higher than the number the row has.
LEMMA NumberAssigned ==
  ASSUME TypeOK, NumbersGapFree,
         NEW s \in Sale, NEW row \in SaleRow,
         row.status # "none",
         row.trx \in 1..(Cardinality(Numbered(row.store)) + 1),
         \A u \in Sale \ {s} :
            sale[u].store = row.store => sale[u].trx # row.trx,
         sale[s].status # "none" => sale[s].store = row.store,
         sale[s].trx # 0 =>
            sale[s].store = row.store /\ row.trx <= sale[s].trx,
         sale' = [sale EXCEPT ![s] = row]
  PROVE  NumbersGapFree' /\ NumbersGrow
<1> DEFINE t0 == row.store
           n == Cardinality(Numbered(t0))
<1>1. /\ t0 \in Store /\ row.trx \in Nat
      /\ n \in Nat /\ IsFiniteSet(Numbered(t0))
  BY NumberedFinite DEF SaleRow
<1>2. {sale[u].trx : u \in Numbered(t0)} = 1..n
  BY <1>1 DEF NumbersGapFree
<1>3. row.trx <= n => s \in Numbered(t0) /\ sale[s].trx = row.trx
  <2> HAVE row.trx <= n
  <2>1. row.trx \in 1..n
    BY <1>1
  <2>2. PICK u \in Numbered(t0) : sale[u].trx = row.trx
    BY <1>2, <2>1
  <2>3. u \in Sale /\ sale[u].store = row.store
    BY <2>2 DEF Numbered
  <2>4. u = s
    BY <2>2, <2>3
  <2> QED
    BY <2>2, <2>4
<1>4. /\ \A u \in Sale : sale'[u] = IF u = s THEN row ELSE sale[u]
      /\ row.trx # 0
  BY <1>1 DEF TypeOK
<1>5. CASE sale[s].trx = 0
  <2>1. row.trx = n + 1
    BY <1>1, <1>3, <1>4, <1>5
  <2>2. s \notin Numbered(t0)
    BY <1>5 DEF Numbered
  <2>3. Numbered(t0)' = Numbered(t0) \cup {s}
    BY <1>4 DEF Numbered
  <2>4. \A t \in Store \ {t0} : Numbered(t)' = Numbered(t)
    BY <1>4, <1>5 DEF Numbered
  <2>5. Cardinality(Numbered(t0)') = n + 1
    BY <1>1, <2>2, <2>3, FS_AddElement
  <2>6. {sale'[u].trx : u \in Numbered(t0)'} = 1..(n + 1)
    <3>1. \A u \in Numbered(t0) : u \in Sale /\ sale'[u].trx = sale[u].trx
      BY <1>4, <2>2 DEF Numbered
    <3>2. {sale'[u].trx : u \in Numbered(t0)} = 1..n
      BY <1>2, <3>1
    <3>3. sale'[s].trx = n + 1
      BY <1>4, <2>1
    <3>4. {sale'[u].trx : u \in Numbered(t0)'} = (1..n) \cup {n + 1}
      BY <2>3, <3>2, <3>3
    <3> QED
      BY <1>1, <3>4
  <2>7. ASSUME NEW t \in Store \ {t0}
        PROVE  {sale'[u].trx : u \in Numbered(t)'}
                  = 1..Cardinality(Numbered(t)')
    <3>1. \A u \in Numbered(t) : sale'[u].trx = sale[u].trx
      BY <1>4, <1>5 DEF Numbered
    <3>2. {sale'[u].trx : u \in Numbered(t)} = {sale[u].trx : u \in Numbered(t)}
      BY <3>1
    <3> QED
      BY <2>4, <2>7, <3>2 DEF NumbersGapFree
  <2>8. NumbersGapFree'
    BY <2>5, <2>6, <2>7 DEF NumbersGapFree
  <2>9. \A t \in Store : Cardinality(Numbered(t)) <= Cardinality(Numbered(t)')
    BY <1>1, <2>4, <2>5, NumberedFinite
  <2>10. sale'[s].trx = Cardinality(Numbered(sale'[s].store)) + 1
    BY <1>4, <2>1
  <2> QED
    BY <1>4, <1>5, <2>8, <2>9, <2>10 DEF NumbersGrow
<1>6. CASE sale[s].trx # 0
  <2>1. s \in Numbered(t0) /\ sale[s].trx \in 1..n
    BY <1>2, <1>6 DEF Numbered
  <2>2. sale[s].trx = row.trx
    BY <1>1, <1>3, <1>6, <2>1
  <2>3. \A u \in Sale : /\ sale'[u].trx = sale[u].trx
                        /\ sale[u].trx # 0 => sale'[u].store = sale[u].store
    BY <1>4, <1>6, <2>2
  <2>4. ASSUME NEW t \in Store PROVE Numbered(t)' = Numbered(t)
    BY <1>4, <1>6, <2>2 DEF Numbered
  <2>5. NumbersGapFree'
    <3> SUFFICES ASSUME NEW t \in Store
                 PROVE  {sale'[u].trx : u \in Numbered(t)'}
                           = 1..Cardinality(Numbered(t)')
      BY DEF NumbersGapFree
    <3>1. \A u \in Numbered(t) : sale'[u].trx = sale[u].trx
      BY <2>3 DEF Numbered
    <3>2. {sale'[u].trx : u \in Numbered(t)} = {sale[u].trx : u \in Numbered(t)}
      BY <3>1
    <3> QED
      BY <2>4, <3>2 DEF NumbersGapFree
  <2>6. \A t \in Store : Cardinality(Numbered(t)) <= Cardinality(Numbered(t)')
    BY <2>4, NumberedFinite
  <2> QED
    BY <1>4, <2>3, <2>5, <2>6 DEF NumbersGrow
<1> QED
  BY <1>5, <1>6

----------------------------------------------------------------------------
(* What the other handlers know *)

\* Stock nobody edits only falls, and not under the locks of handlers in J,
\* which do not move.
StockKept(J) ==
  /\ touched \subseteq touched'
  /\ \A p \in Product \ touched' : stock'[p] <= stock[p]
  /\ \A k \in J : /\ job'[k] = job[k]
                  /\ \A p \in Locked(k) \ touched' : stock'[p] = stock[p]

\* The rows a handler has locked.
LockedRows(r) ==
  IF r.pc \in InTransaction THEN Items(r.cart) \ r.todo ELSE {}

\* The knowledge of a handler that does not move stays true.
LEMMA KnownKept ==
  ASSUME TypeOK, TypeOK', RowsSound, NumbersGrow,
         NEW J, StockKept(J), NEW r \in JobRow,
         \A p \in LockedRows(r) \ touched' : stock'[p] = stock[p],
         NumbersKnown(r), StockKnown(r)
  PROVE  NumbersKnown(r)' /\ StockKnown(r)'
<1>1. NumbersKnown(r)'
  <2>1. /\ r.store \in Store /\ r.trx \in Nat
        /\ Cardinality(Numbered(r.store)) \in Nat
        /\ Cardinality(Numbered(r.store)') \in Nat
        /\ Cardinality(Numbered(r.store)) <= Cardinality(Numbered(r.store)')
    <3>1. r.store \in Store /\ r.trx \in Nat
      BY JobFields
    <3>2. Numbered(r.store)' \subseteq Sale
      BY DEF Numbered
    <3>3. Cardinality(Numbered(r.store)') \in Nat
      BY <3>2, SalesAssumption, FS_Subset, FS_CardinalityType
    <3> QED
      BY <3>1, <3>3, NumberedFinite DEF NumbersGrow
  <2>2. ASSUME r.pc \in Completing \cup {"deliveryInsert"}
        PROVE  r.trx \in 1..(Cardinality(Numbered(r.store)') + 1)
    <3>1. r.trx \in 1..(Cardinality(Numbered(r.store)) + 1)
      BY <2>2 DEF NumbersKnown
    <3> QED
      BY <2>1, <3>1
  <2>3. ASSUME r.pc \in Completing, r.row # NoSale
        PROVE  /\ r.row \in Sale
               /\ sale'[r.row].status # "none"
               /\ sale'[r.row].store = r.store
               /\ sale'[r.row].trx # 0 => r.trx <= sale'[r.row].trx
    <3>1. /\ r.row \in Sale
          /\ sale[r.row].status # "none" /\ sale[r.row].store = r.store
          /\ sale[r.row].trx # 0 => r.trx <= sale[r.row].trx
      BY <2>3 DEF NumbersKnown
    <3>2. sale'[r.row].status # "none" /\ sale'[r.row].store = r.store
      BY <3>1 DEF NumbersGrow
    <3>3. CASE sale[r.row].trx # 0
      BY <3>1, <3>2, <3>3 DEF NumbersGrow
    <3>4. CASE sale[r.row].trx = 0
      <4> SUFFICES ASSUME sale'[r.row].trx # 0
                   PROVE  r.trx <= sale'[r.row].trx
        BY <3>1, <3>2
      <4>1. sale'[r.row].trx = Cardinality(Numbered(r.store)) + 1
        BY <3>1, <3>2, <3>4 DEF NumbersGrow
      <4>2. r.trx \in 1..(Cardinality(Numbered(r.store)) + 1)
        BY <2>3 DEF NumbersKnown
      <4> QED
        BY <2>1, <4>1, <4>2
    <3> QED
      BY <3>3, <3>4
  <2>4. ASSUME r.pc = "restoreLines"
        PROVE  r.row \in Sale /\ sale'[r.row].trx # 0
    BY <2>4 DEF NumbersKnown, NumbersGrow
  <2>5. /\ r.pc = "saleNumber" => r.row = NoSale
        /\ (r.pc \in SalePCs /\ r.order # NoOrder) =>
              r.store = OrderStore[r.order]
    BY DEF NumbersKnown
  <2> QED
    BY <2>2, <2>3, <2>4, <2>5 DEF NumbersKnown
<1>2. StockKnown(r)'
  <2>1. /\ r.pc \in SalePCs => r.todo \subseteq Items(r.cart)
        /\ r.pc \in {"saleInvoice", "saleInsert"} => r.todo = {}
    BY DEF StockKnown
  <2>2. ASSUME r.pc \in SalePCs, NEW p \in Product \ touched'
        PROVE  /\ p \in Items(r.cart) \ r.todo =>
                     r.read /\ r.now[p] + r.cart[p] = stock'[p]
               /\ r.read => r.shot[p] >= stock'[p]
    <3>1. /\ p \in Product \ touched
          /\ stock'[p] <= stock[p]
          /\ p \in LockedRows(r) => stock'[p] = stock[p]
      BY <2>2 DEF StockKept
    <3>2. /\ p \in Items(r.cart) \ r.todo =>
                r.read /\ r.now[p] + r.cart[p] = stock[p]
          /\ r.read => r.shot[p] >= stock[p]
      BY <2>2, <3>1 DEF StockKnown
    <3>3. p \in Items(r.cart) \ r.todo => p \in LockedRows(r)
      BY <2>2 DEF LockedRows, InTransaction
    <3>4. stock[p] \in Nat /\ stock'[p] \in Nat /\ r.shot[p] \in Nat
      BY JobFields DEF TypeOK
    <3> QED
      BY <3>1, <3>2, <3>3, <3>4
  <2> QED
    BY <2>1, <2>2 DEF StockKnown, Items
<1> QED
  BY <1>1, <1>2

\* A step that writes tables, by which at most handler j moves, into a row
\* that holds no locks.
LEMMA DataStep ==
  ASSUME SalesInv, TypeOK', RowsSound', NumbersGapFree', StockMatchesSales',
         NumbersGrow, NEW J \in SUBSET Job, StockKept(J),
         \A j \in Job \ J : /\ NumbersKnown(job[j])' /\ StockKnown(job[j])'
                            /\ Locked(j)' = {}
  PROVE  SalesInv'
<1>1. \A j \in Job : NumbersKnown(job[j])' /\ StockKnown(job[j])'
  <2> SUFFICES ASSUME NEW j \in J
               PROVE  NumbersKnown(job[j])' /\ StockKnown(job[j])'
    OBVIOUS
  <2> DEFINE r == job[j]
  <2>1. /\ r \in JobRow /\ NumbersKnown(r) /\ StockKnown(r)
        /\ job'[j] = r
        /\ \A p \in LockedRows(r) \ touched' : stock'[p] = stock[p]
    BY DEF SalesInv, TypeOK, StockKept, Locked, LockedRows
  <2>2. ASSUME NEW q \in JobRow, q = job[j]
        PROVE  NumbersKnown(q)' /\ StockKnown(q)'
    BY <2>1, <2>2, KnownKept DEF SalesInv
  <2> QED
    BY <2>1, <2>2
<1>2. \A j \in J : Locked(j)' = Locked(j)
  BY DEF StockKept, Locked, Items
<1>3. LocksExclusive'
  <2>1. \A j, k \in Job : j # k => Locked(j) \cap Locked(k) = {}
    BY DEF SalesInv, LocksExclusive
  <2> QED
    BY <1>2, <2>1 DEF LocksExclusive
<1> QED
  BY <1>1, <1>3 DEF SalesInv

\* A step that only moves handler j, to a row of which the invariant holds.
LEMMA JobStep ==
  ASSUME SalesInv, UNCHANGED <<stock, sale, sold, touched>>,
         NEW j \in Job, NEW r \in JobRow, job' = [job EXCEPT ![j] = r],
         NumbersKnown(r), StockKnown(r),
         \A k \in Job \ {j} : LockedRows(r) \cap Locked(k) = {}
  PROVE  SalesInv'
<1>1. /\ TypeOK' /\ \A k \in Job \ {j} : job'[k] = job[k]
      /\ job'[j] = r
  BY DEF SalesInv, TypeOK
<1>2. RowsSound' /\ NumbersGapFree' /\ StockMatchesSales'
  BY DEF SalesInv, RowsSound, NumbersGapFree, Numbered, StockMatchesSales
<1>3. \A k \in Job : NumbersKnown(job[k])' /\ StockKnown(job[k])'
  <2>1. NumbersKnown(r)' /\ StockKnown(r)'
    BY DEF NumbersKnown, StockKnown, Numbered, Items
  <2>2. ASSUME NEW k \in Job \ {j}, NEW q \in JobRow, q = job[k]
        PROVE  NumbersKnown(q)' /\ StockKnown(q)'
    <3>1. NumbersKnown(q) /\ StockKnown(q)
      BY <2>2 DEF SalesInv
    <3> QED
      BY <3>1 DEF NumbersKnown, StockKnown, Numbered, Items
  <2>3. \A k \in Job : job[k] \in JobRow
    BY DEF SalesInv, TypeOK
  <2> QED
    BY <1>1, <2>1, <2>2, <2>3
<1>4. LocksExclusive'
  <2>1. /\ Locked(j)' = LockedRows(r)
        /\ \A k \in Job \ {j} : Locked(k)' = Locked(k)
    BY <1>1 DEF Locked, LockedRows, Items
  <2>2. \A k, l \in Job : k # l => Locked(k) \cap Locked(l) = {}
    BY DEF SalesInv, LocksExclusive
  <2>3. ASSUME NEW k \in Job, NEW l \in Job, k # l
        PROVE  Locked(k)' \cap Locked(l)' = {}
    <3>1. CASE k = j
      BY <2>1, <2>3, <3>1
    <3>2. CASE l = j
      BY <2>1, <2>3, <3>2
    <3>3. CASE k # j /\ l # j
      BY <2>1, <2>2, <2>3, <3>3
    <3> QED
      BY <3>1, <3>2, <3>3
  <2> QED
    BY <2>3 DEF LocksExclusive
<1> QED
  BY <1>1, <1>2, <1>3, <1>4 DEF SalesInv

\* A handler that ends, or fails, knows nothing and holds no locks.
LEMMA DoneStep ==
  ASSUME SalesInv, UNCHANGED <<stock, sale, sold, touched>>,
         NEW j \in Job, Done(j)
  PROVE  SalesInv'
<1>1. NumbersKnown(IdleJob) /\ StockKnown(IdleJob)
  BY DEF IdleJob, NumbersKnown, StockKnown, Completing, SalePCs
<1>2. LockedRows(IdleJob) = {}
  BY DEF IdleJob, LockedRows, InTransaction, SalePCs
<1> QED
  BY <1>1, <1>2, IdleJobType, JobStep DEF Done

----------------------------------------------------------------------------
(* Actions that move one handler *)

\* What holds of the row of handler j.
LEMMA JobKnown ==
  ASSUME SalesInv, NEW j \in Job
  PROVE  /\ job[j] \in JobRow
         /\ NumbersKnown(job[j]) /\ StockKnown(job[j])
         /\ \A k \in Job \ {j} : LockedRows(job[j]) \cap Locked(k) = {}
<1>1. \A k \in Job : Locked(k) = LockedRows(job[k])
  BY DEF Locked, LockedRows
<1> QED
  BY <1>1 DEF SalesInv, TypeOK, LocksExclusive

\* A checkout begins with all lines to do and its order's store.
LEMMA SaleStartKeeps ==
  ASSUME SalesInv, NEW j \in Job, NEW t \in Store, NEW c \in Carts,
         NEW o \in Order \cup {NoOrder}, SaleStart(j, t, c, o)
  PROVE  SalesInv'
<1> DEFINE r == [IdleJob EXCEPT !.pc = "saleNumber", !.store = t,
                    !.cart = c, !.order = o, !.todo = Items(c)]
<1>1. /\ r.pc = "saleNumber" /\ r.row = NoSale /\ r.store = t
      /\ r.cart = c /\ r.order = o /\ r.todo = Items(c)
      /\ r.read = FALSE
  BY DEF IdleJob
<1>2. r \in JobRow
  BY IdleJobType, SalesAssumption DEF JobRow, IdleJob, PC, Items
<1>3. NumbersKnown(r)
  BY <1>1 DEF SaleStart, NumbersKnown, Completing
<1>4. StockKnown(r)
  BY <1>1 DEF StockKnown
<1>5. LockedRows(r) = {}
  BY <1>1 DEF LockedRows
<1>6. job' = [job EXCEPT ![j] = r] /\ UNCHANGED <<stock, sale, sold, touched>>
  BY DEF SaleStart
<1> HIDE DEF r
<1> QED
  BY <1>2, <1>3, <1>4, <1>5, <1>6, JobStep

\* The number is the next of the store, whatever has been counted before.
LEMMA SaleNumberKeeps ==
  ASSUME SalesInv, NEW j \in Job, SaleNumber(j)
  PROVE  SalesInv'
<1> DEFINE r == [job[j] EXCEPT !.pc = "saleLines",
                               !.trx = NextTrx(job[j].store)]
<1>1. /\ job[j] \in JobRow /\ NumbersKnown(job[j]) /\ StockKnown(job[j])
      /\ \A k \in Job \ {j} : LockedRows(job[j]) \cap Locked(k) = {}
      /\ job[j].pc = "saleNumber"
  BY JobKnown DEF SaleNumber
<1>2. /\ job[j].store \in Store
      /\ Cardinality(Numbered(job[j].store)) \in Nat
      /\ NextTrx(job[j].store) = Cardinality(Numbered(job[j].store)) + 1
      /\ NextTrx(job[j].store) \in Nat
  <2>1. job[j].store \in Store
    BY <1>1, JobFields
  <2>2. Cardinality(Numbered(job[j].store)) \in Nat
    BY <2>1, NumberedFinite
  <2> QED
    BY <2>1, <2>2 DEF NextTrx
<1>3. /\ r \in JobRow /\ r.pc = "saleLines"
      /\ r.trx = Cardinality(Numbered(job[j].store)) + 1
      /\ r.row = job[j].row /\ r.store = job[j].store
      /\ r.cart = job[j].cart /\ r.order = job[j].order
      /\ r.todo = job[j].todo /\ r.read = job[j].read
      /\ r.shot = job[j].shot /\ r.now = job[j].now
  BY <1>1, <1>2 DEF JobRow, PC
<1>4. NumbersKnown(r)
  BY <1>1, <1>2, <1>3 DEF NumbersKnown, SalePCs, Completing
<1>5. StockKnown(r)
  BY <1>1, <1>3 DEF StockKnown, SalePCs
<1>6. LockedRows(r) = LockedRows(job[j])
  BY <1>1, <1>3 DEF LockedRows, InTransaction, SalePCs
<1>7. job' = [job EXCEPT ![j] = r] /\ UNCHANGED <<stock, sale, sold, touched>>
  BY <1>1 DEF SaleNumber, SalesInv, TypeOK
<1> HIDE DEF r
<1> QED
  BY <1>1, <1>3, <1>4, <1>5, <1>6, <1>7, JobStep

\* The snapshot shows at least what is in stock, and a pending row is one of
\* the order that has no number.
LEMMA SnapshotKnown ==
  ASSUME SalesInv, NEW r \in JobRow, r.pc = "saleLines",
         NumbersKnown(r), StockKnown(r), NEW q, q = WithSnapshot(r)
  PROVE  /\ q \in JobRow /\ q.read = TRUE
         /\ q.pc = r.pc /\ q.store = r.store /\ q.cart = r.cart
         /\ q.order = r.order /\ q.todo = r.todo /\ q.trx = r.trx
         /\ q.now = r.now
         /\ \A p \in Product \ touched : q.shot[p] >= stock[p]
         /\ NumbersKnown(q) /\ StockKnown(q)
<1>1. q \in JobRow
  BY SnapshotType DEF SalesInv
<1>2. CASE r.read
  BY <1>1, <1>2 DEF WithSnapshot, StockKnown, SalePCs
<1>3. CASE ~ r.read
  <2>1. /\ q.read = TRUE /\ q.shot = stock /\ q.row = PendingRow(r.order)
        /\ q.pc = r.pc /\ q.store = r.store /\ q.cart = r.cart
        /\ q.order = r.order /\ q.todo = r.todo /\ q.trx = r.trx
        /\ q.now = r.now
    BY <1>3 DEF WithSnapshot, JobRow
  <2>2. \A p \in Product : stock[p] \in Nat
    BY DEF SalesInv, TypeOK
  <2>3. StockKnown(q)
    <3>1. \A p \in Product \ touched : p \notin Items(r.cart) \ r.todo
      BY <1>3 DEF StockKnown, SalePCs
    <3> QED
      BY <2>1, <2>2, <3>1 DEF StockKnown, SalePCs
  <2>4. NumbersKnown(q)
    <3>1. ASSUME q.row # NoSale
          PROVE  /\ q.row \in Sale
                 /\ sale[q.row].status # "none" /\ sale[q.row].store = q.store
                 /\ sale[q.row].trx = 0
      <4>1. /\ q.row \in Sale /\ r.order # NoOrder
            /\ sale[q.row].order = r.order
            /\ sale[q.row].status = "pending"
        BY <2>1, <3>1, PendingRowType
      <4>2. r.store = OrderStore[r.order]
        BY <4>1 DEF NumbersKnown, SalePCs
      <4> QED
        BY <2>1, <4>1, <4>2 DEF SalesInv, RowsSound
    <3> QED
      BY <2>1, <3>1 DEF NumbersKnown, Completing, SalePCs
  <2> QED
    BY <1>1, <2>1, <2>2, <2>3, <2>4
<1> QED
  BY <1>2, <1>3

\* In a product nobody edits the snapshot cannot hide the deduction.
LEMMA SellLineKeeps ==
  ASSUME SalesInv, NEW j \in Job, NEW p \in Product, SellLine(j, p)
  PROVE  SalesInv'
<1>1. /\ job[j] \in JobRow /\ NumbersKnown(job[j]) /\ StockKnown(job[j])
      /\ \A k \in Job \ {j} : LockedRows(job[j]) \cap Locked(k) = {}
      /\ job[j].pc = "saleLines" /\ p \in job[j].todo
      /\ stock[p] >= job[j].cart[p]
      /\ \A k \in Job \ {j} : p \notin Locked(k)
  BY JobKnown DEF SellLine, LockedByOther
<1> DEFINE q == WithSnapshot(job[j])
           v == stock[p] - q.cart[p]
           r == [q EXCEPT !.todo = @ \ {p}, !.now[p] = Saved(p, v, q.shot)]
<1>2. /\ q \in JobRow /\ q.read = TRUE
      /\ q.pc = "saleLines" /\ q.cart = job[j].cart
      /\ q.todo = job[j].todo /\ q.now = job[j].now
      /\ \A x \in Product \ touched : q.shot[x] >= stock[x]
      /\ NumbersKnown(q) /\ StockKnown(q)
  BY <1>1, SnapshotKnown
<1>3. /\ q.cart \in [Product -> Nat] /\ q.shot \in [Product -> Nat]
      /\ q.now \in [Product -> Nat] /\ q.todo \in SUBSET Product
      /\ stock \in [Product -> Nat]
  BY <1>2, JobFields DEF SalesInv, TypeOK
<1>4. job' = [job EXCEPT ![j] = r] /\ UNCHANGED <<stock, sale, sold, touched>>
  BY DEF SellLine
<1> HIDE DEF q
<1>5. v \in Nat /\ v + q.cart[p] = stock[p] /\ q.cart[p] > 0
  <2>1. p \in Items(q.cart)
    BY <1>1, <1>2 DEF StockKnown, SalePCs
  <2> QED
    BY <1>1, <1>2, <1>3, <2>1 DEF Items
<1>6. Saved(p, v, q.shot) \in Nat
  BY <1>3, <1>5 DEF Saved
<1>7. p \notin touched => Saved(p, v, q.shot) = v
  BY <1>2, <1>3, <1>5 DEF Saved
<1>8. /\ r \in JobRow /\ r.pc = q.pc /\ r.row = q.row /\ r.store = q.store
      /\ r.cart = q.cart /\ r.order = q.order /\ r.trx = q.trx
      /\ r.read = TRUE /\ r.shot = q.shot
      /\ r.todo = q.todo \ {p}
      /\ r.now = [q.now EXCEPT ![p] = Saved(p, v, q.shot)]
  BY <1>2, <1>3, <1>6 DEF JobRow
<1> HIDE DEF r
<1>9. NumbersKnown(r)
  BY <1>2, <1>8 DEF NumbersKnown
<1>10. StockKnown(r)
  <2>1. ASSUME NEW x \in Product \ touched, x \in Items(r.cart) \ r.todo
        PROVE  r.now[x] + r.cart[x] = stock[x]
    <3>1. CASE x = p
      BY <1>3, <1>5, <1>7, <1>8, <2>1, <3>1
    <3>2. CASE x # p
      <4>1. q.now[x] + q.cart[x] = stock[x]
        BY <1>2, <1>8, <2>1, <3>2 DEF StockKnown, SalePCs
      <4> QED
        BY <1>3, <1>8, <3>2, <4>1
    <3> QED
      BY <3>1, <3>2
  <2>2. r.todo \subseteq Items(r.cart)
    BY <1>2, <1>8 DEF StockKnown, SalePCs
  <2> QED
    BY <1>2, <1>8, <2>1, <2>2 DEF StockKnown
<1>11. \A k \in Job \ {j} : LockedRows(r) \cap Locked(k) = {}
  <2>1. LockedRows(r) \subseteq LockedRows(job[j]) \cup {p}
    BY <1>1, <1>2, <1>8 DEF LockedRows, InTransaction, SalePCs
  <2> QED
    BY <1>1, <2>1
<1> QED
  BY <1>4, <1>8, <1>9, <1>10, <1>11, JobStep

\* After the lines the snapshot is taken in any case.
LEMMA SaleReadKeeps ==
  ASSUME SalesInv, NEW j \in Job, SaleRead(j)
  PROVE  SalesInv'
<1>1. /\ job[j] \in JobRow /\ NumbersKnown(job[j]) /\ StockKnown(job[j])
      /\ \A k \in Job \ {j} : LockedRows(job[j]) \cap Locked(k) = {}
      /\ job[j].pc = "saleLines" /\ job[j].todo = {}
  BY JobKnown DEF SaleRead
<1> DEFINE q == WithSnapshot(job[j])
           r == [q EXCEPT !.pc = "saleInvoice"]
<1>2. /\ q \in JobRow /\ q.pc = "saleLines" /\ q.cart = job[j].cart
      /\ q.todo = {} /\ NumbersKnown(q) /\ StockKnown(q)
  BY <1>1, SnapshotKnown
<1>3. job' = [job EXCEPT ![j] = r] /\ UNCHANGED <<stock, sale, sold, touched>>
  BY DEF SaleRead
<1> HIDE DEF q
<1>4. /\ r \in JobRow /\ r.pc = "saleInvoice" /\ r.row = q.row
      /\ r.store = q.store /\ r.cart = q.cart /\ r.order = q.order
      /\ r.trx = q.trx /\ r.read = q.read /\ r.shot = q.shot
      /\ r.todo = q.todo /\ r.now = q.now
  BY <1>2 DEF JobRow, PC
<1> HIDE DEF r
<1>5. NumbersKnown(r)
  BY <1>2, <1>4 DEF NumbersKnown, Completing, SalePCs
<1>6. StockKnown(r)
  BY <1>2, <1>4 DEF StockKnown, SalePCs
<1>7. LockedRows(r) = LockedRows(job[j])
  BY <1>1, <1>2, <1>4 DEF LockedRows, InTransaction, SalePCs
<1> QED
  BY <1>1, <1>3, <1>4, <1>5, <1>6, <1>7, JobStep

\* The invoice number is generated, nothing else.
LEMMA SaleInvoiceKeeps ==
  ASSUME SalesInv, NEW j \in Job, SaleInvoice(j)
  PROVE  SalesInv'
<1>1. /\ job[j] \in JobRow /\ NumbersKnown(job[j]) /\ StockKnown(job[j])
      /\ \A k \in Job \ {j} : LockedRows(job[j]) \cap Locked(k) = {}
      /\ job[j].pc = "saleInvoice"
  BY JobKnown DEF SaleInvoice
<1> DEFINE r == [job[j] EXCEPT !.pc = "saleInsert",
                               !.inv = NextInv(job[j].store)]
<1>2. NextInv(job[j].store) \in Nat
  <2>1. Invoiced(job[j].store) \subseteq Sale
    BY DEF Invoiced
  <2>2. Cardinality(Invoiced(job[j].store)) \in Nat
    BY <2>1, SalesAssumption, FS_Subset, FS_CardinalityType
  <2> QED
    BY <2>2 DEF NextInv
<1>3. /\ r \in JobRow /\ r.pc = "saleInsert" /\ r.row = job[j].row
      /\ r.store = job[j].store /\ r.cart = job[j].cart
      /\ r.order = job[j].order /\ r.trx = job[j].trx
      /\ r.read = job[j].read /\ r.shot = job[j].shot
      /\ r.todo = job[j].todo /\ r.now = job[j].now
  BY <1>1, <1>2 DEF JobRow, PC
<1>4. job' = [job EXCEPT ![j] = r] /\ UNCHANGED <<stock, sale, sold, touched>>
  BY <1>1 DEF SaleInvoice, SalesInv, TypeOK
<1> HIDE DEF r
<1>5. NumbersKnown(r)
  BY <1>1, <1>3 DEF NumbersKnown, Completing, SalePCs
<1>6. StockKnown(r)
  BY <1>1, <1>3 DEF StockKnown, SalePCs
<1>7. LockedRows(r) = LockedRows(job[j])
  BY <1>1, <1>3 DEF LockedRows, InTransaction, SalePCs
<1> QED
  BY <1>1, <1>3, <1>4, <1>5, <1>6, <1>7, JobStep

\* A restore begins with the lines of a completed sale, which has a number.
LEMMA RestoreStartKeeps ==
  ASSUME SalesInv, NEW j \in Job, NEW s \in Sale,
         NEW m \in {"voided", "refunded"}, RestoreStart(j, s, m)
  PROVE  SalesInv'
<1> DEFINE r == [IdleJob EXCEPT
                   !.pc = "restoreLines", !.row = s, !.mark = m,
                   !.cart = sale[s].cart, !.todo = Items(sale[s].cart),
                   !.read = TRUE, !.shot = stock]
<1>1. /\ r.pc = "restoreLines" /\ r.row = s /\ r.cart = sale[s].cart
      /\ r.todo = Items(sale[s].cart)
  BY DEF IdleJob
<1>2. r \in JobRow
  <2>1. sale[s].cart \in Cart /\ stock \in [Product -> Nat]
    BY DEF SalesInv, TypeOK, SaleRow
  <2> QED
    BY <2>1, IdleJobType DEF JobRow, IdleJob, PC, Items
<1>3. sale[s].trx # 0
  BY DEF RestoreStart, SalesInv, RowsSound
<1>4. NumbersKnown(r)
  BY <1>1, <1>3 DEF NumbersKnown, Completing, SalePCs
<1>5. StockKnown(r)
  BY <1>1 DEF StockKnown, SalePCs
<1>6. LockedRows(r) = {}
  BY <1>1 DEF LockedRows
<1>7. job' = [job EXCEPT ![j] = r] /\ UNCHANGED <<stock, sale, sold, touched>>
  BY DEF RestoreStart
<1> HIDE DEF r
<1> QED
  BY <1>2, <1>4, <1>5, <1>6, <1>7, JobStep

\* A restore locks one row more.
LEMMA RestoreLineKeeps ==
  ASSUME SalesInv, NEW j \in Job, NEW p \in Product, RestoreLine(j, p)
  PROVE  SalesInv'
<1> DEFINE v == Saved(p, stock[p] + job[j].cart[p], job[j].shot)
           r == [job[j] EXCEPT !.todo = @ \ {p}, !.now[p] = v]
<1>1. /\ job[j] \in JobRow /\ NumbersKnown(job[j])
      /\ \A k \in Job \ {j} : LockedRows(job[j]) \cap Locked(k) = {}
      /\ job[j].pc = "restoreLines"
      /\ \A k \in Job \ {j} : p \notin Locked(k)
  BY JobKnown DEF RestoreLine, LockedByOther
<1>2. v \in Nat
  <2>1. /\ job[j].cart \in [Product -> Nat] /\ stock \in [Product -> Nat]
    BY <1>1, JobFields DEF SalesInv, TypeOK
  <2> QED
    BY <2>1 DEF Saved
<1>3. job' = [job EXCEPT ![j] = r] /\ UNCHANGED <<stock, sale, sold, touched>>
  BY <1>1 DEF RestoreLine, SalesInv, TypeOK
<1> HIDE DEF v
<1>4. /\ r \in JobRow /\ r.pc = "restoreLines" /\ r.row = job[j].row
      /\ r.cart = job[j].cart /\ r.todo = job[j].todo \ {p}
  BY <1>1, <1>2 DEF JobRow, PC
<1> HIDE DEF r
<1>5. NumbersKnown(r)
  BY <1>1, <1>4 DEF NumbersKnown, Completing, SalePCs
<1>6. StockKnown(r)
  BY <1>4 DEF StockKnown, SalePCs
<1>7. \A k \in Job \ {j} : LockedRows(r) \cap Locked(k) = {}
  <2>1. LockedRows(r) \subseteq LockedRows(job[j]) \cup {p}
    BY <1>1, <1>4 DEF LockedRows, InTransaction
  <2> QED
    BY <1>1, <2>1
<1> QED
  BY <1>3, <1>4, <1>5, <1>6, <1>7, JobStep

\* An edit reads one product.
LEMMA EditStartKeeps ==
  ASSUME SalesInv, NEW j \in Job, NEW p \in Product, EditStart(j, p)
  PROVE  SalesInv'
<1> DEFINE r == [IdleJob EXCEPT !.pc = "editSave", !.todo = {p},
                                !.now[p] = stock[p]]
<1>1. r.pc = "editSave"
  BY DEF IdleJob
<1>2. r \in JobRow
  <2>1. stock[p] \in Nat
    BY DEF SalesInv, TypeOK
  <2> QED
    BY <2>1, IdleJobType DEF JobRow, IdleJob, PC, EmptyCart
<1>3. NumbersKnown(r) /\ StockKnown(r) /\ LockedRows(r) = {}
  BY <1>1 DEF NumbersKnown, Completing, SalePCs, StockKnown, LockedRows,
              InTransaction
<1>4. job' = [job EXCEPT ![j] = r] /\ UNCHANGED <<stock, sale, sold, touched>>
  BY DEF EditStart
<1> HIDE DEF r
<1> QED
  BY <1>2, <1>3, <1>4, JobStep

\* A delivery counts invoices.
LEMMA DeliveryStartKeeps ==
  ASSUME SalesInv, NEW j \in Job, NEW t \in Store, DeliveryStart(j, t)
  PROVE  SalesInv'
<1> DEFINE r == [IdleJob EXCEPT !.pc = "deliveryNumber", !.store = t,
                                !.inv = NextInv(t)]
<1>1. r.pc = "deliveryNumber"
  BY DEF IdleJob
<1>2. NextInv(t) \in Nat
  <2>1. Invoiced(t) \subseteq Sale
    BY DEF Invoiced
  <2>2. Cardinality(Invoiced(t)) \in Nat
    BY <2>1, SalesAssumption, FS_Subset, FS_CardinalityType
  <2> QED
    BY <2>2 DEF NextInv
<1>3. r \in JobRow
  BY <1>2, IdleJobType DEF JobRow, IdleJob, PC
<1>4. NumbersKnown(r) /\ StockKnown(r) /\ LockedRows(r) = {}
  BY <1>1 DEF NumbersKnown, Completing, SalePCs, StockKnown, LockedRows,
              InTransaction
<1>5. job' = [job EXCEPT ![j] = r] /\ UNCHANGED <<stock, sale, sold, touched>>
  BY DEF DeliveryStart
<1> HIDE DEF r
<1> QED
  BY <1>3, <1>4, <1>5, JobStep

\* A delivery's number, too, is the next of the store.
LEMMA DeliveryNumberKeeps ==
  ASSUME SalesInv, NEW j \in Job, DeliveryNumber(j)
  PROVE  SalesInv'
<1> DEFINE r == [job[j] EXCEPT !.pc = "deliveryInsert",
                               !.trx = NextTrx(job[j].store)]
<1>1. job[j] \in JobRow
  BY JobKnown
<1>2. /\ job[j].store \in Store
      /\ Cardinality(Numbered(job[j].store)) \in Nat
      /\ NextTrx(job[j].store) = Cardinality(Numbered(job[j].store)) + 1
      /\ NextTrx(job[j].store) \in Nat
  <2>1. job[j].store \in Store
    BY <1>1, JobFields
  <2>2. Cardinality(Numbered(job[j].store)) \in Nat
    BY <2>1, NumberedFinite
  <2> QED
    BY <2>1, <2>2 DEF NextTrx
<1>3. /\ r \in JobRow /\ r.pc = "deliveryInsert"
      /\ r.trx = Cardinality(Numbered(r.store)) + 1
      /\ r.store = job[j].store
  BY <1>1, <1>2 DEF JobRow, PC
<1>4. job' = [job EXCEPT ![j] = r] /\ UNCHANGED <<stock, sale, sold, touched>>
  BY <1>1 DEF DeliveryNumber, SalesInv, TypeOK
<1> HIDE DEF r
<1>5. NumbersKnown(r) /\ StockKnown(r) /\ LockedRows(r) = {}
  BY <1>2, <1>3 DEF NumbersKnown, Completing, SalePCs, StockKnown, LockedRows,
              InTransaction
<1> QED
  BY <1>3, <1>4, <1>5, JobStep

----------------------------------------------------------------------------
(* Actions that write the tables *)

\* A handler that has committed knows nothing and holds no locks.
LEMMA AtRest ==
  ASSUME NEW j \in Job,
         \/ job'[j] = IdleJob
         \/ job'[j] = [IdleJob EXCEPT !.pc = "saleReload"]
  PROVE  NumbersKnown(job[j])' /\ StockKnown(job[j])' /\ Locked(j)' = {}
<1>1. job'[j].pc \in {"idle", "saleReload"}
  BY DEF IdleJob
<1> QED
  BY <1>1 DEF NumbersKnown, StockKnown, Locked, Completing, SalePCs,
              InTransaction

\* What a checkout knows of itself when it commits.
LEMMA AtCommit ==
  ASSUME SalesInv, NEW j \in Job, NEW s \in Sale, SaleInsert(j, s)
  PROVE  /\ job[j] \in JobRow
         /\ NumbersKnown(job[j]) /\ StockKnown(job[j])
         /\ job[j].pc = "saleInsert"
         /\ job[j].store \in Store /\ job[j].cart \in [Product -> Nat]
         /\ job[j].order \in Order \cup {NoOrder}
         /\ job[j].trx \in Nat /\ job[j].inv \in Nat
         /\ job[j].now \in [Product -> Nat]
         /\ Locked(j) = Items(job[j].cart)
<1>1. /\ job[j] \in JobRow /\ NumbersKnown(job[j]) /\ StockKnown(job[j])
      /\ job[j].pc = "saleInsert"
  BY JobKnown DEF SaleInsert
<1>2. Locked(j) = Items(job[j].cart)
  BY <1>1 DEF StockKnown, Locked, InTransaction, SalePCs
<1> QED
  BY <1>1, <1>2, JobFields

\* What a checkout takes out of stock is its cart.
LEMMA SaleTakesCart ==
  ASSUME SalesInv, NEW j \in Job, NEW s \in Sale, SaleInsert(j, s)
  PROVE  /\ \A p \in Product : p \notin Items(job[j].cart) =>
                                  stock'[p] = stock[p]
         /\ \A p \in Product \ touched :
               stock'[p] \in Nat /\ stock'[p] + job[j].cart[p] = stock[p]
<1> DEFINE r == job[j]
<1>1. /\ StockKnown(r) /\ r.pc = "saleInsert" /\ Locked(j) = Items(r.cart)
      /\ r.cart \in [Product -> Nat] /\ r.now \in [Product -> Nat]
      /\ stock \in [Product -> Nat]
  BY AtCommit DEF SalesInv, TypeOK
<1>2. \A p \in Product : stock'[p] =
         IF p \in Items(r.cart) THEN r.now[p] ELSE stock[p]
  BY <1>1 DEF SaleInsert, Written
<1>3. r.todo = {}
  BY <1>1 DEF StockKnown
<1> SUFFICES ASSUME NEW p \in Product \ touched
             PROVE  stock'[p] \in Nat /\ stock'[p] + r.cart[p] = stock[p]
  BY <1>2
<1>4. CASE p \in Items(r.cart)
  <2>1. r.now[p] + r.cart[p] = stock[p]
    BY <1>1, <1>3, <1>4 DEF StockKnown, SalePCs
  <2> QED
    BY <1>1, <1>2, <1>4, <2>1
<1>5. CASE p \notin Items(r.cart)
  BY <1>1, <1>2, <1>5 DEF Items
<1> QED
  BY <1>4, <1>5

\* A row that is used belongs to the store of the checkout that writes it.
LEMMA RowOfSale ==
  ASSUME SalesInv, NEW j \in Job, NEW s \in Sale, SaleInsert(j, s)
  PROVE  /\ sale[s].status # "none" => sale[s].store = job[j].store
         /\ sale[s].trx # 0 =>
               sale[s].store = job[j].store /\ job[j].trx <= sale[s].trx
<1>1. NumbersKnown(job[j]) /\ job[j].pc = "saleInsert"
  BY AtCommit
<1>2. CASE job[j].row # NoSale
  <2>1. s = job[j].row
    BY <1>2 DEF SaleInsert, TargetRow
  <2> QED
    BY <1>1, <1>2, <2>1 DEF NumbersKnown, Completing
<1>3. CASE job[j].row = NoSale
  BY <1>3 DEF SaleInsert, TargetRow, SalesInv, RowsSound
<1> QED
  BY <1>2, <1>3

\* Its number is the next of the store or the one its row has.
LEMMA SaleGetsNumber ==
  ASSUME SalesInv, NEW j \in Job, NEW s \in Sale, SaleInsert(j, s)
  PROVE  /\ NumbersGapFree' /\ NumbersGrow /\ RowsSound'
         /\ sale'[s].store = job[j].store /\ sale'[s].trx # 0
         /\ \A u \in Sale \ {s} : sale'[u] = sale[u]
<1> DEFINE r == job[j]
           row == [status |-> "completed", store |-> r.store,
                   cart |-> r.cart, order |-> r.order,
                   trx |-> r.trx, inv |-> r.inv]
<1>1. /\ NumbersKnown(r) /\ r.pc = "saleInsert" /\ r.trx \in Nat
      /\ r.store \in Store /\ r.cart \in Cart
      /\ r.order \in Order \cup {NoOrder} /\ r.inv \in Nat
  BY AtCommit DEF Cart
<1>2. /\ row \in SaleRow /\ row.status = "completed" /\ row.trx = r.trx
      /\ row.store = r.store /\ row.order = r.order
  BY <1>1 DEF SaleRow, SaleStatus
<1>3. sale' = [sale EXCEPT ![s] = row]
  BY DEF SaleInsert
<1>4. /\ r.trx \in 1..(Cardinality(Numbered(r.store)) + 1)
      /\ r.order # NoOrder => r.store = OrderStore[r.order]
  BY <1>1 DEF NumbersKnown, Completing, SalePCs
<1>5. \A u \in Sale \ {s} : sale[u].store = r.store => sale[u].trx # r.trx
  BY <1>1 DEF SaleInsert, NumbersFree, TakenIn
<1> HIDE DEF row
<1>6. NumbersGapFree' /\ NumbersGrow
  BY <1>2, <1>3, <1>4, <1>5, RowOfSale, NumberAssigned DEF SalesInv
<1>7. r.trx # 0 /\ \A u \in Sale : sale'[u] = IF u = s THEN row ELSE sale[u]
  BY <1>1, <1>3, <1>4 DEF SalesInv, TypeOK
<1>8. RowsSound'
  BY <1>2, <1>4, <1>7 DEF SalesInv, RowsSound
<1> QED
  BY <1>2, <1>6, <1>7, <1>8

\* A checkout commits.
LEMMA SaleInsertKeeps ==
  ASSUME SalesInv, NEW j \in Job, NEW s \in Sale, SaleInsert(j, s)
  PROVE  SalesInv'
<1> DEFINE r == job[j]
           row == [status |-> "completed", store |-> r.store,
                   cart |-> r.cart, order |-> r.order,
                   trx |-> r.trx, inv |-> r.inv]
<1>1. /\ r.store \in Store /\ r.cart \in [Product -> Nat]
      /\ r.order \in Order \cup {NoOrder} /\ r.trx \in Nat /\ r.inv \in Nat
      /\ r.now \in [Product -> Nat] /\ stock \in [Product -> Nat]
      /\ sold \in [Product -> Nat] /\ Locked(j) = Items(r.cart)
  BY AtCommit DEF SalesInv, TypeOK
<1>2. /\ sale' = [sale EXCEPT ![s] = row] /\ stock' = Written(j)
      /\ sold' = [p \in Product |-> sold[p] + r.cart[p]]
      /\ job' = [job EXCEPT ![j] = [IdleJob EXCEPT !.pc = "saleReload"]]
      /\ touched' = touched
  BY DEF SaleInsert
<1>3. \A p \in Product \ touched :
         stock'[p] \in Nat /\ stock'[p] + r.cart[p] = stock[p]
  BY SaleTakesCart
<1>4. TypeOK'
  <2>1. row \in SaleRow
    BY <1>1 DEF SaleRow, SaleStatus, Cart
  <2>2. job' \in [Job -> JobRow]
    BY <1>2, IdleJobType DEF SalesInv, TypeOK, JobRow, PC
  <2>3. stock' \in [Product -> Nat]
    BY <1>1, <1>2 DEF Written
  <2>4. sold' \in [Product -> Nat]
    BY <1>1, <1>2
  <2> QED
    BY <1>2, <2>1, <2>2, <2>3, <2>4 DEF SalesInv, TypeOK
<1>5. NumbersGapFree' /\ NumbersGrow /\ RowsSound'
  BY SaleGetsNumber
<1>6. StockMatchesSales'
  <2>1. \A p \in Product : InitialStock[p] \in Nat
    BY SalesAssumption
  <2>2. \A p \in Product \ touched : stock[p] + sold[p] = InitialStock[p]
    BY DEF SalesInv, StockMatchesSales
  <2> QED
    BY <1>1, <1>2, <1>3, <2>1, <2>2 DEF StockMatchesSales
<1>7. StockKept(Job \ {j})
  <2>1. \A p \in Product \ touched' : stock'[p] <= stock[p]
    BY <1>1, <1>2, <1>3
  <2>2. ASSUME NEW k \in Job \ {j}
        PROVE  /\ job'[k] = job[k]
               /\ \A p \in Locked(k) \ touched' : stock'[p] = stock[p]
    <3>1. job'[k] = job[k]
      BY <1>2 DEF SalesInv, TypeOK
    <3>2. Locked(k) \subseteq Product
      BY DEF Locked, Items
    <3>3. \A p \in Locked(k) : p \notin Items(r.cart)
      BY <1>1 DEF SalesInv, LocksExclusive
    <3> QED
      BY <3>1, <3>2, <3>3, SaleTakesCart
  <2> QED
    BY <1>2, <2>1, <2>2 DEF StockKept
<1>8. NumbersKnown(job[j])' /\ StockKnown(job[j])' /\ Locked(j)' = {}
  <2>1. job'[j] = [IdleJob EXCEPT !.pc = "saleReload"]
    BY <1>2 DEF SalesInv, TypeOK
  <2> QED
    BY <2>1, AtRest
<1> HIDE DEF r
<1>9. \A k \in Job \ (Job \ {j}) : k = j
  OBVIOUS
<1> QED
  BY <1>4, <1>5, <1>6, <1>7, <1>8, <1>9, DataStep

\* A step that writes stock only where it is touched keeps the balance.
LEMMA BalanceKept ==
  ASSUME SalesInv, touched \subseteq touched', sold' = sold,
         \A p \in Product \ touched' : stock'[p] = stock[p]
  PROVE  StockMatchesSales'
  BY DEF SalesInv, StockMatchesSales

\* Nor does it disturb handlers that do not move.
LEMMA TouchingStockKept ==
  ASSUME SalesInv, NEW J \in SUBSET Job, touched \subseteq touched',
         \A p \in Product \ touched' : stock'[p] = stock[p],
         \A k \in J : job'[k] = job[k]
  PROVE  StockKept(J)
<1>1. \A p \in Product : stock[p] \in Nat
  BY DEF SalesInv, TypeOK
<1>2. \A k \in J : Locked(k) \subseteq Product
  BY DEF Locked, Items
<1> QED
  BY <1>1, <1>2 DEF StockKept

\* A restore writes only products it marks as touched, and no number.
LEMMA RestoreCommitKeeps ==
  ASSUME SalesInv, NEW j \in Job, RestoreCommit(j)
  PROVE  SalesInv'
<1> DEFINE r == job[j]
<1>1. r \in JobRow /\ NumbersKnown(r) /\ r.pc = "restoreLines"
  BY JobKnown DEF RestoreCommit
<1>2. /\ r.cart \in [Product -> Nat] /\ r.now \in [Product -> Nat]
      /\ r.mark \in {"voided", "refunded"}
      /\ r.row \in Sale /\ sale[r.row].trx # 0
  BY <1>1, JobFields DEF NumbersKnown
<1>3. /\ sale' = [sale EXCEPT ![r.row].status = r.mark]
      /\ stock' = Written(j)
      /\ touched' = touched \cup Items(r.cart)
      /\ job' = [job EXCEPT ![j] = IdleJob] /\ sold' = sold
  BY DEF RestoreCommit, Done
<1>4. \A p \in Product \ touched' : stock'[p] = stock[p]
  BY <1>3 DEF Written, Locked
<1>5. TypeOK'
  <2>1. job' \in [Job -> JobRow]
    BY <1>3, IdleJobType DEF SalesInv, TypeOK
  <2>2. stock' \in [Product -> Nat]
    BY <1>2, <1>3 DEF Written, SalesInv, TypeOK
  <2>3. sale' \in [Sale -> SaleRow]
    BY <1>2, <1>3 DEF SalesInv, TypeOK, SaleRow, SaleStatus
  <2>4. touched' \subseteq Product
    BY <1>3 DEF SalesInv, TypeOK, Items
  <2> QED
    BY <1>3, <2>1, <2>2, <2>3, <2>4 DEF SalesInv, TypeOK
<1>6. \A u \in Sale : /\ sale'[u].trx = sale[u].trx
                      /\ sale'[u].store = sale[u].store
                      /\ sale'[u].order = sale[u].order
                      /\ sale'[u].status = IF u = r.row THEN r.mark
                                                       ELSE sale[u].status
  BY <1>2, <1>3 DEF SalesInv, TypeOK, SaleRow
<1>7. RowsSound'
  BY <1>2, <1>6 DEF SalesInv, RowsSound
<1>8. NumbersGapFree' /\ NumbersGrow
  BY <1>2, <1>6, NumbersUntouched DEF SalesInv
<1>9. touched \subseteq touched' /\ \A k \in Job \ {j} : job'[k] = job[k]
  BY <1>3 DEF SalesInv, TypeOK
<1>10. StockMatchesSales' /\ StockKept(Job \ {j})
  BY <1>3, <1>4, <1>9, BalanceKept, TouchingStockKept
<1>11. NumbersKnown(job[j])' /\ StockKnown(job[j])' /\ Locked(j)' = {}
  <2>1. job'[j] = IdleJob
    BY <1>3 DEF SalesInv, TypeOK
  <2> QED
    BY <2>1, AtRest
<1> HIDE DEF r
<1>12. \A k \in Job \ (Job \ {j}) : k = j
  OBVIOUS
<1> QED
  BY <1>5, <1>7, <1>8, <1>10, <1>11, <1>12, DataStep

\* Opening an order writes a row without a number.
LEMMA OpenOrderKeeps ==
  ASSUME SalesInv, NEW s \in Sale, NEW o \in Order, NEW c \in Carts,
         OpenOrder(s, o, c)
  PROVE  SalesInv'
<1> DEFINE row == [BlankSale EXCEPT !.status = "pending",
                     !.store = OrderStore[o], !.cart = c, !.order = o]
<1>1. /\ row \in SaleRow /\ row.status = "pending" /\ row.trx = 0
      /\ row.store = OrderStore[o] /\ row.order = o
  BY BlankSaleType, SalesAssumption DEF SaleRow, BlankSale, SaleStatus
<1>2. /\ sale' = [sale EXCEPT ![s] = row] /\ sale[s].status = "none"
      /\ UNCHANGED <<stock, job, sold, touched>>
  BY DEF OpenOrder
<1> HIDE DEF row
<1>3. sale[s].trx = 0
  BY <1>2 DEF SalesInv, RowsSound
<1>4. TypeOK'
  BY <1>1, <1>2 DEF SalesInv, TypeOK
<1>5. \A u \in Sale : sale'[u] = IF u = s THEN row ELSE sale[u]
  BY <1>2 DEF SalesInv, TypeOK
<1>6. RowsSound'
  BY <1>1, <1>5 DEF SalesInv, RowsSound
<1>7. \A u \in Sale :
         /\ sale'[u].trx = sale[u].trx
         /\ sale[u].status # "none" =>
               sale'[u].status # "none" /\ sale'[u].store = sale[u].store
  BY <1>1, <1>2, <1>3, <1>5
<1>8. NumbersGapFree' /\ NumbersGrow
  BY <1>7, NumbersUntouched DEF SalesInv
<1>9. StockMatchesSales' /\ StockKept(Job)
  BY <1>2, BalanceKept, TouchingStockKept
<1> QED
  BY <1>4, <1>6, <1>8, <1>9, DataStep

\* Steps that write stock of touched products and no sale, by which at most
\* one handler moves, to its end.
LEMMA TouchStep ==
  ASSUME SalesInv, TypeOK', sale' = sale, sold' = sold,
         touched \subseteq touched',
         \A p \in Product \ touched' : stock'[p] = stock[p],
         \A j \in Job : job'[j] \in {job[j], IdleJob}
  PROVE  SalesInv'
<1> DEFINE J == {j \in Job : job'[j] = job[j]}
<1>1. RowsSound' /\ NumbersGapFree' /\ NumbersGrow
  BY NumbersUntouched DEF SalesInv, RowsSound
<1>2. StockMatchesSales' /\ StockKept(J)
  BY BalanceKept, TouchingStockKept
<1>3. ASSUME NEW j \in Job \ J
      PROVE  NumbersKnown(job[j])' /\ StockKnown(job[j])' /\ Locked(j)' = {}
  <2>1. job'[j] = IdleJob
    OBVIOUS
  <2> QED
    BY <2>1, AtRest
<1> HIDE DEF J
<1>4. J \in SUBSET Job
  BY DEF J
<1> QED
  BY <1>1, <1>2, <1>3, <1>4, DataStep

\* An edit touches the product it writes back.
LEMMA EditOverwritesKeeps ==
  ASSUME SalesInv, NEW j \in Job, EditOverwrites(j)
  PROVE  SalesInv'
<1>1. /\ job[j].todo \subseteq Product /\ job[j].now \in [Product -> Nat]
  BY JobKnown, JobFields
<1>2. /\ stock' = [p \in Product |-> IF p \in job[j].todo THEN job[j].now[p]
                                                        ELSE stock[p]]
      /\ touched' = touched \cup job[j].todo
      /\ job' = [job EXCEPT ![j] = IdleJob]
      /\ sale' = sale /\ sold' = sold
  BY DEF EditOverwrites, Done
<1>3. TypeOK'
  BY <1>1, <1>2, IdleJobType DEF SalesInv, TypeOK
<1>4. \A k \in Job : job'[k] \in {job[k], IdleJob}
  BY <1>2 DEF SalesInv, TypeOK
<1> QED
  BY <1>2, <1>3, <1>4, TouchStep

\* So does setting a stock.
LEMMA SetStockKeeps ==
  ASSUME SalesInv, NEW p \in Product, NEW n \in StockValues, SetStock(p, n)
  PROVE  SalesInv'
<1>1. /\ stock' = [stock EXCEPT ![p] = n] /\ touched' = touched \cup {p}
      /\ sale' = sale /\ job' = job /\ sold' = sold /\ n \in Nat
  BY SalesAssumption DEF SetStock
<1>2. TypeOK'
  BY <1>1 DEF SalesInv, TypeOK
<1>3. \A q \in Product \ touched' : stock'[q] = stock[q]
  BY <1>1 DEF SalesInv, TypeOK
<1> QED
  BY <1>1, <1>2, <1>3, TouchStep

\* A delivery inserts a row with the next number of its store.
LEMMA DeliveryGetsNumber ==
  ASSUME SalesInv, NEW j \in Job, NEW s \in Sale, DeliveryInsert(j, s)
  PROVE  /\ NumbersGapFree' /\ NumbersGrow /\ RowsSound'
         /\ sale' \in [Sale -> SaleRow]
         /\ job[j].store \in Store /\ sale'[s].store = job[j].store
         /\ sale[s].trx = 0 /\ sale'[s].trx # 0
         /\ \A u \in Sale \ {s} : sale'[u] = sale[u]
<1> DEFINE r == job[j]
           row == [BlankSale EXCEPT !.status = "completed",
                     !.store = r.store, !.trx = r.trx, !.inv = r.inv]
<1>1. r \in JobRow /\ NumbersKnown(r) /\ r.pc = "deliveryInsert"
  BY JobKnown DEF DeliveryInsert
<1>2. /\ r.store \in Store /\ r.trx \in Nat /\ r.inv \in Nat
      /\ r.trx \in 1..(Cardinality(Numbered(r.store)) + 1)
  BY <1>1, JobFields DEF NumbersKnown
<1>3. sale' = [sale EXCEPT ![s] = row] /\ sale[s].status = "none"
  BY DEF DeliveryInsert
<1>4. /\ row \in SaleRow /\ row.status = "completed" /\ row.trx = r.trx
      /\ row.store = r.store /\ row.order = NoOrder
  BY <1>2, BlankSaleType DEF SaleRow, BlankSale, SaleStatus
<1>5. \A u \in Sale \ {s} : sale[u].store = r.store => sale[u].trx # r.trx
  BY <1>2 DEF DeliveryInsert, NumbersFree, TakenIn
<1>6. sale[s].trx = 0
  BY <1>3 DEF SalesInv, RowsSound
<1> HIDE DEF row
<1>7. NumbersGapFree' /\ NumbersGrow
  BY <1>2, <1>3, <1>4, <1>5, <1>6, NumberAssigned DEF SalesInv
<1>8. /\ r.trx # 0 /\ sale' \in [Sale -> SaleRow]
      /\ \A u \in Sale : sale'[u] = IF u = s THEN row ELSE sale[u]
  BY <1>2, <1>3, <1>4 DEF SalesInv, TypeOK
<1>9. RowsSound'
  BY <1>4, <1>8 DEF SalesInv, RowsSound
<1> QED
  BY <1>2, <1>4, <1>6, <1>7, <1>8, <1>9

\* A delivery leaves stock and the other handlers alone.
LEMMA DeliveryInsertKeeps ==
  ASSUME SalesInv, NEW j \in Job, NEW s \in Sale, DeliveryInsert(j, s)
  PROVE  SalesInv'
<1>1. NumbersGapFree' /\ NumbersGrow /\ RowsSound' /\ sale' \in [Sale -> SaleRow]
  BY DeliveryGetsNumber
<1>2. /\ job' = [job EXCEPT ![j] = IdleJob]
      /\ stock' = stock /\ sold' = sold /\ touched' = touched
  BY DEF DeliveryInsert, Done
<1>3. TypeOK'
  BY <1>1, <1>2, IdleJobType DEF SalesInv, TypeOK
<1>4. job'[j] = IdleJob /\ \A k \in Job \ {j} : job'[k] = job[k]
  BY <1>2 DEF SalesInv, TypeOK
<1>5. StockMatchesSales' /\ StockKept(Job \ {j})
  BY <1>2, <1>4, BalanceKept, TouchingStockKept
<1>6. NumbersKnown(job[j])' /\ StockKnown(job[j])' /\ Locked(j)' = {}
  BY <1>4, AtRest
<1>7. \A k \in Job \ (Job \ {j}) : k = j
  OBVIOUS
<1> QED
  BY <1>1, <1>3, <1>5, <1>6, <1>7, DataStep

----------------------------------------------------------------------------
(* The theorems *)

\* Every action keeps the invariant.
LEMMA NextKeeps ==
  ASSUME SalesInv, [Next]_vars
  PROVE  SalesInv'
<1>1. ASSUME NEW j \in Job, NEW t \in Store, NEW c \in Carts,
             NEW o \in Order \cup {NoOrder}, SaleStart(j, t, c, o)
      PROVE  SalesInv'
  BY <1>1, SaleStartKeeps
<1>2. ASSUME NEW j \in Job, NEW s \in Sale, NEW m \in {"voided", "refunded"},
             RestoreStart(j, s, m)
      PROVE  SalesInv'
  BY <1>2, RestoreStartKeeps
<1>3. ASSUME NEW j \in Job, NEW p \in Product, EditStart(j, p)
      PROVE  SalesInv'
  BY <1>3, EditStartKeeps
<1>4. ASSUME NEW j \in Job, NEW t \in Store, DeliveryStart(j, t)
      PROVE  SalesInv'
  BY <1>4, DeliveryStartKeeps
<1>5. ASSUME NEW s \in Sale, NEW o \in Order, NEW c \in Carts,
             OpenOrder(s, o, c)
      PROVE  SalesInv'
  BY <1>5, OpenOrderKeeps
<1>6. ASSUME NEW p \in Product, NEW n \in StockValues, SetStock(p, n)
      PROVE  SalesInv'
  BY <1>6, SetStockKeeps
<1>7. ASSUME NEW j \in Job, Step(j)
      PROVE  SalesInv'
  <2>1. CASE SaleNumber(j)
    BY <2>1, SaleNumberKeeps
  <2>2. CASE SaleRead(j)
    BY <2>2, SaleReadKeeps
  <2>3. CASE SaleInvoice(j)
    BY <2>3, SaleInvoiceKeeps
  <2>4. ASSUME NEW p \in Product, SellLine(j, p)
        PROVE  SalesInv'
    BY <2>4, SellLineKeeps
  <2>5. ASSUME NEW p \in Product, SaleRejected(j, p)
        PROVE  SalesInv'
    BY <2>5, DoneStep DEF SaleRejected
  <2>6. ASSUME NEW p \in Product, RestoreLine(j, p)
        PROVE  SalesInv'
    BY <2>6, RestoreLineKeeps
  <2>7. ASSUME NEW s \in Sale, SaleInsert(j, s)
        PROVE  SalesInv'
    BY <2>7, SaleInsertKeeps
  <2>8. ASSUME NEW s \in Sale, DeliveryInsert(j, s)
        PROVE  SalesInv'
    BY <2>8, DeliveryInsertKeeps
  <2>9. CASE NumberTaken(j)
    BY <2>9, DoneStep DEF NumberTaken
  <2>10. CASE SaleReload(j)
    BY <2>10, DoneStep DEF SaleReload
  <2>11. CASE RestoreCommit(j)
    BY <2>11, RestoreCommitKeeps
  <2>12. CASE EditSave(j)
    BY <2>12, DoneStep DEF EditSave
  <2>13. CASE EditOverwrites(j)
    BY <2>13, EditOverwritesKeeps
  <2>14. CASE DeliveryNumber(j)
    BY <2>14, DeliveryNumberKeeps
  <2>15. CASE DeliveryUnrecorded(j)
    BY <2>15, DoneStep DEF DeliveryUnrecorded
  <2> QED
    BY <1>7, <2>1, <2>2, <2>3, <2>4, <2>5, <2>6, <2>7, <2>8, <2>9, <2>10,
       <2>11, <2>12, <2>13, <2>14, <2>15 DEF Step
<1>8. ASSUME NEW j \in Job, DeadlockVictim(j) \/ Abort(j)
      PROVE  SalesInv'
  BY <1>8, DoneStep DEF DeadlockVictim, Abort
<1>9. CASE UNCHANGED vars
  <2>1. /\ TypeOK' /\ sale' = sale /\ sold' = sold /\ touched' = touched
        /\ stock' = stock /\ job' = job
    BY <1>9 DEF vars, SalesInv, TypeOK
  <2> QED
    BY <2>1, TouchStep
<1> QED
  BY <1>1, <1>2, <1>3, <1>4, <1>5, <1>6, <1>7, <1>8, <1>9 DEF Next, Request

\* The invariant holds in the morning, before the first sale.
LEMMA InitSalesInv ==
  ASSUME Init
  PROVE  SalesInv
<1>1. TypeOK
  BY SalesAssumption, EmptyCartType, BlankSaleType, IdleJobType
     DEF Init, TypeOK, Cart
<1>2. \A s \in Sale : /\ sale[s].status = "none" /\ sale[s].trx = 0
  BY DEF Init, BlankSale
<1>3. RowsSound
  BY <1>2 DEF RowsSound
<1>4. NumbersGapFree
  <2>1. \A t \in Store : Numbered(t) = {}
    BY <1>2 DEF Numbered
  <2> QED
    BY <2>1, FS_EmptySet DEF NumbersGapFree
<1>5. StockMatchesSales
  BY SalesAssumption DEF Init, StockMatchesSales, EmptyCart
<1>6. \A j \in Job : job[j].pc = "idle"
  BY DEF Init, IdleJob
<1>7. /\ \A j \in Job : NumbersKnown(job[j]) /\ StockKnown(job[j])
      /\ LocksExclusive
  BY <1>6 DEF NumbersKnown, StockKnown, LocksExclusive, Locked, Completing,
              SalePCs, InTransaction
<1> QED
  BY <1>1, <1>3, <1>4, <1>5, <1>7 DEF SalesInv

\* The invariant of PosSales holds in every reachable state.
THEOREM SalesInvariance == Spec => []SalesInv
<1>1. Init => SalesInv
  BY InitSalesInv
<1>2. SalesInv /\ [Next]_vars => SalesInv'
  BY NextKeeps
<1> QED
  BY <1>1, <1>2, PTL DEF Spec

\* The day's transaction numbers of each store are 1 to n, whatever
\* checkouts, double checkouts of an order, deliveries and failures
\* interleave (transactions.service.ts, generateTransactionNumber).
THEOREM NumbersHaveNoGap == Spec => []NumbersGapFree
<1>1. SalesInv => NumbersGapFree
  BY DEF SalesInv
<1> QED
  BY <1>1, SalesInvariance, PTL

\* Stock and the quantities checked out add up to the initial stock, for
\* every product that nobody edits or puts back (transactions.service.ts,
\* the loop over the lines in create).
THEOREM StockIsWhatWasNotSold == Spec => []StockMatchesSales
<1>1. SalesInv => StockMatchesSales
  BY DEF SalesInv
<1> QED
  BY <1>1, SalesInvariance, PTL

----------------------------------------------------------------------------
(* PosSales implements Till *)

\* The receipts of a store are as many as its numbered rows.
LEMMA ReceiptsCounted ==
  ASSUME NEW t \in Store
  PROVE  Cardinality(Till!Receipts(t)) = Cardinality(Numbered(t))
<1> DEFINE f == [s \in Numbered(t) |-> ReceiptOf(s)]
<1>1. \A s \in Numbered(t) : f[s] \in Till!Receipts(t)
  BY DEF Numbered, Till!Receipts, ReceiptsGiven, ReceiptOf
<1>2. \A r \in Till!Receipts(t) : \E s \in Numbered(t) : f[s] = r
  BY DEF Numbered, Till!Receipts, ReceiptsGiven, ReceiptOf
<1>3. \A s, u \in Numbered(t) : f[s] = f[u] => s = u
  BY DEF ReceiptOf
<1>4. f \in Bijection(Numbered(t), Till!Receipts(t))
  <2> HIDE DEF f
  <2>1. f \in [Numbered(t) -> Till!Receipts(t)] /\ DOMAIN f = Numbered(t)
    BY <1>1 DEF f
  <2> QED
    BY <1>2, <1>3, <2>1 DEF Bijection, Injection, Surjection, IsInjective
<1>5. ExistsBijection(Numbered(t), Till!Receipts(t))
  BY <1>4 DEF ExistsBijection
<1> QED
  BY <1>5, NumberedFinite, FS_Bijection

\* Rows that keep number and store keep their receipts.
LEMMA NoReceipt ==
  ASSUME \A s \in Sale : /\ sale'[s].trx = sale[s].trx
                         /\ sale[s].trx # 0 => sale'[s].store = sale[s].store
  PROVE  ReceiptsGiven' = ReceiptsGiven
<1> DEFINE S == {s \in Sale : sale[s].trx # 0}
<1>1. \A s \in S : ReceiptOf(s)' = ReceiptOf(s)
  BY DEF ReceiptOf
<1>2. {s \in Sale : sale'[s].trx # 0} = S
  OBVIOUS
<1> QED
  BY <1>1, <1>2 DEF ReceiptsGiven

\* A row that gets the next number of its store gets the next receipt.
LEMMA OneReceipt ==
  ASSUME NEW t \in Store, NEW s \in Sale,
         NumbersGrow, sale[s].trx = 0, sale'[s].trx # 0, sale'[s].store = t,
         \A u \in Sale \ {s} : sale'[u] = sale[u]
  PROVE  Till!HandOut(t, s)
<1> DEFINE S == {u \in Sale : sale[u].trx # 0}
           r == [store |-> t, number |-> Cardinality(Till!Receipts(t)) + 1,
                 sale |-> s]
<1>1. sale'[s].trx = Cardinality(Till!Receipts(t)) + 1
  BY ReceiptsCounted DEF NumbersGrow
<1>2. ReceiptOf(s)' = r
  BY <1>1 DEF ReceiptOf
<1>3. \A u \in S : ReceiptOf(u)' = ReceiptOf(u)
  BY DEF ReceiptOf
<1>4. {u \in Sale : sale'[u].trx # 0} = S \cup {s}
  OBVIOUS
<1> HIDE DEF r
<1>5. ReceiptsGiven' = ReceiptsGiven \cup {r}
  BY <1>2, <1>3, <1>4 DEF ReceiptsGiven
<1>6. \A q \in ReceiptsGiven : q.sale # s
  BY DEF ReceiptsGiven, ReceiptOf
<1> QED
  BY <1>5, <1>6 DEF Till!HandOut, r, Till!Cardinality, Cardinality

\* Customers buy what Carts says.
Bought == \A j \in Job : job[j].pc \in SalePCs => job[j].cart \in Carts

\* A handler that moves and does not begin a checkout keeps its cart.
LEMMA CartKept ==
  ASSUME Bought, NEW j \in Job,
         \A k \in Job \ {j} : job'[k] = job[k],
         job'[j].pc \in SalePCs =>
            \/ job'[j].cart \in Carts
            \/ job[j].pc \in SalePCs /\ job'[j].cart = job[j].cart
  PROVE  Bought'
  BY DEF Bought

\* A handler that is done buys nothing.
LEMMA DoneBought ==
  ASSUME TypeOK, Bought, NEW j \in Job,
         job' = [job EXCEPT ![j] = IdleJob]
  PROVE  Bought'
<1>1. job'[j] = IdleJob /\ \A k \in Job \ {j} : job'[k] = job[k]
  BY DEF TypeOK
<1>2. job'[j].pc \notin SalePCs
  BY <1>1 DEF IdleJob, SalePCs
<1> QED
  BY <1>1, <1>2, CartKept

\* Every step of a handler keeps what it is to sell.
LEMMA StepBought ==
  ASSUME TypeOK, Bought, NEW j \in Job, Step(j)
  PROVE  Bought'
<1> USE DEF TypeOK, JobRow
<1>1. CASE SaleNumber(j)
  BY <1>1, CartKept DEF SaleNumber, SalePCs
<1>2. CASE SaleRead(j)
  BY <1>2, CartKept DEF SaleRead, WithSnapshot, SalePCs
<1>3. CASE SaleInvoice(j)
  BY <1>3, CartKept DEF SaleInvoice, SalePCs
<1>4. ASSUME NEW p \in Product, SellLine(j, p)
      PROVE  Bought'
  BY <1>4, CartKept DEF SellLine, WithSnapshot, SalePCs
<1>5. ASSUME NEW p \in Product, RestoreLine(j, p)
      PROVE  Bought'
  BY <1>5, CartKept DEF RestoreLine, SalePCs
<1>6. ASSUME NEW s \in Sale, SaleInsert(j, s)
      PROVE  Bought'
  BY <1>6, CartKept DEF SaleInsert, IdleJob, SalePCs
<1>7. CASE DeliveryNumber(j)
  BY <1>7, CartKept DEF DeliveryNumber, SalePCs
<1>8. CASE job' = [job EXCEPT ![j] = IdleJob]
  BY <1>8, DoneBought
<1> QED
  BY <1>1, <1>2, <1>3, <1>4, <1>5, <1>6, <1>7, <1>8
     DEF Step, Done, SaleRejected, DeliveryInsert, NumberTaken, SaleReload,
         RestoreCommit, EditSave, EditOverwrites, DeliveryUnrecorded

\* So does every other step.
LEMMA NextBought ==
  ASSUME TypeOK, Bought, [Next]_vars
  PROVE  Bought'
<1>1. ASSUME NEW j \in Job, NEW t \in Store, NEW c \in Carts,
             NEW o \in Order \cup {NoOrder}, SaleStart(j, t, c, o)
      PROVE  Bought'
  BY <1>1, CartKept DEF SaleStart, IdleJob, TypeOK
<1>2. ASSUME NEW j \in Job, NEW s \in Sale, NEW m \in {"voided", "refunded"},
             RestoreStart(j, s, m)
      PROVE  Bought'
  BY <1>2, CartKept DEF RestoreStart, IdleJob, SalePCs, TypeOK
<1>3. ASSUME NEW j \in Job, NEW p \in Product, EditStart(j, p)
      PROVE  Bought'
  BY <1>3, CartKept DEF EditStart, IdleJob, SalePCs, TypeOK
<1>4. ASSUME NEW j \in Job, NEW t \in Store, DeliveryStart(j, t)
      PROVE  Bought'
  BY <1>4, CartKept DEF DeliveryStart, IdleJob, SalePCs, TypeOK
<1>5. CASE UNCHANGED job
  BY <1>5 DEF Bought
<1>6. ASSUME NEW j \in Job, DeadlockVictim(j) \/ Abort(j)
      PROVE  Bought'
  BY <1>6, DoneBought DEF DeadlockVictim, Abort, Done
<1> QED
  BY <1>1, <1>2, <1>3, <1>4, <1>5, <1>6, StepBought
     DEF Next, Request, OpenOrder, SetStock, vars

\* A step that neither sells nor numbers is an adjustment of the products
\* it touches, or none that Till sees.
LEMMA AdjustStep ==
  ASSUME NEW S \in SUBSET Product, touched' = touched \cup S,
         \A p \in Product \ S : stock'[p] = stock[p], sold' = sold,
         \A s \in Sale : /\ sale'[s].trx = sale[s].trx
                         /\ sale[s].trx # 0 => sale'[s].store = sale[s].store
  PROVE  Till!Next
<1>1. Till!Adjust(S)
  BY NoReceipt DEF Till!Adjust
<1> QED
  BY <1>1 DEF Till!Next

\* A checkout is a sale when it commits.
LEMMA SaleInsertSells ==
  ASSUME SalesInv, Bought, NEW j \in Job, NEW s \in Sale, SaleInsert(j, s)
  PROVE  Till!Next
<1> DEFINE t == job[j].store
           c == job[j].cart
<1>1. /\ t \in Store /\ c \in [Product -> Nat] /\ c \in Carts
      /\ stock \in [Product -> Nat]
  BY AtCommit DEF Bought, SalePCs, SalesInv, TypeOK
<1>2. /\ NumbersGrow /\ sale'[s].store = t /\ sale'[s].trx # 0
      /\ \A u \in Sale \ {s} : sale'[u] = sale[u]
  BY SaleGetsNumber
<1>3. Till!HandOut(t, s) \/ Till!Keep(t, s)
  <2>1. CASE sale[s].trx = 0
    BY <1>1, <1>2, <2>1, OneReceipt
  <2>2. CASE sale[s].trx # 0
    <3>1. sale[s].store = t /\ sale'[s].trx = sale[s].trx
      BY <1>2, <2>2, RowOfSale DEF NumbersGrow
    <3>2. ReceiptsGiven' = ReceiptsGiven
      BY <1>2, <3>1, NoReceipt
    <3>3. ReceiptOf(s) \in Till!Receipts(t) /\ ReceiptOf(s).sale = s
      BY <2>2, <3>1 DEF Till!Receipts, ReceiptsGiven, ReceiptOf
    <3> QED
      BY <3>2, <3>3 DEF Till!Keep
  <2> QED
    BY <2>1, <2>2
<1>4. Till!Take(c)
  <2>1. sold' = [p \in Product |-> sold[p] + c[p]]
    BY DEF SaleInsert
  <2>2. /\ \A p \in Product : c[p] = 0 => stock'[p] = stock[p]
        /\ \A p \in Product \ touched :
              stock'[p] \in Nat /\ stock'[p] + c[p] = stock[p]
    BY SaleTakesCart DEF Items
  <2> HIDE DEF c
  <2> QED
    BY <1>1, <2>1, <2>2 DEF Till!Take
<1>5. touched' = touched
  BY DEF SaleInsert
<1>6. Till!Sell(t, s, c)
  BY <1>3, <1>4, <1>5 DEF Till!Sell
<1> QED
  BY <1>1, <1>6 DEF Till!Next

\* Every step of PosSales is a step of Till or one it does not see.
LEMMA StepsMap ==
  ASSUME SalesInv, Bought, [Next]_vars
  PROVE  [Till!Next]_Till!vars
<1>1. CASE UNCHANGED <<stock, sale, sold, touched>>
  BY <1>1 DEF Till!vars, ReceiptsGiven, ReceiptOf
<1>2. ASSUME NEW s \in Sale, NEW o \in Order, NEW c \in Carts,
             OpenOrder(s, o, c)
      PROVE  [Till!Next]_Till!vars
  <2>1. /\ sale[s].trx = 0 /\ sale'[s].trx = 0
        /\ \A u \in Sale \ {s} : sale'[u] = sale[u]
    BY <1>2 DEF OpenOrder, SalesInv, RowsSound, TypeOK, BlankSale
  <2>2. ReceiptsGiven' = ReceiptsGiven
    BY <2>1, NoReceipt
  <2> QED
    BY <1>2, <2>2 DEF OpenOrder, Till!vars
<1>3. ASSUME NEW p \in Product, NEW n \in StockValues, SetStock(p, n)
      PROVE  Till!Next
  BY <1>3, AdjustStep DEF SetStock, SalesInv, TypeOK
<1>4. ASSUME NEW j \in Job, EditOverwrites(j)
      PROVE  Till!Next
  <2>1. job[j].todo \in SUBSET Product
    BY JobKnown, JobFields
  <2> QED
    BY <1>4, <2>1, AdjustStep DEF EditOverwrites
<1>5. ASSUME NEW j \in Job, RestoreCommit(j)
      PROVE  Till!Next
  <2>1. Items(job[j].cart) \in SUBSET Product
    BY DEF Items
  <2>2. \A p \in Product \ Items(job[j].cart) : stock'[p] = stock[p]
    BY <1>5 DEF RestoreCommit, Written, Locked
  <2>3. job[j].row \in Sale /\ job[j].mark \in {"voided", "refunded"}
    BY <1>5, JobKnown, JobFields DEF RestoreCommit, NumbersKnown
  <2>4. \A s \in Sale : /\ sale'[s].trx = sale[s].trx
                         /\ sale'[s].store = sale[s].store
    BY <1>5, <2>3 DEF RestoreCommit, SalesInv, TypeOK, SaleRow
  <2> QED
    BY <1>5, <2>1, <2>2, <2>4, AdjustStep DEF RestoreCommit
<1>6. ASSUME NEW j \in Job, NEW s \in Sale, DeliveryInsert(j, s)
      PROVE  Till!Next
  <2>1. Till!HandOut(job[j].store, s)
    BY <1>6, DeliveryGetsNumber, OneReceipt
  <2>2. Till!Deliver(job[j].store, s)
    BY <1>6, <2>1 DEF DeliveryInsert, Till!Deliver
  <2>3. job[j].store \in Store
    BY <1>6, DeliveryGetsNumber
  <2> QED
    BY <2>2, <2>3 DEF Till!Next
<1>7. ASSUME NEW j \in Job, Step(j)
      PROVE  [Till!Next]_Till!vars
  BY <1>1, <1>4, <1>5, <1>6, <1>7, SaleInsertSells
     DEF Step, SaleNumber, SaleRead, SaleInvoice, SellLine, SaleRejected,
         RestoreLine, NumberTaken, SaleReload, EditSave, DeliveryNumber,
         DeliveryUnrecorded
<1>8. ASSUME NEW j \in Job, DeadlockVictim(j) \/ Abort(j)
      PROVE  [Till!Next]_Till!vars
  BY <1>1, <1>8 DEF DeadlockVictim, Abort
<1> QED
  BY <1>1, <1>2, <1>3, <1>7, <1>8
     DEF Next, Request, SaleStart, RestoreStart, EditStart, DeliveryStart,
         vars

\* PosSales implements Till: whatever handlers interleave, fail or are
\* rolled back, a sale is one step, which takes its cart from stock and
\* hands out the store's next receipt, and a receipt is for ever
\* (transactions.service.ts, create and generateTransactionNumber).
THEOREM SalesAreAtomic == Spec => ImplementsTill
<1>1. Init => Till!Init /\ Bought
  <2> SUFFICES ASSUME Init PROVE Till!Init /\ Bought
    OBVIOUS
  <2>1. \A s \in Sale : sale[s].trx = 0
    BY DEF Init, BlankSale
  <2>2. ReceiptsGiven = {}
    BY <2>1 DEF ReceiptsGiven
  <2>3. \A j \in Job : job[j].pc = "idle"
    BY DEF Init, IdleJob
  <2> QED
    BY <2>2, <2>3 DEF Init, Till!Init, EmptyCart, Bought, SalePCs
<1>2. SalesInv /\ Bought /\ [Next]_vars => Bought'
  BY NextBought DEF SalesInv
<1>3. SalesInv /\ Bought /\ [Next]_vars => [Till!Next]_Till!vars
  BY StepsMap
<1> QED
  BY <1>1, <1>2, <1>3, SalesInvariance, PTL
     DEF Spec, ImplementsTill, Till!Spec
=============================================================================
