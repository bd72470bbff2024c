------------------------------ MODULE Inventory ------------------------------
(***************************************************************************)
(* The stock of one product in the stores of a company: movements,         *)
(* reservations and transfers (apps/api/src/modules/inventory).            *)
(*                                                                         *)
(* Each handler runs in one database transaction at REPEATABLE READ, as in *)
(* PosSales: a plain SELECT reads the snapshot of the first one, SELECT    *)
(* ... FOR UPDATE waits and reads what is committed last, and save() first *)
(* reads the row again and updates the columns that differ from it.  A     *)
(* movement locks nothing before it saves; reserving and releasing lock    *)
(* before they read; a transfer locks its source but not its destination.  *)
(*                                                                         *)
(* The product has no variant, so that variant_id is NULL and the unique   *)
(* key on store, product and variant keeps no two rows apart.              *)
(***************************************************************************)
EXTENDS Integers, FiniteSets

CONSTANTS
    Store,
    NoStore,
    Row,          \* ids of table inventory
    NoRow,
    Job,          \* slots for concurrently running handlers
    Quantities,   \* quantities in requests
    MaxQuantity   \* bound on the stock of a row

ASSUME InventoryAssumption ==
    /\ NoStore \notin Store
    /\ NoRow \notin Row
    /\ Quantities \subseteq Nat \ {0}
    /\ MaxQuantity \in Nat

VARIABLES
    inv,       \* table inventory, as committed
    job,       \* where each running handler is and what it has read
    booked     \* history: reserved less released, by the movements logged
               \* since a transfer took the row for both its ends

vars == <<inv, job, booked>>

----------------------------------------------------------------------------
InvRow == [store: Store \cup {NoStore}, quantity: Nat, reserved: Nat]

NoInvRow == [store |-> NoStore, quantity |-> 0, reserved |-> 0]

PC == {"idle", "moveSave", "reserveSave", "releaseSave",
       "transferLock", "transferSave"}

(* ADJUSTMENT sets the stock; RETURN is like IN, and SALE like OUT.        *)
MovementType == {"in", "out", "adjustment"}

JobRow == [pc: PC, type: MovementType,
           store: Store \cup {NoStore},     \* the store, or the source
           to: Store \cup {NoStore},        \* the destination
           n: Nat,
           row: Row \cup {NoRow},           \* the row found
           quantity: Nat, reserved: Nat,    \* what it held
           shot: [Row -> InvRow]]           \* the snapshot of a transfer

IdleJob == [pc |-> "idle", type |-> "in", store |-> NoStore, to |-> NoStore,
            n |-> 0, row |-> NoRow, quantity |-> 0, reserved |-> 0,
            shot |-> [r \in Row |-> NoInvRow]]

TypeOK ==
    /\ inv \in [Row -> InvRow]
    /\ job \in [Job -> JobRow]
    /\ booked \in [Row -> Int]

Init ==
    /\ inv = [r \in Row |-> NoInvRow]
    /\ job = [j \in Job |-> IdleJob]
    /\ booked = [r \in Row |-> 0]

----------------------------------------------------------------------------
(* The database *)

RowsOf(table, t) == {r \in Row : table[r].store = t}

(* The row a query without ORDER BY finds: of the same rows, the same one.  *)
Found(table, t) ==
    IF RowsOf(table, t) = {} THEN NoRow
    ELSE CHOOSE r \in RowsOf(table, t) : TRUE

(* FOR UPDATE locks all rows of the store it scans, and the gap a new one  *)
(* would go to, until the end of the transaction.                          *)
HoldingPC == {"reserveSave", "releaseSave", "transferSave"}

Holds(j, t) == job[j].pc \in HoldingPC /\ job[j].store = t

Unlocked(j, t) == \A k \in Job \ {j} : ~ Holds(k, t)

Free(j) == job[j].pc = "idle"

Done(j) == job' = [job EXCEPT ![j] = IdleJob]

(* Bound: a handler begins only if the table has room for a row of it.     *)
Inserting(j) ==
    \/ job[j].pc = "moveSave" /\ job[j].row = NoRow
    \/ /\ job[j].pc \in {"transferLock", "transferSave"}
       /\ RowsOf(job[j].shot, job[j].to) = {}

Room == Cardinality({j \in Job : Inserting(j)})
          < Cardinality({r \in Row : inv[r].store = NoStore})

----------------------------------------------------------------------------
(* recordMovement *)

(* The snapshot shows row, or none, holding quantity.                      *)
NewQuantity(type, quantity, n) ==
    CASE type = "in"  -> quantity + n
      [] type = "out" -> quantity - n
      [] OTHER        -> n

MoveStart(j, t, type, n) ==
    LET r == Found(inv, t)
        q == IF r = NoRow THEN 0 ELSE inv[r].quantity
    IN /\ Free(j)
       /\ r = NoRow => Room
       /\ NewQuantity(type, q, n) \in 0..MaxQuantity
       /\ job' = [job EXCEPT ![j] = [IdleJob EXCEPT
                     !.pc = "moveSave", !.type = type, !.store = t,
                     !.n = n, !.row = r, !.quantity = q]]
       /\ UNCHANGED <<inv, booked>>

(* Mutant of MoveSave: the whole row is written, as it was read.           *)
MoveSaveWholeRow(j) ==
    LET h == job[j]
        q == NewQuantity(h.type, h.quantity, h.n)
    IN /\ h.pc = "moveSave"
       /\ h.row # NoRow
       /\ Unlocked(j, h.store)
       /\ inv' = [inv EXCEPT ![h.row].quantity = q,
                             ![h.row].reserved = h.reserved]
       /\ Done(j)
       /\ UNCHANGED booked

(* Writes the new quantity, unless it is the one that was read.            *)
MoveSave(j) ==
    LET h == job[j]
        q == NewQuantity(h.type, h.quantity, h.n)
    IN /\ h.pc = "moveSave"
       /\ h.row # NoRow
       /\ Unlocked(j, h.store)
       /\ inv' = IF q = h.quantity THEN inv
                 ELSE [inv EXCEPT ![h.row].quantity = q]
       /\ Done(j)
       /\ UNCHANGED booked

(* The store had no row for the product: a new one, whether or not the     *)
(* store has one by now.                                                   *)
MoveInsert(j, r) ==
    LET h == job[j]
    IN /\ h.pc = "moveSave"
       /\ h.row = NoRow
       /\ inv[r].store = NoStore
       /\ Unlocked(j, h.store)
       /\ inv' = [inv EXCEPT ![r] =
                    [store |-> h.store, reserved |-> 0,
                     quantity |-> NewQuantity(h.type, 0, h.n)]]
       /\ Done(j)
       /\ UNCHANGED booked

----------------------------------------------------------------------------
(* reserveStock and releaseStock *)

Available(r) == inv[r].quantity - inv[r].reserved

Lock(j, pc, t, n) ==
    job' = [job EXCEPT ![j] = [IdleJob EXCEPT
              !.pc = pc, !.store = t, !.n = n, !.row = Found(inv, t),
              !.quantity = inv[Found(inv, t)].quantity,
              !.reserved = inv[Found(inv, t)].reserved]]

(* Mutant of ReserveLock: checks the stock, not what is available of it.   *)
ReserveLockStock(j, t, n) ==
    /\ Free(j)
    /\ Unlocked(j, t)
    /\ Found(inv, t) # NoRow
    /\ inv[Found(inv, t)].quantity >= n
    /\ Lock(j, "reserveSave", t, n)
    /\ UNCHANGED <<inv, booked>>

ReserveLock(j, t, n) ==
    /\ Free(j)
    /\ Unlocked(j, t)
    /\ Found(inv, t) # NoRow
    /\ Available(Found(inv, t)) >= n
    /\ Lock(j, "reserveSave", t, n)
    /\ UNCHANGED <<inv, booked>>

ReserveSave(j) ==
    LET h == job[j]
    IN /\ h.pc = "reserveSave"
       /\ inv' = [inv EXCEPT ![h.row].reserved = h.reserved + h.n]
       /\ booked' = [booked EXCEPT ![h.row] = @ + h.n]
       /\ Done(j)

ReleaseLock(j, t, n) ==
    /\ Free(j)
    /\ Unlocked(j, t)
    /\ Found(inv, t) # NoRow
    /\ inv[Found(inv, t)].reserved >= n
    /\ Lock(j, "releaseSave", t, n)
    /\ UNCHANGED <<inv, booked>>

ReleaseSave(j) ==
    LET h == job[j]
    IN /\ h.pc = "releaseSave"
       /\ inv' = [inv EXCEPT ![h.row].reserved = h.reserved - h.n]
       /\ booked' = [booked EXCEPT ![h.row] = @ - h.n]
       /\ Done(j)

----------------------------------------------------------------------------
(* transferStock *)

(* Reading the product takes the snapshot.                                 *)
TransferStart(j, from, to, n) ==
    /\ Free(j)
    /\ IF RowsOf(inv, to) = {}
       THEN Room /\ n <= MaxQuantity
       ELSE inv[Found(inv, to)].quantity + n <= MaxQuantity
    /\ job' = [job EXCEPT ![j] = [IdleJob EXCEPT
                 !.pc = "transferLock", !.store = from, !.to = to, !.n = n,
                 !.shot = inv]]
    /\ UNCHANGED <<inv, booked>>

(* Mutant of TransferLock: takes reserved goods too.                       *)
TransferLockReserved(j) ==
    LET h == job[j]
        r == Found(inv, h.store)
    IN /\ h.pc = "transferLock"
       /\ Unlocked(j, h.store)
       /\ r # NoRow
       /\ inv[r].quantity >= h.n
       /\ job' = [job EXCEPT ![j].pc = "transferSave", ![j].row = r,
                             ![j].quantity = inv[r].quantity,
                             ![j].reserved = inv[r].reserved]
       /\ UNCHANGED <<inv, booked>>

(* Locks the source and checks what is available there.                    *)
TransferLock(j) ==
    LET h == job[j]
        r == Found(inv, h.store)
    IN /\ h.pc = "transferLock"
       /\ Unlocked(j, h.store)
       /\ r # NoRow
       /\ Available(r) >= h.n
       /\ job' = [job EXCEPT ![j].pc = "transferSave", ![j].row = r,
                             ![j].quantity = inv[r].quantity,
                             ![j].reserved = inv[r].reserved]
       /\ UNCHANGED <<inv, booked>>

TransferRejected(j) ==
    LET h == job[j]
        r == Found(inv, h.store)
    IN /\ h.pc = "transferLock"
       /\ Unlocked(j, h.store)
       /\ r # NoRow => Available(r) < h.n
       /\ Done(j)
       /\ UNCHANGED <<inv, booked>>

(* The snapshot does not show the row that was locked: save() inserts it,   *)
(* which its key forbids.                                                  *)
TransferFails(j) ==
    LET h == job[j]
    IN /\ h.pc = "transferSave"
       /\ h.shot[h.row].store = NoStore
       /\ Done(j)
       /\ UNCHANGED <<inv, booked>>

(* What save() leaves of the source's stock: less n, unless that is what   *)
(* the snapshot shows.                                                     *)
SourceQuantity(h) ==
    IF h.quantity - h.n = h.shot[h.row].quantity THEN h.quantity
                                                 ELSE h.quantity - h.n

(* Takes n from the row that was locked and writes the destination's       *)
(* stock of the snapshot plus n.                                           *)
TransferSave(j) ==
    LET h == job[j]
        d == Found(h.shot, h.to)
    IN /\ h.pc = "transferSave"
       /\ h.shot[h.row].store = h.store
       /\ d \notin {NoRow, h.row}
       /\ Unlocked(j, h.to)
       /\ inv' = [inv EXCEPT
                    ![h.row].quantity = SourceQuantity(h),
                    ![d].quantity = h.shot[d].quantity + h.n]
       /\ Done(j)
       /\ UNCHANGED booked

(* The snapshot shows no row in the destination: a new one.                *)
TransferInsert(j, d) ==
    LET h == job[j]
    IN /\ h.pc = "transferSave"
       /\ h.shot[h.row].store = h.store
       /\ RowsOf(h.shot, h.to) = {}
       /\ inv[d].store = NoStore
       /\ Unlocked(j, h.to)
       /\ inv' = [inv EXCEPT
                    ![h.row].quantity = SourceQuantity(h),
                    ![d] = [store |-> h.to, quantity |-> h.n,
                            reserved |-> 0]]
       /\ Done(j)
       /\ UNCHANGED booked

(* Source and destination are one row, of which there are two copies: the  *)
(* one the snapshot shows is saved last, and sees that the first save has  *)
(* changed the row.                                                        *)
TransferToItself(j) ==
    LET h == job[j]
        d == Found(h.shot, h.to)
    IN /\ h.pc = "transferSave"
       /\ h.shot[h.row].store = h.store
       /\ d = h.row
       /\ inv' = [inv EXCEPT ![d].quantity = h.shot[d].quantity + h.n,
                             ![d].reserved = h.shot[d].reserved]
       /\ booked' = [booked EXCEPT ![d] = h.shot[d].reserved]
       /\ Done(j)

----------------------------------------------------------------------------
(* Failures *)

(* Any statement may fail, a lock wait time out, InnoDB pick the handler as *)
(* a deadlock's victim, the process restart: what is not committed is      *)
(* rolled back.                                                            *)
Abort(j) ==
    /\ ~ Free(j)
    /\ Done(j)
    /\ UNCHANGED <<inv, booked>>

----------------------------------------------------------------------------
Request ==
    \E j \in Job, t \in Store, n \in Quantities :
       \/ \E type \in MovementType : MoveStart(j, t, type, n)
       \/ ReserveLock(j, t, n)
       \/ ReleaseLock(j, t, n)
       \/ \E to \in Store : TransferStart(j, t, to, n)

Step(j) ==
    \/ MoveSave(j)
    \/ ReserveSave(j) \/ ReleaseSave(j)
    \/ TransferLock(j) \/ TransferRejected(j)
    \/ TransferFails(j) \/ TransferSave(j) \/ TransferToItself(j)
    \/ \E r \in Row : MoveInsert(j, r) \/ TransferInsert(j, r)

Next ==
    \/ Request
    \/ \E j \in Job : Step(j) \/ Abort(j)

Spec == Init /\ [][Next]_vars

----------------------------------------------------------------------------
(* Properties *)

(* What a row has reserved is what the movements log reserved in it less   *)
(* what it released: neither a movement nor a transfer that read the row   *)
(* before a reservation takes the reservation back when it saves the row.  *)
(* A transfer from a row to itself does; the count starts anew from what   *)
(* it leaves.                                                              *)
ReservationsBooked == \A r \in Row : inv[r].reserved = booked[r]

(* A reservation is covered by the stock at the moment it is committed,    *)
(* whatever left the store since it was requested.                         *)
ReservedInStock ==
    [][\A j \in Job : ReserveSave(j) =>
          inv'[job[j].row].reserved <= inv'[job[j].row].quantity]_vars
=============================================================================
