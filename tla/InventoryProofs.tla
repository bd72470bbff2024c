--------------------------- MODULE InventoryProofs ---------------------------
(***************************************************************************)
(* Theorems about Inventory for every value of its constants.              *)
(* InventoryInv is shown inductive: an action changes the row of one       *)
(* handler, and at most two rows of the table, which no other handler      *)
(* holds (lemma StepKeeps).                                                *)
(***************************************************************************)
EXTENDS InventoryInvariant, TLAPS

----------------------------------------------------------------------------
(* Types *)

\* An idle job slot is a job row, and an id without a row is one of the table.
LEMMA IdleType == IdleJob \in JobRow /\ NoInvRow \in InvRow
  BY DEF JobRow, IdleJob, NoInvRow, InvRow, PC, MovementType

\* The row that is found is one of the store's.
LEMMA FoundType ==
  ASSUME NEW table \in [Row -> InvRow], NEW t
  PROVE  /\ Found(table, t) \in Row \cup {NoRow}
         /\ RowsOf(table, t) = {} => Found(table, t) = NoRow
         /\ Found(table, t) # NoRow =>
               Found(table, t) \in Row /\ table[Found(table, t)].store = t
<1>1. CASE RowsOf(table, t) = {}
  BY <1>1 DEF Found
<1>2. CASE RowsOf(table, t) # {}
  <2>1. Found(table, t) \in RowsOf(table, t)
    BY <1>2 DEF Found
  <2> QED
    BY <1>2, <2>1 DEF RowsOf
<1> QED
  BY <1>1, <1>2

----------------------------------------------------------------------------
(* What a handler knows *)

\* The conjuncts of InventoryInv about one handler, in one predicate.
Sound(h) ==
  /\ h.pc \in HoldingPC =>
       /\ h.row # NoRow
       /\ h.quantity = inv[h.row].quantity
       /\ h.reserved = inv[h.row].reserved
  /\ h.pc # "idle" =>
       /\ h.store \in Store
       /\ h.row # NoRow => inv[h.row].store = h.store
  /\ h.pc \in {"reserveSave", "transferSave"} => h.quantity - h.reserved >= h.n
  /\ h.pc = "releaseSave" => h.reserved >= h.n
  /\ h.pc = "moveSave" =>
       /\ NewQuantity(h.type, h.quantity, h.n) \in Nat
       /\ h.row = NoRow => h.quantity = 0
  /\ h.pc \in {"transferLock", "transferSave"} =>
       /\ h.to \in Store
       /\ \A r \in Row : h.shot[r].store # NoStore
                            => inv[r].store = h.shot[r].store

\* InventoryInv says it of every handler.
LEMMA AllSound ==
  ASSUME InventoryInv, NEW j \in Job
  PROVE  Sound(job[j])
<1> DEFINE h == job[j]
<1> USE DEF HoldingPC
<1>1. h.pc \in HoldingPC =>
        /\ h.row # NoRow
        /\ h.quantity = inv[h.row].quantity
        /\ h.reserved = inv[h.row].reserved
  BY DEF InventoryInv, FoundIsThere, ReadIsCurrent, Holding
<1>2. h.pc # "idle" =>
        /\ h.store \in Store
        /\ h.row # NoRow => inv[h.row].store = h.store
  BY DEF InventoryInv, FoundIsThere, Free
<1>3. /\ h.pc \in {"reserveSave", "transferSave"}
            => h.quantity - h.reserved >= h.n
      /\ h.pc = "releaseSave" => h.reserved >= h.n
  BY DEF InventoryInv, CheckedHolds
<1>4. h.pc = "moveSave" =>
        /\ NewQuantity(h.type, h.quantity, h.n) \in Nat
        /\ h.row = NoRow => h.quantity = 0
  BY DEF InventoryInv, MoveIsNatural
<1>5. h.pc \in {"transferLock", "transferSave"} =>
        /\ h.to \in Store
        /\ \A r \in Row : h.shot[r].store # NoStore
                             => inv[r].store = h.shot[r].store
  BY DEF InventoryInv, SnapshotStores
<1> QED
  BY <1>1, <1>2, <1>3, <1>4, <1>5 DEF Sound

\* The fields of a job row.
LEMMA JobFields ==
  ASSUME NEW h \in JobRow
  PROVE  /\ h.pc \in PC /\ h.type \in MovementType
         /\ h.store \in Store \cup {NoStore}
         /\ h.to \in Store \cup {NoStore}
         /\ h.n \in Nat /\ h.row \in Row \cup {NoRow}
         /\ h.quantity \in Nat /\ h.reserved \in Nat
         /\ h.shot \in [Row -> InvRow]
  BY DEF JobRow

\* A step that moves one handler and writes nothing.
LEMMA JobStep ==
  ASSUME InventoryInv, NEW j \in Job, NEW h \in JobRow, Sound(h),
         h.pc \in HoldingPC => Unlocked(j, h.store),
         job' = [job EXCEPT ![j] = h], UNCHANGED <<inv, booked>>
  PROVE  InventoryInv'
<1>1. TypeOK'
  BY DEF InventoryInv, TypeOK
<1>2. \A k \in Job : Sound(job[k])
  BY AllSound
<1>3. \A k \in Job : job'[k] = IF k = j THEN h ELSE job[k]
  BY DEF InventoryInv, TypeOK
<1>4. \A k \in Job : Sound(job[k])'
  BY <1>2, <1>3 DEF Sound
<1>5. (/\ FoundIsThere /\ ReadIsCurrent /\ CheckedHolds
       /\ MoveIsNatural /\ SnapshotStores)'
  BY <1>1, <1>4 DEF Sound, FoundIsThere, ReadIsCurrent, CheckedHolds,
         MoveIsNatural, SnapshotStores, Holding, Free, HoldingPC
<1>6. LocksExclusive'
  BY <1>3 DEF InventoryInv, LocksExclusive, Holding, Unlocked, Holds
<1>7. AbsentIsBlank' /\ ReservationsBooked'
  BY DEF InventoryInv, AbsentIsBlank, ReservationsBooked
<1> QED
  BY <1>1, <1>5, <1>6, <1>7 DEF InventoryInv

\* An idle handler knows nothing.
LEMMA IdleSound == Sound(IdleJob)
  BY DEF Sound, IdleJob, HoldingPC

\* A step that ends one handler without a write.
LEMMA EndStep ==
  ASSUME InventoryInv, NEW j \in Job, Done(j), UNCHANGED <<inv, booked>>
  PROVE  InventoryInv'
  BY IdleType, IdleSound, JobStep DEF Done, IdleJob, HoldingPC

\* A step that ends a handler, and writes rows that no other handler holds.
LEMMA DataStep ==
  ASSUME InventoryInv, NEW j \in Job, Done(j),
         inv' \in [Row -> InvRow], booked' \in [Row -> Int],
         \A r \in Row : inv[r].store # NoStore =>
            /\ inv'[r].store = inv[r].store
            /\ inv'[r] # inv[r] => Unlocked(j, inv[r].store),
         AbsentIsBlank', ReservationsBooked'
  PROVE  InventoryInv'
<1>1. TypeOK'
  BY IdleType DEF InventoryInv, TypeOK, Done
<1>2. \A k \in Job : Sound(job[k])
  BY AllSound
<1>3. \A k \in Job : job'[k] = IF k = j THEN IdleJob ELSE job[k]
  BY DEF InventoryInv, TypeOK, Done
<1>4. ASSUME NEW k \in Job PROVE Sound(job[k])'
  <2>1. CASE k = j
    BY <1>3, <2>1 DEF Sound, IdleJob, HoldingPC
  <2>2. CASE k # j
    <3> DEFINE h == job[k]
    <3>1. job'[k] = h /\ h \in JobRow
      BY <1>3, <2>2 DEF InventoryInv, TypeOK
    <3>2. h.pc # "idle" /\ h.row # NoRow =>
             /\ h.row \in Row
             /\ inv[h.row].store = h.store /\ h.store # NoStore
      BY <1>2, <3>1, JobFields, InventoryAssumption DEF Sound
    <3>3. h.pc \in HoldingPC => inv'[h.row] = inv[h.row]
      BY <1>2, <2>2, <3>2 DEF Sound, Unlocked, Holds, HoldingPC
    <3>4. h.pc # "idle" /\ h.row # NoRow => inv'[h.row].store = h.store
      BY <3>2
    <3>5. \A r \in Row : inv[r].store # NoStore
                            => inv'[r].store = inv[r].store
      OBVIOUS
    <3>6. ASSUME NEW r \in Row, h.pc \in {"transferLock", "transferSave"},
                 h.shot[r].store # NoStore
          PROVE  inv'[r].store = h.shot[r].store
      BY <1>2, <3>5, <3>6 DEF Sound
    <3> QED
      BY <1>2, <3>1, <3>3, <3>4, <3>6 DEF Sound, HoldingPC
  <2> QED
    BY <2>1, <2>2
<1>5. (/\ FoundIsThere /\ ReadIsCurrent /\ CheckedHolds
       /\ MoveIsNatural /\ SnapshotStores)'
  BY <1>1, <1>4 DEF Sound, FoundIsThere, ReadIsCurrent, CheckedHolds,
         MoveIsNatural, SnapshotStores, Holding, Free, HoldingPC
<1>6. LocksExclusive'
  BY <1>3 DEF InventoryInv, LocksExclusive, Holding, HoldingPC, IdleJob
<1> QED
  BY <1>1, <1>5, <1>6 DEF InventoryInv

----------------------------------------------------------------------------
(* One lemma per action *)

\* The row of Found, in the committed table.
LEMMA FoundRow ==
  ASSUME InventoryInv, NEW t
  PROVE  /\ Found(inv, t) \in Row \cup {NoRow}
         /\ Found(inv, t) # NoRow =>
               /\ Found(inv, t) \in Row
               /\ inv[Found(inv, t)] \in InvRow
               /\ inv[Found(inv, t)].store = t
  BY FoundType DEF InventoryInv, TypeOK

\* A row of the table.
LEMMA RowFields ==
  ASSUME NEW x \in InvRow
  PROVE  x.store \in Store \cup {NoStore} /\ x.quantity \in Nat
         /\ x.reserved \in Nat
  BY DEF InvRow

LEMMA MoveStartKeeps ==
  ASSUME InventoryInv, NEW j \in Job, NEW t \in Store,
         NEW type \in MovementType, NEW n \in Quantities,
         MoveStart(j, t, type, n)
  PROVE  InventoryInv'
<1> DEFINE r == Found(inv, t)
           q == IF r = NoRow THEN 0 ELSE inv[r].quantity
           h == [IdleJob EXCEPT
                    !.pc = "moveSave", !.type = type, !.store = t,
                    !.n = n, !.row = r, !.quantity = q]
<1>1. q \in Nat /\ n \in Nat
  BY FoundRow, RowFields, InventoryAssumption
<1>2. h \in JobRow
  BY <1>1, IdleType, FoundRow DEF JobRow, PC
<1>3. NewQuantity(type, q, n) \in Nat
  BY InventoryAssumption DEF MoveStart
<1>4. Sound(h)
  BY <1>3, FoundRow DEF Sound, IdleJob, HoldingPC
<1>5. job' = [job EXCEPT ![j] = h] /\ UNCHANGED <<inv, booked>>
  BY DEF MoveStart
<1>6. h.pc \notin HoldingPC
  BY DEF IdleJob, HoldingPC
<1> QED
  BY <1>2, <1>4, <1>5, <1>6, JobStep

\* What Lock reads, by a handler that goes on to save.
LEMMA LockKeeps ==
  ASSUME InventoryInv, NEW j \in Job, NEW t \in Store, NEW n \in Quantities,
         NEW pc \in {"reserveSave", "releaseSave"},
         Unlocked(j, t), Found(inv, t) # NoRow,
         pc = "reserveSave" => Available(Found(inv, t)) >= n,
         pc = "releaseSave" => inv[Found(inv, t)].reserved >= n,
         Lock(j, pc, t, n), UNCHANGED <<inv, booked>>
  PROVE  InventoryInv'
<1> DEFINE r == Found(inv, t)
           h == [IdleJob EXCEPT
                    !.pc = pc, !.store = t, !.n = n, !.row = r,
                    !.quantity = inv[r].quantity,
                    !.reserved = inv[r].reserved]
<1>1. /\ r \in Row /\ n \in Nat /\ inv[r].store = t
      /\ inv[r].quantity \in Nat /\ inv[r].reserved \in Nat
  BY FoundRow, RowFields, InventoryAssumption
<1>2. h \in JobRow
  BY <1>1, IdleType DEF JobRow, PC
<1>3. Sound(h)
  BY <1>1 DEF Sound, IdleJob, HoldingPC, Available
<1>4. job' = [job EXCEPT ![j] = h]
  BY DEF Lock
<1>5. h.store = t
  BY DEF IdleJob
<1> QED
  BY <1>2, <1>3, <1>4, <1>5, JobStep

LEMMA TransferStartKeeps ==
  ASSUME InventoryInv, NEW j \in Job, NEW from \in Store, NEW to \in Store,
         NEW n \in Quantities, TransferStart(j, from, to, n)
  PROVE  InventoryInv'
<1> DEFINE h == [IdleJob EXCEPT
                    !.pc = "transferLock", !.store = from, !.to = to, !.n = n,
                    !.shot = inv]
<1>1. h \in JobRow
  BY IdleType, InventoryAssumption DEF JobRow, PC, InventoryInv, TypeOK
<1>2. Sound(h)
  BY DEF Sound, IdleJob, HoldingPC
<1>3. job' = [job EXCEPT ![j] = h] /\ UNCHANGED <<inv, booked>>
  BY DEF TransferStart
<1>4. h.pc \notin HoldingPC
  BY DEF IdleJob, HoldingPC
<1> QED
  BY <1>1, <1>2, <1>3, <1>4, JobStep

LEMMA TransferLockKeeps ==
  ASSUME InventoryInv, NEW j \in Job, TransferLock(j)
  PROVE  InventoryInv'
<1> DEFINE r == Found(inv, job[j].store)
           h == [job[j] EXCEPT !.pc = "transferSave", !.row = r,
                               !.quantity = inv[r].quantity,
                               !.reserved = inv[r].reserved]
<1>1. /\ job[j] \in JobRow /\ job[j].pc = "transferLock"
      /\ Unlocked(j, job[j].store) /\ Available(r) >= job[j].n
      /\ UNCHANGED <<inv, booked>>
  BY DEF TransferLock, InventoryInv, TypeOK
<1>2. /\ r \in Row /\ inv[r].store = job[j].store
      /\ inv[r].quantity \in Nat /\ inv[r].reserved \in Nat
  BY FoundRow, RowFields DEF TransferLock
<1>3. h \in JobRow
  BY <1>1, <1>2 DEF JobRow, PC
<1>4. Sound(h)
  <2>1. /\ h.pc = "transferSave" /\ h.row = r /\ h.n = job[j].n
        /\ h.store = job[j].store /\ h.to = job[j].to
        /\ h.shot = job[j].shot
        /\ h.quantity = inv[r].quantity /\ h.reserved = inv[r].reserved
    BY <1>1 DEF JobRow
  <2>2. /\ job[j].store \in Store /\ job[j].to \in Store
        /\ \A s \in Row : job[j].shot[s].store # NoStore
                             => inv[s].store = job[j].shot[s].store
    BY <1>1, AllSound DEF Sound
  <2>3. h.quantity - h.reserved >= h.n /\ h.row # NoRow
    BY <1>1, <1>2, <2>1 DEF TransferLock, Available
  <2> HIDE DEF h
  <2> QED
    BY <1>2, <2>1, <2>2, <2>3 DEF Sound, HoldingPC
<1>5. job' = [job EXCEPT ![j] = h]
  BY DEF TransferLock, InventoryInv, TypeOK, JobRow
<1>6. h.store = job[j].store
  BY <1>1 DEF JobRow
<1> QED
  BY <1>1, <1>3, <1>4, <1>5, <1>6, JobStep

LEMMA MoveSaveKeeps ==
  ASSUME InventoryInv, NEW j \in Job, MoveSave(j)
  PROVE  InventoryInv'
<1> DEFINE h == job[j]
           q == NewQuantity(h.type, h.quantity, h.n)
<1>1. /\ h \in JobRow /\ h.pc = "moveSave" /\ h.row # NoRow
      /\ Unlocked(j, h.store) /\ Done(j) /\ booked' = booked
      /\ inv \in [Row -> InvRow] /\ booked \in [Row -> Int]
  BY DEF MoveSave, InventoryInv, TypeOK
<1>2. q \in Nat /\ h.row \in Row /\ inv[h.row].store = h.store
  BY <1>1, AllSound, JobFields DEF Sound
<1>3. \/ inv' = inv
      \/ inv' = [inv EXCEPT ![h.row].quantity = q]
  BY DEF MoveSave
<1>4. inv' \in [Row -> InvRow]
  BY <1>1, <1>2, <1>3 DEF InvRow
<1>5. \A r \in Row : /\ inv'[r].store = inv[r].store
                     /\ inv'[r].reserved = inv[r].reserved
                     /\ r # h.row => inv'[r] = inv[r]
  BY <1>1, <1>2, <1>3 DEF InvRow
<1>6. AbsentIsBlank' /\ ReservationsBooked'
  <2>1. h.store # NoStore
    BY <1>1, AllSound, InventoryAssumption DEF Sound
  <2> QED
    BY <1>1, <1>2, <1>5, <2>1
       DEF InventoryInv, AbsentIsBlank, ReservationsBooked
<1> QED
  BY <1>1, <1>2, <1>4, <1>5, <1>6, DataStep

\* A new row of a store, which no other handler holds.
LEMMA MoveInsertKeeps ==
  ASSUME InventoryInv, NEW j \in Job, NEW r \in Row, MoveInsert(j, r)
  PROVE  InventoryInv'
<1> DEFINE h == job[j]
           q == NewQuantity(h.type, 0, h.n)
           new == [store |-> h.store, reserved |-> 0, quantity |-> q]
<1>1. /\ h \in JobRow /\ h.pc = "moveSave" /\ h.row = NoRow
      /\ Done(j) /\ booked' = booked
      /\ inv[r].store = NoStore
      /\ inv' = [inv EXCEPT ![r] = new]
      /\ inv \in [Row -> InvRow] /\ booked \in [Row -> Int]
  BY DEF MoveInsert, InventoryInv, TypeOK
<1>2. q \in Nat /\ h.store \in Store
  BY <1>1, AllSound DEF Sound
<1>3. inv' \in [Row -> InvRow]
  BY <1>1, <1>2 DEF InvRow
<1>4. \A s \in Row : s # r => inv'[s] = inv[s]
  BY <1>1
<1>5. booked[r] = 0 /\ inv'[r].reserved = 0 /\ inv'[r].store # NoStore
  BY <1>1, <1>2, InventoryAssumption DEF InventoryInv, AbsentIsBlank
<1>6. AbsentIsBlank' /\ ReservationsBooked'
  BY <1>1, <1>4, <1>5 DEF InventoryInv, AbsentIsBlank, ReservationsBooked
<1> QED
  BY <1>1, <1>3, <1>4, <1>6, DataStep

\* The row a handler holds, and that no other handler holds its store.
LEMMA HeldRow ==
  ASSUME InventoryInv, NEW j \in Job, job[j].pc \in HoldingPC
  PROVE  /\ job[j] \in JobRow
         /\ job[j].row \in Row
         /\ inv[job[j].row] \in InvRow
         /\ inv[job[j].row].store = job[j].store
         /\ job[j].store \in Store /\ job[j].store # NoStore
         /\ job[j].quantity = inv[job[j].row].quantity
         /\ job[j].reserved = inv[job[j].row].reserved
         /\ Unlocked(j, job[j].store)
<1>1. job[j] \in JobRow
  BY DEF InventoryInv, TypeOK
<1>2. job[j].pc # "idle"
  BY DEF HoldingPC
<1>3. Unlocked(j, job[j].store)
  BY DEF InventoryInv, LocksExclusive, Unlocked, Holds, Holding
<1>4. job[j].row \in Row
  BY <1>1, AllSound, JobFields DEF Sound
<1> QED
  BY <1>1, <1>2, <1>3, <1>4, AllSound, InventoryAssumption
     DEF Sound, InventoryInv, TypeOK

\* Reserving and releasing write the reservation, and log as much.
LEMMA ReserveKeeps ==
  ASSUME InventoryInv, NEW j \in Job, NEW d \in Int,
         job[j].pc \in {"reserveSave", "releaseSave"},
         job[j].reserved + d \in Nat,
         inv' = [inv EXCEPT ![job[j].row].reserved = job[j].reserved + d],
         booked' = [booked EXCEPT ![job[j].row] = @ + d],
         Done(j)
  PROVE  InventoryInv'
<1> DEFINE h == job[j]
<1>1. /\ h.row \in Row /\ inv[h.row].store # NoStore
      /\ h.reserved = inv[h.row].reserved /\ h.reserved \in Nat
      /\ Unlocked(j, inv[h.row].store)
      /\ inv \in [Row -> InvRow] /\ booked \in [Row -> Int]
  BY HeldRow, JobFields DEF HoldingPC, InventoryInv, TypeOK
<1>2. inv' \in [Row -> InvRow] /\ booked' \in [Row -> Int]
  BY <1>1 DEF InvRow
<1>3. \A r \in Row : /\ inv'[r].store = inv[r].store
                     /\ r # h.row => /\ inv'[r] = inv[r]
                                     /\ booked'[r] = booked[r]
  BY <1>1 DEF InvRow
<1>4. inv'[h.row].reserved = h.reserved + d
  BY <1>1 DEF InvRow
<1>5. booked'[h.row] = booked[h.row] + d /\ booked[h.row] = h.reserved
  BY <1>1 DEF InventoryInv, ReservationsBooked
<1>6. AbsentIsBlank' /\ ReservationsBooked'
  BY <1>1, <1>3, <1>4, <1>5
     DEF InventoryInv, AbsentIsBlank, ReservationsBooked
<1> QED
  BY <1>1, <1>2, <1>3, <1>6, DataStep

LEMMA ReserveSaveKeeps ==
  ASSUME InventoryInv, NEW j \in Job, ReserveSave(j)
  PROVE  InventoryInv'
<1>1. job[j].pc = "reserveSave" /\ Done(j)
  BY DEF ReserveSave
<1>2. job[j].n \in Nat /\ job[j].reserved \in Nat
  BY <1>1, HeldRow, JobFields DEF HoldingPC
<1>3. job[j].n \in Int /\ job[j].reserved + job[j].n \in Nat
  BY <1>2
<1>4. /\ inv' = [inv EXCEPT ![job[j].row].reserved
                               = job[j].reserved + job[j].n]
      /\ booked' = [booked EXCEPT ![job[j].row] = @ + job[j].n]
  BY DEF ReserveSave
<1> QED
  BY <1>1, <1>3, <1>4, ReserveKeeps

LEMMA ReleaseSaveKeeps ==
  ASSUME InventoryInv, NEW j \in Job, ReleaseSave(j)
  PROVE  InventoryInv'
<1> DEFINE d == - job[j].n
<1>1. job[j].pc = "releaseSave" /\ Done(j)
  BY DEF ReleaseSave
<1>2. job[j].n \in Nat /\ job[j].reserved \in Nat
  BY <1>1, HeldRow, JobFields DEF HoldingPC
<1>3. job[j].reserved >= job[j].n
  BY <1>1, AllSound DEF Sound
<1>4. d \in Int /\ job[j].reserved + d = job[j].reserved - job[j].n
      /\ job[j].reserved + d \in Nat
  BY <1>2, <1>3
<1>5. /\ inv' = [inv EXCEPT ![job[j].row].reserved = job[j].reserved + d]
      /\ booked' = [booked EXCEPT ![job[j].row] = @ + d]
  <2>1. job[j].row \in Row /\ booked \in [Row -> Int]
    BY <1>1, HeldRow DEF HoldingPC, InventoryInv, TypeOK
  <2>2. booked[job[j].row] - job[j].n = booked[job[j].row] + d
    BY <1>2, <2>1
  <2> HIDE DEF d
  <2> QED
    BY <1>4, <2>1, <2>2 DEF ReleaseSave
<1> HIDE DEF d
<1> QED
  BY <1>1, <1>4, <1>5, ReserveKeeps

\* What a transfer leaves of the source is a stock.
LEMMA SourceType ==
  ASSUME InventoryInv, NEW j \in Job, job[j].pc = "transferSave"
  PROVE  SourceQuantity(job[j]) \in Nat
<1>1. /\ job[j].quantity \in Nat /\ job[j].n \in Nat
      /\ job[j].reserved \in Nat
      /\ job[j].quantity - job[j].reserved >= job[j].n
  BY HeldRow, JobFields, AllSound DEF HoldingPC, Sound
<1>2. job[j].quantity - job[j].n \in Nat
  BY <1>1
<1> QED
  BY <1>1, <1>2 DEF SourceQuantity

\* The destination a transfer saw is still a row of its store.
LEMMA DestinationRow ==
  ASSUME InventoryInv, NEW j \in Job, job[j].pc = "transferSave",
         Found(job[j].shot, job[j].to) # NoRow
  PROVE  LET d == Found(job[j].shot, job[j].to)
         IN /\ d \in Row /\ job[j].shot[d] \in InvRow
            /\ inv[d].store = job[j].to /\ inv[d].store # NoStore
<1> DEFINE h == job[j]
           d == Found(h.shot, h.to)
<1>1. h.shot \in [Row -> InvRow]
  BY JobFields DEF InventoryInv, TypeOK
<1>2. d \in Row /\ h.shot[d].store = h.to
  BY <1>1, FoundType
<1>3. h.to # NoStore /\ inv[d].store = h.to
  BY <1>2, AllSound, InventoryAssumption DEF Sound
<1> QED
  BY <1>1, <1>2, <1>3

LEMMA TransferSaveKeeps ==
  ASSUME InventoryInv, NEW j \in Job, TransferSave(j)
  PROVE  InventoryInv'
<1> DEFINE h == job[j]
           d == Found(h.shot, h.to)
           q == SourceQuantity(h)
           p == h.shot[d].quantity + h.n
<1>1. /\ h.pc = "transferSave" /\ d # NoRow /\ d # h.row
      /\ Unlocked(j, h.to) /\ Done(j) /\ booked' = booked
      /\ inv' = [inv EXCEPT ![h.row].quantity = q, ![d].quantity = p]
  BY DEF TransferSave
<1>2. /\ h.row \in Row /\ inv[h.row].store = h.store /\ h.store # NoStore
      /\ Unlocked(j, h.store) /\ q \in Nat /\ h.n \in Nat
  BY <1>1, HeldRow, SourceType, JobFields DEF HoldingPC
<1>3. d \in Row /\ inv[d].store = h.to /\ h.to # NoStore /\ p \in Nat
  BY <1>1, <1>2, DestinationRow, RowFields
<1>4. inv \in [Row -> InvRow] /\ booked \in [Row -> Int]
  BY DEF InventoryInv, TypeOK
<1> HIDE DEF q, p, d
<1>5. inv' \in [Row -> InvRow]
  BY <1>1, <1>2, <1>3, <1>4 DEF InvRow
<1>6. \A r \in Row : /\ inv'[r].store = inv[r].store
                     /\ inv'[r].reserved = inv[r].reserved
                     /\ r # h.row /\ r # d => inv'[r] = inv[r]
  BY <1>1, <1>2, <1>3, <1>4 DEF InvRow
<1>7. AbsentIsBlank' /\ ReservationsBooked'
  BY <1>1, <1>2, <1>3, <1>6
     DEF InventoryInv, AbsentIsBlank, ReservationsBooked
<1> QED
  BY <1>1, <1>2, <1>3, <1>4, <1>5, <1>6, <1>7, DataStep

LEMMA TransferInsertKeeps ==
  ASSUME InventoryInv, NEW j \in Job, NEW d \in Row, TransferInsert(j, d)
  PROVE  InventoryInv'
<1> DEFINE h == job[j]
           q == SourceQuantity(h)
           new == [store |-> h.to, quantity |-> h.n, reserved |-> 0]
<1>1. /\ h.pc = "transferSave" /\ inv[d].store = NoStore
      /\ Done(j) /\ booked' = booked
      /\ inv' = [inv EXCEPT ![h.row].quantity = q, ![d] = new]
  BY DEF TransferInsert
<1>2. /\ h.row \in Row /\ inv[h.row].store = h.store /\ h.store # NoStore
      /\ Unlocked(j, h.store) /\ q \in Nat /\ h.n \in Nat
  BY <1>1, HeldRow, SourceType, JobFields DEF HoldingPC
<1>3. h.to \in Store /\ h.to # NoStore
  BY <1>1, AllSound, InventoryAssumption DEF Sound
<1>4. inv \in [Row -> InvRow] /\ booked \in [Row -> Int] /\ new \in InvRow
  BY <1>2, <1>3 DEF InventoryInv, TypeOK, InvRow
<1>5. booked[d] = 0 /\ new.reserved = 0 /\ new.store # NoStore
  BY <1>1, <1>3 DEF InventoryInv, AbsentIsBlank
<1> HIDE DEF q, new
<1>6. inv' \in [Row -> InvRow] /\ inv'[d] = new
  BY <1>1, <1>2, <1>4 DEF InvRow
<1>7. \A r \in Row : r # d =>
         /\ inv'[r].store = inv[r].store
         /\ inv'[r].reserved = inv[r].reserved
         /\ r # h.row => inv'[r] = inv[r]
  BY <1>1, <1>2, <1>4 DEF InvRow
<1>8. AbsentIsBlank' /\ ReservationsBooked'
  BY <1>1, <1>2, <1>5, <1>6, <1>7
     DEF InventoryInv, AbsentIsBlank, ReservationsBooked
<1> QED
  BY <1>1, <1>2, <1>4, <1>6, <1>7, <1>8, DataStep

LEMMA TransferToItselfKeeps ==
  ASSUME InventoryInv, NEW j \in Job, TransferToItself(j)
  PROVE  InventoryInv'
<1> DEFINE h == job[j]
           d == Found(h.shot, h.to)
           p == h.shot[d].quantity + h.n
           v == h.shot[d].reserved
<1>1. /\ h.pc = "transferSave" /\ d = h.row /\ Done(j)
      /\ inv' = [inv EXCEPT ![d].quantity = p, ![d].reserved = v]
      /\ booked' = [booked EXCEPT ![d] = v]
  BY DEF TransferToItself
<1>2. /\ d \in Row /\ inv[d].store # NoStore
      /\ Unlocked(j, inv[d].store) /\ h.n \in Nat
      /\ h.shot \in [Row -> InvRow]
  BY <1>1, HeldRow, JobFields DEF HoldingPC
<1>3. p \in Nat /\ v \in Nat
  BY <1>2, RowFields
<1>4. inv \in [Row -> InvRow] /\ booked \in [Row -> Int]
  BY DEF InventoryInv, TypeOK
<1> HIDE DEF d, p, v
<1>5. /\ inv' \in [Row -> InvRow] /\ booked' \in [Row -> Int]
      /\ inv'[d].reserved = v /\ booked'[d] = v
  BY <1>1, <1>2, <1>3, <1>4 DEF InvRow
<1>6. \A r \in Row : /\ inv'[r].store = inv[r].store
                     /\ r # d => inv'[r] = inv[r] /\ booked'[r] = booked[r]
  BY <1>1, <1>2, <1>4 DEF InvRow
<1>7. AbsentIsBlank' /\ ReservationsBooked'
  BY <1>2, <1>5, <1>6 DEF InventoryInv, AbsentIsBlank, ReservationsBooked
<1> QED
  BY <1>1, <1>2, <1>5, <1>6, <1>7, DataStep

----------------------------------------------------------------------------
(* The theorems *)

\* Nothing is in stock, and no handler runs, at first.
LEMMA InitInventoryInv ==
  ASSUME Init
  PROVE  InventoryInv
<1>1. TypeOK
  BY IdleType DEF Init, TypeOK
<1>2. \A j \in Job : job[j].pc = "idle"
  BY DEF Init, IdleJob
<1>3. /\ LocksExclusive /\ FoundIsThere /\ ReadIsCurrent /\ CheckedHolds
      /\ MoveIsNatural /\ SnapshotStores
  BY <1>2 DEF LocksExclusive, FoundIsThere, ReadIsCurrent, CheckedHolds,
              MoveIsNatural, SnapshotStores, Holding, HoldingPC, Free
<1>4. AbsentIsBlank /\ ReservationsBooked
  BY DEF Init, AbsentIsBlank, ReservationsBooked, NoInvRow
<1> QED
  BY <1>1, <1>3, <1>4 DEF InventoryInv

\* Every step keeps the invariant.
LEMMA NextKeeps ==
  ASSUME InventoryInv, [Next]_vars
  PROVE  InventoryInv'
<1>1. CASE Request
  <2> SUFFICES ASSUME NEW j \in Job, NEW t \in Store, NEW n \in Quantities,
                      \/ \E type \in MovementType : MoveStart(j, t, type, n)
                      \/ ReserveLock(j, t, n)
                      \/ ReleaseLock(j, t, n)
                      \/ \E to \in Store : TransferStart(j, t, to, n)
               PROVE  InventoryInv'
    BY <1>1 DEF Request
  <2>1. CASE \E type \in MovementType : MoveStart(j, t, type, n)
    BY <2>1, MoveStartKeeps
  <2>2. CASE ReserveLock(j, t, n)
    BY <2>2, LockKeeps DEF ReserveLock
  <2>3. CASE ReleaseLock(j, t, n)
    BY <2>3, LockKeeps DEF ReleaseLock
  <2>4. CASE \E to \in Store : TransferStart(j, t, to, n)
    BY <2>4, TransferStartKeeps
  <2> QED
    BY <2>1, <2>2, <2>3, <2>4
<1>2. ASSUME NEW j \in Job, Step(j) PROVE InventoryInv'
  <2>1. CASE MoveSave(j)
    BY <2>1, MoveSaveKeeps
  <2>2. CASE ReserveSave(j) \/ ReleaseSave(j)
    BY <2>2, ReserveSaveKeeps, ReleaseSaveKeeps
  <2>3. CASE TransferLock(j)
    BY <2>3, TransferLockKeeps
  <2>4. CASE TransferRejected(j) \/ TransferFails(j)
    BY <2>4, EndStep DEF TransferRejected, TransferFails
  <2>5. CASE TransferSave(j) \/ TransferToItself(j)
    BY <2>5, TransferSaveKeeps, TransferToItselfKeeps
  <2>6. CASE \E r \in Row : MoveInsert(j, r) \/ TransferInsert(j, r)
    BY <2>6, MoveInsertKeeps, TransferInsertKeeps
  <2> QED
    BY <1>2, <2>1, <2>2, <2>3, <2>4, <2>5, <2>6 DEF Step
<1>3. ASSUME NEW j \in Job, Abort(j) PROVE InventoryInv'
  BY <1>3, EndStep DEF Abort
<1>4. CASE UNCHANGED vars
  BY <1>4 DEF vars, InventoryInv, TypeOK, LocksExclusive, FoundIsThere,
     ReadIsCurrent, CheckedHolds, MoveIsNatural, SnapshotStores,
     AbsentIsBlank, ReservationsBooked, Holding, Free
<1> QED
  BY <1>1, <1>2, <1>3, <1>4 DEF Next

\* The invariant of Inventory holds in every reachable state.
THEOREM InventoryInvariance == Spec => []InventoryInv
<1>1. Init => InventoryInv
  BY InitInventoryInv
<1>2. InventoryInv /\ [Next]_vars => InventoryInv'
  BY NextKeeps
<1> QED
  BY <1>1, <1>2, PTL DEF Spec

\* What a row has reserved is what was reserved in it less what was
\* released, whatever movements and transfers interleave
\* (inventory.service.ts, reserveStock and releaseStock).
THEOREM ReservationsAreBooked == Spec => []ReservationsBooked
<1>1. InventoryInv => ReservationsBooked
  BY DEF InventoryInv
<1> QED
  BY <1>1, InventoryInvariance, PTL

\* A reservation is covered by the stock when it is committed, whatever left
\* the store since it was requested (inventory.service.ts, reserveStock).
THEOREM ReservationsAreCovered == Spec => ReservedInStock
<1>1. ASSUME InventoryInv, [Next]_vars, NEW j \in Job, ReserveSave(j)
      PROVE  inv'[job[j].row].reserved <= inv'[job[j].row].quantity
  <2> DEFINE h == job[j]
  <2>1. /\ h.pc = "reserveSave"
        /\ inv' = [inv EXCEPT ![h.row].reserved = h.reserved + h.n]
    BY <1>1 DEF ReserveSave
  <2>2. /\ h.row \in Row /\ inv[h.row] \in InvRow
        /\ h.quantity = inv[h.row].quantity
        /\ h.quantity \in Nat /\ h.reserved \in Nat /\ h.n \in Nat
    BY <1>1, <2>1, HeldRow, JobFields DEF HoldingPC
  <2>3. h.quantity - h.reserved >= h.n
    BY <1>1, <2>1, AllSound DEF Sound
  <2>4. /\ inv'[h.row].reserved = h.reserved + h.n
        /\ inv'[h.row].quantity = h.quantity
    BY <1>1, <2>1, <2>2 DEF InventoryInv, TypeOK, InvRow
  <2> QED
    BY <2>2, <2>3, <2>4
<1>2. InventoryInv /\ [Next]_vars =>
         [\A j \in Job : ReserveSave(j) =>
             inv'[job[j].row].reserved <= inv'[job[j].row].quantity]_vars
  BY <1>1
<1> QED
  BY <1>2, InventoryInvariance, PTL DEF ReservedInStock, Spec

----------------------------------------------------------------------------
(* Inventory implements Reservations *)

\* What a request asks for is one of Quantities, and a snapshot shows nothing
\* in the ids that had no row.
Asked ==
  \A j \in Job :
     /\ job[j].pc # "idle" => job[j].n \in Quantities
     /\ \A r \in Row : job[j].shot[r].store = NoStore =>
                          job[j].shot[r].quantity = 0

\* What a step may do to the handler that takes it: it ends, begins without
\* a snapshot or with one of the table as it is, or keeps what it has.
Turn(j) ==
  /\ \A k \in Job \ {j} : job'[k] = job[k]
  /\ \/ job'[j] = IdleJob
     \/ /\ job'[j].pc \notin TransferPC
        /\ job'[j].n \in Quantities /\ job'[j].shot = IdleJob.shot
     \/ job'[j].n \in Quantities /\ job'[j].shot = inv
     \/ /\ job[j].pc \in TransferPC
        /\ job'[j].n = job[j].n /\ job'[j].shot = job[j].shot

\* Every handler's step is of this kind.
LEMMA StepTurns ==
  ASSUME TypeOK, NEW j \in Job, Step(j) \/ Abort(j)
  PROVE  Turn(j)
<1>1. CASE TransferLock(j)
  BY <1>1 DEF TransferLock, Turn, TransferPC, TypeOK, JobRow
<1>2. CASE Done(j)
  BY <1>2 DEF Done, Turn, TypeOK
<1> QED
  BY <1>1, <1>2 DEF Step, Abort, MoveSave, ReserveSave, ReleaseSave,
     TransferRejected, TransferFails, TransferSave, TransferToItself,
     MoveInsert, TransferInsert

\* So is the beginning of one, which writes nothing.
LEMMA RequestTurns ==
  ASSUME TypeOK, Request
  PROVE  (\E j \in Job : Turn(j)) /\ UNCHANGED <<inv, booked>>
<1> PICK j \in Job, t \in Store, n \in Quantities :
       \/ \E type \in MovementType : MoveStart(j, t, type, n)
       \/ ReserveLock(j, t, n)
       \/ ReleaseLock(j, t, n)
       \/ \E to \in Store : TransferStart(j, t, to, n)
  BY DEF Request
<1>1. CASE \E type \in MovementType : MoveStart(j, t, type, n)
  <2>1. UNCHANGED <<inv, booked>> /\ \A k \in Job \ {j} : job'[k] = job[k]
    BY <1>1 DEF MoveStart, TypeOK
  <2>2. /\ job'[j].pc = "moveSave" /\ job'[j].n = n
        /\ job'[j].shot = IdleJob.shot
    BY <1>1 DEF MoveStart, IdleJob, TypeOK
  <2> QED
    BY <2>1, <2>2 DEF Turn, TransferPC
<1>2. CASE ReserveLock(j, t, n) \/ ReleaseLock(j, t, n)
  <2>1. UNCHANGED <<inv, booked>> /\ \A k \in Job \ {j} : job'[k] = job[k]
    BY <1>2 DEF ReserveLock, ReleaseLock, Lock, TypeOK
  <2>2. /\ job'[j].pc \in {"reserveSave", "releaseSave"} /\ job'[j].n = n
        /\ job'[j].shot = IdleJob.shot
    BY <1>2 DEF ReserveLock, ReleaseLock, Lock, IdleJob, TypeOK
  <2> QED
    BY <2>1, <2>2 DEF Turn, TransferPC
<1>3. CASE \E to \in Store : TransferStart(j, t, to, n)
  <2>1. UNCHANGED <<inv, booked>> /\ \A k \in Job \ {j} : job'[k] = job[k]
    BY <1>3 DEF TransferStart, TypeOK
  <2>2. job'[j].n = n /\ job'[j].shot = inv
    BY <1>3 DEF TransferStart, IdleJob, TypeOK
  <2> QED
    BY <2>1, <2>2 DEF Turn
<1> QED
  BY <1>1, <1>2, <1>3

\* A turn keeps Asked.
LEMMA TurnAsked ==
  ASSUME InventoryInv, Asked, NEW j \in Job, Turn(j)
  PROVE  Asked'
<1>1. \A r \in Row : IdleJob.shot[r].quantity = 0
  BY DEF IdleJob, NoInvRow
<1>2. \A r \in Row : inv[r].store = NoStore => inv[r].quantity = 0
  BY DEF InventoryInv, AbsentIsBlank, NoInvRow
<1>3. /\ job'[j].pc # "idle" => job'[j].n \in Quantities
      /\ \A r \in Row : job'[j].shot[r].store = NoStore =>
                           job'[j].shot[r].quantity = 0
  <2>1. CASE job'[j] = IdleJob
    BY <1>1, <2>1 DEF IdleJob
  <2>2. CASE job'[j].n \in Quantities /\ job'[j].shot \in {IdleJob.shot, inv}
    BY <1>1, <1>2, <2>2
  <2>3. CASE /\ job[j].pc \in TransferPC
             /\ job'[j].n = job[j].n /\ job'[j].shot = job[j].shot
    BY <2>3 DEF Asked, TransferPC
  <2> QED
    BY <2>1, <2>2, <2>3 DEF Turn
<1> QED
  BY <1>3 DEF Asked, Turn

\* And what the handler saw is what it has seen before, or the table.
LEMMA TurnLooks ==
  ASSUME NEW j \in Job, Turn(j)
  PROVE  Reservations!Look
<1> DEFINE V == {ViewOf(job[k].shot) : k \in {l \in Job : job[l].pc \in TransferPC}}
<1> SUFFICES ASSUME NEW k \in Job, job'[k].pc \in TransferPC
             PROVE  ViewOf(job'[k].shot) \in V \cup {ViewOf(inv)}
  BY DEF Reservations!Look, ViewOf
<1>1. CASE k # j
  BY <1>1 DEF Turn
<1>2. CASE k = j
  <2>1. job'[j] # IdleJob
    BY <1>2 DEF IdleJob, TransferPC
  <2> QED
    BY <1>2, <2>1 DEF Turn
<1> QED
  BY <1>1, <1>2

\* Saving a movement counts one row.
LEMMA MoveMaps ==
  ASSUME InventoryInv, TypeOK', Reservations!Look, NEW r \in Row,
         UNCHANGED booked,
         \A s \in Row : inv'[s].reserved = inv[s].reserved,
         \A s \in Row \ {r} : inv'[s].quantity = inv[s].quantity
  PROVE  Reservations!Next
<1>1. inv'[r].quantity >= 0
  BY DEF TypeOK, InvRow
<1>2. Reservations!Move(r)
  BY <1>1 DEF Reservations!Move, ViewOf
<1> QED
  BY <1>2 DEF Reservations!Next

LEMMA MoveSaveMaps ==
  ASSUME InventoryInv, TypeOK', Reservations!Look, NEW j \in Job, MoveSave(j)
  PROVE  Reservations!Next
<1> DEFINE h == job[j]
<1>1. h.row \in Row
  BY JobFields DEF MoveSave, InventoryInv, TypeOK
<1>2. /\ \A s \in Row : inv'[s].reserved = inv[s].reserved
      /\ \A s \in Row \ {h.row} : inv'[s].quantity = inv[s].quantity
      /\ UNCHANGED booked
  BY <1>1 DEF MoveSave, InventoryInv, TypeOK, InvRow
<1> QED
  BY <1>1, <1>2, MoveMaps

LEMMA MoveInsertMaps ==
  ASSUME InventoryInv, TypeOK', Reservations!Look,
         NEW j \in Job, NEW r \in Row, MoveInsert(j, r)
  PROVE  Reservations!Next
<1>1. inv[r].reserved = 0
  BY DEF MoveInsert, InventoryInv, AbsentIsBlank, NoInvRow
<1>2. /\ \A s \in Row : inv'[s].reserved = inv[s].reserved
      /\ \A s \in Row \ {r} : inv'[s].quantity = inv[s].quantity
      /\ UNCHANGED booked
  BY <1>1 DEF MoveInsert, InventoryInv, TypeOK, InvRow
<1> QED
  BY <1>2, MoveMaps

\* The row a handler has locked, in the terms of Reservations.
LEMMA HeldView ==
  ASSUME InventoryInv, Asked, NEW j \in Job, job[j].pc \in HoldingPC
  PROVE  /\ job[j].row \in Row
         /\ job[j].n \in Quantities /\ job[j].n \in Nat
         /\ job[j].quantity \in Nat /\ job[j].reserved \in Nat
         /\ ViewOf(inv).quantity[job[j].row] = job[j].quantity
         /\ ViewOf(inv).reserved[job[j].row] = job[j].reserved
<1>1. job[j].pc # "idle"
  BY DEF HoldingPC
<1> QED
  BY <1>1, HeldRow, JobFields DEF Asked, ViewOf

\* Saving a reservation is reserving what is available still.
LEMMA ReserveSaveMaps ==
  ASSUME InventoryInv, Asked, Reservations!Look, NEW j \in Job, ReserveSave(j)
  PROVE  Reservations!Next
<1> DEFINE h == job[j]
<1>1. h.pc = "reserveSave" /\ h.pc \in HoldingPC
  BY DEF ReserveSave, HoldingPC
<1>2. h.row \in Row /\ h.n \in Quantities /\ h.reserved = inv[h.row].reserved
  BY <1>1, HeldView, HeldRow
<1>3. ViewOf(inv).quantity[h.row] - ViewOf(inv).reserved[h.row] >= h.n
  BY <1>1, HeldView, AllSound DEF Sound
<1>4. /\ inv' = [inv EXCEPT ![h.row].reserved = h.reserved + h.n]
      /\ booked' = [booked EXCEPT ![h.row] = @ + h.n]
  BY DEF ReserveSave
<1>5. /\ ViewOf(inv).reserved' =
            [ViewOf(inv).reserved EXCEPT ![h.row] = @ + h.n]
      /\ ViewOf(inv).quantity' = ViewOf(inv).quantity
  BY <1>2, <1>4 DEF ViewOf, InventoryInv, TypeOK, InvRow
<1>6. Reservations!Reserve(h.row, h.n)
  BY <1>3, <1>4, <1>5 DEF Reservations!Reserve, Reservations!Book
<1> QED
  BY <1>2, <1>6 DEF Reservations!Next

\* Saving a release is releasing what is reserved still.
LEMMA ReleaseSaveMaps ==
  ASSUME InventoryInv, Asked, Reservations!Look, NEW j \in Job, ReleaseSave(j)
  PROVE  Reservations!Next
<1> DEFINE h == job[j]
<1>1. h.pc = "releaseSave" /\ h.pc \in HoldingPC
  BY DEF ReleaseSave, HoldingPC
<1>2. /\ h.row \in Row /\ h.n \in Quantities /\ h.n \in Nat
      /\ h.reserved = inv[h.row].reserved /\ h.reserved \in Nat
  BY <1>1, HeldView, HeldRow
<1>3. ViewOf(inv).reserved[h.row] >= h.n
  BY <1>1, HeldView, AllSound DEF Sound
<1>4. h.reserved - h.n = h.reserved + (-h.n)
      /\ \A x \in Int : x - h.n = x + (-h.n)
  BY <1>2
<1>5. /\ inv' = [inv EXCEPT ![h.row].reserved = h.reserved - h.n]
      /\ booked' = [booked EXCEPT ![h.row] = @ - h.n]
  BY DEF ReleaseSave
<1>6. /\ ViewOf(inv).reserved' =
            [ViewOf(inv).reserved EXCEPT ![h.row] = @ + (-h.n)]
      /\ ViewOf(inv).quantity' = ViewOf(inv).quantity
  BY <1>2, <1>4, <1>5 DEF ViewOf, InventoryInv, TypeOK, InvRow
<1>7. booked' = [booked EXCEPT ![h.row] = @ + (-h.n)]
  BY <1>2, <1>4, <1>5 DEF InventoryInv, TypeOK
<1>8. Reservations!Release(h.row, h.n)
  BY <1>3, <1>6, <1>7 DEF Reservations!Release, Reservations!Book
<1> QED
  BY <1>2, <1>8 DEF Reservations!Next

\* What a transfer saw is one of the views.
LEMMA TransferView ==
  ASSUME InventoryInv, NEW j \in Job, job[j].pc = "transferSave"
  PROVE  /\ ViewOf(job[j].shot) \in
               {ViewOf(job[k].shot) : k \in {l \in Job : job[l].pc \in TransferPC}}
         /\ job[j].shot \in [Row -> InvRow]
         /\ \A r \in Row :
               /\ ViewOf(job[j].shot).quantity[r] = job[j].shot[r].quantity
               /\ ViewOf(job[j].shot).reserved[r] = job[j].shot[r].reserved
  BY JobFields DEF InventoryInv, TypeOK, TransferPC, ViewOf

\* Writing the source less n and the destination seen plus n is a transfer.
LEMMA TransferMaps ==
  ASSUME InventoryInv, Asked, Reservations!Look, NEW j \in Job, NEW d \in Row,
         job[j].pc = "transferSave", d # job[j].row, UNCHANGED booked,
         \A r \in Row : inv'[r].reserved = inv[r].reserved,
         inv'[job[j].row].quantity = SourceQuantity(job[j]),
         inv'[d].quantity = job[j].shot[d].quantity + job[j].n,
         \A r \in Row \ {d, job[j].row} : inv'[r].quantity = inv[r].quantity
  PROVE  Reservations!Next
<1> DEFINE h == job[j]
           v == ViewOf(h.shot)
<1>1. h.pc \in HoldingPC
  BY DEF HoldingPC
<1>2. /\ h.row \in Row /\ h.n \in Quantities
      /\ h.quantity = inv[h.row].quantity
      /\ h.reserved = inv[h.row].reserved
  BY <1>1, HeldView, HeldRow
<1>3. ViewOf(inv).quantity[h.row] - ViewOf(inv).reserved[h.row] >= h.n
  BY <1>1, HeldView, AllSound DEF Sound
<1>4. /\ v.quantity[h.row] = h.shot[h.row].quantity
      /\ v.quantity[d] = h.shot[d].quantity
  BY <1>2, TransferView
<1>5. /\ ViewOf(inv).quantity' =
            [ViewOf(inv).quantity EXCEPT
               ![h.row] = IF @ - h.n = v.quantity[h.row] THEN @ ELSE @ - h.n,
               ![d] = v.quantity[d] + h.n]
      /\ ViewOf(inv).reserved' = ViewOf(inv).reserved
  <2> HIDE DEF v
  <2> QED
    BY <1>2, <1>4 DEF ViewOf, SourceQuantity
<1>6. Reservations!Transfer(h.row, d, h.n, v)
  <2> HIDE DEF v
  <2> QED
    BY <1>3, <1>5 DEF Reservations!Transfer
<1> QED
  BY <1>2, <1>6, TransferView DEF Reservations!Next

LEMMA TransferSaveMaps ==
  ASSUME InventoryInv, Asked, Reservations!Look, NEW j \in Job, TransferSave(j)
  PROVE  Reservations!Next
<1> DEFINE h == job[j]
           d == Found(h.shot, h.to)
<1>1. /\ h.pc = "transferSave" /\ h.pc \in HoldingPC
      /\ d # NoRow /\ d # h.row /\ UNCHANGED booked
      /\ inv' = [inv EXCEPT ![h.row].quantity = SourceQuantity(h),
                            ![d].quantity = h.shot[d].quantity + h.n]
  BY DEF TransferSave, HoldingPC
<1>2. h.row \in Row /\ d \in Row /\ inv \in [Row -> InvRow]
  BY <1>1, HeldRow, DestinationRow DEF InventoryInv, TypeOK
<1> HIDE DEF d
<1>3. /\ \A r \in Row : inv'[r].reserved = inv[r].reserved
      /\ inv'[h.row].quantity = SourceQuantity(h)
      /\ inv'[d].quantity = h.shot[d].quantity + h.n
      /\ \A r \in Row \ {d, h.row} : inv'[r].quantity = inv[r].quantity
  BY <1>1, <1>2 DEF InvRow
<1> QED
  BY <1>1, <1>2, <1>3, TransferMaps

LEMMA TransferInsertMaps ==
  ASSUME InventoryInv, Asked, Reservations!Look, NEW j \in Job, NEW d \in Row,
         TransferInsert(j, d)
  PROVE  Reservations!Next
<1> DEFINE h == job[j]
<1>1. /\ h.pc = "transferSave" /\ h.pc \in HoldingPC
      /\ inv[d].store = NoStore /\ UNCHANGED booked
      /\ inv' = [inv EXCEPT ![h.row].quantity = SourceQuantity(h),
                            ![d] = [store |-> h.to, quantity |-> h.n,
                                    reserved |-> 0]]
  BY DEF TransferInsert, HoldingPC
<1>2. /\ h.row \in Row /\ inv[h.row].store # NoStore /\ d # h.row
      /\ h.n \in Nat /\ inv \in [Row -> InvRow]
  BY <1>1, HeldRow, HeldView DEF InventoryInv, TypeOK
<1>3. inv[d].reserved = 0
  BY <1>1 DEF InventoryInv, AbsentIsBlank, NoInvRow
<1>4. h.shot[d].quantity = 0
  <2>1. h.shot[d].store = NoStore
    BY <1>1, AllSound DEF Sound
  <2> QED
    BY <2>1 DEF Asked
<1>5. /\ \A r \in Row : inv'[r].reserved = inv[r].reserved
      /\ inv'[h.row].quantity = SourceQuantity(h)
      /\ inv'[d].quantity = h.shot[d].quantity + h.n
      /\ \A r \in Row \ {d, h.row} : inv'[r].quantity = inv[r].quantity
  BY <1>1, <1>2, <1>3, <1>4 DEF InvRow
<1> QED
  BY <1>1, <1>2, <1>5, TransferMaps

LEMMA TransferToItselfMaps ==
  ASSUME InventoryInv, Asked, Reservations!Look, NEW j \in Job,
         TransferToItself(j)
  PROVE  Reservations!Next
<1> DEFINE h == job[j]
           d == h.row
           v == ViewOf(h.shot)
<1>1. /\ h.pc = "transferSave" /\ h.pc \in HoldingPC
      /\ inv' = [inv EXCEPT ![d].quantity = h.shot[d].quantity + h.n,
                            ![d].reserved = h.shot[d].reserved]
      /\ booked' = [booked EXCEPT ![d] = h.shot[d].reserved]
  BY DEF TransferToItself, HoldingPC
<1>2. /\ d \in Row /\ h.n \in Quantities /\ inv \in [Row -> InvRow]
  BY <1>1, HeldView DEF InventoryInv, TypeOK
<1>3. ViewOf(inv).quantity[d] - ViewOf(inv).reserved[d] >= h.n
  BY <1>1, HeldView, AllSound DEF Sound
<1>4. /\ v.quantity[d] = h.shot[d].quantity
      /\ v.reserved[d] = h.shot[d].reserved
  BY <1>1, <1>2, TransferView
<1>5. /\ ViewOf(inv).quantity' =
            [ViewOf(inv).quantity EXCEPT ![d] = v.quantity[d] + h.n]
      /\ ViewOf(inv).reserved' =
            [ViewOf(inv).reserved EXCEPT ![d] = v.reserved[d]]
      /\ booked' = [booked EXCEPT ![d] = v.reserved[d]]
  <2> HIDE DEF v
  <2> QED
    BY <1>1, <1>2, <1>4 DEF ViewOf, InvRow
<1>6. Reservations!TransferToItself(d, h.n, v)
  <2> HIDE DEF v
  <2> QED
    BY <1>3, <1>5 DEF Reservations!TransferToItself
<1> QED
  BY <1>1, <1>2, <1>6, TransferView DEF Reservations!Next

\* A step that writes nothing is one that only looks.
LEMMA LookMaps ==
  ASSUME Reservations!Look, UNCHANGED <<inv, booked>>
  PROVE  Reservations!Next
  BY DEF Reservations!Next, ViewOf

\* Every step of Inventory is a step of Reservations.
LEMMA StepsMap ==
  ASSUME InventoryInv, TypeOK', Asked, [Next]_vars
  PROVE  Asked' /\ [Reservations!Next]_Reservations!vars
<1>1. CASE Request
  BY <1>1, RequestTurns, TurnAsked, TurnLooks, LookMaps DEF InventoryInv
<1>2. ASSUME NEW j \in Job, Step(j) \/ Abort(j)
      PROVE  Asked' /\ Reservations!Next
  <2>1. Turn(j)
    BY <1>2, StepTurns DEF InventoryInv
  <2>2. Asked' /\ Reservations!Look
    BY <2>1, TurnAsked, TurnLooks
  <2>3. CASE UNCHANGED <<inv, booked>>
    BY <2>2, <2>3, LookMaps
  <2> QED
    BY <1>2, <2>2, <2>3, MoveSaveMaps, MoveInsertMaps, ReserveSaveMaps,
       ReleaseSaveMaps, TransferSaveMaps, TransferInsertMaps,
       TransferToItselfMaps
       DEF Step, Abort, TransferLock, TransferRejected, TransferFails
<1>3. CASE UNCHANGED vars
  BY <1>3 DEF vars, Asked, Reservations!vars, ViewOf
<1> QED
  BY <1>1, <1>2, <1>3 DEF Next

\* Inventory implements Reservations: whatever movements, releases and
\* transfers interleave, a reservation is one step for goods that are there,
\* none is lost or counted twice, and a transfer leaves what is reserved
\* (inventory.service.ts, reserveStock, releaseStock and transferStock).
THEOREM ReservationsAreAtomic == Spec => ImplementsReservations
<1>1. Init => Reservations!Init /\ Asked
  <2> SUFFICES ASSUME Init PROVE Reservations!Init /\ Asked
    OBVIOUS
  <2>1. \A j \in Job : job[j].pc = "idle"
    BY DEF Init, IdleJob
  <2>2. \A j \in Job, r \in Row : job[j].shot[r].quantity = 0
    BY DEF Init, IdleJob, NoInvRow
  <2>3. /\ ViewOf(inv).quantity = [r \in Row |-> 0]
        /\ ViewOf(inv).reserved = [r \in Row |-> 0]
    BY DEF Init, ViewOf, NoInvRow
  <2> QED
    BY <2>1, <2>2, <2>3
       DEF Init, Reservations!Init, Reservations!Nothing, Asked, TransferPC
<1>2. InventoryInv => TypeOK
  BY DEF InventoryInv
<1>3. InventoryInv /\ TypeOK' /\ Asked /\ [Next]_vars =>
         Asked' /\ [Reservations!Next]_Reservations!vars
  BY StepsMap
<1> QED
  BY <1>1, <1>2, <1>3, InventoryInvariance, PTL
     DEF Spec, ImplementsReservations, Reservations!Spec

=============================================================================
