-------------------------- MODULE InventoryInvariant --------------------------
(***************************************************************************)
(* The inductive invariant of Inventory: what a handler that holds a lock  *)
(* has read is what the row holds, and no other handler holds that lock;   *)
(* and its refinement mapping to Reservations.                             *)
(***************************************************************************)
EXTENDS Inventory

Holding(j) == job[j].pc \in HoldingPC

(* At most one handler holds the rows of a store.                          *)
LocksExclusive ==
    \A j, k \in Job :
       Holding(j) /\ Holding(k) /\ job[j].store = job[k].store => j = k

(* A row that a handler has found is still a row of its store.             *)
FoundIsThere ==
    \A j \in Job :
       /\ Holding(j) => job[j].row # NoRow
       /\ ~ Free(j) => job[j].store \in Store
       /\ ~ Free(j) /\ job[j].row # NoRow
            => inv[job[j].row].store = job[j].store

(* What was read under the lock has not changed.                           *)
ReadIsCurrent ==
    \A j \in Job :
       Holding(j) => /\ job[j].quantity = inv[job[j].row].quantity
                     /\ job[j].reserved = inv[job[j].row].reserved

(* What has been checked under the lock still holds.                       *)
CheckedHolds ==
    \A j \in Job :
       /\ job[j].pc \in {"reserveSave", "transferSave"}
            => job[j].quantity - job[j].reserved >= job[j].n
       /\ job[j].pc = "releaseSave" => job[j].reserved >= job[j].n

(* An OUT that has begun does not go below zero.                           *)
MoveIsNatural ==
    \A j \in Job :
       job[j].pc = "moveSave" =>
          /\ NewQuantity(job[j].type, job[j].quantity, job[j].n) \in Nat
          /\ job[j].row = NoRow => job[j].quantity = 0

(* Rows stay in their store: a snapshot's rows are rows still.             *)
SnapshotStores ==
    \A j \in Job :
       job[j].pc \in {"transferLock", "transferSave"} =>
          /\ job[j].to \in Store
          /\ \A r \in Row : job[j].shot[r].store # NoStore
                               => inv[r].store = job[j].shot[r].store

(* An id without a row has nothing reserved.                               *)
AbsentIsBlank ==
    \A r \in Row : inv[r].store = NoStore
                      => inv[r] = NoInvRow /\ booked[r] = 0

InventoryInv ==
    /\ TypeOK
    /\ LocksExclusive
    /\ FoundIsThere
    /\ ReadIsCurrent
    /\ CheckedHolds
    /\ MoveIsNatural
    /\ SnapshotStores
    /\ AbsentIsBlank
    /\ ReservationsBooked

(* Inventory implements Reservations: movements, which lock nothing before *)
(* they save, and transfers, which save what a snapshot showed them, undo  *)
(* no reservation and count none twice, and a transfer leaves its source   *)
(* what is reserved there.                                                 *)
ViewOf(table) == [quantity |-> [r \in Row |-> table[r].quantity],
                  reserved |-> [r \in Row |-> table[r].reserved]]

TransferPC == {"transferLock", "transferSave"}

Reservations == INSTANCE Reservations WITH
    quantity <- ViewOf(inv).quantity,
    reserved <- ViewOf(inv).reserved,
    views    <- {ViewOf(job[j].shot) : j \in {k \in Job : job[k].pc \in TransferPC}}

ImplementsReservations == Reservations!Spec
=============================================================================
