---------------------------- MODULE Reservations ----------------------------
(***************************************************************************)
(* What reserving stock promises, without transactions and locks: a        *)
(* reservation is one step, for goods that are there and not reserved yet, *)
(* and only its release or a transfer from a row to itself ends it.        *)
(* Movements may count the stock to anything, reserved or not; a transfer  *)
(* takes nothing that is reserved, but works on the stock it saw when it   *)
(* was begun.                                                              *)
(***************************************************************************)
EXTENDS Integers

CONSTANTS
    Row,          \* ids of table inventory
    Quantities    \* quantities in requests

VARIABLES
    quantity,   \* of each row
    reserved,   \* of each row
    booked,     \* reserved less released, by the log of movements
    views       \* what the transfers that have begun saw

vars == <<quantity, reserved, booked, views>>

Nothing == [r \in Row |-> 0]

Init ==
    /\ quantity = Nothing
    /\ reserved = Nothing
    /\ booked = Nothing
    /\ views = {}

(* Adds n to what r has reserved, and to the log.                          *)
Book(r, n) ==
    /\ reserved' = [reserved EXCEPT ![r] = @ + n]
    /\ booked' = [booked EXCEPT ![r] = @ + n]
    /\ UNCHANGED quantity

Reserve(r, n) == quantity[r] - reserved[r] >= n /\ Book(r, n)

Release(r, n) == reserved[r] >= n /\ Book(r, -n)

Move(r) ==
    /\ quantity'[r] >= 0
    /\ \A s \in Row \ {r} : quantity'[s] = quantity[s]
    /\ UNCHANGED <<reserved, booked>>

(* The source keeps what it had if that is n less than what was seen.      *)
Transfer(r, d, n, v) ==
    /\ r # d
    /\ quantity[r] - reserved[r] >= n
    /\ quantity' =
         [quantity EXCEPT
            ![r] = IF @ - n = v.quantity[r] THEN @ ELSE @ - n,
            ![d] = v.quantity[d] + n]
    /\ UNCHANGED <<reserved, booked>>

TransferToItself(r, n, v) ==
    /\ quantity[r] - reserved[r] >= n
    /\ quantity' = [quantity EXCEPT ![r] = v.quantity[r] + n]
    /\ reserved' = [reserved EXCEPT ![r] = v.reserved[r]]
    /\ booked' = [booked EXCEPT ![r] = v.reserved[r]]

(* Transfers begin and end at any time.                                    *)
Look ==
    views' \subseteq
      views \cup {[quantity |-> quantity, reserved |-> reserved]}

Next ==
    /\ Look
    /\ \/ UNCHANGED <<quantity, reserved, booked>>
       \/ \E r \in Row :
             \/ Move(r)
             \/ \E n \in Quantities :
                   \/ Reserve(r, n) \/ Release(r, n)
                   \/ \E v \in views :
                         \/ TransferToItself(r, n, v)
                         \/ \E d \in Row : Transfer(r, d, n, v)

Spec == Init /\ [][Next]_vars
=============================================================================
