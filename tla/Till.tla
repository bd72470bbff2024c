-------------------------------- MODULE Till --------------------------------
(***************************************************************************)
(* What checkout promises the shop, without transactions, locks, snapshots *)
(* and unique keys: a sale is one step, which takes the goods in the cart, *)
(* all of them in stock, and hands out the store's next receipt.  What is  *)
(* on a receipt is never changed.  Nothing is promised about the stock of  *)
(* a product that somebody edits or puts back.                             *)
(***************************************************************************)
EXTENDS Naturals, FiniteSets

CONSTANTS
    Product,
    InitialStock,
    Sale,           \* rows of table transactions
    Store,
    Carts           \* what customers buy: quantities per product

VARIABLES
    stock,      \* quantities on the shelf
    receipts,   \* records of a store, a number and the sale it is for
    sold,       \* quantities sold so far
    touched     \* products whose stock was edited or put back

vars == <<stock, receipts, sold, touched>>

Init ==
    /\ stock = InitialStock
    /\ receipts = {}
    /\ sold = [p \in Product |-> 0]
    /\ touched = {}

Receipts(t) == {r \in receipts : r.store = t}

(* A store numbers its receipts 1, 2, 3, ...                               *)
HandOut(t, s) ==
    /\ \A r \in receipts : r.sale # s
    /\ receipts' = receipts \cup
         {[store |-> t, number |-> Cardinality(Receipts(t)) + 1, sale |-> s]}

(* An order is paid a second time: its sale keeps the receipt it has.      *)
Keep(t, s) == (\E r \in Receipts(t) : r.sale = s) /\ UNCHANGED receipts

(* Each product in the cart is in stock, and this much of it leaves it.    *)
Take(c) ==
    /\ sold' = [p \in Product |-> sold[p] + c[p]]
    /\ \A p \in Product :
          /\ p \notin touched => stock[p] >= c[p]
          /\ (p \notin touched \/ c[p] = 0) => stock'[p] = stock[p] - c[p]

Sell(t, s, c) ==
    /\ HandOut(t, s) \/ Keep(t, s)
    /\ Take(c)
    /\ UNCHANGED touched

(* A laundry order was delivered.                                          *)
Deliver(t, s) == HandOut(t, s) /\ UNCHANGED <<stock, sold, touched>>

(* The products in S are edited, or put back by a void or a refund.        *)
Adjust(S) ==
    /\ touched' = touched \cup S
    /\ \A p \in Product \ S : stock'[p] = stock[p]
    /\ UNCHANGED <<receipts, sold>>

Next ==
    \/ \E t \in Store, s \in Sale :
          Deliver(t, s) \/ \E c \in Carts : Sell(t, s, c)
    \/ \E S \in SUBSET Product : Adjust(S)

Spec == Init /\ [][Next]_vars
=============================================================================
