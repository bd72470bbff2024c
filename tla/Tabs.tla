-------------------------------- MODULE Tabs --------------------------------
(***************************************************************************)
(* What F&B orders promise the guest and the till, without the handlers,   *)
(* the rows they save back and the amounts of the bills.  An order has one *)
(* open bill at a time; a bill that was paid is not open again, though the *)
(* sale can be voided; and an order is closed only by a checkout, after it *)
(* has committed a sale: the order the sale names or, if it names none,    *)
(* one that was open at its table then.  Nothing else is promised: orders  *)
(* move between tables, and a closed one can be opened again.              *)
(***************************************************************************)
EXTENDS Naturals

CONSTANTS
    Order,      \* orders are numbered as they are placed
    NoOrder,
    Sale,       \* rows of table transactions
    NoSale,
    Table,
    NoTable,
    Job         \* those who can stand at the desk

VARIABLES
    tabs,       \* the table and the status of each order
    slips,      \* bills and sales: their status and the order they name
    desk        \* the checkouts: what they pay, or are owed for a sale

vars == <<tabs, slips, desk>>

Blank(what) == what.status = "none"

Away == [at |-> "away", order |-> NoOrder, table |-> NoTable,
         sale |-> NoSale]

Init ==
    /\ tabs = [o \in Order |-> [status |-> "none", table |-> NoTable]]
    /\ slips = [s \in Sale |-> [status |-> "none", order |-> NoOrder]]
    /\ desk = [j \in Job |-> Away]

Place(o, t) ==
    /\ Blank(tabs[o])
    /\ \A p \in Order : p < o => ~ Blank(tabs[p])
    /\ tabs' = [tabs EXCEPT ![o] = [status |-> "active", table |-> t]]
    /\ UNCHANGED <<slips, desk>>

(* Moved, cancelled or opened again.                                       *)
Change(o, status, t) ==
    /\ ~ Blank(tabs[o])
    /\ tabs' = [tabs EXCEPT ![o] = [status |-> status, table |-> t]]
    /\ UNCHANGED <<slips, desk>>

Open(o) == {s \in Sale : slips[s].status = "pending" /\ slips[s].order = o}

Bill(s, o) ==
    /\ Blank(slips[s])
    /\ ~ Blank(tabs[o])
    /\ Open(o) = {}
    /\ slips' = [slips EXCEPT ![s] = [status |-> "pending", order |-> o]]
    /\ UNCHANGED <<tabs, desk>>

(* A checkout takes the open bill of its order, if there is one.           *)
Come(j, o, t, s) ==
    /\ desk[j] = Away
    /\ o # NoOrder => ~ Blank(tabs[o])
    /\ IF o # NoOrder /\ Open(o) # {} THEN s \in Open(o) ELSE s = NoSale
    /\ desk' = [desk EXCEPT ![j] =
                   [at |-> "till", order |-> o, table |-> t, sale |-> s]]
    /\ UNCHANGED <<tabs, slips>>

(* The sale: the bill that was taken, even if another checkout that took   *)
(* it was faster, or else a new one.                                       *)
Pay(j, s) ==
    /\ desk[j].at = "till"
    /\ IF desk[j].sale = NoSale THEN Blank(slips[s]) ELSE s = desk[j].sale
    /\ slips' = [slips EXCEPT ![s] =
                    [status |-> "completed", order |-> desk[j].order]]
    /\ desk' = [desk EXCEPT ![j] =
                   IF desk[j].order = NoOrder /\ desk[j].table = NoTable
                   THEN Away
                   ELSE [at |-> "paid", order |-> desk[j].order,
                         table |-> desk[j].table, sale |-> NoSale]]
    /\ UNCHANGED tabs

(* Which order is owed to the checkout.                                    *)
Look(j, o) ==
    /\ desk[j].at = "paid"
    /\ \/ o = desk[j].order
       \/ desk[j].order = NoOrder /\ tabs[o].status = "active"
                                  /\ tabs[o].table = desk[j].table
    /\ desk' = [desk EXCEPT ![j] =
                   [at |-> "close", order |-> o, table |-> NoTable,
                    sale |-> NoSale]]
    /\ UNCHANGED <<tabs, slips>>

Close(j) ==
    /\ desk[j].at = "close"
    /\ tabs' = [tabs EXCEPT ![desk[j].order].status = "completed"]
    /\ desk' = [desk EXCEPT ![j] = Away]
    /\ UNCHANGED slips

Leave(j) ==
    /\ desk' = [desk EXCEPT ![j] = Away]
    /\ UNCHANGED <<tabs, slips>>

Void(s) ==
    /\ slips[s].status = "completed"
    /\ slips' = [slips EXCEPT ![s].status = "voided"]
    /\ UNCHANGED <<tabs, desk>>

Next ==
    \/ \E o \in Order, t \in Table \cup {NoTable} :
          \/ Place(o, t)
          \/ \E status \in {"active", "cancelled"} : Change(o, status, t)
    \/ \E s \in Sale : Void(s) \/ \E o \in Order : Bill(s, o)
    \/ \E j \in Job :
          \/ \E o \in Order \cup {NoOrder}, t \in Table \cup {NoTable},
                s \in Sale \cup {NoSale} : Come(j, o, t, s)
          \/ \E s \in Sale : Pay(j, s)
          \/ \E o \in Order : Look(j, o)
          \/ Close(j) \/ Leave(j)

Spec == Init /\ [][Next]_vars
=============================================================================
