-------------------------- MODULE CustomerAccounts --------------------------
(***************************************************************************)
(* The points, the total spent and the tier of a company's customers, and  *)
(* the sales they are computed from (apps/api/src/modules/customers, with  *)
(* what checkout, void and a laundry delivery do to them).                 *)
(*                                                                         *)
(* A handler of the customers module reads a row, awaits, and saves it.    *)
(* Outside a transaction save() reads the row again and updates what       *)
(* differs: every column, the flag deleted included, is put back to what   *)
(* the handler read, but for those it changed.  Checkout and void run in a *)
(* transaction and change the total by an SQL increment, under the lock of *)
(* that UPDATE until they commit: they are the step that commits.          *)
(*                                                                         *)
(* Totals are counted in cents, and sales have one price.  The log of      *)
(* points, which no handler reads, and the count of orders, which goes     *)
(* with the total, are left out; so is the creation of customers.          *)
(***************************************************************************)
EXTENDS Integers, FiniteSets

CONSTANTS
    Customer,
    NoCustomer,
    Sale,          \* rows of table transactions
    NoSale,
    Job,           \* slots for concurrently running handlers
    Price,         \* of a sale
    Rank,          \* the tiers above regular
    Spending,      \* the total a rank takes, in the service and at checkout
    PageSpending,  \* ... and in the query of the page's "upgrade all"
    Gift,          \* points given at a birthday
    Amounts,       \* points in requests
    Earnings,      \* points a checkout computes
    MaxPoints      \* bound on the points given when more are asked for

ASSUME AccountsAssumption ==
    /\ NoCustomer \notin Customer
    /\ NoSale \notin Sale
    /\ IsFiniteSet(Sale)
    /\ Price \in Nat
    /\ Spending \in [Rank -> Nat]
    /\ PageSpending \in [Rank -> Nat]
    /\ Gift \in Nat
    /\ Amounts \subseteq Nat \ {0}
    /\ Earnings \subseteq Nat
    /\ MaxPoints \in Nat

VARIABLES
    customers,   \* table customers
    sales,       \* table transactions
    job,         \* where each running handler is and what it has read
    granted,     \* history: points ever given, by a request or a birthday
    cents        \* history: cents that additions of points put on the total

vars == <<customers, sales, job, granted, cents>>

----------------------------------------------------------------------------
(* tier is the set of ranks reached, {} for regular.                       *)
CustomerRow == [points: Nat, spent: Nat, tier: SUBSET Rank,
                active: BOOLEAN, deleted: BOOLEAN]

NewCustomer == [points |-> 0, spent |-> 0, tier |-> {},
                active |-> TRUE, deleted |-> FALSE]

SaleRow == [customer: Customer \cup {NoCustomer}, earned: Nat,
            status: {"none", "completed", "voided"}]

NoSaleRow == [customer |-> NoCustomer, earned |-> 0, status |-> "none"]

PC == {"idle", "addSave", "redeemSave", "editSave", "upgradeSave",
       "cronCheck", "cronSave", "birthday", "voidCommit"}

JobRow == [pc: PC, customer: Customer \cup {NoCustomer},
           row: CustomerRow,                  \* the row it has read
           n: Nat,                            \* points asked, or earned
           active: BOOLEAN,                   \* flag of the request
           sale: Sale \cup {NoSale},
           todo: SUBSET Customer,             \* listed and not yet visited
           shot: [Customer -> Nat]]           \* points as listed

IdleJob == [pc |-> "idle", customer |-> NoCustomer, row |-> NewCustomer,
            n |-> 0, active |-> TRUE, sale |-> NoSale, todo |-> {},
            shot |-> [c \in Customer |-> 0]]

TypeOK ==
    /\ customers \in [Customer -> CustomerRow]
    /\ sales \in [Sale -> SaleRow]
    /\ job \in [Job -> JobRow]
    /\ granted \in [Customer -> Nat]
    /\ cents \in [Customer -> Nat]

Init ==
    /\ customers = [c \in Customer |-> NewCustomer]
    /\ sales = [s \in Sale |-> NoSaleRow]
    /\ job = [j \in Job |-> IdleJob]
    /\ granted = [c \in Customer |-> 0]
    /\ cents = [c \in Customer |-> 0]

----------------------------------------------------------------------------
Reached(table, spent) == {k \in Rank : table[k] <= spent}

TierOf(spent) == Reached(Spending, spent)

Live(c) == ~ customers[c].deleted

SoldTo(c) == {s \in Sale : sales[s].status # "none" /\ sales[s].customer = c}

CompletedOf(c) == {s \in SoldTo(c) : sales[s].status = "completed"}

Free(j) == job[j].pc = "idle"

Done(j) == job' = [job EXCEPT ![j] = IdleJob]

(* A handler finds the customer and keeps the row.                         *)
Find(j, c, pc, n, active) ==
    /\ Free(j)
    /\ Live(c)
    /\ job' = [job EXCEPT ![j] =
                  [IdleJob EXCEPT !.pc = pc, !.customer = c, !.n = n,
                                  !.row = customers[c], !.active = active]]
    /\ UNCHANGED <<customers, sales, granted, cents>>

Save(c, row) == customers' = [customers EXCEPT ![c] = row]

Room(c, n) == granted[c] + n <= MaxPoints

Grant(c, n) == granted' = [granted EXCEPT ![c] = @ + n]

----------------------------------------------------------------------------
(* Handlers of the customers module *)

AddRead(j, c, n) ==
    /\ Room(c, n)
    /\ Find(j, c, "addSave", n, TRUE)

(* The total is a decimal column, which the driver returns as a string: +  *)
(* appends the amount of the request after its two decimals, and the       *)
(* column rounds half up, so that an amount that begins with 5 to 9 adds a *)
(* cent, whatever it is.  The tier is that of the total as it was read: no *)
(* threshold is between it and the string.                                 *)
AddSave(j, cent) ==
    LET h == job[j]
    IN /\ h.pc = "addSave"
       /\ Save(h.customer, [h.row EXCEPT !.points = @ + h.n,
                                         !.spent = @ + cent,
                                         !.tier = TierOf(h.row.spent)])
       /\ Grant(h.customer, h.n)
       /\ cents' = [cents EXCEPT ![h.customer] = @ + cent]
       /\ Done(j)
       /\ UNCHANGED sales

(* Mutant of RedeemRead: the balance is not compared.                      *)
RedeemReadAny(j, c, n) == Find(j, c, "redeemSave", n, TRUE)

RedeemRead(j, c, n) ==
    /\ n <= customers[c].points
    /\ Find(j, c, "redeemSave", n, TRUE)

RedeemSave(j) ==
    LET h == job[j]
    IN /\ h.pc = "redeemSave"
       /\ Save(h.customer, [h.row EXCEPT !.points = @ - h.n])
       /\ Done(j)
       /\ UNCHANGED <<sales, granted, cents>>

EditRead(j, c, active) == Find(j, c, "editSave", 0, active)

EditSave(j) ==
    LET h == job[j]
    IN /\ h.pc = "editSave"
       /\ Save(h.customer, [h.row EXCEPT !.active = h.active])
       /\ Done(j)
       /\ UNCHANGED <<sales, granted, cents>>

(* softRemove() writes deleted_at only.                                    *)
Remove(c) ==
    /\ Live(c)
    /\ customers' = [customers EXCEPT ![c].deleted = TRUE]
    /\ UNCHANGED <<sales, job, granted, cents>>

(* One statement: the join leaves out customers with no completed sale.    *)
SyncTotals ==
    /\ customers' = [c \in Customer |->
                        IF CompletedOf(c) = {} THEN customers[c]
                        ELSE [customers[c] EXCEPT
                                 !.spent =
                                    Price * Cardinality(CompletedOf(c))]]
    /\ UNCHANGED <<sales, job, granted, cents>>

(* "Upgrade all" of the customers page, one statement with totals of its   *)
(* own for the ranks.                                                      *)
SetAllTiers ==
    /\ customers' = [c \in Customer |->
                        IF ~ Live(c) THEN customers[c]
                        ELSE [customers[c] EXCEPT
                                 !.tier = Reached(PageSpending,
                                                  customers[c].spent)]]
    /\ UNCHANGED <<sales, job, granted, cents>>

----------------------------------------------------------------------------
(* The tier of one customer, and the daily run over all *)

Misfits(c) == customers[c].tier # TierOf(customers[c].spent)

UpgradeRead(j, c) ==
    /\ Misfits(c)
    /\ Find(j, c, "upgradeSave", 0, TRUE)

Upgraded(row) == [row EXCEPT !.tier = TierOf(row.spent)]

UpgradeSave(j) ==
    LET h == job[j]
    IN /\ h.pc = "upgradeSave"
       /\ Save(h.customer, Upgraded(h.row))
       /\ Done(j)
       /\ UNCHANGED <<sales, granted, cents>>

(* checkAndUpgradeAllTiers lists the active customers once; of those, it   *)
(* calls updateCustomerTier for the ones whose listed tier misfits.        *)
CronRead(j) ==
    LET listed == {c \in Customer :
                      Live(c) /\ customers[c].active /\ Misfits(c)}
    IN /\ Free(j)
       /\ listed # {}
       /\ job' = [job EXCEPT ![j] = [IdleJob EXCEPT !.pc = "cronCheck",
                                                    !.todo = listed]]
       /\ UNCHANGED <<customers, sales, granted, cents>>

CronNext(j, c) ==
    job' = [job EXCEPT ![j] =
               IF job[j].todo = {c} THEN IdleJob
               ELSE [IdleJob EXCEPT !.pc = "cronCheck",
                                    !.todo = job[j].todo \ {c}]]

(* A customer removed since ends the run: the loop is inside the try.      *)
CronCheck(j, c) ==
    LET h == job[j]
    IN /\ h.pc = "cronCheck"
       /\ c \in h.todo
       /\ \/ ~ Live(c) /\ Done(j)
          \/ Live(c) /\ ~ Misfits(c) /\ CronNext(j, c)
          \/ /\ Live(c) /\ Misfits(c)
             /\ job' = [job EXCEPT ![j].pc = "cronSave", ![j].customer = c,
                                   ![j].row = customers[c]]
       /\ UNCHANGED <<customers, sales, granted, cents>>

(* Mutant of CronSave: the save is not awaited, and lost.                  *)
CronSaveLost(j) ==
    LET h == job[j]
    IN /\ h.pc = "cronSave"
       /\ CronNext(j, h.customer)
       /\ UNCHANGED <<customers, sales, granted, cents>>

CronSave(j) ==
    LET h == job[j]
    IN /\ h.pc = "cronSave"
       /\ Save(h.customer, Upgraded(h.row))
       /\ CronNext(j, h.customer)
       /\ UNCHANGED <<sales, granted, cents>>

----------------------------------------------------------------------------
(* The birthday run *)

(* It lists whose birthday it is, any of the active customers.             *)
BirthdayRead(j, listed) ==
    /\ Free(j)
    /\ listed # {}
    /\ \A c \in listed : Live(c) /\ customers[c].active /\ Room(c, Gift)
    /\ job' = [job EXCEPT ![j] =
                  [IdleJob EXCEPT !.pc = "birthday", !.todo = listed,
                      !.shot = [c \in Customer |->
                                   IF c \in listed THEN customers[c].points
                                   ELSE 0]]]
    /\ UNCHANGED <<customers, sales, granted, cents>>

BirthdayNext(j, c) ==
    job' = [job EXCEPT ![j] =
               IF job[j].todo = {c} THEN IdleJob
               ELSE [job[j] EXCEPT !.todo = @ \ {c}, !.shot[c] = 0]]

(* After the mail is sent, the points become what was listed and the gift. *)
BirthdayGift(j, c) ==
    LET h == job[j]
    IN /\ h.pc = "birthday"
       /\ c \in h.todo
       /\ customers' = [customers EXCEPT ![c].points = h.shot[c] + Gift]
       /\ Grant(c, Gift)
       /\ BirthdayNext(j, c)
       /\ UNCHANGED <<sales, cents>>

(* The mail fails: the next customer.                                      *)
BirthdaySkip(j, c) ==
    LET h == job[j]
    IN /\ h.pc = "birthday"
       /\ c \in h.todo
       /\ BirthdayNext(j, c)
       /\ UNCHANGED <<customers, sales, granted, cents>>

----------------------------------------------------------------------------
(* Sales *)

Sold(s, c, earned) ==
    /\ sales[s].status = "none"
    /\ sales' = [sales EXCEPT ![s] = [customer |-> c, earned |-> earned,
                                      status |-> "completed"]]

(* Checkout raises the total and sets the tier.  It computes the points    *)
(* earned and keeps them with the sale: the customer's are not saved.      *)
Checkout(s, c, earned) ==
    /\ Sold(s, c, IF Live(c) THEN earned ELSE 0)
    /\ customers' = IF Live(c)
                    THEN [customers EXCEPT
                             ![c].spent = @ + Price,
                             ![c].tier = TierOf(customers[c].spent + Price)]
                    ELSE customers
    /\ UNCHANGED <<job, granted, cents>>

(* A laundry order set to delivered, once or again, becomes a completed    *)
(* sale; the customer's row is not touched.                                *)
Delivered(s, c) ==
    /\ Sold(s, c, 0)
    /\ UNCHANGED <<customers, job, granted, cents>>

(* Void and refund read sale and customer from one snapshot.               *)
VoidRead(j, s) ==
    /\ Free(j)
    /\ sales[s].status = "completed"
    /\ job' = [job EXCEPT ![j] =
                  [IdleJob EXCEPT !.pc = "voidCommit", !.sale = s,
                      !.customer = sales[s].customer,
                      !.n = sales[s].earned,
                      !.row = customers[sales[s].customer]]]
    /\ UNCHANGED <<customers, sales, granted, cents>>

Minus(x, y) == IF y <= x THEN x - y ELSE 0

(* The points are written when they differ from the snapshot, from which   *)
(* save() reads the row again; the total falls by an SQL decrement.  What  *)
(* a voided sale had earned is read no more and forgotten.                 *)
VoidCommit(j) ==
    LET h == job[j]
        c == h.customer
        points == Minus(h.row.points, h.n)
    IN /\ h.pc = "voidCommit"
       /\ customers' =
             IF h.row.deleted THEN customers
             ELSE [customers EXCEPT
                      ![c].points = IF points # h.row.points THEN points
                                    ELSE @,
                      ![c].spent = Minus(@, Price)]
       /\ sales' = [sales EXCEPT ![h.sale].status = "voided",
                                 ![h.sale].earned = 0]
       /\ Done(j)
       /\ UNCHANGED <<granted, cents>>

----------------------------------------------------------------------------
(* A statement fails, or the process ends.                                 *)
Abort(j) ==
    /\ ~ Free(j)
    /\ Done(j)
    /\ UNCHANGED <<customers, sales, granted, cents>>

Request(j) ==
    \/ \E c \in Customer, n \in Amounts : AddRead(j, c, n)
    \/ \E c \in Customer, n \in Amounts : RedeemRead(j, c, n)
    \/ \E c \in Customer, active \in BOOLEAN : EditRead(j, c, active)
    \/ \E c \in Customer : UpgradeRead(j, c)
    \/ \E s \in Sale : VoidRead(j, s)
    \/ \E listed \in SUBSET Customer : BirthdayRead(j, listed)
    \/ CronRead(j)

Statement ==
    \/ \E c \in Customer : Remove(c)
    \/ SyncTotals
    \/ SetAllTiers
    \/ \E s \in Sale, c \in Customer, earned \in Earnings :
          Checkout(s, c, earned)
    \/ \E s \in Sale, c \in Customer : Delivered(s, c)

CronStep(j) ==
    \/ \E c \in Customer : CronCheck(j, c)
    \/ CronSave(j)

Step(j) ==
    \/ \E cent \in {0, 1} : AddSave(j, cent)
    \/ RedeemSave(j)
    \/ EditSave(j)
    \/ UpgradeSave(j)
    \/ VoidCommit(j)
    \/ \E c \in Customer : BirthdayGift(j, c) \/ BirthdaySkip(j, c)
    \/ CronStep(j)

Next ==
    \/ \E j \in Job : Request(j) \/ Step(j) \/ Abort(j)
    \/ Statement

Spec == Init /\ [][Next]_vars

(* A statement that was sent is answered, and the daily run is started.    *)
FairSpec == Spec /\ \A j \in Job : WF_vars(Step(j)) /\ WF_vars(CronRead(j))
=============================================================================
