--------------------------- MODULE AddOnPurchases ---------------------------
(***************************************************************************)
(* Add-ons of a company: buying, paying, activating and cancelling         *)
(* (apps/api/src/modules/add-ons, with what payment-gateway, billing and   *)
(* the payment job of subscriptions do with an add-on's invoice).          *)
(*                                                                         *)
(* A purchase is a row, then an invoice, then an invoice at the gateway    *)
(* (here: a bill), each in a statement of its own.  The payment of a bill  *)
(* is learnt in four ways: a webhook, the member's check, an administrator *)
(* and the ten-minute job.  The first three activate the add-on; the job   *)
(* marks the invoice paid and opens the company instead.                   *)
(*                                                                         *)
(* An invoice is identified with the row it is for, as each row gets one.  *)
(* Prices, the catalogue, plans that include an add-on, and expires_at,    *)
(* which nothing that runs reads, are left out.                            *)
(***************************************************************************)
EXTENDS FiniteSets

CONSTANTS
    Company,
    NoCompany,
    AddOn,
    NoAddOn,
    Recurring,     \* the add-ons with pricing_type recurring
    Row,           \* rows of table company_add_ons
    NoRow,
    Bill,          \* invoices held by the payment gateway
    NoBill,        \* a NULL payment_url or gateway_transaction_id
    Job            \* slots for concurrently running handlers

ASSUME AddOnAssumption ==
    /\ NoCompany \notin Company
    /\ NoAddOn \notin AddOn
    /\ Recurring \subseteq AddOn
    /\ NoRow \notin Row
    /\ NoBill \notin Bill

VARIABLES
    purchases,     \* table company_add_ons
    invoices,      \* the invoice of each row, with its payment transaction
    bills,         \* the gateway's own invoices
    blocked,       \* does login refuse the company (status of companies)
    job,           \* where each running handler is and what it has read
    believed       \* history: rows an administrator activated or verified,
                   \* or of which a notification said what the gateway
                   \* would not have said

vars == <<purchases, invoices, bills, blocked, job, believed>>

----------------------------------------------------------------------------
PurchaseRow == [company: Company \cup {NoCompany},
                addOn: AddOn \cup {NoAddOn},
                status: {"none", "pending_payment", "active", "cancelled"}]

NoPurchase == [company |-> NoCompany, addOn |-> NoAddOn, status |-> "none"]

InvoiceRow == [status: {"none", "pending", "paid", "failed", "cancelled"},
               url: Bill \cup {NoBill},     \* payment_url
               ref: Bill \cup {NoBill}]     \* gateway_transaction_id

NoInvoice == [status |-> "none", url |-> NoBill, ref |-> NoBill]

BillRow == [status: {"none", "PENDING", "PAID", "EXPIRED"},
            row: Row \cup {NoRow}]

PC == {"idle", "insert", "invoice", "link", "bill", "url", "activate",
       "settle", "payLoop", "reopen"}

JobRow == [pc: PC, company: Company \cup {NoCompany},
           addOn: AddOn \cup {NoAddOn}, row: Row \cup {NoRow},
           bill: Bill \cup {NoBill},
           due: SUBSET (Row \X Bill)]       \* what the payment job listed

IdleJob == [pc |-> "idle", company |-> NoCompany, addOn |-> NoAddOn,
            row |-> NoRow, bill |-> NoBill, due |-> {}]

TypeOK ==
    /\ purchases \in [Row -> PurchaseRow]
    /\ invoices \in [Row -> InvoiceRow]
    /\ bills \in [Bill -> BillRow]
    /\ blocked \in SUBSET Company
    /\ job \in [Job -> JobRow]
    /\ believed \in SUBSET Row

Init ==
    /\ purchases = [r \in Row |-> NoPurchase]
    /\ invoices = [r \in Row |-> NoInvoice]
    /\ bills = [b \in Bill |-> [status |-> "none", row |-> NoRow]]
    /\ blocked = {}
    /\ job = [j \in Job |-> IdleJob]
    /\ believed = {}

----------------------------------------------------------------------------
Free(j) == job[j].pc = "idle"

Bought(r) == purchases[r].status # "none"

Invoiced(r) == invoices[r].status # "none"

Start(j, pc, r) == job' = [job EXCEPT ![j] = [IdleJob EXCEPT !.pc = pc,
                                                             !.row = r]]

Goto(j, pc) == job' = [job EXCEPT ![j].pc = pc]

Done(j) == job' = [job EXCEPT ![j] = IdleJob]

SetPurchase(r, status) ==
    purchases' = [purchases EXCEPT ![r].status = status]

SetInvoice(r, status) ==
    invoices' = [invoices EXCEPT ![r].status = status]

Active(c, a) ==
    \E r \in Row : purchases[r] = [company |-> c, addOn |-> a,
                                   status |-> "active"]

----------------------------------------------------------------------------
(* purchaseAddOn: the check, three saves, and the gateway *)

PurchaseCheck(j, c, a) ==
    /\ Free(j)
    /\ ~ Active(c, a)
    /\ job' = [job EXCEPT ![j] = [IdleJob EXCEPT
                  !.pc = "insert", !.company = c, !.addOn = a]]
    /\ UNCHANGED <<purchases, invoices, bills, blocked, believed>>

PurchaseInsert(j, r) ==
    /\ job[j].pc = "insert"
    /\ ~ Bought(r)
    /\ purchases' = [purchases EXCEPT ![r] =
          [company |-> job[j].company, addOn |-> job[j].addOn,
           status |-> "pending_payment"]]
    /\ Start(j, "invoice", r)
    /\ UNCHANGED <<invoices, bills, blocked, believed>>

CreateAddOnInvoice(j) ==
    /\ job[j].pc = "invoice"
    /\ SetInvoice(job[j].row, "pending")
    /\ Goto(j, "link")
    /\ UNCHANGED <<purchases, bills, blocked, believed>>

(* invoice_id is saved with the row as it was inserted.                    *)
LinkInvoice(j) ==
    /\ job[j].pc = "link"
    /\ SetPurchase(job[j].row, "pending_payment")
    /\ Goto(j, "bill")
    /\ UNCHANGED <<invoices, bills, blocked, believed>>

(* POST invoices/:id/pay asks the gateway for another bill, whatever the   *)
(* status of the invoice.                                                  *)
PayInvoice(j, r) ==
    /\ Free(j)
    /\ Invoiced(r)
    /\ Start(j, "bill", r)
    /\ UNCHANGED <<purchases, invoices, bills, blocked, believed>>

(* The gateway mails the bill to the payer, who can pay it before its URL  *)
(* is stored, or if it never is.                                           *)
CreateBill(j, b) ==
    /\ job[j].pc = "bill"
    /\ bills[b].status = "none"
    /\ bills' = [bills EXCEPT ![b] = [status |-> "PENDING",
                                      row |-> job[j].row]]
    /\ job' = [job EXCEPT ![j].pc = "url", ![j].bill = b]
    /\ UNCHANGED <<purchases, invoices, blocked, believed>>

SaveUrl(j) ==
    /\ job[j].pc = "url"
    /\ invoices' = [invoices EXCEPT ![job[j].row].url = job[j].bill]
    /\ Done(j)
    /\ UNCHANGED <<purchases, bills, blocked, believed>>

CancelAddOn(r) ==
    /\ Bought(r)
    /\ purchases[r].status # "cancelled"
    /\ purchases[r].addOn \in Recurring
    /\ SetPurchase(r, "cancelled")
    /\ UNCHANGED <<invoices, bills, blocked, job, believed>>

----------------------------------------------------------------------------
(* The gateway *)

PayBill(b) ==
    /\ bills[b].status = "PENDING"
    /\ bills' = [bills EXCEPT ![b].status = "PAID"]
    /\ UNCHANGED <<purchases, invoices, blocked, job, believed>>

BillExpires(b) ==
    /\ bills[b].status = "PENDING"
    /\ bills' = [bills EXCEPT ![b].status = "EXPIRED"]
    /\ UNCHANGED <<purchases, invoices, blocked, job, believed>>

----------------------------------------------------------------------------
(* Recording a payment *)

(* handleXenditWebhook takes a notification at its word: any number of     *)
(* times, arbitrarily late, with any id, which the transaction keeps, and  *)
(* any status.  The gateway is not asked and nothing in the request is     *)
(* compared with a secret.                                                 *)

(* What the gateway itself would say of row r in a notification.           *)
Genuine(r, b, status) ==
    /\ b \in Bill
    /\ bills[b].status # "none"
    /\ bills[b].row = r
    /\ status = "PAID" => bills[b].status = "PAID"

Webhook(j, r, b, status) ==
    /\ Free(j)
    /\ Invoiced(r)
    /\ invoices' = [invoices EXCEPT ![r].ref = b]
    /\ \/ status = "PAID" /\ Start(j, "activate", r)
       \/ status # "PAID" /\ UNCHANGED job
    /\ believed' = IF Genuine(r, b, status) THEN believed
                                            ELSE believed \cup {r}
    /\ UNCHANGED <<purchases, bills, blocked>>

(* Mutant of CheckPayment: believes the stored reference.                  *)
CheckPaymentUnasked(j, r) ==
    /\ Free(j)
    /\ invoices[r].status \notin {"none", "paid"}
    /\ invoices[r].ref # NoBill
    /\ Start(j, "activate", r)
    /\ UNCHANGED <<purchases, invoices, bills, blocked, believed>>

(* checkPaymentStatus asks the gateway about the bill of the last webhook. *)
CheckPayment(j, r) ==
    /\ Free(j)
    /\ invoices[r].status \notin {"none", "paid"}
    /\ invoices[r].ref # NoBill
    /\ bills[invoices[r].ref].status = "PAID"
    /\ Start(j, "activate", r)
    /\ UNCHANGED <<purchases, invoices, bills, blocked, believed>>


(* adminVerifyPayment goes on to the activation even if the invoice is     *)
(* paid already.                                                           *)
AdminVerify(j, r) ==
    /\ Free(j)
    /\ Invoiced(r)
    /\ Start(j, "activate", r)
    /\ \/ /\ invoices[r].status = "paid"
          /\ UNCHANGED <<invoices, believed>>
       \/ /\ invoices[r].status # "paid"
          /\ SetInvoice(r, "paid")
          /\ believed' = believed \cup {r}
    /\ UNCHANGED <<purchases, bills, blocked>>

(* activateSubscription for an invoice of an add-on: the row, whatever its *)
(* status, and then the invoice.                                           *)
ActivateAddOn(j) ==
    /\ job[j].pc = "activate"
    /\ SetPurchase(job[j].row, "active")
    /\ Goto(j, "settle")
    /\ UNCHANGED <<invoices, bills, blocked, believed>>

SettleInvoice(j) ==
    /\ job[j].pc = "settle"
    /\ SetInvoice(job[j].row, "paid")
    /\ Done(j)
    /\ UNCHANGED <<purchases, bills, blocked, believed>>

----------------------------------------------------------------------------
(* handlePendingPaymentCheck *)

Due == {p \in Row \X Bill : /\ invoices[p[1]].status = "pending"
                            /\ invoices[p[1]].url = p[2]}

(* The newest of them, of the last seven days.                             *)
PaymentCheckStart(j) ==
    /\ Free(j)
    /\ \E due \in SUBSET Due :
          /\ due # {}
          /\ job' = [job EXCEPT ![j] = [IdleJob EXCEPT !.pc = "payLoop",
                                                       !.due = due]]
    /\ UNCHANGED <<purchases, invoices, bills, blocked, believed>>

NextDue(j, p, pc) ==
    job' = [job EXCEPT ![j].pc = pc, ![j].row = p[1], ![j].due = @ \ {p}]

(* The invoice may have changed since it was listed.                       *)
PaymentFound(j, p) ==
    /\ job[j].pc = "payLoop"
    /\ p \in job[j].due
    /\ bills[p[2]].status = "PAID"
    /\ SetInvoice(p[1], "paid")
    /\ NextDue(j, p, "reopen")
    /\ UNCHANGED <<purchases, bills, blocked, believed>>

PaymentExpired(j, p) ==
    /\ job[j].pc = "payLoop"
    /\ p \in job[j].due
    /\ bills[p[2]].status = "EXPIRED"
    /\ SetInvoice(p[1], "failed")
    /\ NextDue(j, p, "payLoop")
    /\ UNCHANGED <<purchases, bills, blocked, believed>>

(* Mutant of PaymentUnknown: takes no news for good news.                  *)
PaymentUnknownPaid(j, p) ==
    /\ job[j].pc = "payLoop"
    /\ p \in job[j].due
    /\ NextDue(j, p, "reopen")
    /\ UNCHANGED <<purchases, invoices, bills, blocked, believed>>

(* Not decided yet, or the gateway did not answer.                         *)
PaymentUnknown(j, p) ==
    /\ job[j].pc = "payLoop"
    /\ p \in job[j].due
    /\ NextDue(j, p, "payLoop")
    /\ UNCHANGED <<purchases, invoices, bills, blocked, believed>>

(* The invoice names no subscription, so only its company is updated; when *)
(* a statement fails the loop goes on.                                     *)
ReopenCompany(j) ==
    /\ job[j].pc = "reopen"
    /\ \/ blocked' = blocked \ {purchases[job[j].row].company}
       \/ UNCHANGED blocked
    /\ Goto(j, "payLoop")
    /\ UNCHANGED <<purchases, invoices, bills, believed>>

PaymentCheckEnd(j) ==
    /\ job[j].pc = "payLoop"
    /\ job[j].due = {}
    /\ Done(j)
    /\ UNCHANGED <<purchases, invoices, bills, blocked, believed>>

----------------------------------------------------------------------------
(* Administrators, and what else blocks a company *)

AdminActivateAddOn(r) ==
    /\ Bought(r)
    /\ SetPurchase(r, "active")
    /\ believed' = believed \cup {r}
    /\ UNCHANGED <<invoices, bills, blocked, job>>

CancelInvoice(r) ==
    /\ Invoiced(r)
    /\ SetInvoice(r, "cancelled")
    /\ UNCHANGED <<purchases, bills, blocked, job, believed>>

(* An administrator sets the status, or a subscription ends or is renewed. *)
SetBlocked(c) ==
    /\ \/ blocked' = blocked \cup {c}
       \/ blocked' = blocked \ {c}
    /\ UNCHANGED <<purchases, invoices, bills, job, believed>>

(* Refused, an exception, or a restart.                                    *)
Abort(j) ==
    /\ ~ Free(j)
    /\ Done(j)
    /\ UNCHANGED <<purchases, invoices, bills, blocked, believed>>

----------------------------------------------------------------------------
Request ==
    \/ \E j \in Job :
          \/ \E c \in Company, a \in AddOn : PurchaseCheck(j, c, a)
          \/ \E r \in Row :
                PayInvoice(j, r) \/ CheckPayment(j, r) \/ AdminVerify(j, r)
          \/ \E r \in Row, b \in Bill \cup {NoBill}, s \in {"PAID", "EXPIRED"} :
                Webhook(j, r, b, s)
          \/ PaymentCheckStart(j)
    \/ \E r \in Row :
          CancelAddOn(r) \/ AdminActivateAddOn(r) \/ CancelInvoice(r)
    \/ \E b \in Bill : PayBill(b) \/ BillExpires(b)
    \/ \E c \in Company : SetBlocked(c)

Step(j) ==
    \/ \E r \in Row : PurchaseInsert(j, r)
    \/ CreateAddOnInvoice(j)
    \/ LinkInvoice(j)
    \/ \E b \in Bill : CreateBill(j, b)
    \/ SaveUrl(j)
    \/ ActivateAddOn(j)
    \/ SettleInvoice(j)
    \/ \E p \in Row \X Bill :
          PaymentFound(j, p) \/ PaymentExpired(j, p) \/ PaymentUnknown(j, p)
    \/ ReopenCompany(j)
    \/ PaymentCheckEnd(j)

Next == Request \/ \E j \in Job : Step(j) \/ Abort(j)

Spec == Init /\ [][Next]_vars

(* A statement that was sent is answered, or fails.                        *)
FairSpec == Spec /\ \A j \in Job : WF_vars(Step(j) \/ Abort(j))

----------------------------------------------------------------------------
(* Properties *)

Paid(r) == \E b \in Bill : bills[b] = [status |-> "PAID", row |-> r]

(* What a payment of the invoice was believed on.                          *)
Settled(r) == Paid(r) \/ r \in believed

(* An add-on is active only if one of its own bills was paid, an           *)
(* administrator vouched for it, or a notification about it said what the  *)
(* gateway would not have: whichever of the four ways the payment was      *)
(* learnt, and however late rows of a purchase are saved.  So as long as   *)
(* notifications come from the gateway, active means paid or vouched for.  *)
AddOnBacked == \A r \in Row : purchases[r].status = "active" => Settled(r)

(* An invoice is paid only on the same grounds, and failed only if a bill  *)
(* for it expired at the gateway.                                          *)
InvoiceBacked == \A r \in Row :
    /\ invoices[r].status = "paid" => Settled(r)
    /\ invoices[r].status = "failed" =>
          \E b \in Bill : bills[b] = [status |-> "EXPIRED", row |-> r]

(* What makes these inductive: bills that rows, handlers and the job's     *)
(* list refer to are the invoice's own, unless a notification brought      *)
(* them, and a handler activates on one of the grounds above, and opens a  *)
(* company only after the gateway said that a bill was paid.               *)
OwnBill(r, b) == bills[b].status # "none" /\ bills[b].row = r

BillsSound ==
    /\ \A b \in Bill : bills[b].status # "none" => bills[b].row \in Row
    /\ \A r \in Row : \A b \in Bill :
          /\ b = invoices[r].url => OwnBill(r, b)
          /\ b = invoices[r].ref => OwnBill(r, b) \/ r \in believed

Held(h) ==
    /\ h.pc \in {"invoice", "link", "bill", "url", "activate", "settle",
                 "reopen"} => h.row \in Row
    /\ h.pc \in {"activate", "settle"} => Settled(h.row)
    /\ h.pc = "reopen" => Paid(h.row)
    /\ h.pc = "url" => h.bill \in Bill /\ OwnBill(h.row, h.bill)
    /\ \A p \in h.due : OwnBill(p[1], p[2])

AddOnInv ==
    /\ TypeOK
    /\ AddOnBacked
    /\ InvoiceBacked
    /\ BillsSound
    /\ \A j \in Job : Held(job[j])

(* A company that may not log in is let in by those who block it, or after *)
(* the payment of a bill for an add-on of its own: the payment job, which  *)
(* takes any invoice for one of a subscription, opens no other company.    *)
LiftedForPayment ==
    [][\A c \in blocked \ blocked' :
          \/ SetBlocked(c)
          \/ \E r \in Row : purchases[r].company = c /\ Paid(r)]_vars

(* Whatever lost webhooks, aborted handlers and the payment job, which     *)
(* activates nothing, left behind, an administrator can repair: once       *)
(* nothing but verifications run, and those of a row come to pass as long  *)
(* as they are possible, its add-on is active if its invoice is paid.      *)
OnlyVerifying ==
    <>[][\E j \in Job : \/ \E r \in Row : AdminVerify(j, r)
                        \/ ActivateAddOn(j)
                        \/ SettleInvoice(j)]_vars

=============================================================================
