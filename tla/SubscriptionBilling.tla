------------------------ MODULE SubscriptionBilling ------------------------
(***************************************************************************)
(* Subscriptions, invoices and payments of MonetraPOS                      *)
(* (apps/api/src/modules/subscriptions, billing, payment-gateway and the   *)
(* parts of auth and companies that write the same rows).                  *)
(*                                                                         *)
(* The database rows are the state; every HTTP handler and every scheduled *)
(* job is a chain of asynchronous calls.  Handlers that await something    *)
(* between a read and a write run in a job slot and take one step per      *)
(* await that matters: the gateway call, the loop over listed rows, the    *)
(* separate UPDATE statements.  The other handlers are one action each.    *)
(*                                                                         *)
(* Time is counted in days.  Day 0 stands for a NULL date, 0 months for a  *)
(* NULL duration_months and for a NULL pending_renewal.                    *)
(***************************************************************************)
EXTENDS Naturals, FiniteSets

CONSTANTS
    Company,      \* tenants
    MaxSubs,      \* subscription rows are 1..MaxSubs, in creation order
    Owner,        \* the company a subscription row belongs to
    Invoice,      \* rows of table invoices
    NoInvoice,    \* no row of invoices
    Gateway,      \* invoices held by the payment gateway (Xendit)
    NoGateway,    \* no gateway invoice: a NULL payment_url, or a
                  \* gateway_transaction_id the gateway does not know
    Job,          \* slots for concurrently running handlers and jobs
    Durations,    \* the durations in months a member may buy
    MonthDays,    \* length of a month
    TrialDays,    \* subscription_plans.trial_days
    GraceDays,    \* 3 in the code
    GatewayDays,  \* how long a gateway invoice stays payable: 1 in the code
    RetryDays,    \* age at which the payment job gives up: 7 in the code
    BatchSize,    \* invoices one run of the payment job looks at: 20
    MaxDay,       \* bound: the last day
    MaxEnd,       \* bound: the latest end date an administrator grants
    MaxMonths     \* bound: the longest duration_months extensions add up to

Sub == 1..MaxSubs
NoSub == 0
NoDay == 0

ASSUME BillingAssumption ==
    /\ MaxSubs \in Nat
    /\ Owner \in [Sub -> Company]
    /\ NoInvoice \notin Invoice
    /\ NoGateway \notin Gateway
    /\ Durations \subseteq Nat \ {0}
    /\ MonthDays \in Nat \ {0}
    /\ TrialDays \in Nat
    /\ GraceDays \in Nat
    /\ GatewayDays \in Nat
    /\ RetryDays \in Nat
    /\ BatchSize \in Nat
    /\ MaxDay \in Nat
    /\ MaxEnd \in Nat
    /\ MaxMonths \in Nat

VARIABLES
    today,        \* the current date
    sub,          \* table subscriptions
    company,      \* table companies: status and the copied subscription_status
    invoice,      \* table invoices, each with its payment transaction
    gateway,      \* the gateway's own invoices
    job,          \* where each running handler or scheduled job is
    word          \* history, what was believed without asking the gateway: the
                  \* subscriptions administrators extended, the invoices they
                  \* declared paid, and those of which a notification said what
                  \* the gateway would not have said

vars == <<today, sub, company, invoice, gateway, job, word>>

----------------------------------------------------------------------------
(* Rows *)

SubStatus == {"none", "pending", "trial", "active", "expired", "suspended",
              "cancelled"}

Renewal == [invoice: Invoice \cup {NoInvoice}, months: Nat, end: Nat]

NoRenewal == [invoice |-> NoInvoice, months |-> 0, end |-> NoDay]

SubRow == [status: SubStatus, end: Nat, grace: Nat, trialEnd: Nat,
           months: Nat, renewal: Renewal]

BlankSub == [status |-> "none", end |-> NoDay, grace |-> NoDay,
             trialEnd |-> NoDay, months |-> 0, renewal |-> NoRenewal]

CompanyRow == [status: {"none", "pending", "trial", "active", "expired"},
               subStatus: SubStatus]

InvoiceRow == [status: {"none", "pending", "paid", "failed", "cancelled"},
               sub: Sub \cup {NoSub}, months: Nat, day: Nat,
               url: Gateway \cup {NoGateway},
               txRef: Gateway \cup {NoGateway}]

BlankInvoice == [status |-> "none", sub |-> NoSub, months |-> 0,
                 day |-> NoDay, url |-> NoGateway, txRef |-> NoGateway]

GatewayRow == [status: {"none", "PENDING", "PAID", "EXPIRED"},
               inv: Invoice \cup {NoInvoice},
               ref: {"none", "invoiceNumber", "transactionId"}, day: Nat]

BlankGateway == [status |-> "none", inv |-> NoInvoice, ref |-> "none",
                 day |-> NoDay]

(* A running handler: its program counter and the values it read before    *)
(* its last await.                                                         *)
PC == {"idle",
       "check", "mark", "activate", "company", "renewedCompany",
       "renew", "renewAnswer", "renewSave", "changePlan",
       "payLoop", "paySub", "payCompany",
       "expireLoop", "expireCompany", "suspendLoop", "suspendCompany",
       "trialLoop", "trialCompany"}

JobRow == [pc: PC, inv: Invoice \cup {NoInvoice},
           gw: Gateway \cup {NoGateway}, sub: Sub \cup {NoSub},
           list: SUBSET Sub, due: SUBSET (Invoice \X Gateway),
           rows: [Sub -> SubRow], renewal: Renewal]

IdleJob == [pc |-> "idle", inv |-> NoInvoice, gw |-> NoGateway,
            sub |-> NoSub, list |-> {}, due |-> {},
            rows |-> [s \in Sub |-> BlankSub], renewal |-> NoRenewal]

TypeOK ==
    /\ today \in Nat \ {0}
    /\ sub \in [Sub -> SubRow]
    /\ company \in [Company -> CompanyRow]
    /\ invoice \in [Invoice -> InvoiceRow]
    /\ gateway \in [Gateway -> GatewayRow]
    /\ job \in [Job -> JobRow]
    /\ word \in [extended: SUBSET Sub, verified: SUBSET Invoice,
                 misreported: SUBSET Invoice]

Init ==
    /\ today = 1
    /\ sub = [s \in Sub |-> BlankSub]
    /\ company = [c \in Company |-> [status |-> "none", subStatus |-> "none"]]
    /\ invoice = [i \in Invoice |-> BlankInvoice]
    /\ gateway = [g \in Gateway |-> BlankGateway]
    /\ job = [j \in Job |-> IdleJob]
    /\ word = [extended |-> {}, verified |-> {}, misreported |-> {}]

----------------------------------------------------------------------------
(* Helpers *)

AddMonths(day, months) == day + months * MonthDays

LaterOf(a, b) == IF a >= b THEN a ELSE b

SubsOf(c) == {s \in Sub : Owner[s] = c /\ sub[s].status # "none"}

(* ORDER BY created_at DESC LIMIT 1 over the rows of c in one of statuses  *)
IsNewest(s, c, statuses) ==
    /\ s \in SubsOf(c)
    /\ sub[s].status \in statuses
    /\ \A t \in SubsOf(c) : sub[t].status \in statuses => t <= s

NextRow(s) ==
    /\ sub[s].status = "none"
    /\ \A t \in Sub : t < s => sub[t].status # "none"

HasActive(c) == \E s \in SubsOf(c) : sub[s].status = "active"

NewInvoice(s, m) ==
    [BlankInvoice EXCEPT !.status = "pending", !.sub = s, !.months = m,
                         !.day = today]

NewGateway(i, r) ==
    [status |-> "PENDING", inv |-> i, ref |-> r, day |-> today]

Free(j) == job[j].pc = "idle"

Goto(j, pc) == job' = [job EXCEPT ![j].pc = pc]

Done(j) == job' = [job EXCEPT ![j] = IdleJob]

----------------------------------------------------------------------------
(* Registration and the member's own requests *)

(* registerCompany: company, pending subscription and invoice; the payment *)
(* URL it asks the gateway for is returned to the caller, not stored.      *)
RegisterCompany(c, s, i, m) ==
    /\ company[c].status = "none"
    /\ Owner[s] = c /\ NextRow(s)
    /\ invoice[i].status = "none"
    /\ sub' = [sub EXCEPT ![s] = [BlankSub EXCEPT !.status = "pending",
                                                  !.months = m]]
    /\ company' = [company EXCEPT ![c] = [status |-> "pending",
                                          subStatus |-> "pending"]]
    /\ invoice' = [invoice EXCEPT ![i] = NewInvoice(s, m)]
    /\ \/ \E g \in Gateway :
            /\ gateway[g].status = "none"
            /\ gateway' = [gateway EXCEPT ![g] = NewGateway(i, "invoiceNumber")]
       \/ UNCHANGED gateway
    /\ UNCHANGED <<today, job, word>>

(* registerSimple: a trial whose dates are also written as start and end.  *)
RegisterTrial(c, s) ==
    /\ company[c].status = "none"
    /\ Owner[s] = c /\ NextRow(s)
    /\ sub' = [sub EXCEPT ![s] = [BlankSub EXCEPT !.status = "trial",
                                      !.end = today + TrialDays,
                                      !.trialEnd = today + TrialDays]]
    /\ company' = [company EXCEPT ![c] = [status |-> "trial",
                                          subStatus |-> "trial"]]
    /\ UNCHANGED <<today, invoice, gateway, job, word>>

(* createMemberByAdmin: an active company without any subscription.        *)
CreateMember(c) ==
    /\ company[c].status = "none"
    /\ company' = [company EXCEPT ![c] = [status |-> "active",
                                          subStatus |-> "active"]]
    /\ UNCHANGED <<today, sub, invoice, gateway, job, word>>

(* Mutant of Subscribe: reuses the row of an ended subscription.           *)
SubscribeReusesRow(c, s) ==
    /\ company[c].status # "none"
    /\ ~ HasActive(c)
    /\ Owner[s] = c /\ sub[s].status \in {"none", "expired", "cancelled"}
    /\ sub' = [sub EXCEPT ![s] = [BlankSub EXCEPT !.status = "trial",
                                      !.trialEnd = today + TrialDays]]
    /\ company' = [company EXCEPT ![c].subStatus = "trial"]
    /\ UNCHANGED <<today, invoice, gateway, job, word>>

(* POST subscriptions/subscribe: another trial unless one row is active.   *)
Subscribe(c, s) ==
    /\ company[c].status # "none"
    /\ ~ HasActive(c)
    /\ Owner[s] = c /\ NextRow(s)
    /\ sub' = [sub EXCEPT ![s] = [BlankSub EXCEPT !.status = "trial",
                                      !.trialEnd = today + TrialDays]]
    /\ company' = [company EXCEPT ![c].subStatus = "trial"]
    /\ UNCHANGED <<today, invoice, gateway, job, word>>

(* POST billing/invoices/:id/pay, whatever the invoice's status.  When the *)
(* answer is lost the gateway still has the invoice and mails its URL.     *)
PayInvoice(i, g) ==
    /\ invoice[i].status # "none"
    /\ gateway[g].status = "none"
    /\ gateway' = [gateway EXCEPT ![g] = NewGateway(i, "invoiceNumber")]
    /\ \/ invoice' = [invoice EXCEPT ![i].url = g]
       \/ UNCHANGED invoice
    /\ UNCHANGED <<today, sub, company, job, word>>

(* POST subscriptions/cancel -> cancelSubscription, effective at once.     *)
CancelSubscription(s) ==
    /\ sub[s].status = "active"
    /\ sub' = [sub EXCEPT ![s].status = "cancelled"]
    /\ company' = [company EXCEPT ![Owner[s]].subStatus = "cancelled"]
    /\ UNCHANGED <<today, invoice, gateway, job, word>>

(* POST subscriptions/reactivate: looks the row up among the active ones;  *)
(* without a duration in the request the row's own one is used.            *)
ReactivateSubscription(s, m) ==
    LET d == IF m # 0 THEN m ELSE IF sub[s].months # 0 THEN sub[s].months
                                                       ELSE 1
    IN /\ sub[s].status = "active"
       /\ sub' = [sub EXCEPT ![s].end = AddMonths(today, d),
                             ![s].months = d,
                             ![s].grace = NoDay]
       /\ company' = [company EXCEPT ![Owner[s]].subStatus = "active"]
       /\ UNCHANGED <<today, invoice, gateway, job, word>>

(* extendSubscription, by an administrator: the newest active or expired   *)
(* row; the company is active afterwards even when there is no such row.   *)
ExtendSubscription(c, m) ==
    /\ company[c].status # "none"
    /\ \/ \E s \in Sub :
            /\ IsNewest(s, c, {"active", "expired"})
            /\ AddMonths(LaterOf(sub[s].end, today), m) <= MaxEnd
            /\ sub[s].months + m <= MaxMonths
            /\ sub' = [sub EXCEPT
                   ![s].status = "active",
                   ![s].end = AddMonths(LaterOf(sub[s].end, today), m),
                   ![s].months = @ + m]
            /\ word' = [word EXCEPT !.extended = @ \cup {s}]
       \/ /\ \A s \in SubsOf(c) : sub[s].status \notin {"active", "expired"}
          /\ UNCHANGED <<sub, word>>
    /\ company' = [company EXCEPT ![c].subStatus = "active"]
    /\ UNCHANGED <<today, invoice, gateway, job>>

(* cancelInvoice, whatever the invoice's status.                           *)
CancelInvoice(i) ==
    /\ invoice[i].status # "none"
    /\ invoice' = [invoice EXCEPT ![i].status = "cancelled"]
    /\ UNCHANGED <<today, sub, company, gateway, job, word>>

----------------------------------------------------------------------------
(* Handlers that save a subscription as they read it *)

(* changePlan reads the active row, then other tables, and saves the row   *)
(* whole: with a new plan and price, which are not part of the state.      *)
ChangePlan(j, s) ==
    /\ Free(j)
    /\ sub[s].status = "active"
    /\ job' = [job EXCEPT ![j] = [IdleJob EXCEPT
                  !.pc = "changePlan", !.sub = s, !.rows[s] = sub[s]]]
    /\ UNCHANGED <<today, sub, company, invoice, gateway, word>>

(* A dearer plan is invoiced for the days that remain, a cheaper one not.  *)
ChangePlanSave(j) ==
    LET s == job[j].sub IN
    /\ job[j].pc = "changePlan"
    /\ sub' = [sub EXCEPT ![s] = job[j].rows[s]]
    /\ \/ \E i \in Invoice :
            /\ job[j].rows[s].end > today
            /\ invoice[i].status = "none"
            /\ invoice' = [invoice EXCEPT ![i] = NewInvoice(s, 0)]
       \/ UNCHANGED invoice
    /\ Done(j)
    /\ UNCHANGED <<today, company, gateway, word>>

(* renewSubscription: reads the row, creates the invoice, waits for the    *)
(* gateway, then saves both entities as they were read.                    *)

RenewalEnd(row, m) ==
    AddMonths(IF row.status = "active" /\ row.end # NoDay THEN row.end
                                                          ELSE today, m)

(* Mutant of RenewStart: a trial may be renewed as well.                   *)
RenewStartOnTrial(j, s, m, i) ==
    /\ Free(j)
    /\ IsNewest(s, Owner[s], {"trial", "active", "expired", "suspended"})
    /\ invoice[i].status = "none"
    /\ invoice' = [invoice EXCEPT ![i] = NewInvoice(s, m)]
    /\ job' = [job EXCEPT ![j] = [IdleJob EXCEPT
                  !.pc = "renew", !.sub = s, !.inv = i,
                  !.rows[s] = sub[s],
                  !.renewal = [invoice |-> i, months |-> m,
                               end |-> RenewalEnd(sub[s], m)]]]
    /\ UNCHANGED <<today, sub, company, gateway, word>>

RenewStart(j, s, m, i) ==
    /\ Free(j)
    /\ IsNewest(s, Owner[s], {"active", "expired", "suspended"})
    /\ invoice[i].status = "none"
    /\ invoice' = [invoice EXCEPT ![i] = NewInvoice(s, m)]
    /\ job' = [job EXCEPT ![j] = [IdleJob EXCEPT
                  !.pc = "renew", !.sub = s, !.inv = i,
                  !.rows[s] = sub[s],
                  !.renewal = [invoice |-> i, months |-> m,
                               end |-> RenewalEnd(sub[s], m)]]]
    /\ UNCHANGED <<today, sub, company, gateway, word>>

(* The gateway creates its invoice under the transaction's id and mails    *)
(* the payer, so it can be paid before the answer is seen.                 *)
RenewGateway(j, g) ==
    /\ job[j].pc = "renew"
    /\ gateway[g].status = "none"
    /\ gateway' = [gateway EXCEPT
                     ![g] = NewGateway(job[j].inv, "transactionId")]
    /\ job' = [job EXCEPT ![j].pc = "renewAnswer", ![j].gw = g]
    /\ UNCHANGED <<today, sub, company, invoice, word>>

(* The call times out or the gateway rejects it; the invoice stays.        *)
RenewRejected(j) ==
    /\ job[j].pc = "renew"
    /\ Done(j)
    /\ UNCHANGED <<today, sub, company, invoice, gateway, word>>

(* Both saves write every column of the entity, read before the await.     *)
(* The payment transaction gets its own id as the gateway's reference,     *)
(* which the gateway does not know.                                        *)
RenewSaveInvoice(j) ==
    /\ job[j].pc = "renewAnswer"
    /\ invoice' = [invoice EXCEPT ![job[j].inv] =
                     [@ EXCEPT !.status = "pending", !.url = job[j].gw,
                               !.txRef = NoGateway]]
    /\ Goto(j, "renewSave")
    /\ UNCHANGED <<today, sub, company, gateway, word>>

RenewSave(j) ==
    /\ job[j].pc = "renewSave"
    /\ sub' = [sub EXCEPT ![job[j].sub] =
                 [job[j].rows[job[j].sub] EXCEPT !.renewal = job[j].renewal]]
    /\ Done(j)
    /\ UNCHANGED <<today, company, invoice, gateway, word>>

----------------------------------------------------------------------------
(* The payment gateway.  Its webhook is sent when an invoice is paid or    *)
(* expires and may come late, repeatedly or never.                         *)

GatewayPay(g) ==
    /\ gateway[g].status = "PENDING"
    /\ gateway' = [gateway EXCEPT ![g].status = "PAID", ![g].day = NoDay]
    /\ UNCHANGED <<today, sub, company, invoice, job, word>>

(* handleXenditWebhook takes a notification at its word: the external id   *)
(* is looked up as an invoice number, so that of a renewal finds nothing,  *)
(* the id is kept, and a status mapped to "paid" activates.  The gateway   *)
(* is not asked, and nothing in the request is compared with a secret.     *)

(* What the gateway itself would say of invoice i in a notification.       *)
Genuine(i, g, status) ==
    /\ g \in Gateway
    /\ gateway[g].status # "none"
    /\ gateway[g].inv = i
    /\ gateway[g].ref = "invoiceNumber"
    /\ status = "PAID" => gateway[g].status = "PAID"

Notified(i, g, status) ==
    /\ invoice[i].status # "none"
    /\ invoice' = [invoice EXCEPT ![i].txRef = g]
    /\ word' = [word EXCEPT !.misreported =
                   IF Genuine(i, g, status) THEN @ ELSE @ \cup {i}]

WebhookPaid(j, i, g) ==
    /\ Free(j)
    /\ Notified(i, g, "PAID")
    /\ job' = [job EXCEPT ![j].pc = "mark", ![j].inv = i]
    /\ UNCHANGED <<today, sub, company, gateway>>

(* PENDING, EXPIRED and any other status leave the invoice as it is.       *)
WebhookOther(i, g) ==
    /\ Notified(i, g, "EXPIRED")
    /\ UNCHANGED <<today, sub, company, gateway, job>>

(* checkPaymentStatus asks the gateway about the id in the transaction.    *)
CheckPayment(j, i) ==
    /\ Free(j)
    /\ invoice[i].status \notin {"none", "paid"}
    /\ invoice[i].txRef # NoGateway
    /\ job' = [job EXCEPT ![j].pc = "check", ![j].inv = i,
                          ![j].gw = invoice[i].txRef]
    /\ UNCHANGED <<today, sub, company, invoice, gateway, word>>

(* Mutant of CheckResult: any answer but EXPIRED counts as paid.           *)
CheckResultNotExpired(j) ==
    /\ job[j].pc = "check"
    /\ \/ gateway[job[j].gw].status # "EXPIRED" /\ Goto(j, "mark")
       \/ gateway[job[j].gw].status = "EXPIRED" /\ Done(j)
    /\ UNCHANGED <<today, sub, company, invoice, gateway, word>>

CheckResult(j) ==
    /\ job[j].pc = "check"
    /\ \/ gateway[job[j].gw].status = "PAID" /\ Goto(j, "mark")
       \/ gateway[job[j].gw].status # "PAID" /\ Done(j)
    /\ UNCHANGED <<today, sub, company, invoice, gateway, word>>

(* adminVerifyPayment: the administrator's word replaces the gateway's.    *)
AdminVerify(j, i) ==
    /\ Free(j)
    /\ invoice[i].status # "none"
    /\ job' = [job EXCEPT ![j].pc = "mark", ![j].inv = i]
    /\ \/ /\ invoice[i].status = "paid"
          /\ UNCHANGED <<invoice, word>>
       \/ /\ invoice[i].status # "paid"
          /\ invoice' = [invoice EXCEPT ![i].status = "paid"]
          /\ word' = [word EXCEPT !.verified = @ \cup {i}]
    /\ UNCHANGED <<today, sub, company, gateway>>

(* activateSubscription of the controller: three writes, each of which may *)
(* be the last one of a failing handler.                                   *)
MarkPaid(j) ==
    /\ job[j].pc = "mark"
    /\ invoice' = [invoice EXCEPT ![job[j].inv].status = "paid"]
    /\ Goto(j, "activate")
    /\ UNCHANGED <<today, sub, company, gateway, word>>

BoughtMonths(s, i) ==
    IF sub[s].months # 0 THEN sub[s].months
    ELSE IF invoice[i].months # 0 THEN invoice[i].months ELSE 1

ActivateSub(j) ==
    /\ job[j].pc = "activate"
    /\ LET i == job[j].inv
           s == invoice[i].sub
           r == sub[s].renewal
       IN \/ /\ r # NoRenewal
             /\ sub' = [sub EXCEPT ![s] = [@ EXCEPT
                          !.status = "active", !.end = r.end,
                          !.months = r.months, !.grace = NoDay,
                          !.renewal = NoRenewal]]
             /\ Goto(j, "renewedCompany")
          \/ /\ r = NoRenewal
             /\ sub' = [sub EXCEPT ![s] = [@ EXCEPT
                          !.status = "active",
                          !.end = AddMonths(today, BoughtMonths(s, i)),
                          !.months = BoughtMonths(s, i)]]
             /\ Goto(j, "company")
    /\ UNCHANGED <<today, company, invoice, gateway, word>>

(* applyRenewal updates the copied subscription_status only.               *)
ActivateCompany(j) ==
    LET c == Owner[invoice[job[j].inv].sub] IN
    /\ \/ /\ job[j].pc = "company"
          /\ company' = [company EXCEPT ![c] = [status |-> "active",
                                                subStatus |-> "active"]]
       \/ /\ job[j].pc = "renewedCompany"
          /\ company' = [company EXCEPT ![c].subStatus = "active"]
    /\ Done(j)
    /\ UNCHANGED <<today, sub, invoice, gateway, word>>

----------------------------------------------------------------------------
(* handlePendingPaymentCheck, every ten minutes: asks the gateway about    *)
(* the stored URL of each pending invoice and writes with plain UPDATEs.   *)

DuePayments ==
    {p \in Invoice \X Gateway :
        /\ invoice[p[1]].status = "pending"
        /\ invoice[p[1]].url = p[2]
        /\ today < invoice[p[1]].day + RetryDays}

(* ORDER BY created_at DESC LIMIT BatchSize                                *)
NewestDue(due) ==
    /\ due \subseteq DuePayments
    /\ Cardinality(due) <= BatchSize
    /\ Cardinality(due) < BatchSize => due = DuePayments
    /\ \A p \in due, q \in DuePayments \ due :
          invoice[p[1]].day >= invoice[q[1]].day

PaymentCheckStart(j) ==
    /\ Free(j)
    /\ DuePayments # {}
    /\ \E due \in SUBSET DuePayments :
          /\ NewestDue(due)
          /\ job' = [job EXCEPT ![j].pc = "payLoop", ![j].due = due]
    /\ UNCHANGED <<today, sub, company, invoice, gateway, word>>

PaymentFound(j, i, g) ==
    /\ job[j].pc = "payLoop"
    /\ <<i, g>> \in job[j].due
    /\ gateway[g].status = "PAID"
    /\ invoice' = [invoice EXCEPT ![i].status = "paid"]
    /\ job' = [job EXCEPT ![j].pc = "paySub", ![j].inv = i,
                          ![j].due = @ \ {<<i, g>>}]
    /\ UNCHANGED <<today, sub, company, gateway, word>>

(* Mutant of PaymentExpired: stores the gateway's word for the status.     *)
PaymentExpiredUnmapped(j, i, g) ==
    /\ job[j].pc = "payLoop"
    /\ <<i, g>> \in job[j].due
    /\ gateway[g].status = "EXPIRED"
    /\ invoice' = [invoice EXCEPT ![i].status = gateway[g].status]
    /\ job' = [job EXCEPT ![j].due = @ \ {<<i, g>>}]
    /\ UNCHANGED <<today, sub, company, gateway, word>>

PaymentExpired(j, i, g) ==
    /\ job[j].pc = "payLoop"
    /\ <<i, g>> \in job[j].due
    /\ gateway[g].status = "EXPIRED"
    /\ invoice' = [invoice EXCEPT ![i].status = "failed"]
    /\ job' = [job EXCEPT ![j].due = @ \ {<<i, g>>}]
    /\ UNCHANGED <<today, sub, company, gateway, word>>

(* Not decided yet, or the gateway or the first UPDATE failed.             *)
PaymentUnknown(j, i, g) ==
    /\ job[j].pc = "payLoop"
    /\ <<i, g>> \in job[j].due
    /\ job' = [job EXCEPT ![j].due = @ \ {<<i, g>>}]
    /\ UNCHANGED <<today, sub, company, invoice, gateway, word>>

(* Mutant of PaymentCheckSub: the company's newest row, not the invoice's. *)
PaymentCheckNewestSub(j) ==
    /\ job[j].pc = "paySub"
    /\ \E s \in Sub :
          /\ IsNewest(s, Owner[invoice[job[j].inv].sub], SubStatus)
          /\ sub' = [sub EXCEPT ![s].status = "active",
                                ![s].end = AddMonths(today, 1)]
    /\ Goto(j, "payCompany")
    /\ UNCHANGED <<today, company, invoice, gateway, word>>

PaymentCheckSub(j) ==
    /\ job[j].pc = "paySub"
    /\ LET s == invoice[job[j].inv].sub
           m == IF sub[s].months # 0 THEN sub[s].months ELSE 1
       IN sub' = [sub EXCEPT ![s].status = "active",
                             ![s].end = AddMonths(today, m)]
    /\ Goto(j, "payCompany")
    /\ UNCHANGED <<today, company, invoice, gateway, word>>

PaymentCheckCompany(j) ==
    /\ job[j].pc = "payCompany"
    /\ company' = [company EXCEPT ![Owner[invoice[job[j].inv].sub]] =
                     [status |-> "active", subStatus |-> "active"]]
    /\ Goto(j, "payLoop")
    /\ UNCHANGED <<today, sub, invoice, gateway, word>>

PaymentCheckEnd(j) ==
    /\ job[j].pc = "payLoop"
    /\ job[j].due = {}
    /\ Done(j)
    /\ UNCHANGED <<today, sub, company, invoice, gateway, word>>

----------------------------------------------------------------------------
(* checkExpiredSubscriptions, daily and on POST check-expired: two loops   *)
(* over lists of whole rows, each row saved as it was read.                *)

Overdue == {s \in Sub : /\ sub[s].status = "active"
                        /\ sub[s].end # NoDay
                        /\ sub[s].end < today}

(* Mutant of GraceOver: suspends on the last day of grace.                 *)
GraceOverOnLastDay == {s \in Sub : /\ sub[s].status = "expired"
                                   /\ sub[s].grace # NoDay
                                   /\ sub[s].grace <= today}

GraceOver == {s \in Sub : /\ sub[s].status = "expired"
                          /\ sub[s].grace # NoDay
                          /\ sub[s].grace < today}

RowsOf(list) == [s \in Sub |-> IF s \in list THEN sub[s] ELSE BlankSub]

(* Mutant of ExpiryStart: gives up early when nobody is to be suspended.   *)
ExpiryStartForGrace(j) ==
    /\ Free(j)
    /\ GraceOver # {}
    /\ job' = [job EXCEPT ![j].pc = "expireLoop", ![j].list = Overdue,
                          ![j].rows = RowsOf(Overdue)]
    /\ UNCHANGED <<today, sub, company, invoice, gateway, word>>

ExpiryStart(j) ==
    /\ Free(j)
    /\ Overdue \cup GraceOver # {}
    /\ job' = [job EXCEPT ![j].pc = "expireLoop", ![j].list = Overdue,
                          ![j].rows = RowsOf(Overdue)]
    /\ UNCHANGED <<today, sub, company, invoice, gateway, word>>

ExpireRow(j, s) ==
    /\ job[j].pc = "expireLoop"
    /\ s \in job[j].list
    /\ sub' = [sub EXCEPT ![s] = [job[j].rows[s] EXCEPT
                 !.status = "expired",
                 !.grace = job[j].rows[s].end + GraceDays]]
    /\ job' = [job EXCEPT ![j].pc = "expireCompany", ![j].sub = s]
    /\ UNCHANGED <<today, company, invoice, gateway, word>>

(* The row just handled leaves the loop's list.                            *)
NextInLoop(j, pc) ==
    job' = [job EXCEPT ![j].pc = pc, ![j].sub = NoSub,
                       ![j].list = @ \ {job[j].sub},
                       ![j].rows[job[j].sub] = BlankSub]

ExpireCompany(j) ==
    /\ job[j].pc = "expireCompany"
    /\ company' = [company EXCEPT ![Owner[job[j].sub]].subStatus = "expired"]
    /\ NextInLoop(j, "expireLoop")
    /\ UNCHANGED <<today, sub, invoice, gateway, word>>

(* Mutant of SuspensionStart: lists what the first loop does.              *)
SuspensionStartActive(j) ==
    /\ job[j].pc = "expireLoop"
    /\ job[j].list = {}
    /\ job' = [job EXCEPT ![j].pc = "suspendLoop", ![j].list = Overdue,
                          ![j].rows = RowsOf(Overdue)]
    /\ UNCHANGED <<today, sub, company, invoice, gateway, word>>

SuspensionStart(j) ==
    /\ job[j].pc = "expireLoop"
    /\ job[j].list = {}
    /\ job' = [job EXCEPT ![j].pc = "suspendLoop", ![j].list = GraceOver,
                          ![j].rows = RowsOf(GraceOver)]
    /\ UNCHANGED <<today, sub, company, invoice, gateway, word>>

SuspendRow(j, s) ==
    /\ job[j].pc = "suspendLoop"
    /\ s \in job[j].list
    /\ sub' = [sub EXCEPT ![s] = [job[j].rows[s] EXCEPT
                                    !.status = "suspended"]]
    /\ job' = [job EXCEPT ![j].pc = "suspendCompany", ![j].sub = s]
    /\ UNCHANGED <<today, company, invoice, gateway, word>>

SuspendCompany(j) ==
    /\ job[j].pc = "suspendCompany"
    /\ company' = [company EXCEPT
                     ![Owner[job[j].sub]].subStatus = "suspended"]
    /\ NextInLoop(j, "suspendLoop")
    /\ UNCHANGED <<today, sub, invoice, gateway, word>>

ExpiryEnd(j) ==
    /\ job[j].pc = "suspendLoop"
    /\ job[j].list = {}
    /\ Done(j)
    /\ UNCHANGED <<today, sub, company, invoice, gateway, word>>

----------------------------------------------------------------------------
(* checkTrialExpirations, daily: updates each listed row by its id.        *)

TrialsOver == {s \in Sub : /\ sub[s].status = "trial"
                           /\ sub[s].trialEnd < today}

(* Mutant of TrialCheckStart: looks at end_date, which a trial may lack.   *)
TrialCheckStartByEnd(j) ==
    /\ Free(j)
    /\ TrialsOver # {}
    /\ \A k \in Job : job[k].pc \notin {"trialLoop", "trialCompany"}
    /\ job' = [job EXCEPT ![j].pc = "trialLoop",
                          ![j].list = {s \in TrialsOver : sub[s].end # NoDay}]
    /\ UNCHANGED <<today, sub, company, invoice, gateway, word>>

(* Only the timer of the one API process starts it, once a day, so that    *)
(* runs do not overlap.                                                    *)
TrialCheckStart(j) ==
    /\ Free(j)
    /\ TrialsOver # {}
    /\ \A k \in Job : job[k].pc \notin {"trialLoop", "trialCompany"}
    /\ job' = [job EXCEPT ![j].pc = "trialLoop", ![j].list = TrialsOver]
    /\ UNCHANGED <<today, sub, company, invoice, gateway, word>>

ExpireTrial(j, s) ==
    /\ job[j].pc = "trialLoop"
    /\ s \in job[j].list
    /\ sub' = [sub EXCEPT ![s].status = "expired"]
    /\ job' = [job EXCEPT ![j].pc = "trialCompany", ![j].sub = s]
    /\ UNCHANGED <<today, company, invoice, gateway, word>>

ExpireTrialCompany(j) ==
    /\ job[j].pc = "trialCompany"
    /\ company' = [company EXCEPT ![Owner[job[j].sub]] =
                     [status |-> "expired", subStatus |-> "expired"]]
    /\ NextInLoop(j, "trialLoop")
    /\ UNCHANGED <<today, sub, invoice, gateway, word>>

TrialCheckEnd(j) ==
    /\ job[j].pc = "trialLoop"
    /\ job[j].list = {}
    /\ Done(j)
    /\ UNCHANGED <<today, sub, company, invoice, gateway, word>>

----------------------------------------------------------------------------
(* Failures and time *)

(* A statement fails inside the per-row try of a loop: on to the next row. *)
RowFails(j) ==
    /\ \/ job[j].pc \in {"paySub", "payCompany"} /\ Goto(j, "payLoop")
       \/ job[j].pc = "trialCompany" /\ NextInLoop(j, "trialLoop")
       \/ /\ job[j].pc = "trialLoop"
          /\ \E s \in job[j].list : job' = [job EXCEPT ![j].list = @ \ {s}]
    /\ UNCHANGED <<today, sub, company, invoice, gateway, word>>

(* Anywhere else an exception ends the handler; so does a restart.         *)
Fail(j) ==
    /\ job[j].pc # "idle"
    /\ Done(j)
    /\ UNCHANGED <<today, sub, company, invoice, gateway, word>>

(* A day passes; no handler runs over midnight, and the gateway expires    *)
(* the invoices that stayed unpaid for GatewayDays.                        *)
Tick ==
    /\ today < MaxDay
    /\ \A j \in Job : Free(j)
    /\ today' = today + 1
    /\ gateway' = [g \in Gateway |->
                     IF /\ gateway[g].status = "PENDING"
                        /\ gateway[g].day + GatewayDays < today + 1
                     THEN [gateway[g] EXCEPT !.status = "EXPIRED", !.day = NoDay]
                     ELSE gateway[g]]
    /\ UNCHANGED <<sub, company, invoice, job, word>>

----------------------------------------------------------------------------
Request ==
    \/ \E c \in Company, s \in Sub, i \in Invoice, m \in Durations :
          RegisterCompany(c, s, i, m)
    \/ \E c \in Company, s \in Sub : RegisterTrial(c, s) \/ Subscribe(c, s)
    \/ \E c \in Company : CreateMember(c)
    \/ \E i \in Invoice, g \in Gateway : PayInvoice(i, g)
    \/ \E j \in Job, s \in Sub : ChangePlan(j, s)
    \/ \E s \in Sub : CancelSubscription(s)
    \/ \E s \in Sub, m \in Durations \cup {0} : ReactivateSubscription(s, m)
    \/ \E c \in Company, m \in Durations : ExtendSubscription(c, m)
    \/ \E i \in Invoice : CancelInvoice(i)
    \/ \E j \in Job, s \in Sub, m \in Durations, i \in Invoice :
          RenewStart(j, s, m, i)
    \/ \E j \in Job, i \in Invoice : CheckPayment(j, i) \/ AdminVerify(j, i)

FromGateway ==
    \/ \E g \in Gateway : GatewayPay(g)
    \/ \E i \in Invoice, g \in Gateway \cup {NoGateway} :
          \/ WebhookOther(i, g)
          \/ \E j \in Job : WebhookPaid(j, i, g)

Start(j) == PaymentCheckStart(j) \/ ExpiryStart(j) \/ TrialCheckStart(j)

Step(j) ==
    \/ ChangePlanSave(j)
    \/ \E g \in Gateway : RenewGateway(j, g)
    \/ RenewRejected(j) \/ RenewSaveInvoice(j) \/ RenewSave(j)
    \/ CheckResult(j) \/ MarkPaid(j) \/ ActivateSub(j) \/ ActivateCompany(j)
    \/ \E i \in Invoice, g \in Gateway :
          PaymentFound(j, i, g) \/ PaymentExpired(j, i, g)
            \/ PaymentUnknown(j, i, g)
    \/ PaymentCheckSub(j) \/ PaymentCheckCompany(j) \/ PaymentCheckEnd(j)
    \/ \E s \in Sub : ExpireRow(j, s) \/ SuspendRow(j, s) \/ ExpireTrial(j, s)
    \/ ExpireCompany(j) \/ SuspensionStart(j) \/ SuspendCompany(j)
    \/ ExpiryEnd(j) \/ ExpireTrialCompany(j) \/ TrialCheckEnd(j)

Next ==
    \/ Request
    \/ FromGateway
    \/ \E j \in Job : Start(j) \/ Step(j) \/ RowFails(j) \/ Fail(j)
    \/ Tick

Spec == Init /\ [][Next]_vars

(* The daily jobs run again and again, and a database that fails does not  *)
(* fail every time for the same row: strong fairness of their starts and   *)
(* of each row they handle.  A handler that is neither stopped nor failing *)
(* takes its next step.  Nothing is assumed of the calendar, the members,  *)
(* the administrators or the gateway; the payment job by itself is the     *)
(* subject of PendingPayments.                                             *)
Fairness ==
    \A j \in Job :
       /\ WF_vars(Step(j))
       /\ SF_vars(ExpiryStart(j)) /\ SF_vars(TrialCheckStart(j))
       /\ SF_vars(SuspensionStart(j))
       /\ \A s \in Sub : /\ SF_vars(ExpireRow(j, s))
                         /\ SF_vars(SuspendRow(j, s))
                         /\ SF_vars(ExpireTrial(j, s))

FairSpec == Spec /\ Fairness

----------------------------------------------------------------------------
(* Properties *)

Paid(i) == \E g \in Gateway : gateway[g].status = "PAID" /\ gateway[g].inv = i

(* What a payment of invoice i was believed on.                            *)
Settled(i) == Paid(i) \/ i \in word.verified \/ i \in word.misreported

Backed(s) ==
    \/ s \in word.extended
    \/ \E i \in Invoice : invoice[i].sub = s /\ Settled(i)

(* An invoice counts as paid only if the gateway holds a payment for that  *)
(* very invoice, an administrator vouched for it, or a notification about  *)
(* it said what the gateway did not; whichever of webhook, check-payment   *)
(* and payment job recorded it, however stale its view.  So as long as     *)
(* notifications come from the gateway, paid is paid.                      *)
InvoiceBacked == \A i \in Invoice : invoice[i].status = "paid" => Settled(i)

(* No subscription reaches active, or what only follows active, unless     *)
(* that holds of one of its own invoices or an administrator extended it.  *)
AccessBacked ==
    \A s \in Sub :
       sub[s].status \in {"active", "suspended", "cancelled"} => Backed(s)

(* Saving a row read before an await never takes a subscription back to    *)
(* pending or to a trial once it has left them.                            *)
NoSecondTrial ==
    [][\A s \in Sub :
          sub[s].status \notin {"none", "pending", "trial"}
             => sub'[s].status \notin {"none", "pending", "trial"}]_vars

(* The expiry job gets to every active subscription whose end has passed.  *)
OverdueExpires ==
    \A s \in Sub : s \in Overdue ~> s \notin Overdue

(* ... and to every one whose grace period is over.                        *)
GraceEnds ==
    \A s \in Sub : s \in GraceOver ~> s \notin GraceOver

(* The trial job gets to every trial that is over.                         *)
TrialEnds ==
    \A s \in Sub : s \in TrialsOver ~> s \notin TrialsOver
=============================================================================
