-------------------------- MODULE PendingPayments --------------------------
(***************************************************************************)
(* The job that asks the payment gateway about pending invoices            *)
(* (handlePendingPaymentCheck in subscriptions.cron.ts) when more of them  *)
(* are pending than one run looks at.  SubscriptionBilling has the job     *)
(* with everything it writes; here the other handlers are an environment   *)
(* that may do anything to an invoice at any time: create it, store        *)
(* another URL, mark it paid or cancelled, make it pending again.          *)
(***************************************************************************)
EXTENDS Naturals, FiniteSets

CONSTANTS
    Invoice,      \* rows of table invoices
    Gateway,      \* invoices held by the payment gateway
    NoGateway,    \* a NULL payment_url
    Job,          \* runs of the job that may be under way at once
    RetryDays,    \* age at which the job gives up: 7 in the code
    BatchSize,    \* invoices one run looks at: 20 in the code
    MaxDay        \* bound: the last day

VARIABLES
    today,        \* the current date
    invoice,      \* table invoices: whether pending, payment_url, created_at
    gateway,      \* status of the gateway's own invoices
    due           \* what each run has listed and not looked at yet

vars == <<today, invoice, gateway, due>>

Url == Gateway \cup {NoGateway}

Init ==
    /\ today = 1
    /\ invoice = [i \in Invoice |-> [pending |-> FALSE, url |-> NoGateway,
                                     day |-> 1]]
    /\ gateway = [g \in Gateway |-> "PENDING"]
    /\ due = [j \in Job |-> {}]

----------------------------------------------------------------------------
(* The job *)

DuePayments ==
    {p \in Invoice \X Gateway :
        /\ invoice[p[1]].pending
        /\ invoice[p[1]].url = p[2]
        /\ today < invoice[p[1]].day + RetryDays}

(* At least as recent as p, so that they may be listed in p's place.       *)
Ahead(p) == {q \in DuePayments \ {p} : invoice[q[1]].day >= invoice[p[1]].day}

(* Mutant of Listed: the oldest first.                                     *)
ListedOldestFirst(list) ==
    /\ list \subseteq DuePayments
    /\ Cardinality(list) <= BatchSize
    /\ Cardinality(list) < BatchSize => list = DuePayments
    /\ \A p \in list, q \in DuePayments \ list :
          invoice[p[1]].day <= invoice[q[1]].day

(* ORDER BY created_at DESC LIMIT BatchSize                                *)
Listed(list) ==
    /\ list \subseteq DuePayments
    /\ Cardinality(list) <= BatchSize
    /\ Cardinality(list) < BatchSize => list = DuePayments
    /\ \A p \in list, q \in DuePayments \ list :
          invoice[p[1]].day >= invoice[q[1]].day

Start(j) ==
    /\ due[j] = {}
    /\ DuePayments # {}
    /\ \E list \in SUBSET DuePayments :
          Listed(list) /\ due' = [due EXCEPT ![j] = list]
    /\ UNCHANGED <<today, invoice, gateway>>

LookedAt(j, p) == due' = [due EXCEPT ![j] = @ \ {p}]

(* The gateway says PAID or EXPIRED: the invoice is paid or failed.        *)
Decide(j, p) ==
    /\ p \in due[j]
    /\ gateway[p[2]] # "PENDING"
    /\ invoice' = [invoice EXCEPT ![p[1]].pending = FALSE]
    /\ LookedAt(j, p)
    /\ UNCHANGED <<today, gateway>>

(* Not decided yet, no answer within five seconds, or the UPDATE failed.   *)
PassOver(j, p) ==
    /\ p \in due[j]
    /\ LookedAt(j, p)
    /\ UNCHANGED <<today, invoice, gateway>>

(* A restart ends the run.                                                 *)
Stop(j) ==
    /\ due[j] # {}
    /\ due' = [due EXCEPT ![j] = {}]
    /\ UNCHANGED <<today, invoice, gateway>>

----------------------------------------------------------------------------
(* The environment *)

(* Any other handler writes invoice i, keeping its creation date or        *)
(* creating it today.                                                      *)
Elsewhere(i) ==
    /\ \E pending \in BOOLEAN, url \in Url, day \in {invoice[i].day, today} :
          invoice' = [invoice EXCEPT ![i] =
                        [pending |-> pending, url |-> url, day |-> day]]
    /\ UNCHANGED <<today, gateway, due>>

(* The payer pays, or the gateway gives up.                                *)
Settle(g) ==
    /\ gateway[g] = "PENDING"
    /\ \E status \in {"PAID", "EXPIRED"} :
          gateway' = [gateway EXCEPT ![g] = status]
    /\ UNCHANGED <<today, invoice, due>>

Tick ==
    /\ today < MaxDay
    /\ today' = today + 1
    /\ UNCHANGED <<invoice, gateway, due>>

----------------------------------------------------------------------------
Work(j) == \E p \in due[j] : Decide(j, p) \/ PassOver(j, p)

Next ==
    \/ \E j \in Job : Start(j) \/ Work(j) \/ Stop(j)
    \/ \E i \in Invoice : Elsewhere(i)
    \/ \E g \in Gateway : Settle(g)
    \/ Tick

(* The job is started every ten minutes and goes through its list; gateway *)
(* and database may fail, but not every time for the same invoice.  Of the *)
(* environment nothing is assumed.                                         *)
Fairness ==
    \A j \in Job :
       /\ SF_vars(Start(j)) /\ WF_vars(Work(j))
       /\ \A p \in Invoice \X Gateway : SF_vars(Decide(j, p))

FairSpec == Init /\ [][Next]_vars /\ Fairness

----------------------------------------------------------------------------
(* A payment whose notification never comes is recorded all the same, if   *)
(* its URL stays stored: unless its invoice leaves the window of seven     *)
(* days, or again and again as many invoices that are no older are pending *)
(* as one run looks at.                                                    *)
PaidIsRecorded ==
    \A p \in Invoice \X Gateway :
       (gateway[p[2]] = "PAID" /\ p \in DuePayments)
          ~> (p \notin DuePayments \/ Cardinality(Ahead(p)) >= BatchSize)
=============================================================================
