---------------------- MODULE SubscriptionBillingProofs ----------------------
(***************************************************************************)
(* Theorems about SubscriptionBilling for every value of its constants.    *)
(* IInv is shown inductive action by action.  Each action is first shown   *)
(* to be well-behaved (it keeps types, never shrinks the ledger, never     *)
(* takes a subscription back, and what it adds is sound); the lemmas of    *)
(* the second part say that a well-behaved step preserves IInv.            *)
(***************************************************************************)
EXTENDS BillingInvariant, TLAPS

----------------------------------------------------------------------------
(* Types of the rows *)

\* An idle job slot is a job row.
LEMMA IdleJobType == IdleJob \in JobRow
  BY DEF JobRow, IdleJob, BlankSub, SubRow, NoRenewal, Renewal, SubStatus,
         NoSub, NoDay, PC

\* A job row stays one when its program counter moves.
LEMMA AtType ==
  ASSUME NEW r \in JobRow, NEW pc \in PC
  PROVE  [r EXCEPT !.pc = pc] \in JobRow
  BY DEF JobRow

\* The fields of a job row.
LEMMA JobFields ==
  ASSUME NEW r \in JobRow
  PROVE  /\ r.pc \in PC
         /\ r.inv \in Invoice \cup {NoInvoice}
         /\ r.gw \in Gateway \cup {NoGateway}
         /\ r.sub \in Sub \cup {NoSub}
         /\ r.list \in SUBSET Sub
         /\ r.due \in SUBSET (Invoice \X Gateway)
         /\ r.rows \in [Sub -> SubRow]
         /\ r.renewal \in Renewal
  BY DEF JobRow

----------------------------------------------------------------------------
(* Well-behaved steps *)

\* Invoices keep their subscription, the gateway keeps its payments, what was
\* believed on somebody's word accumulates, and time does not run backwards.
Grows ==
  /\ \A i \in Invoice : invoice[i].status # "none" =>
        invoice'[i].status # "none" /\ invoice'[i].sub = invoice[i].sub
  /\ \A g \in Gateway : gateway[g].status # "none" =>
        /\ gateway'[g].status # "none"
        /\ gateway'[g].inv = gateway[g].inv
        /\ gateway[g].status = "PAID" => gateway'[g].status = "PAID"
  /\ word.extended \subseteq word'.extended
  /\ word.verified \subseteq word'.verified
  /\ word.misreported \subseteq word'.misreported
  /\ today <= today'

\* No subscription goes back to where it was before its first term.
Begins ==
  \A s \in Sub :
     /\ sub[s].status \in Begun => sub'[s].status \in Begun
     /\ sub[s].status \notin {"none", "trial"} =>
           sub'[s].status \notin {"none", "trial"}

\* What the step adds to invoices, gateway invoices and decisions is sound.
AddsSound ==
  /\ \A i \in Invoice :
        /\ invoice'[i].status = "paid" =>
              invoice[i].status = "paid" \/ Settled(i)'
        /\ invoice'[i].status # "none" =>
              \/ invoice[i].status # "none"
              \/ /\ invoice'[i].sub \in Sub
                 /\ sub'[invoice'[i].sub].status \notin {"none", "trial"}
        /\ \/ invoice'[i].url \in {invoice[i].url, NoGateway}
           \/ invoice'[i].url \in Gateway /\ GatewayFor(invoice[i].url, i)'
        /\ \/ invoice'[i].txRef \in {invoice[i].txRef, NoGateway}
           \/ invoice'[i].txRef \in Gateway /\ GatewayFor(invoice[i].txRef, i)'
           \/ i \in word'.misreported
  /\ \A g \in Gateway : gateway'[g].status # "none" =>
        \/ gateway[g].status # "none"
        \/ /\ gateway'[g].inv \in Invoice
           /\ invoice'[gateway'[g].inv].status # "none"
  /\ \A i \in word'.verified \cup word'.misreported :
        \/ i \in word.verified \cup word.misreported
        \/ invoice'[i].status # "none"

\* Every row is left alone or written soundly.
WritesSound == \A s \in Sub : sub'[s] = sub[s] \/ Sound(s, sub[s])'

----------------------------------------------------------------------------
(* What well-behaved steps preserve *)

\* The ledger facts that rows and handlers rest on are never lost.
LEMMA LedgerKept ==
  ASSUME TypeOK, InvoicesSound, Grows
  PROVE  /\ \A i \in Invoice : Settled(i) => Settled(i)'
         /\ \A s \in Sub : Backed(s) => Backed(s)'
         /\ \A g \in Gateway, i \in Invoice :
               GatewayFor(g, i) => GatewayFor(g, i)'
<1>1. \A i \in Invoice : Settled(i) => Settled(i)'
  BY DEF Grows, Settled, Paid
<1>2. \A i \in Invoice : Settled(i) => invoice[i].status # "none"
  BY DEF InvoicesSound, Settled, Paid
<1>3. \A s \in Sub : Backed(s) => Backed(s)'
  BY <1>1, <1>2 DEF Grows, Backed
<1>4. \A g \in Gateway, i \in Invoice : GatewayFor(g, i) => GatewayFor(g, i)'
  BY DEF Grows, GatewayFor
<1> QED
  BY <1>1, <1>3, <1>4

\* A sound copy of a row stays sound.
LEMMA SoundKept ==
  ASSUME TypeOK, TypeOK', InvoicesSound, Grows,
         NEW s \in Sub, NEW row \in SubRow, Sound(s, row)
  PROVE  Sound(s, row)'
<1>1. Backed(s) => Backed(s)'
  BY LedgerKept
<1>2. /\ today \in Nat /\ today' \in Nat /\ today <= today'
      /\ row.end \in Nat
  BY DEF TypeOK, Grows, SubRow
<1>3. row.end + GraceDays < today => row.end + GraceDays < today'
  BY <1>2, BillingAssumption
<1> QED
  BY <1>1, <1>3 DEF Sound

\* Rows stay sound when the written ones are.
LEMMA SubsKept ==
  ASSUME TypeOK, TypeOK', InvoicesSound, SubsSound, Grows, WritesSound
  PROVE  SubsSound'
<1> SUFFICES ASSUME NEW s \in Sub PROVE Sound(s, sub[s])'
  BY DEF SubsSound
<1>1. CASE sub'[s] = sub[s]
  <2>1. sub[s] \in SubRow /\ Sound(s, sub[s])
    BY DEF TypeOK, SubsSound
  <2> DEFINE row == sub[s]
  <2>2. \A r \in SubRow : Sound(s, r) => Sound(s, r)'
    BY SoundKept
  <2> QED
    BY <1>1, <2>1, <2>2 DEF Sound, Backed, Settled, Paid
<1> QED
  BY <1>1 DEF WritesSound

\* So do the invoices and the references between invoices and gateway.
LEMMA InvoicesKept ==
  ASSUME TypeOK, TypeOK', InvoicesSound, InvoiceBacked, Grows, Begins,
         AddsSound
  PROVE  InvoicesSound' /\ InvoiceBacked'
<1>1. InvoiceBacked'
  BY LedgerKept DEF InvoiceBacked, AddsSound
<1>2. \A i \in Invoice : invoice'[i].status # "none" =>
          /\ invoice'[i].sub \in Sub
          /\ sub'[invoice'[i].sub].status \notin {"none", "trial"}
  BY DEF InvoicesSound, Grows, Begins, AddsSound
<1>3. \A i \in Invoice : invoice'[i].url # NoGateway =>
          GatewayFor(invoice[i].url, i)'
  <2> SUFFICES ASSUME NEW i \in Invoice, invoice'[i].url # NoGateway
               PROVE  GatewayFor(invoice[i].url, i)'
    OBVIOUS
  <2>1. CASE invoice'[i].url = invoice[i].url
    <3>1. invoice[i].url \in Gateway /\ GatewayFor(invoice[i].url, i)
      BY <2>1 DEF InvoicesSound, TypeOK, InvoiceRow
    <3> QED
      BY <2>1, <3>1 DEF GatewayFor, Grows
  <2> QED
    BY <2>1 DEF AddsSound
<1>4. \A i \in Invoice : invoice'[i].txRef # NoGateway =>
          GatewayFor(invoice[i].txRef, i)' \/ i \in word'.misreported
  <2> SUFFICES ASSUME NEW i \in Invoice, invoice'[i].txRef # NoGateway,
                      i \notin word'.misreported
               PROVE  GatewayFor(invoice[i].txRef, i)'
    OBVIOUS
  <2>1. CASE invoice'[i].txRef = invoice[i].txRef
    <3>1. invoice[i].txRef \in Gateway /\ GatewayFor(invoice[i].txRef, i)
      BY <2>1 DEF InvoicesSound, TypeOK, InvoiceRow, Grows
    <3> QED
      BY <2>1, <3>1 DEF GatewayFor, Grows
  <2> QED
    BY <2>1 DEF AddsSound
<1>5. \A g \in Gateway : gateway'[g].status # "none" =>
          /\ gateway'[g].inv \in Invoice
          /\ invoice'[gateway'[g].inv].status # "none"
  BY DEF InvoicesSound, Grows, AddsSound
<1>6. \A i \in word'.verified \cup word'.misreported :
          invoice'[i].status # "none"
  <2>1. \A i \in word.verified \cup word.misreported :
            i \in Invoice /\ invoice[i].status # "none"
    BY DEF InvoicesSound, TypeOK
  <2> QED
    BY <2>1 DEF Grows, AddsSound
<1> QED
  BY <1>1, <1>2, <1>3, <1>4, <1>5, <1>6 DEF InvoicesSound

\* What a handler knows remains true while the others run.
LEMMA KnowledgeKept ==
  ASSUME TypeOK, TypeOK', InvoicesSound, Grows, Begins,
         NEW r \in JobRow, Knows(r)
  PROVE  Knows(r)'
<1>1. \A s \in Sub, row \in SubRow : Stale(s, row) => Stale(s, row)'
  BY SoundKept DEF Stale, Begins
<1>2. \A i \in Invoice : invoice[i].status # "none" =>
                         invoice'[i].status # "none"
  BY DEF Grows
<1>3. today \in Nat /\ today' \in Nat /\ today <= today'
  BY DEF TypeOK, Grows
<1>4. \A s \in r.list : s \in Sub /\ r.rows[s] \in SubRow
  BY JobFields
<1>5. \A s \in r.list : r.rows[s].grace \in Nat /\ r.rows[s].end \in Nat
  BY <1>4 DEF SubRow
<1>6. \A s \in r.list :
         /\ r.rows[s].grace < today => r.rows[s].grace < today'
         /\ r.rows[s].end < today => r.rows[s].end < today'
  BY <1>3, <1>5
<1>7. r.pc \in HasInvoice =>
          r.inv \in Invoice /\ invoice'[r.inv].status # "none"
  BY <1>2 DEF Knows
<1>8. r.pc \in HasSettled => Settled(r.inv)'
  BY LedgerKept DEF Knows, HasSettled, HasInvoice
<1>9. /\ r.pc \in {"check", "renewAnswer"} => r.gw \in Gateway
      /\ r.pc = "check" =>
            GatewayFor(r.gw, r.inv)' \/ r.inv \in word'.misreported
      /\ r.pc = "renewAnswer" => GatewayFor(r.gw, r.inv)'
  BY LedgerKept DEF Knows, HasInvoice, Grows
<1>10. \A p \in r.due : GatewayFor(p[2], p[1])'
  BY LedgerKept, JobFields DEF Knows
<1>11. r.pc \in {"renew", "renewAnswer", "renewSave", "changePlan"} =>
          Stale(r.sub, r.rows[r.sub])'
  BY <1>1, JobFields DEF Knows, HasSub
<1>12. \A s \in r.list : Stale(s, r.rows[s]) => Stale(s, r.rows[s])'
  BY <1>1, <1>4
<1> QED
  BY <1>6, <1>7, <1>8, <1>9, <1>10, <1>11, <1>12 DEF Knows

\* Handlers stay sound when at most one of them moves, to a sound place.
LEMMA JobsKept ==
  ASSUME TypeOK, TypeOK', InvoicesSound, JobsSound, Grows, Begins,
         NEW j \in Job, NEW r \in JobRow, job' = [job EXCEPT ![j] = r],
         Knows(job[j])'
  PROVE  JobsSound'
<1> SUFFICES ASSUME NEW k \in Job PROVE Knows(job[k])'
  BY DEF JobsSound
<1>1. CASE k = j
  BY <1>1 DEF TypeOK, Knows, GatewayFor, Settled, Paid, Stale, Sound, Backed
<1>2. CASE k # j
  <2>1. job'[k] = job[k] /\ job[k] \in JobRow /\ Knows(job[k])
    BY <1>2 DEF TypeOK, JobsSound
  <2>2. \A q \in JobRow : Knows(q) => Knows(q)'
    BY KnowledgeKept
  <2> QED
    BY <2>1, <2>2 DEF Knows, GatewayFor, Settled, Paid, Stale, Sound, Backed
<1> QED
  BY <1>1, <1>2

\* Handlers stay sound when none of them moves.
LEMMA IdleJobsKept ==
  ASSUME TypeOK, TypeOK', InvoicesSound, JobsSound, Grows, Begins,
         UNCHANGED job
  PROVE  JobsSound'
<1> SUFFICES ASSUME NEW k \in Job PROVE Knows(job[k])'
  BY DEF JobsSound
<1>1. job'[k] = job[k] /\ job[k] \in JobRow /\ Knows(job[k])
  BY DEF TypeOK, JobsSound
<1>2. \A q \in JobRow : Knows(q) => Knows(q)'
  BY KnowledgeKept
<1> QED
  BY <1>1, <1>2 DEF Knows, GatewayFor, Settled, Paid, Stale, Sound, Backed

\* A trial row is left alone, so the trial job's list stays a list of trials.
TrialsLeft == \A s \in Sub : sub[s].status = "trial" => sub'[s].status = "trial"

\* The list of the trial job stays a list of trials while another moves.
LEMMA TrialsKept ==
  ASSUME TypeOK, TrialsSound, TrialsLeft,
         NEW j \in Job, NEW r \in JobRow, job' = [job EXCEPT ![j] = r],
         r.pc \notin InTrialJob
  PROVE  TrialsSound'
<1> SUFFICES ASSUME NEW k \in Job, job'[k].pc \in InTrialJob
             PROVE  /\ \A s \in job'[k].list :
                          \/ sub'[s].status = "trial"
                          \/ job'[k].pc = "trialCompany" /\ s = job'[k].sub
                    /\ \A l \in Job : job'[l].pc \in InTrialJob => l = k
  BY DEF TrialsSound
<1>1. k # j /\ job'[k] = job[k]
  BY DEF TypeOK
<1>2. \A l \in Job : job'[l].pc \in InTrialJob => job[l].pc \in InTrialJob
  BY DEF TypeOK
<1>3. \A s \in job[k].list : s \in Sub
  BY JobFields DEF TypeOK
<1> QED
  BY <1>1, <1>2, <1>3 DEF TrialsSound, TrialsLeft

\* ... and while none does.
LEMMA IdleTrialsKept ==
  ASSUME TypeOK, TrialsSound, TrialsLeft, UNCHANGED job
  PROVE  TrialsSound'
<1>1. \A k \in Job : \A s \in job[k].list : s \in Sub
  BY JobFields DEF TypeOK
<1> QED
  BY <1>1 DEF TrialsSound, TrialsLeft

----------------------------------------------------------------------------
(* A well-behaved step preserves the invariant *)

\* The invariant holds again, no subscription went back and no payment or
\* decision was lost.
Keeps == IInv' /\ Begins /\ Grows

WellBehaved ==
  /\ TypeOK'
  /\ Grows
  /\ Begins
  /\ AddsSound
  /\ WritesSound
  /\ TrialsLeft

\* A step that moves no handler.
LEMMA RequestKeeps ==
  ASSUME IInv, WellBehaved, UNCHANGED job
  PROVE  Keeps
  BY SubsKept, InvoicesKept, IdleJobsKept, IdleTrialsKept
     DEF IInv, WellBehaved, Keeps

\* A step that moves handler j to r, anywhere but into the trial job.
LEMMA HandlerKeeps ==
  ASSUME IInv, WellBehaved, NEW j \in Job, NEW r \in JobRow,
         job' = [job EXCEPT ![j] = r], Knows(job[j])', r.pc \notin InTrialJob
  PROVE  Keeps
  BY SubsKept, InvoicesKept, JobsKept, TrialsKept
     DEF IInv, WellBehaved, Keeps

----------------------------------------------------------------------------
(* Registration and the member's requests *)

\* New rows have the type of their table.
LEMMA NewRowTypes ==
  ASSUME TypeOK
  PROVE  /\ \A s \in Sub, m \in Nat : NewInvoice(s, m) \in InvoiceRow
         /\ \A i \in Invoice, r \in {"invoiceNumber", "transactionId"} :
               NewGateway(i, r) \in GatewayRow
  BY DEF TypeOK, NewInvoice, NewGateway, InvoiceRow, GatewayRow,
         BlankInvoice, NoDay

\* A registration preserves the invariant: all its rows are new.
LEMMA RegisterCompanyKeeps ==
  ASSUME IInv, NEW c \in Company, NEW s \in Sub, NEW i \in Invoice,
         NEW m \in Durations, RegisterCompany(c, s, i, m)
  PROVE  Keeps
<1> DEFINE row == [BlankSub EXCEPT !.status = "pending", !.months = m]
<1>1. TypeOK'
  <2>1. row \in SubRow
    BY BillingAssumption
       DEF SubRow, BlankSub, SubStatus, Renewal, NoRenewal, NoDay
  <2>2. [status |-> "pending", subStatus |-> "pending"] \in CompanyRow
    BY DEF CompanyRow, SubStatus
  <2>3. NewInvoice(s, m) \in InvoiceRow
    BY NewRowTypes, BillingAssumption DEF IInv
  <2>4. \A g \in Gateway : NewGateway(i, "invoiceNumber") \in GatewayRow
    BY NewRowTypes DEF IInv
  <2> QED
    BY <2>1, <2>2, <2>3, <2>4 DEF IInv, TypeOK, RegisterCompany
<1>2. sub[s].status = "none" /\ sub'[s].status = "pending"
  BY DEF IInv, TypeOK, RegisterCompany, NextRow, BlankSub
<1>3. Grows /\ Begins /\ TrialsLeft
  BY <1>2 DEF IInv, TypeOK, RegisterCompany, Grows, Begins, TrialsLeft, Begun
<1>4. AddsSound
  <2>1. invoice'[i] = NewInvoice(s, m)
    BY DEF IInv, TypeOK, RegisterCompany
  <2>2. /\ invoice'[i].status = "pending" /\ invoice'[i].sub = s
        /\ invoice'[i].url = NoGateway /\ invoice'[i].txRef = NoGateway
    BY <2>1 DEF NewInvoice, BlankInvoice
  <2>3. \A g \in Gateway : gateway'[g] = gateway[g] \/ gateway'[g].inv = i
    BY DEF IInv, TypeOK, RegisterCompany, NewGateway
  <2>4. \A k \in Invoice : k # i => invoice'[k] = invoice[k]
    BY DEF IInv, TypeOK, RegisterCompany
  <2>5. word' = word
    BY DEF RegisterCompany
  <2> QED
    BY <1>2, <2>2, <2>3, <2>4, <2>5 DEF AddsSound
<1>5. WritesSound
  BY <1>2 DEF IInv, TypeOK, RegisterCompany, WritesSound, Sound
<1> QED
  BY <1>1, <1>3, <1>4, <1>5, RequestKeeps DEF WellBehaved, RegisterCompany

\* So does a trial registration: the row has neither term nor grace.
LEMMA RegisterTrialKeeps ==
  ASSUME IInv, NEW c \in Company, NEW s \in Sub, RegisterTrial(c, s)
  PROVE  Keeps
<1> DEFINE row == [BlankSub EXCEPT !.status = "trial",
                                   !.end = today + TrialDays,
                                   !.trialEnd = today + TrialDays]
<1>1. TypeOK'
  <2>1. row \in SubRow
    <3>1. today + TrialDays \in Nat
      BY BillingAssumption DEF IInv, TypeOK
    <3> QED
      BY <3>1
         DEF SubRow, BlankSub, SubStatus, Renewal, NoRenewal, NoDay
  <2>2. [status |-> "trial", subStatus |-> "trial"] \in CompanyRow
    BY DEF CompanyRow, SubStatus
  <2> QED
    BY <2>1, <2>2 DEF IInv, TypeOK, RegisterTrial
<1>2. /\ sub[s].status = "none"
      /\ sub'[s].status = "trial" /\ sub'[s].grace = NoDay
  BY DEF IInv, TypeOK, RegisterTrial, NextRow, BlankSub
<1>3. Grows /\ Begins /\ TrialsLeft
  BY <1>2 DEF IInv, TypeOK, RegisterTrial, Grows, Begins, TrialsLeft, Begun
<1>4. AddsSound
  BY DEF RegisterTrial, AddsSound
<1>5. WritesSound
  BY <1>2 DEF IInv, TypeOK, RegisterTrial, WritesSound, Sound
<1> QED
  BY <1>1, <1>3, <1>4, <1>5, RequestKeeps DEF WellBehaved, RegisterTrial

\* So does creating a member, which touches no subscription.
LEMMA CreateMemberKeeps ==
  ASSUME IInv, NEW c \in Company, CreateMember(c)
  PROVE  Keeps
<1>1. TypeOK'
  <2>1. [status |-> "active", subStatus |-> "active"] \in CompanyRow
    BY DEF CompanyRow, SubStatus
  <2> QED
    BY <2>1 DEF IInv, TypeOK, CreateMember
<1>2. Grows /\ Begins /\ TrialsLeft /\ AddsSound /\ WritesSound
  BY DEF IInv, TypeOK, CreateMember, Grows, Begins, TrialsLeft, AddsSound,
         WritesSound
<1> QED
  BY <1>1, <1>2, RequestKeeps DEF WellBehaved, CreateMember

\* A company row stays one when its copied subscription_status changes.
LEMMA SubStatusType ==
  ASSUME TypeOK, NEW c \in Company, NEW v \in SubStatus,
         company' = [company EXCEPT ![c].subStatus = v]
  PROVE  company' \in [Company -> CompanyRow]
<1>1. [company[c] EXCEPT !.subStatus = v] \in CompanyRow
  BY DEF TypeOK, CompanyRow
<1> QED
  BY <1>1 DEF TypeOK

\* So does another trial: it is a new row, not the old one again.
LEMMA SubscribeKeeps ==
  ASSUME IInv, NEW c \in Company, NEW s \in Sub, Subscribe(c, s)
  PROVE  Keeps
<1> DEFINE row == [BlankSub EXCEPT !.status = "trial",
                                   !.trialEnd = today + TrialDays]
<1>1. TypeOK'
  <2>1. row \in SubRow
    <3>1. today + TrialDays \in Nat
      BY BillingAssumption DEF IInv, TypeOK
    <3> QED
      BY <3>1
         DEF SubRow, BlankSub, SubStatus, Renewal, NoRenewal, NoDay
  <2>2. company' \in [Company -> CompanyRow]
    BY SubStatusType DEF Subscribe, SubStatus, IInv
  <2> QED
    BY <2>1, <2>2 DEF IInv, TypeOK, Subscribe
<1>2. /\ sub[s].status = "none"
      /\ sub'[s].status = "trial" /\ sub'[s].grace = NoDay
  BY DEF IInv, TypeOK, Subscribe, NextRow, BlankSub
<1>3. Grows /\ Begins /\ TrialsLeft
  BY <1>2 DEF IInv, TypeOK, Subscribe, Grows, Begins, TrialsLeft, Begun
<1>4. AddsSound
  BY DEF Subscribe, AddsSound
<1>5. WritesSound
  BY <1>2 DEF IInv, TypeOK, Subscribe, WritesSound, Sound
<1> QED
  BY <1>1, <1>3, <1>4, <1>5, RequestKeeps DEF WellBehaved, Subscribe

\* A step that leaves subscriptions alone takes none of them back.
LEMMA SubsLeft ==
  ASSUME UNCHANGED sub
  PROVE  Begins /\ TrialsLeft /\ WritesSound
  BY DEF Begins, TrialsLeft, WritesSound

\* Asking the gateway for an invoice: it is made for this invoice.
LEMMA PayInvoiceKeeps ==
  ASSUME IInv, NEW i \in Invoice, NEW g \in Gateway, PayInvoice(i, g)
  PROVE  Keeps
<1> DEFINE row == [invoice[i] EXCEPT !.url = g]
<1>1. row \in InvoiceRow
  BY DEF IInv, TypeOK, InvoiceRow
<1>2. NewGateway(i, "invoiceNumber") \in GatewayRow
  BY NewRowTypes DEF IInv
<1>3. TypeOK'
  BY <1>1, <1>2 DEF IInv, TypeOK, PayInvoice
<1>4. /\ gateway'[g].status = "PENDING" /\ gateway'[g].inv = i
      /\ \A h \in Gateway : h # g => gateway'[h] = gateway[h]
  BY DEF IInv, TypeOK, PayInvoice, NewGateway
<1>5. /\ invoice'[i] = row \/ invoice'[i] = invoice[i]
      /\ \A k \in Invoice : k # i => invoice'[k] = invoice[k]
  BY DEF IInv, TypeOK, PayInvoice
<1>6. /\ row.status = invoice[i].status /\ row.sub = invoice[i].sub
      /\ row.txRef = invoice[i].txRef /\ row.url = g
  BY DEF IInv, TypeOK, InvoiceRow
<1>7. UNCHANGED <<today, sub, job, word>> /\ gateway[g].status = "none"
      /\ invoice[i].status # "none"
  BY DEF PayInvoice
<1>8. Grows
  <2>1. today <= today'
    BY <1>7 DEF IInv, TypeOK
  <2> QED
    BY <1>4, <1>5, <1>6, <1>7, <2>1 DEF Grows
<1>9. AddsSound
  BY <1>4, <1>5, <1>6, <1>7 DEF IInv, TypeOK, AddsSound, GatewayFor
<1> QED
  BY <1>3, <1>7, <1>8, <1>9, SubsLeft, RequestKeeps DEF WellBehaved

\* A fresh invoice of a subscription that is no trial adds nothing unsound.
LEMMA NewInvoiceGrows ==
  ASSUME IInv, NEW i \in Invoice, NEW s \in Sub, NEW m \in Nat,
         invoice[i].status = "none", sub[s].status \notin {"none", "trial"},
         invoice' = [invoice EXCEPT ![i] = NewInvoice(s, m)],
         UNCHANGED <<today, sub, gateway, word>>
  PROVE  Grows /\ AddsSound /\ invoice' \in [Invoice -> InvoiceRow]
<1>1. /\ invoice'[i].status = "pending" /\ invoice'[i].sub = s
      /\ invoice'[i].url = NoGateway /\ invoice'[i].txRef = NoGateway
  BY DEF IInv, TypeOK, NewInvoice, BlankInvoice
<1>2. \A k \in Invoice : k # i => invoice'[k] = invoice[k]
  BY DEF IInv, TypeOK
<1>3. Grows
  BY <1>1, <1>2 DEF Grows, IInv, TypeOK
<1>4. AddsSound
  BY <1>1, <1>2 DEF AddsSound
<1>5. invoice' \in [Invoice -> InvoiceRow]
  BY NewRowTypes DEF IInv, TypeOK
<1> QED
  BY <1>3, <1>4, <1>5

\* Writing a term of row s that was no trial, when the invoices stay.
LEMMA RowWritten ==
  ASSUME IInv, NEW s \in Sub, NEW row \in SubRow,
         sub' = [sub EXCEPT ![s] = row], Sound(s, sub[s])',
         sub[s].status # "trial", row.status \in Begun
  PROVE  /\ sub' \in [Sub -> SubRow]
         /\ Begins /\ TrialsLeft /\ WritesSound
<1>1. sub' \in [Sub -> SubRow] /\ sub'[s] = row
  BY DEF IInv, TypeOK
<1>2. \A t \in Sub : t # s => sub'[t] = sub[t]
  BY DEF IInv, TypeOK
<1>3. Begins /\ TrialsLeft
  BY <1>1, <1>2 DEF Begins, TrialsLeft, Begun
<1>4. WritesSound
  BY <1>2 DEF WritesSound
<1> QED
  BY <1>1, <1>3, <1>4

\* Cancelling: the row was active, so it is backed.
LEMMA CancelSubscriptionKeeps ==
  ASSUME IInv, NEW s \in Sub, CancelSubscription(s)
  PROVE  Keeps
<1> DEFINE row == [sub[s] EXCEPT !.status = "cancelled"]
<1>1. row \in SubRow /\ row.status = "cancelled"
  BY DEF IInv, TypeOK, SubRow, SubStatus
<1>2. Grows /\ AddsSound
  BY DEF IInv, TypeOK, CancelSubscription, Grows, AddsSound
<1>3. Backed(s)'
  BY <1>2, LedgerKept DEF IInv, SubsSound, Sound, CancelSubscription
<1>4. sub' = [sub EXCEPT ![s] = row] /\ sub'[s] = row
      /\ sub[s].status = "active"
  BY DEF IInv, TypeOK, CancelSubscription
<1> HIDE DEF row
<1>4a. Sound(s, sub[s])'
  BY <1>1, <1>3, <1>4 DEF Sound
<1>5. sub' \in [Sub -> SubRow] /\ Begins /\ TrialsLeft /\ WritesSound
  BY <1>1, <1>4, <1>4a, RowWritten DEF Begun
<1>6. company' \in [Company -> CompanyRow]
  BY SubStatusType, BillingAssumption DEF IInv, CancelSubscription, SubStatus
<1>7. TypeOK'
  BY <1>5, <1>6 DEF IInv, TypeOK, CancelSubscription
<1> QED
  BY <1>2, <1>5, <1>7, RequestKeeps DEF WellBehaved, CancelSubscription

\* Reactivating: the row was active already, so it is backed.
LEMMA ReactivateSubscriptionKeeps ==
  ASSUME IInv, NEW s \in Sub, NEW m \in Durations \cup {0},
         ReactivateSubscription(s, m)
  PROVE  Keeps
<1> DEFINE d == IF m # 0 THEN m
                ELSE IF sub[s].months # 0 THEN sub[s].months ELSE 1
           row == [sub[s] EXCEPT !.end = AddMonths(today, d), !.months = d,
                                 !.grace = NoDay]
<1>1. sub[s] \in SubRow /\ sub[s].months \in Nat /\ d \in Nat
  BY BillingAssumption DEF IInv, TypeOK, SubRow
<1>2. AddMonths(today, d) \in Nat
  BY <1>1, BillingAssumption DEF AddMonths, IInv, TypeOK
<1>3. sub[s].status = "active" /\ sub' = [sub EXCEPT ![s] = row]
      /\ UNCHANGED <<today, invoice, gateway, job, word>>
      /\ company' = [company EXCEPT ![Owner[s]].subStatus = "active"]
  BY DEF ReactivateSubscription
<1> HIDE DEF d
<1>4. row \in SubRow /\ row.status = "active" /\ sub'[s] = row
  BY <1>1, <1>2, <1>3 DEF SubRow, NoDay, IInv, TypeOK
<1>5. Grows /\ AddsSound
  BY <1>3 DEF IInv, TypeOK, Grows, AddsSound
<1>6. Backed(s)'
  BY <1>3, <1>5, LedgerKept DEF IInv, SubsSound, Sound
<1> HIDE DEF row
<1>7. Sound(s, sub[s])'
  BY <1>4, <1>6 DEF Sound
<1>8. sub' \in [Sub -> SubRow] /\ Begins /\ TrialsLeft /\ WritesSound
  BY <1>3, <1>4, <1>7, RowWritten DEF Begun
<1>9. company' \in [Company -> CompanyRow]
  BY <1>3, SubStatusType, BillingAssumption DEF IInv, SubStatus
<1>10. TypeOK'
  BY <1>3, <1>8, <1>9 DEF IInv, TypeOK
<1> QED
  BY <1>3, <1>5, <1>8, <1>10, RequestKeeps DEF WellBehaved

\* Extending: the administrator backs the row, or no row is written.
LEMMA ExtendSubscriptionKeeps ==
  ASSUME IInv, NEW c \in Company, NEW m \in Durations,
         ExtendSubscription(c, m)
  PROVE  Keeps
<1>1. company' \in [Company -> CompanyRow]
  BY SubStatusType DEF IInv, ExtendSubscription, SubStatus
<1>2. UNCHANGED <<today, invoice, gateway, job>>
  BY DEF ExtendSubscription
<1>3. ASSUME NEW s \in Sub, IsNewest(s, c, {"active", "expired"}),
             sub' = [sub EXCEPT
                   ![s].status = "active",
                   ![s].end = AddMonths(LaterOf(sub[s].end, today), m),
                   ![s].months = @ + m],
             word' = [word EXCEPT !.extended = @ \cup {s}]
      PROVE  Keeps
  <2> DEFINE e == AddMonths(LaterOf(sub[s].end, today), m)
             row == [sub[s] EXCEPT !.status = "active", !.end = e,
                                   !.months = @ + m]
  <2>1. sub[s] \in SubRow /\ m \in Nat /\ sub[s].months \in Nat
        /\ sub[s].end \in Nat /\ today \in Nat
    BY BillingAssumption DEF IInv, TypeOK, SubRow
  <2>2. e \in Nat /\ sub[s].months + m \in Nat
    BY <2>1, BillingAssumption DEF AddMonths, LaterOf
  <2>3. sub' = [sub EXCEPT ![s] = row]
    BY <1>3
  <2> HIDE DEF e
  <2>4. row \in SubRow /\ row.status = "active" /\ sub'[s] = row
    BY <2>1, <2>2, <2>3 DEF SubRow, SubStatus, IInv, TypeOK
  <2>5. /\ word.extended \subseteq word'.extended /\ s \in word'.extended
        /\ word'.verified = word.verified
        /\ word'.misreported = word.misreported
        /\ word' \in [extended: SUBSET Sub, verified: SUBSET Invoice,
                      misreported: SUBSET Invoice]
    BY <1>3 DEF IInv, TypeOK
  <2>6. Grows /\ AddsSound
    BY <1>2, <2>5 DEF IInv, TypeOK, Grows, AddsSound
  <2> HIDE DEF row
  <2>7. Sound(s, sub[s])'
    BY <2>4, <2>5 DEF Sound, Backed
  <2>8. sub[s].status # "trial"
    BY <1>3 DEF IsNewest
  <2>9. sub' \in [Sub -> SubRow] /\ Begins /\ TrialsLeft /\ WritesSound
    BY <2>3, <2>4, <2>7, <2>8, RowWritten DEF Begun
  <2>10. TypeOK'
    BY <1>1, <1>2, <2>5, <2>9 DEF IInv, TypeOK
  <2> QED
    BY <1>2, <2>6, <2>9, <2>10, RequestKeeps DEF WellBehaved
<1>4. ASSUME UNCHANGED <<sub, word>> PROVE Keeps
  <2>1. TypeOK'
    BY <1>1, <1>2, <1>4 DEF IInv, TypeOK
  <2>2. Grows /\ AddsSound
    BY <1>2, <1>4 DEF IInv, TypeOK, Grows, AddsSound
  <2> QED
    BY <1>2, <1>4, <2>1, <2>2, SubsLeft, RequestKeeps DEF WellBehaved
<1> QED
  BY <1>3, <1>4 DEF ExtendSubscription

\* Changing the status of an invoice; to paid only when it is settled.
LEMMA InvoiceMoved ==
  ASSUME IInv, NEW i \in Invoice, invoice[i].status # "none",
         NEW st \in {"pending", "paid", "failed", "cancelled"},
         invoice' = [invoice EXCEPT ![i].status = st],
         st = "paid" => Settled(i)',
         UNCHANGED <<today, sub, gateway, word>>
  PROVE  Grows /\ AddsSound /\ invoice' \in [Invoice -> InvoiceRow]
<1>1. /\ invoice'[i] = [invoice[i] EXCEPT !.status = st]
      /\ \A k \in Invoice : k # i => invoice'[k] = invoice[k]
  BY DEF IInv, TypeOK
<1>2. /\ invoice'[i].status = st /\ invoice'[i].sub = invoice[i].sub
      /\ invoice'[i].url = invoice[i].url
      /\ invoice'[i].txRef = invoice[i].txRef
      /\ invoice'[i] \in InvoiceRow
  BY <1>1 DEF IInv, TypeOK, InvoiceRow
<1>3. today <= today'
  BY DEF IInv, TypeOK
<1>4. Grows
  BY <1>1, <1>2, <1>3 DEF Grows
<1>5. AddsSound
  BY <1>1, <1>2 DEF AddsSound
<1>6. invoice' \in [Invoice -> InvoiceRow]
  BY <1>1, <1>2 DEF IInv, TypeOK
<1> QED
  BY <1>4, <1>5, <1>6

\* Cancelling an invoice, which marks nothing paid.
LEMMA CancelInvoiceKeeps ==
  ASSUME IInv, NEW i \in Invoice, CancelInvoice(i)
  PROVE  Keeps
<1>1. Grows /\ AddsSound /\ invoice' \in [Invoice -> InvoiceRow]
  BY InvoiceMoved DEF CancelInvoice
<1>2. TypeOK'
  BY <1>1 DEF IInv, TypeOK, CancelInvoice
<1> QED
  BY <1>1, <1>2, SubsLeft, RequestKeeps DEF WellBehaved, CancelInvoice

----------------------------------------------------------------------------
(* Plan changes and renewals *)

\* A handler that moves to a place it already knew enough for.
LEMMA HandlerMoves ==
  ASSUME IInv, WellBehaved, NEW j \in Job, NEW r \in JobRow,
         job' = [job EXCEPT ![j] = r], Knows(r), r.pc \notin InTrialJob
  PROVE  Keeps
<1>1. Knows(r)'
  BY KnowledgeKept DEF IInv, WellBehaved
<1>2. job'[j] = r
  BY DEF IInv, TypeOK
<1>3. Knows(job[j])'
  BY <1>1, <1>2
     DEF Knows, GatewayFor, Settled, Paid, Stale, Sound, Backed
<1> QED
  BY <1>3, HandlerKeeps

\* A step that changes nothing but handlers.
OnlyJobs == UNCHANGED <<today, sub, company, invoice, gateway, word>>

\* Steps of nothing but handlers are well-behaved.
LEMMA OnlyJobsGrows ==
  ASSUME IInv, OnlyJobs
  PROVE  Grows /\ Begins /\ AddsSound /\ WritesSound /\ TrialsLeft
<1>1. Begins /\ TrialsLeft /\ WritesSound
  BY SubsLeft DEF OnlyJobs
<1>2. Grows /\ AddsSound
  BY DEF OnlyJobs, IInv, TypeOK, Grows, AddsSound
<1> QED
  BY <1>1, <1>2

\* A step of nothing but handler j, to a place it knew enough for.
LEMMA HandlerOnly ==
  ASSUME IInv, OnlyJobs, NEW j \in Job, NEW r \in JobRow,
         job' = [job EXCEPT ![j] = r], Knows(r), r.pc \notin InTrialJob
  PROVE  Keeps
<1>1. TypeOK'
  BY DEF IInv, TypeOK, OnlyJobs
<1> QED
  BY <1>1, OnlyJobsGrows, HandlerMoves DEF WellBehaved

\* A handler that ends leaves nothing to know.
LEMMA IdleKnows == IdleJob \in JobRow /\ Knows(IdleJob)
                   /\ IdleJob.pc \notin InTrialJob
  BY IdleJobType
     DEF IdleJob, Knows, HasInvoice, HasSettled, HasSub, InTrialJob

\* A handler that ends, whatever it was doing, preserves the invariant.
LEMMA DoneKeeps ==
  ASSUME IInv, NEW j \in Job, Done(j), OnlyJobs
  PROVE  Keeps
  BY IdleKnows, HandlerOnly DEF Done

\* Reading the row for a change of plan: the copy is the sound row itself.
LEMMA ChangePlanKeeps ==
  ASSUME IInv, NEW j \in Job, NEW s \in Sub, ChangePlan(j, s)
  PROVE  Keeps
<1> DEFINE r == [IdleJob EXCEPT !.pc = "changePlan", !.sub = s,
                                !.rows[s] = sub[s]]
<1>1. /\ sub[s] \in SubRow /\ Sound(s, sub[s]) /\ sub[s].status = "active"
      /\ job' = [job EXCEPT ![j] = r] /\ OnlyJobs
  BY DEF IInv, TypeOK, SubsSound, ChangePlan, OnlyJobs
<1>2. r \in JobRow
  <2>1. [IdleJob.rows EXCEPT ![s] = sub[s]] \in [Sub -> SubRow]
    BY <1>1, IdleJobType, JobFields
  <2> QED
    BY <2>1, IdleJobType DEF JobRow, PC
<1>3. r.pc = "changePlan" /\ r.sub = s /\ r.rows[s] = sub[s] /\ r.due = {}
  BY IdleJobType, JobFields DEF IdleJob
<1> HIDE DEF r
<1>4. Knows(r)
  BY <1>1, <1>3 DEF Knows, HasInvoice, HasSettled, HasSub, Stale, Begun
<1> QED
  BY <1>1, <1>2, <1>3, <1>4, HandlerOnly DEF InTrialJob

\* Saving a sound copy of a row past its first term, with or without a new
\* invoice for it.
LEMMA CopySaved ==
  ASSUME IInv, NEW s \in Sub, NEW old \in SubRow, NEW row \in SubRow,
         Stale(s, old), old.status \in {"active", "expired", "suspended"},
         row.status = old.status, row.end = old.end, row.grace = old.grace,
         sub' = [sub EXCEPT ![s] = row], Grows, UNCHANGED today
  PROVE  sub' \in [Sub -> SubRow] /\ Begins /\ TrialsLeft /\ WritesSound
<1>1. sub'[s] = row
  BY DEF IInv, TypeOK
<1>2. Backed(s) => Backed(s)'
  BY LedgerKept DEF IInv
<1>3. \/ row.status = "active" /\ Backed(s)
      \/ /\ row.status = "expired"
         /\ row.grace # NoDay => /\ Backed(s)
                                 /\ row.end + GraceDays <= row.grace
      \/ /\ row.status = "suspended" /\ Backed(s)
         /\ row.end + GraceDays < today
  BY DEF Stale, Sound
<1>4. Sound(s, sub[s])'
  BY <1>1, <1>2, <1>3 DEF Sound
<1> QED
  BY <1>4, RowWritten DEF Stale, Begun

\* The change is saved with an invoice for the row, or without one.
LEMMA ChangePlanSaveKeeps ==
  ASSUME IInv, NEW j \in Job, ChangePlanSave(j)
  PROVE  Keeps
<1>q. PICK q \in JobRow : q = job[j]
  BY DEF IInv, TypeOK
<1>s. PICK s \in Sub : s = q.sub
  BY <1>q DEF IInv, JobsSound, Knows, HasSub, ChangePlanSave
<1>r. PICK row \in SubRow : row = q.rows[s]
  BY <1>q, <1>s, JobFields
<1>1. /\ Knows(q) /\ q.pc = "changePlan"
      /\ sub' = [sub EXCEPT ![s] = row]
      /\ job' = [job EXCEPT ![j] = IdleJob]
      /\ UNCHANGED <<today, company, gateway, word>>
  BY <1>q, <1>s, <1>r DEF IInv, JobsSound, ChangePlanSave, Done
<1>2. Stale(s, row) /\ row.status \in {"active", "expired", "suspended"}
  BY <1>1, <1>s, <1>r DEF Knows
<1>3. sub[s].status \in Begun /\ sub'[s] = row
  BY <1>1, <1>2 DEF Stale, IInv, TypeOK
<1>4. Grows /\ AddsSound /\ invoice' \in [Invoice -> InvoiceRow]
  <2>1. CASE UNCHANGED invoice
    BY <1>1, <2>1 DEF IInv, TypeOK, Grows, AddsSound
  <2>2. CASE \E i \in Invoice :
                /\ invoice[i].status = "none"
                /\ invoice' = [invoice EXCEPT ![i] = NewInvoice(s, 0)]
    <3>1. PICK i \in Invoice :
                /\ invoice[i].status = "none"
                /\ invoice' = [invoice EXCEPT ![i] = NewInvoice(s, 0)]
      BY <2>2
    <3>2. /\ invoice'[i].status = "pending" /\ invoice'[i].sub = s
          /\ invoice'[i].url = NoGateway /\ invoice'[i].txRef = NoGateway
      BY <3>1 DEF IInv, TypeOK, NewInvoice, BlankInvoice
    <3>3. \A k \in Invoice : k # i => invoice'[k] = invoice[k]
      BY <3>1 DEF IInv, TypeOK
    <3>4. Grows
      BY <1>1, <3>1, <3>2, <3>3 DEF Grows, IInv, TypeOK
    <3>5. AddsSound
      BY <1>1, <1>2, <1>3, <3>2, <3>3 DEF AddsSound, Begun
    <3>6. invoice' \in [Invoice -> InvoiceRow]
      BY <3>1, NewRowTypes DEF IInv, TypeOK
    <3> QED
      BY <3>4, <3>5, <3>6
  <2> QED
    BY <1>q, <1>s, <2>1, <2>2 DEF ChangePlanSave
<1>5. sub' \in [Sub -> SubRow] /\ Begins /\ TrialsLeft /\ WritesSound
  BY <1>1, <1>2, <1>4, CopySaved
<1>6. TypeOK'
  BY <1>1, <1>4, <1>5, IdleJobType DEF IInv, TypeOK
<1> QED
  BY <1>1, <1>4, <1>5, <1>6, IdleKnows, HandlerMoves DEF WellBehaved

\* Starting a renewal: the copy it keeps is the sound row itself.
LEMMA RenewStartKeeps ==
  ASSUME IInv, NEW j \in Job, NEW s \in Sub, NEW m \in Durations,
         NEW i \in Invoice, RenewStart(j, s, m, i)
  PROVE  Keeps
<1> DEFINE ren == [invoice |-> i, months |-> m, end |-> RenewalEnd(sub[s], m)]
           r == [IdleJob EXCEPT !.pc = "renew", !.sub = s, !.inv = i,
                                !.rows[s] = sub[s], !.renewal = ren]
<1>1. /\ sub[s] \in SubRow /\ Sound(s, sub[s])
      /\ sub[s].status \in {"active", "expired", "suspended"}
  BY DEF IInv, TypeOK, SubsSound, RenewStart, IsNewest
<1>2. Grows /\ AddsSound /\ invoice' \in [Invoice -> InvoiceRow]
  BY <1>1, NewInvoiceGrows, BillingAssumption DEF RenewStart
<1>3. ren \in Renewal
  <2>1. sub[s].end \in Nat /\ today \in Nat /\ m \in Nat
    BY <1>1, BillingAssumption DEF SubRow, IInv, TypeOK
  <2>2. RenewalEnd(sub[s], m) \in Nat
    BY <2>1, BillingAssumption DEF RenewalEnd, AddMonths, NoDay
  <2> QED
    BY <2>1, <2>2 DEF Renewal
<1>4. r \in JobRow
  <2>1. [IdleJob.rows EXCEPT ![s] = sub[s]] \in [Sub -> SubRow]
    BY <1>1, IdleJobType, JobFields
  <2> QED
    BY <1>3, <2>1, IdleJobType DEF JobRow, PC
<1>5. job' = [job EXCEPT ![j] = r]
      /\ UNCHANGED <<today, sub, company, gateway, word>>
      /\ invoice' = [invoice EXCEPT ![i] = NewInvoice(s, m)]
  BY DEF RenewStart
<1>6. TypeOK'
  BY <1>2, <1>4, <1>5 DEF IInv, TypeOK
<1>7. /\ r.pc = "renew" /\ r.sub = s /\ r.inv = i /\ r.rows[s] = sub[s]
      /\ r.due = {}
  BY IdleJobType, JobFields DEF IdleJob
<1>8. invoice'[i].status # "none"
  BY <1>5 DEF IInv, TypeOK, NewInvoice, BlankInvoice
<1>9. Stale(s, sub[s])'
  <2>1. Backed(s) => Backed(s)'
    BY <1>2, LedgerKept DEF IInv
  <2> QED
    BY <1>1, <1>5, <2>1 DEF Stale, Sound, Begun
<1> HIDE DEF r
<1>10. job'[j] = r
  BY <1>5 DEF IInv, TypeOK
<1>11. Knows(job[j])'
  BY <1>1, <1>5, <1>7, <1>8, <1>9, <1>10
     DEF Knows, HasInvoice, HasSettled, HasSub, Stale, Sound
<1> QED
  BY <1>2, <1>4, <1>5, <1>6, <1>7, <1>11, SubsLeft, HandlerKeeps
     DEF WellBehaved, InTrialJob

\* The gateway makes its invoice for the renewal's invoice.
LEMMA RenewGatewayKeeps ==
  ASSUME IInv, NEW j \in Job, NEW g \in Gateway, RenewGateway(j, g)
  PROVE  Keeps
<1>q. PICK q \in JobRow : q = job[j]
  BY DEF IInv, TypeOK
<1> DEFINE r == [q EXCEPT !.pc = "renewAnswer", !.gw = g]
<1>1. /\ q.pc = "renew" /\ Knows(q)
      /\ job' = [job EXCEPT ![j] = r]
      /\ gateway[g].status = "none"
      /\ gateway' = [gateway EXCEPT ![g] = NewGateway(q.inv, "transactionId")]
      /\ UNCHANGED <<today, sub, company, invoice, word>>
  BY <1>q DEF JobsSound, IInv, RenewGateway
<1>2. /\ q.inv \in Invoice /\ invoice[q.inv].status # "none"
      /\ q.sub \in Sub /\ Stale(q.sub, q.rows[q.sub])
      /\ q.rows[q.sub].status \in {"active", "expired", "suspended"}
      /\ \A p \in q.due : GatewayFor(p[2], p[1])
  BY <1>1 DEF Knows, HasInvoice, HasSub
<1>3. /\ r \in JobRow /\ r.pc = "renewAnswer" /\ r.gw = g
      /\ r.inv = q.inv /\ r.sub = q.sub /\ r.rows = q.rows /\ r.due = q.due
  BY <1>1 DEF JobRow, PC
<1>4. /\ gateway'[g].status = "PENDING" /\ gateway'[g].inv = q.inv
      /\ \A h \in Gateway : h # g => gateway'[h] = gateway[h]
      /\ gateway' \in [Gateway -> GatewayRow]
  <2>1. NewGateway(q.inv, "transactionId") \in GatewayRow
    BY <1>2, NewRowTypes DEF IInv
  <2> QED
    BY <1>1, <2>1 DEF IInv, TypeOK, NewGateway
<1>5. TypeOK'
  BY <1>1, <1>3, <1>4 DEF IInv, TypeOK
<1>6. Grows
  <2>1. today <= today'
    BY <1>1 DEF IInv, TypeOK
  <2> QED
    BY <1>1, <1>4, <2>1 DEF Grows
<1>7. AddsSound
  BY <1>1, <1>2, <1>4 DEF AddsSound
<1> HIDE DEF r
<1>8. job'[j] = r
  BY <1>1 DEF IInv, TypeOK
<1>9. \A p \in q.due : GatewayFor(p[2], p[1])'
  BY <1>1, <1>2, <1>6, LedgerKept, JobFields DEF IInv
<1>10. Backed(q.sub) => Backed(q.sub)'
  BY <1>2, <1>6, LedgerKept DEF IInv
<1>11. Knows(job[j])'
  BY <1>1, <1>2, <1>3, <1>4, <1>8, <1>9, <1>10
     DEF Knows, HasInvoice, HasSettled, HasSub, Stale, Sound, GatewayFor
<1> QED
  BY <1>1, <1>3, <1>5, <1>6, <1>7, <1>11, SubsLeft, HandlerKeeps
     DEF WellBehaved, InTrialJob

\* Saving the renewal's invoice: pending, with the URL made for it.
LEMMA RenewSaveInvoiceKeeps ==
  ASSUME IInv, NEW j \in Job, RenewSaveInvoice(j)
  PROVE  Keeps
<1>q. PICK q \in JobRow : q = job[j]
  BY DEF IInv, TypeOK
<1> DEFINE i == q.inv
           r == [q EXCEPT !.pc = "renewSave"]
           inv == [invoice[i] EXCEPT !.status = "pending", !.url = q.gw,
                                     !.txRef = NoGateway]
<1>1. /\ q.pc = "renewAnswer" /\ Knows(q)
      /\ job' = [job EXCEPT ![j] = r]
      /\ invoice' = [invoice EXCEPT ![i] = inv]
      /\ UNCHANGED <<today, sub, company, gateway, word>>
  BY <1>q DEF IInv, JobsSound, RenewSaveInvoice, Goto
<1>2. /\ i \in Invoice /\ invoice[i].status # "none"
      /\ q.gw \in Gateway /\ GatewayFor(q.gw, i)
  BY <1>1 DEF Knows, HasInvoice
<1>3. /\ r \in JobRow /\ r.pc = "renewSave" /\ r.inv = q.inv
      /\ r.sub = q.sub /\ r.rows = q.rows /\ r.due = q.due
  BY DEF JobRow, PC
<1>4. /\ inv \in InvoiceRow /\ inv.status = "pending" /\ inv.url = q.gw
      /\ inv.sub = invoice[i].sub /\ inv.txRef = NoGateway
  <2>1. invoice[i] \in InvoiceRow
    BY <1>2 DEF IInv, TypeOK
  <2> QED
    BY <1>2, <2>1 DEF InvoiceRow
<1>5. /\ invoice'[i] = inv
      /\ \A k \in Invoice : k # i => invoice'[k] = invoice[k]
  BY <1>1, <1>2 DEF IInv, TypeOK
<1> HIDE DEF i, r, inv
<1>6. Grows
  <2>1. today <= today'
    BY <1>1 DEF IInv, TypeOK
  <2> QED
    BY <1>1, <1>2, <1>4, <1>5, <2>1 DEF Grows
<1>7. AddsSound
  BY <1>1, <1>2, <1>4, <1>5 DEF AddsSound, GatewayFor
<1>8. Knows(r)
  BY <1>1, <1>3 DEF Knows, HasInvoice, HasSettled, HasSub
<1>9. TypeOK'
  BY <1>1, <1>2, <1>3, <1>4 DEF IInv, TypeOK
<1> QED
  BY <1>1, <1>3, <1>6, <1>7, <1>8, <1>9, SubsLeft, HandlerMoves
     DEF WellBehaved, InTrialJob

\* Saving the copy: however old, it is sound and past its first term.
LEMMA RenewSaveKeeps ==
  ASSUME IInv, NEW j \in Job, RenewSave(j)
  PROVE  Keeps
<1>q. PICK q \in JobRow : q = job[j]
  BY DEF IInv, TypeOK
<1> DEFINE row == [q.rows[q.sub] EXCEPT !.renewal = q.renewal]
<1>1. /\ q.pc = "renewSave" /\ Knows(q)
      /\ job' = [job EXCEPT ![j] = IdleJob]
      /\ sub' = [sub EXCEPT ![q.sub] = row]
      /\ UNCHANGED <<today, company, invoice, gateway, word>>
  BY <1>q DEF IInv, JobsSound, RenewSave, Done
<1>2. /\ q.sub \in Sub /\ Stale(q.sub, q.rows[q.sub])
      /\ q.rows[q.sub].status \in {"active", "expired", "suspended"}
      /\ q.rows[q.sub] \in SubRow /\ q.renewal \in Renewal
  BY <1>1, JobFields DEF Knows, HasSub
<1>3. /\ row \in SubRow /\ row.status = q.rows[q.sub].status
      /\ row.end = q.rows[q.sub].end /\ row.grace = q.rows[q.sub].grace
  BY <1>2 DEF SubRow
<1>4. sub'[q.sub] = row
  BY <1>1, <1>2 DEF IInv, TypeOK
<1> HIDE DEF row
<1>5. Grows /\ AddsSound
  BY <1>1 DEF IInv, TypeOK, Grows, AddsSound
<1>8. sub' \in [Sub -> SubRow] /\ Begins /\ TrialsLeft /\ WritesSound
  BY <1>1, <1>2, <1>3, <1>5, CopySaved
<1>9. TypeOK'
  BY <1>1, <1>8, IdleJobType DEF IInv, TypeOK
<1> QED
  BY <1>1, <1>5, <1>8, <1>9, IdleKnows, HandlerMoves DEF WellBehaved

----------------------------------------------------------------------------
(* The gateway and its webhooks *)

\* A gateway invoice that is decided no longer carries a date.
LEMMA GatewayMoved ==
  ASSUME NEW r \in GatewayRow, NEW st \in {"PAID", "EXPIRED"}
  PROVE  LET d == [r EXCEPT !.status = st, !.day = NoDay]
         IN d \in GatewayRow /\ d.status = st /\ d.inv = r.inv
  BY DEF GatewayRow, NoDay

\* A payment: the gateway's invoice stays the one for its invoice.
LEMMA GatewayPayKeeps ==
  ASSUME IInv, NEW g \in Gateway, GatewayPay(g)
  PROVE  Keeps
<1>1. /\ gateway'[g] = [gateway[g] EXCEPT !.status = "PAID", !.day = NoDay]
      /\ \A h \in Gateway : h # g => gateway'[h] = gateway[h]
      /\ gateway[g].status = "PENDING"
  BY DEF IInv, TypeOK, GatewayPay
<1>2. /\ gateway'[g] \in GatewayRow /\ gateway'[g].status = "PAID"
      /\ gateway'[g].inv = gateway[g].inv
  <2>1. gateway[g] \in GatewayRow
    BY DEF IInv, TypeOK
  <2> DEFINE d == [gateway[g] EXCEPT !.status = "PAID", !.day = NoDay]
  <2>2. d \in GatewayRow /\ d.status = "PAID" /\ d.inv = gateway[g].inv
    BY <2>1, GatewayMoved
  <2>3. gateway'[g] = d
    BY <1>1
  <2> QED
    BY <2>2, <2>3
<1>3. UNCHANGED <<today, sub, company, invoice, job, word>>
      /\ today <= today' /\ gateway' \in [Gateway -> GatewayRow]
  BY <1>1, <1>2 DEF IInv, TypeOK, GatewayPay
<1>4. Grows
  BY <1>1, <1>2, <1>3 DEF Grows
<1>5. AddsSound
  BY <1>1, <1>2, <1>3 DEF AddsSound
<1>6. TypeOK'
  BY <1>3 DEF IInv, TypeOK
<1> QED
  BY <1>3, <1>4, <1>5, <1>6, SubsLeft, RequestKeeps DEF WellBehaved

\* A notification notes the id it names: the gateway's for this invoice, or
\* the invoice counts as misreported.
LEMMA NotifiedGrows ==
  ASSUME IInv, NEW i \in Invoice, NEW g \in Gateway \cup {NoGateway},
         NEW status, Notified(i, g, status),
         UNCHANGED <<today, sub, company, gateway>>
  PROVE  /\ Grows /\ AddsSound
         /\ invoice' \in [Invoice -> InvoiceRow]
         /\ word' \in [extended: SUBSET Sub, verified: SUBSET Invoice,
                       misreported: SUBSET Invoice]
         /\ Genuine(i, g, status) \/ i \in word'.misreported
<1>1. /\ invoice[i].status # "none"
      /\ invoice'[i] = [invoice[i] EXCEPT !.txRef = g]
      /\ \A k \in Invoice : k # i => invoice'[k] = invoice[k]
  BY DEF IInv, TypeOK, Notified
<1>2. /\ invoice'[i] \in InvoiceRow /\ invoice'[i].txRef = g
      /\ invoice'[i].status = invoice[i].status
      /\ invoice'[i].sub = invoice[i].sub /\ invoice'[i].url = invoice[i].url
  BY <1>1 DEF IInv, TypeOK, InvoiceRow
<1>3. /\ word' \in [extended: SUBSET Sub, verified: SUBSET Invoice,
                     misreported: SUBSET Invoice]
      /\ word'.extended = word.extended /\ word'.verified = word.verified
      /\ word'.misreported \in {word.misreported, word.misreported \cup {i}}
      /\ Genuine(i, g, status) \/ i \in word'.misreported
  BY DEF IInv, TypeOK, Notified
<1>4. Genuine(i, g, status) => g \in Gateway /\ GatewayFor(g, i)'
  BY DEF Genuine, GatewayFor
<1>5. today <= today'
  BY DEF IInv, TypeOK
<1>6. Grows
  BY <1>1, <1>2, <1>3, <1>5 DEF Grows
<1>7. AddsSound
  BY <1>1, <1>2, <1>3, <1>4 DEF AddsSound, GatewayFor
<1>8. invoice' \in [Invoice -> InvoiceRow]
  BY <1>1, <1>2 DEF IInv, TypeOK, Notified
<1> QED
  BY <1>3, <1>6, <1>7, <1>8

\* A notification that is not about a payment notes the id and no more.
LEMMA WebhookOtherKeeps ==
  ASSUME IInv, NEW i \in Invoice, NEW g \in Gateway \cup {NoGateway},
         WebhookOther(i, g)
  PROVE  Keeps
<1>1. /\ Grows /\ AddsSound /\ invoice' \in [Invoice -> InvoiceRow]
      /\ word' \in [extended: SUBSET Sub, verified: SUBSET Invoice,
                    misreported: SUBSET Invoice]
  BY NotifiedGrows DEF WebhookOther
<1>2. TypeOK'
  BY <1>1 DEF IInv, TypeOK, WebhookOther
<1> QED
  BY <1>1, <1>2, SubsLeft, RequestKeeps DEF WellBehaved, WebhookOther

\* One of a payment starts a handler that knows the invoice is settled: by
\* the gateway's payment, or on the word of the notification.
LEMMA WebhookPaidKeeps ==
  ASSUME IInv, NEW j \in Job, NEW i \in Invoice,
         NEW g \in Gateway \cup {NoGateway}, WebhookPaid(j, i, g)
  PROVE  Keeps
<1>q. PICK q \in JobRow : q = job[j]
  BY DEF IInv, TypeOK
<1> DEFINE r == [q EXCEPT !.pc = "mark", !.inv = i]
<1>1. /\ Knows(q) /\ job' = [job EXCEPT ![j] = r]
      /\ UNCHANGED <<today, sub, company, gateway>>
  BY <1>q DEF IInv, JobsSound, WebhookPaid
<1>2. /\ Grows /\ AddsSound /\ invoice' \in [Invoice -> InvoiceRow]
      /\ word' \in [extended: SUBSET Sub, verified: SUBSET Invoice,
                    misreported: SUBSET Invoice]
      /\ Genuine(i, g, "PAID") \/ i \in word'.misreported
  BY <1>1, NotifiedGrows DEF WebhookPaid
<1>3. Settled(i)'
  BY <1>1, <1>2 DEF Genuine, Settled, Paid
<1>4. /\ r \in JobRow /\ r.pc = "mark" /\ r.inv = i /\ r.due = q.due
  BY DEF JobRow, PC
<1> HIDE DEF r
<1>5. TypeOK'
  BY <1>1, <1>2, <1>4 DEF IInv, TypeOK
<1>6. invoice'[i].status # "none"
  BY <1>2 DEF Grows, WebhookPaid, Notified
<1>7. \A p \in q.due : GatewayFor(p[2], p[1])'
  BY <1>1, <1>2, LedgerKept, JobFields DEF IInv, Knows
<1>8. job'[j] = r
  BY <1>1 DEF IInv, TypeOK
<1>9. Knows(job[j])'
  BY <1>3, <1>4, <1>6, <1>7, <1>8
     DEF Knows, HasInvoice, HasSettled, HasSub
<1> QED
  BY <1>1, <1>2, <1>4, <1>5, <1>9, SubsLeft, HandlerKeeps
     DEF WellBehaved, InTrialJob

\* check-payment starts a handler with the id the invoice holds.
LEMMA CheckPaymentKeeps ==
  ASSUME IInv, NEW j \in Job, NEW i \in Invoice, CheckPayment(j, i)
  PROVE  Keeps
<1> DEFINE r == [job[j] EXCEPT !.pc = "check", !.inv = i,
                               !.gw = invoice[i].txRef]
<1>1. job[j] \in JobRow /\ Knows(job[j])
  BY DEF IInv, TypeOK, JobsSound
<1>2. /\ invoice[i].status # "none"
      /\ invoice[i].txRef \in Gateway
      /\ GatewayFor(invoice[i].txRef, i) \/ i \in word.misreported
  BY DEF IInv, TypeOK, InvoiceRow, InvoicesSound, CheckPayment
<1>3. /\ r \in JobRow /\ r.pc = "check" /\ r.inv = i /\ r.due = job[j].due
      /\ r.gw = invoice[i].txRef
  BY <1>1, <1>2 DEF JobRow, PC
<1>4. job' = [job EXCEPT ![j] = r] /\ OnlyJobs
  BY DEF CheckPayment, OnlyJobs
<1> HIDE DEF r
<1>5. Knows(r)
  BY <1>1, <1>2, <1>3 DEF Knows, HasInvoice, HasSettled, HasSub
<1> QED
  BY <1>3, <1>4, <1>5, HandlerOnly DEF InTrialJob

\* Moving the program counter of a running handler.
LEMMA GotoFields ==
  ASSUME IInv, NEW j \in Job, NEW pc \in PC
  PROVE  LET r == [job[j] EXCEPT !.pc = pc]
         IN /\ r \in JobRow /\ r.pc = pc
            /\ r.inv = job[j].inv /\ r.gw = job[j].gw /\ r.sub = job[j].sub
            /\ r.list = job[j].list /\ r.due = job[j].due
            /\ r.rows = job[j].rows /\ r.renewal = job[j].renewal
  BY DEF IInv, TypeOK, JobRow

\* A handler that holds a settled invoice may move on with it.
LEMMA GotoSettled ==
  ASSUME IInv, NEW j \in Job, NEW pc \in {"mark", "activate", "company",
                    "renewedCompany", "paySub", "payCompany", "payLoop"},
         job[j].pc \in HasInvoice, Settled(job[j].inv)
  PROVE  LET r == [job[j] EXCEPT !.pc = pc]
         IN r \in JobRow /\ Knows(r) /\ r.pc \notin InTrialJob
<1> DEFINE r == [job[j] EXCEPT !.pc = pc]
<1>1. pc \in PC /\ Knows(job[j])
  BY DEF PC, IInv, JobsSound
<1>2. r \in JobRow /\ r.pc = pc /\ r.inv = job[j].inv /\ r.due = job[j].due
  BY <1>1, GotoFields
<1> HIDE DEF r
<1>3. Knows(r) /\ r.pc \notin InTrialJob
  BY <1>1, <1>2 DEF Knows, HasInvoice, HasSettled, HasSub, InTrialJob
<1> QED
  BY <1>2, <1>3 DEF r

\* It goes on only when the gateway says PAID, of the invoice's own bill or
\* of whatever a notification named.
LEMMA CheckResultKeeps ==
  ASSUME IInv, NEW j \in Job, CheckResult(j)
  PROVE  Keeps
<1>1. OnlyJobs /\ job[j].pc = "check" /\ Knows(job[j])
  BY DEF CheckResult, OnlyJobs, IInv, JobsSound
<1>2. CASE gateway[job[j].gw].status = "PAID" /\ Goto(j, "mark")
  <2>1. Settled(job[j].inv)
    BY <1>1, <1>2 DEF Knows, GatewayFor, Settled, Paid
  <2> QED
    BY <1>1, <1>2, <2>1, GotoSettled, HandlerOnly DEF Goto, HasInvoice
<1>3. CASE Done(j)
  BY <1>1, <1>3, DoneKeeps
<1> QED
  BY <1>2, <1>3 DEF CheckResult

\* The administrator's word settles the invoice it marks paid.
LEMMA AdminVerifyKeeps ==
  ASSUME IInv, NEW j \in Job, NEW i \in Invoice, AdminVerify(j, i)
  PROVE  Keeps
<1>q. PICK q \in JobRow : q = job[j]
  BY DEF IInv, TypeOK
<1> DEFINE r == [q EXCEPT !.pc = "mark", !.inv = i]
<1>1. /\ Knows(q) /\ job' = [job EXCEPT ![j] = r]
      /\ invoice[i].status # "none"
      /\ UNCHANGED <<today, sub, company, gateway>>
  BY <1>q DEF IInv, JobsSound, AdminVerify
<1>2. /\ r \in JobRow /\ r.pc = "mark" /\ r.inv = i /\ r.due = q.due
  BY DEF JobRow, PC
<1> HIDE DEF r
<1>3. CASE invoice[i].status = "paid" /\ UNCHANGED <<invoice, word>>
  <2>1. Settled(i)
    BY <1>3 DEF IInv, InvoiceBacked
  <2>2. Knows(r)
    BY <1>1, <1>2, <2>1 DEF Knows, HasInvoice, HasSettled, HasSub
  <2> QED
    BY <1>1, <1>2, <1>3, <2>2, HandlerOnly DEF OnlyJobs, InTrialJob
<1>4. CASE /\ invoice' = [invoice EXCEPT ![i].status = "paid"]
           /\ word' = [word EXCEPT !.verified = @ \cup {i}]
  <2>1. /\ invoice'[i] = [invoice[i] EXCEPT !.status = "paid"]
        /\ \A k \in Invoice : k # i => invoice'[k] = invoice[k]
    BY <1>4 DEF IInv, TypeOK
  <2>2. invoice[i] \in InvoiceRow
    BY DEF IInv, TypeOK
  <2>3. /\ invoice'[i].status = "paid" /\ invoice'[i].sub = invoice[i].sub
        /\ invoice'[i].url = invoice[i].url
        /\ invoice'[i].txRef = invoice[i].txRef
        /\ invoice'[i] \in InvoiceRow
    BY <2>1, <2>2 DEF InvoiceRow
  <2>4. /\ word'.extended = word.extended
        /\ word'.verified = word.verified \cup {i}
        /\ word'.misreported = word.misreported
        /\ word' \in [extended: SUBSET Sub, verified: SUBSET Invoice,
                      misreported: SUBSET Invoice]
    BY <1>4 DEF IInv, TypeOK
  <2>5. Settled(i)'
    BY <2>4 DEF Settled
  <2>6. Grows
    <3>1. today <= today'
      BY <1>1 DEF IInv, TypeOK
    <3> QED
      BY <1>1, <2>1, <2>3, <2>4, <3>1 DEF Grows
  <2>7. AddsSound
    BY <1>1, <2>1, <2>3, <2>4, <2>5 DEF AddsSound
  <2>8. TypeOK'
    BY <1>1, <1>2, <1>4, <2>1, <2>3, <2>4 DEF IInv, TypeOK
  <2>9. Knows(job[j])'
    <3>1. \A p \in q.due : GatewayFor(p[2], p[1])'
      BY <1>1, <2>6, LedgerKept, JobFields DEF IInv, Knows
    <3>2. job'[j] = r
      BY <1>1 DEF IInv, TypeOK
    <3> QED
      BY <1>2, <2>3, <2>5, <3>1, <3>2
         DEF Knows, HasInvoice, HasSettled, HasSub
  <2> QED
    BY <1>1, <1>2, <2>6, <2>7, <2>8, <2>9, SubsLeft, HandlerKeeps
       DEF WellBehaved, InTrialJob
<1> QED
  BY <1>3, <1>4 DEF AdminVerify

----------------------------------------------------------------------------
(* Activation *)

\* Marking an invoice paid: the handler knows that it is settled.
LEMMA MarkPaidKeeps ==
  ASSUME IInv, NEW j \in Job, MarkPaid(j)
  PROVE  Keeps
<1>1. /\ job[j].pc = "mark" /\ job[j].inv \in Invoice
      /\ invoice[job[j].inv].status # "none" /\ Settled(job[j].inv)
  BY DEF IInv, JobsSound, Knows, HasInvoice, HasSettled, MarkPaid
<1>2. \A i \in Invoice : Settled(i) /\ UNCHANGED <<gateway, word>>
                            => Settled(i)'
  BY DEF Settled, Paid
<1>i. PICK i \in Invoice : i = job[j].inv
  BY <1>1
<1>3. Grows /\ AddsSound /\ invoice' \in [Invoice -> InvoiceRow]
  BY <1>1, <1>2, <1>i, InvoiceMoved DEF MarkPaid
<1> DEFINE r == [job[j] EXCEPT !.pc = "activate"]
<1>4. r \in JobRow /\ Knows(r) /\ r.pc \notin InTrialJob
  BY <1>1, GotoSettled DEF HasInvoice
<1>5. job' = [job EXCEPT ![j] = r]
      /\ UNCHANGED <<today, sub, company, gateway, word>>
  BY DEF MarkPaid, Goto
<1> HIDE DEF r
<1>6. TypeOK'
  BY <1>3, <1>4, <1>5 DEF IInv, TypeOK
<1> QED
  BY <1>3, <1>4, <1>5, <1>6, SubsLeft, HandlerMoves DEF WellBehaved

\* Giving s a term because of its settled invoice i, in handler j.
LEMMA TermGiven ==
  ASSUME IInv, NEW j \in Job, NEW i \in Invoice, NEW s \in Sub,
         NEW row \in SubRow, row.status = "active",
         NEW pc \in {"company", "renewedCompany", "payCompany"},
         job[j].pc \in HasSettled, job[j].inv = i, invoice[i].sub = s,
         sub' = [sub EXCEPT ![s] = row], Goto(j, pc),
         UNCHANGED <<today, company, invoice, gateway, word>>
  PROVE  Keeps
<1> DEFINE r == [job[j] EXCEPT !.pc = pc]
<1>1. Settled(i) /\ invoice[i].status # "none"
  BY DEF IInv, JobsSound, Knows, HasSettled, HasInvoice
<1>2. job[j].pc \in HasInvoice
  BY DEF HasSettled, HasInvoice
<1>3. r \in JobRow /\ Knows(r) /\ r.pc \notin InTrialJob
  BY <1>1, <1>2, GotoSettled
<1>4. job' = [job EXCEPT ![j] = r]
  BY DEF Goto
<1> HIDE DEF r
<1>5. Grows /\ AddsSound
  BY DEF IInv, TypeOK, Grows, AddsSound
<1>6. sub[s].status # "trial"
  BY <1>1 DEF IInv, InvoicesSound
<1>7. Backed(s)'
  BY <1>1 DEF Backed, Settled, Paid
<1>8. sub'[s] = row
  BY DEF IInv, TypeOK
<1>9. Sound(s, sub[s])'
  BY <1>7, <1>8 DEF Sound
<1>10. sub' \in [Sub -> SubRow] /\ Begins /\ TrialsLeft /\ WritesSound
  BY <1>6, <1>9, RowWritten DEF Begun
<1>11. TypeOK'
  BY <1>3, <1>4, <1>10 DEF IInv, TypeOK
<1> QED
  BY <1>3, <1>4, <1>5, <1>10, <1>11, HandlerMoves DEF WellBehaved

\* Activating the subscription of a settled invoice.
LEMMA ActivateSubKeeps ==
  ASSUME IInv, NEW j \in Job, ActivateSub(j)
  PROVE  Keeps
<1>1. /\ job[j].pc = "activate" /\ job[j].inv \in Invoice
      /\ invoice[job[j].inv].sub \in Sub
  BY DEF IInv, JobsSound, Knows, HasInvoice, InvoicesSound, ActivateSub
<1>i. PICK i \in Invoice, s \in Sub : i = job[j].inv /\ s = invoice[i].sub
  BY <1>1
<1>2. sub[s] \in SubRow /\ sub[s].renewal \in Renewal
  BY DEF IInv, TypeOK, SubRow
<1>3. BoughtMonths(s, i) \in Nat /\ AddMonths(today, BoughtMonths(s, i)) \in Nat
  <2>1. BoughtMonths(s, i) \in Nat
    BY <1>2 DEF BoughtMonths, SubRow, InvoiceRow, IInv, TypeOK
  <2> QED
    BY <2>1, BillingAssumption DEF AddMonths, IInv, TypeOK
<1> DEFINE r == sub[s].renewal
           renewed == [sub[s] EXCEPT !.status = "active", !.end = r.end,
                         !.months = r.months, !.grace = NoDay,
                         !.renewal = NoRenewal]
           started == [sub[s] EXCEPT !.status = "active",
                         !.end = AddMonths(today, BoughtMonths(s, i)),
                         !.months = BoughtMonths(s, i)]
<1>4. renewed \in SubRow /\ renewed.status = "active"
  <2>1. r.end \in Nat /\ r.months \in Nat /\ NoRenewal \in Renewal
    BY <1>2 DEF Renewal, NoRenewal, NoDay
  <2> QED
    BY <1>2, <2>1 DEF SubRow, SubStatus, NoDay
<1>5. started \in SubRow /\ started.status = "active"
  BY <1>2, <1>3 DEF SubRow, SubStatus
<1>6. UNCHANGED <<today, company, invoice, gateway, word>>
  BY DEF ActivateSub
<1>7. \/ sub' = [sub EXCEPT ![s] = renewed] /\ Goto(j, "renewedCompany")
      \/ sub' = [sub EXCEPT ![s] = started] /\ Goto(j, "company")
  BY <1>i DEF ActivateSub
<1> HIDE DEF renewed, started
<1> QED
  BY <1>1, <1>i, <1>4, <1>5, <1>6, <1>7, TermGiven DEF HasSettled

\* A step that sets a company row to given values.
LEMMA CompanyType ==
  ASSUME TypeOK, NEW c \in Company, NEW row \in CompanyRow,
         company' = [company EXCEPT ![c] = row]
  PROVE  company' \in [Company -> CompanyRow]
  BY DEF TypeOK

\* Steps that write only companies and handlers are well-behaved.
LEMMA CompanyGrows ==
  ASSUME IInv, UNCHANGED <<today, sub, invoice, gateway, word>>
  PROVE  Grows /\ Begins /\ AddsSound /\ WritesSound /\ TrialsLeft
<1>1. Begins /\ TrialsLeft /\ WritesSound
  BY SubsLeft
<1>2. Grows /\ AddsSound
  BY DEF IInv, TypeOK, Grows, AddsSound
<1> QED
  BY <1>1, <1>2

\* Activating its company, which touches no subscription.
LEMMA ActivateCompanyKeeps ==
  ASSUME IInv, NEW j \in Job, ActivateCompany(j)
  PROVE  Keeps
<1>1. /\ job[j].inv \in Invoice /\ invoice[job[j].inv].sub \in Sub
  BY DEF IInv, JobsSound, Knows, HasInvoice, InvoicesSound, ActivateCompany
<1>c. PICK c \in Company : c = Owner[invoice[job[j].inv].sub]
  BY <1>1, BillingAssumption
<1>2. [status |-> "active", subStatus |-> "active"] \in CompanyRow
  BY DEF CompanyRow, SubStatus
<1>3. company' \in [Company -> CompanyRow]
  BY <1>c, <1>2, CompanyType, SubStatusType
     DEF ActivateCompany, IInv, SubStatus
<1>4. /\ UNCHANGED <<today, sub, invoice, gateway, word>>
      /\ job' = [job EXCEPT ![j] = IdleJob]
  BY DEF ActivateCompany, Done
<1>5. TypeOK'
  BY <1>3, <1>4, IdleJobType DEF IInv, TypeOK
<1> QED
  BY <1>4, <1>5, CompanyGrows, IdleKnows, HandlerMoves DEF WellBehaved

----------------------------------------------------------------------------
(* The payment job *)

\* The payment job lists invoices with the gateway invoices for them.
LEMMA PaymentCheckStartKeeps ==
  ASSUME IInv, NEW j \in Job, PaymentCheckStart(j)
  PROVE  Keeps
<1>1. PICK due \in SUBSET DuePayments :
         job' = [job EXCEPT ![j].pc = "payLoop", ![j].due = due]
  BY DEF PaymentCheckStart
<1> DEFINE r == [job[j] EXCEPT !.pc = "payLoop", !.due = due]
<1>2. due \in SUBSET (Invoice \X Gateway)
  BY DEF DuePayments
<1>3. job[j] \in JobRow
  BY DEF IInv, TypeOK
<1>4. r \in JobRow /\ r.pc = "payLoop" /\ r.due = due
  BY <1>2, <1>3 DEF JobRow, PC
<1>5. \A p \in due : GatewayFor(p[2], p[1])
  BY BillingAssumption DEF DuePayments, IInv, InvoicesSound
<1> HIDE DEF r
<1>6. Knows(r)
  BY <1>4, <1>5 DEF Knows, HasInvoice, HasSettled, HasSub
<1>7. OnlyJobs
  BY DEF PaymentCheckStart, OnlyJobs
<1>8. job' = [job EXCEPT ![j] = r]
  BY <1>1 DEF r
<1> QED
  BY <1>4, <1>6, <1>7, <1>8, HandlerOnly DEF InTrialJob

\* Taking one payment off the list.
LEMMA DueLess ==
  ASSUME IInv, NEW j \in Job, job[j].pc = "payLoop",
         NEW i \in Invoice, NEW g \in Gateway, <<i, g>> \in job[j].due
  PROVE  LET r == [job[j] EXCEPT !.due = @ \ {<<i, g>>}]
             f == [job[j] EXCEPT !.pc = "paySub", !.inv = i,
                                 !.due = @ \ {<<i, g>>}]
         IN /\ GatewayFor(g, i) /\ invoice[i].status # "none"
            /\ r \in JobRow /\ Knows(r) /\ r.pc \notin InTrialJob
            /\ Settled(i) =>
                  f \in JobRow /\ Knows(f) /\ f.pc \notin InTrialJob
<1> DEFINE q == job[j]
           r == [q EXCEPT !.due = @ \ {<<i, g>>}]
           f == [q EXCEPT !.pc = "paySub", !.inv = i, !.due = @ \ {<<i, g>>}]
<1>1. q \in JobRow /\ Knows(q)
  BY DEF IInv, TypeOK, JobsSound
<1>2. GatewayFor(g, i)
  BY <1>1 DEF Knows
<1>3. invoice[i].status # "none"
  BY <1>2 DEF GatewayFor, IInv, InvoicesSound
<1>4. /\ r \in JobRow /\ r.pc = "payLoop" /\ r.due \subseteq q.due
      /\ f \in JobRow /\ f.pc = "paySub" /\ f.due \subseteq q.due
      /\ f.inv = i
  BY <1>1 DEF JobRow, PC
<1> HIDE DEF q, r, f
<1>5. Knows(r)
  BY <1>1, <1>4 DEF Knows, HasInvoice, HasSettled, HasSub
<1>6. Settled(i) => Knows(f)
  BY <1>1, <1>3, <1>4 DEF Knows, HasInvoice, HasSettled, HasSub
<1> QED
  BY <1>2, <1>3, <1>4, <1>5, <1>6 DEF q, r, f, InTrialJob

\* It marks an invoice paid whose own gateway invoice is.
LEMMA PaymentFoundKeeps ==
  ASSUME IInv, NEW j \in Job, NEW i \in Invoice, NEW g \in Gateway,
         PaymentFound(j, i, g)
  PROVE  Keeps
<1> DEFINE r == [job[j] EXCEPT !.pc = "paySub", !.inv = i,
                               !.due = @ \ {<<i, g>>}]
<1>1. Settled(i) /\ Settled(i)' /\ invoice[i].status # "none"
  BY DueLess DEF PaymentFound, GatewayFor, Settled, Paid
<1>2. r \in JobRow /\ Knows(r) /\ r.pc \notin InTrialJob
  BY <1>1, DueLess DEF PaymentFound
<1>3. Grows /\ AddsSound /\ invoice' \in [Invoice -> InvoiceRow]
  BY <1>1, InvoiceMoved DEF PaymentFound
<1>4. job' = [job EXCEPT ![j] = r]
      /\ UNCHANGED <<today, sub, company, gateway, word>>
  BY DEF PaymentFound
<1> HIDE DEF r
<1>5. TypeOK'
  BY <1>2, <1>3, <1>4 DEF IInv, TypeOK
<1> QED
  BY <1>2, <1>3, <1>4, <1>5, SubsLeft, HandlerMoves DEF WellBehaved

\* It marks an invoice failed, which claims no payment.
LEMMA PaymentExpiredKeeps ==
  ASSUME IInv, NEW j \in Job, NEW i \in Invoice, NEW g \in Gateway,
         PaymentExpired(j, i, g)
  PROVE  Keeps
<1> DEFINE r == [job[j] EXCEPT !.due = @ \ {<<i, g>>}]
<1>1. r \in JobRow /\ Knows(r) /\ r.pc \notin InTrialJob
      /\ invoice[i].status # "none"
  BY DueLess DEF PaymentExpired
<1>2. Grows /\ AddsSound /\ invoice' \in [Invoice -> InvoiceRow]
  BY <1>1, InvoiceMoved DEF PaymentExpired
<1>3. job' = [job EXCEPT ![j] = r]
      /\ UNCHANGED <<today, sub, company, gateway, word>>
  BY DEF PaymentExpired
<1> HIDE DEF r
<1>4. TypeOK'
  BY <1>1, <1>2, <1>3 DEF IInv, TypeOK
<1> QED
  BY <1>1, <1>2, <1>3, <1>4, SubsLeft, HandlerMoves DEF WellBehaved

\* It skips an invoice.
LEMMA PaymentUnknownKeeps ==
  ASSUME IInv, NEW j \in Job, NEW i \in Invoice, NEW g \in Gateway,
         PaymentUnknown(j, i, g)
  PROVE  Keeps
  BY DueLess, HandlerOnly DEF PaymentUnknown, OnlyJobs

\* It activates the subscription of the invoice it marked.
LEMMA PaymentCheckSubKeeps ==
  ASSUME IInv, NEW j \in Job, PaymentCheckSub(j)
  PROVE  Keeps
<1>1. /\ job[j].pc = "paySub" /\ job[j].inv \in Invoice
      /\ invoice[job[j].inv].sub \in Sub
  BY DEF IInv, JobsSound, Knows, HasInvoice, InvoicesSound, PaymentCheckSub
<1>i. PICK i \in Invoice, s \in Sub : i = job[j].inv /\ s = invoice[i].sub
  BY <1>1
<1> DEFINE m == IF sub[s].months # 0 THEN sub[s].months ELSE 1
           row == [sub[s] EXCEPT !.status = "active",
                                 !.end = AddMonths(today, m)]
<1>2. sub[s] \in SubRow
  BY DEF IInv, TypeOK
<1>3. m \in Nat
  BY <1>2 DEF SubRow
<1>4. AddMonths(today, m) \in Nat
  BY <1>3, BillingAssumption DEF AddMonths, IInv, TypeOK
<1>5. /\ sub' = [sub EXCEPT ![s] = row] /\ Goto(j, "payCompany")
      /\ UNCHANGED <<today, company, invoice, gateway, word>>
  BY <1>i DEF PaymentCheckSub
<1> HIDE DEF m
<1>6. row \in SubRow /\ row.status = "active"
  BY <1>2, <1>4 DEF SubRow, SubStatus
<1> HIDE DEF row
<1> QED
  BY <1>1, <1>i, <1>5, <1>6, TermGiven DEF HasSettled

\* ... and its company.
LEMMA PaymentCheckCompanyKeeps ==
  ASSUME IInv, NEW j \in Job, PaymentCheckCompany(j)
  PROVE  Keeps
<1>1. /\ job[j].inv \in Invoice /\ invoice[job[j].inv].sub \in Sub
      /\ job[j].pc \in HasInvoice /\ Settled(job[j].inv)
  BY DEF IInv, JobsSound, Knows, HasInvoice, HasSettled, InvoicesSound,
         PaymentCheckCompany
<1>c. PICK c \in Company : c = Owner[invoice[job[j].inv].sub]
  BY <1>1, BillingAssumption
<1>2. [status |-> "active", subStatus |-> "active"] \in CompanyRow
  BY DEF CompanyRow, SubStatus
<1>3. company' \in [Company -> CompanyRow]
  BY <1>c, <1>2, CompanyType DEF PaymentCheckCompany, IInv
<1> DEFINE r == [job[j] EXCEPT !.pc = "payLoop"]
<1>4. r \in JobRow /\ Knows(r) /\ r.pc \notin InTrialJob
  BY <1>1, GotoSettled
<1>5. /\ UNCHANGED <<today, sub, invoice, gateway, word>>
      /\ job' = [job EXCEPT ![j] = r]
  BY DEF PaymentCheckCompany, Goto
<1> HIDE DEF r
<1>6. TypeOK'
  BY <1>3, <1>4, <1>5 DEF IInv, TypeOK
<1> QED
  BY <1>4, <1>5, <1>6, CompanyGrows, HandlerMoves DEF WellBehaved

----------------------------------------------------------------------------
(* Handlers that end *)

\* A handler that ends, finished or failed, preserves the invariant.
LEMMA EndKeeps ==
  ASSUME IInv, NEW j \in Job,
         RenewRejected(j) \/ PaymentCheckEnd(j) \/ ExpiryEnd(j)
           \/ TrialCheckEnd(j) \/ Fail(j)
  PROVE  Keeps
  BY DoneKeeps DEF RenewRejected, PaymentCheckEnd, ExpiryEnd, TrialCheckEnd,
                   Fail, OnlyJobs

----------------------------------------------------------------------------
(* The expiry job *)

\* The copies a loop makes of the rows it lists.
LEMMA ListedRows ==
  ASSUME TypeOK, NEW list \in SUBSET Sub
  PROVE  /\ RowsOf(list) \in [Sub -> SubRow]
         /\ \A s \in list : RowsOf(list)[s] = sub[s]
<1>1. BlankSub \in SubRow
  BY DEF SubRow, BlankSub, SubStatus, Renewal, NoRenewal, NoDay
<1> QED
  BY <1>1 DEF TypeOK, RowsOf

\* Starting the first loop preserves the invariant.
LEMMA ExpiryStartKeeps ==
  ASSUME IInv, NEW j \in Job, ExpiryStart(j)
  PROVE  Keeps
<1>q. PICK q \in JobRow : q = job[j]
  BY DEF IInv, TypeOK
<1> DEFINE r == [q EXCEPT !.pc = "expireLoop", !.list = Overdue,
                          !.rows = RowsOf(Overdue)]
<1>1. Knows(q) /\ job' = [job EXCEPT ![j] = r] /\ OnlyJobs
  BY <1>q DEF IInv, JobsSound, ExpiryStart, OnlyJobs
<1>2. Overdue \in SUBSET Sub
  BY DEF Overdue
<1>3. RowsOf(Overdue) \in [Sub -> SubRow]
      /\ \A s \in Overdue : RowsOf(Overdue)[s] = sub[s]
  BY <1>2, ListedRows DEF IInv
<1>4. /\ r \in JobRow /\ r.pc = "expireLoop" /\ r.due = q.due
      /\ r.list = Overdue /\ r.rows = RowsOf(Overdue)
  BY <1>2, <1>3 DEF JobRow, PC
<1>5. \A s \in Overdue :
         Stale(s, sub[s]) /\ sub[s].status = "active" /\ sub[s].end < today
  BY DEF Overdue, Stale, Begun, IInv, SubsSound
<1> HIDE DEF r
<1>6. Knows(r)
  BY <1>1, <1>3, <1>4, <1>5 DEF Knows, HasInvoice, HasSettled, HasSub
<1> QED
  BY <1>1, <1>4, <1>6, HandlerOnly DEF InTrialJob

\* So does starting the second.
LEMMA SuspensionStartKeeps ==
  ASSUME IInv, NEW j \in Job, SuspensionStart(j)
  PROVE  Keeps
<1>q. PICK q \in JobRow : q = job[j]
  BY DEF IInv, TypeOK
<1> DEFINE r == [q EXCEPT !.pc = "suspendLoop", !.list = GraceOver,
                          !.rows = RowsOf(GraceOver)]
<1>1. Knows(q) /\ job' = [job EXCEPT ![j] = r] /\ OnlyJobs
  BY <1>q DEF IInv, JobsSound, SuspensionStart, OnlyJobs
<1>2. GraceOver \in SUBSET Sub
  BY DEF GraceOver
<1>3. RowsOf(GraceOver) \in [Sub -> SubRow]
      /\ \A s \in GraceOver : RowsOf(GraceOver)[s] = sub[s]
  BY <1>2, ListedRows DEF IInv
<1>4. /\ r \in JobRow /\ r.pc = "suspendLoop" /\ r.due = q.due
      /\ r.list = GraceOver /\ r.rows = RowsOf(GraceOver)
  BY <1>2, <1>3 DEF JobRow, PC
<1>5. \A s \in GraceOver :
        /\ Stale(s, sub[s]) /\ sub[s].status = "expired"
        /\ sub[s].grace # NoDay /\ sub[s].grace < today
  BY DEF GraceOver, Stale, Begun, IInv, SubsSound
<1> HIDE DEF r
<1>6. Knows(r)
  BY <1>1, <1>3, <1>4, <1>5 DEF Knows, HasInvoice, HasSettled, HasSub
<1> QED
  BY <1>1, <1>4, <1>6, HandlerOnly DEF InTrialJob

\* Saving the row s of a loop and moving on to its company.
LEMMA RowSaved ==
  ASSUME IInv, NEW j \in Job, NEW s \in Sub, NEW row \in SubRow,
         NEW pc \in {"expireCompany", "suspendCompany"},
         row.status \in {"expired", "suspended"},
         sub' = [sub EXCEPT ![s] = row],
         sub[s].status \in Begun, Sound(s, row),
         NEW q \in JobRow, q = job[j],
         NEW r \in JobRow, r = [q EXCEPT !.pc = pc, !.sub = s], Knows(r),
         job' = [job EXCEPT ![j] = r],
         UNCHANGED <<today, company, invoice, gateway, word>>
  PROVE  Keeps
<1>1. Grows /\ AddsSound
  BY DEF IInv, TypeOK, Grows, AddsSound
<1>2. Backed(s) => Backed(s)'
  BY <1>1, LedgerKept DEF IInv
<1>3. sub'[s] = row
  BY DEF IInv, TypeOK
<1>4. Sound(s, sub[s])'
  BY <1>2, <1>3 DEF Sound
<1>5. sub' \in [Sub -> SubRow] /\ Begins /\ TrialsLeft /\ WritesSound
  BY <1>4, RowWritten DEF Begun
<1>6. TypeOK'
  BY <1>5 DEF IInv, TypeOK
<1>7. r.pc = pc
  BY DEF JobRow
<1> QED
  BY <1>1, <1>5, <1>6, <1>7, HandlerMoves DEF WellBehaved, InTrialJob

\* Saving an expired row, as it was read, preserves the invariant: the copy
\* was active, hence backed, and its grace period starts at its own end.
LEMMA ExpireRowKeeps ==
  ASSUME IInv, NEW j \in Job, NEW s \in Sub, ExpireRow(j, s)
  PROVE  Keeps
<1>q. PICK q \in JobRow : q = job[j]
  BY DEF IInv, TypeOK
<1> DEFINE g == q.rows[s].end + GraceDays
           row == [q.rows[s] EXCEPT !.status = "expired", !.grace = g]
           r == [q EXCEPT !.pc = "expireCompany", !.sub = s]
<1>1. /\ Knows(q) /\ q.pc = "expireLoop" /\ s \in q.list
      /\ sub' = [sub EXCEPT ![s] = row]
      /\ job' = [job EXCEPT ![j] = r]
      /\ UNCHANGED <<today, company, invoice, gateway, word>>
  BY <1>q DEF IInv, JobsSound, ExpireRow
<1>2. Stale(s, q.rows[s]) /\ q.rows[s].status = "active"
  BY <1>1 DEF Knows
<1>3. q.rows[s] \in SubRow /\ q.rows[s].end \in Nat
  BY JobFields DEF SubRow
<1>4. g \in Nat
  BY <1>3, BillingAssumption
<1>5. /\ row \in SubRow /\ row.status = "expired" /\ row.grace = g
      /\ row.end = q.rows[s].end
  BY <1>3, <1>4 DEF SubRow, SubStatus
<1>6. row.end + GraceDays <= row.grace
  BY <1>3, <1>4, <1>5, BillingAssumption
<1>7. r \in JobRow /\ r.pc = "expireCompany" /\ r.sub = s
      /\ r.list = q.list /\ r.rows = q.rows /\ r.due = q.due
  BY DEF JobRow, PC
<1> HIDE DEF row
<1>8. Sound(s, row)
  BY <1>2, <1>5, <1>6 DEF Sound, Stale
<1>9. Knows(r)
  <2> HIDE DEF r
  <2> QED
    BY <1>1, <1>7 DEF Knows, HasInvoice, HasSettled, HasSub
<1> QED
  BY <1>q, <1>1, <1>2, <1>5, <1>7, <1>8, <1>9, RowSaved DEF Stale

\* Saving a suspended row, as it was read, preserves the invariant: the
\* copy's grace period, which covers its end, was over when it was read.
LEMMA SuspendRowKeeps ==
  ASSUME IInv, NEW j \in Job, NEW s \in Sub, SuspendRow(j, s)
  PROVE  Keeps
<1>q. PICK q \in JobRow : q = job[j]
  BY DEF IInv, TypeOK
<1> DEFINE row == [q.rows[s] EXCEPT !.status = "suspended"]
           r == [q EXCEPT !.pc = "suspendCompany", !.sub = s]
<1>1. /\ Knows(q) /\ q.pc = "suspendLoop" /\ s \in q.list
      /\ sub' = [sub EXCEPT ![s] = row]
      /\ job' = [job EXCEPT ![j] = r]
      /\ UNCHANGED <<today, company, invoice, gateway, word>>
  BY <1>q DEF IInv, JobsSound, SuspendRow
<1>2. /\ Stale(s, q.rows[s]) /\ q.rows[s].status = "expired"
      /\ q.rows[s].grace # NoDay /\ q.rows[s].grace < today
  BY <1>1 DEF Knows
<1>3. q.rows[s] \in SubRow /\ q.rows[s].end \in Nat /\ q.rows[s].grace \in Nat
  BY JobFields DEF SubRow
<1>4. Backed(s) /\ q.rows[s].end + GraceDays <= q.rows[s].grace
  BY <1>2 DEF Stale, Sound
<1>5. q.rows[s].end + GraceDays < today
  BY <1>2, <1>3, <1>4, BillingAssumption DEF IInv, TypeOK
<1>6. /\ row \in SubRow /\ row.status = "suspended"
      /\ row.end = q.rows[s].end
  BY <1>3 DEF SubRow, SubStatus
<1>7. r \in JobRow /\ r.pc = "suspendCompany" /\ r.sub = s
      /\ r.list = q.list /\ r.rows = q.rows /\ r.due = q.due
  BY DEF JobRow, PC
<1> HIDE DEF row
<1>8. Sound(s, row)
  BY <1>4, <1>5, <1>6 DEF Sound
<1>9. Knows(r)
  <2> HIDE DEF r
  <2> QED
    BY <1>1, <1>7 DEF Knows, HasInvoice, HasSettled, HasSub
<1> QED
  BY <1>q, <1>1, <1>2, <1>6, <1>7, <1>8, <1>9, RowSaved DEF Stale

\* Handler q after NextInLoop.
Onward(q, pc) == [q EXCEPT !.pc = pc, !.sub = NoSub,
                           !.list = @ \ {q.sub}, !.rows[q.sub] = BlankSub]

\* A loop that goes on to its next row.
LEMMA LoopGoesOn ==
  ASSUME NEW q \in JobRow, q.sub \in Sub, NEW pc \in PC
  PROVE  /\ Onward(q, pc) \in JobRow
         /\ Onward(q, pc).pc = pc
         /\ Onward(q, pc).due = q.due
         /\ Onward(q, pc).list = q.list \ {q.sub}
         /\ \A s \in Onward(q, pc).list : Onward(q, pc).rows[s] = q.rows[s]
<1>1. BlankSub \in SubRow
  BY DEF SubRow, BlankSub, SubStatus, Renewal, NoRenewal, NoDay
<1>2. q.rows \in [Sub -> SubRow]
  BY JobFields
<1>3. [q.rows EXCEPT ![q.sub] = BlankSub] \in [Sub -> SubRow]
  BY <1>1, <1>2
<1>4. \A s \in q.list : s \in Sub
  BY JobFields
<1>5. \A s \in q.list \ {q.sub} :
         [q.rows EXCEPT ![q.sub] = BlankSub][s] = q.rows[s]
  BY <1>2, <1>4
<1> QED
  BY <1>3, <1>5 DEF JobRow, Onward

\* Copying the status of an expired or suspended row to its company.
LEMMA LoopCompanyKeeps ==
  ASSUME IInv, NEW j \in Job, ExpireCompany(j) \/ SuspendCompany(j)
  PROVE  Keeps
<1>q. PICK q \in JobRow : q = job[j]
  BY DEF IInv, TypeOK
<1>p. PICK pc \in {"expireLoop", "suspendLoop"} :
         /\ NextInLoop(j, pc)
         /\ \/ pc = "expireLoop" /\ q.pc = "expireCompany"
            \/ pc = "suspendLoop" /\ q.pc = "suspendCompany"
  BY <1>q DEF ExpireCompany, SuspendCompany
<1> DEFINE r == Onward(q, pc)
<1>1. Knows(q) /\ q.sub \in Sub
  BY <1>q, <1>p DEF IInv, JobsSound, Knows, HasSub
<1>2. job' = [job EXCEPT ![j] = r]
  BY <1>q, <1>p DEF NextInLoop, Onward
<1>3. /\ r \in JobRow /\ r.pc = pc /\ r.due = q.due
      /\ r.list = q.list \ {q.sub}
      /\ \A s \in r.list : r.rows[s] = q.rows[s]
  <2>1. pc \in PC
    BY DEF PC
  <2> QED
    BY <1>1, <2>1, LoopGoesOn
<1> HIDE DEF r
<1>4. Knows(r)
  BY <1>p, <1>1, <1>3 DEF Knows, HasInvoice, HasSettled, HasSub
<1>5. UNCHANGED <<today, sub, invoice, gateway, word>>
  BY DEF ExpireCompany, SuspendCompany
<1>c. PICK c \in Company : c = Owner[q.sub]
  BY <1>1, BillingAssumption
<1>6. company' \in [Company -> CompanyRow]
  BY <1>q, <1>c, SubStatusType
     DEF ExpireCompany, SuspendCompany, IInv, SubStatus
<1>7. TypeOK'
  BY <1>2, <1>3, <1>5, <1>6 DEF IInv, TypeOK
<1> QED
  BY <1>2, <1>3, <1>4, <1>5, <1>7, CompanyGrows, HandlerMoves
     DEF WellBehaved, InTrialJob

----------------------------------------------------------------------------
(* The trial job *)

\* A step of the trial job preserves the invariant when it keeps its list
\* a list of trials.
LEMMA TrialJobKeeps ==
  ASSUME IInv, TypeOK', Grows, Begins, AddsSound, WritesSound,
         NEW j \in Job, NEW r \in JobRow, job' = [job EXCEPT ![j] = r],
         Knows(r), TrialsSound'
  PROVE  Keeps
<1>1. Knows(r)'
  BY KnowledgeKept DEF IInv
<1>2. job'[j] = r
  BY DEF IInv, TypeOK
<1>3. Knows(job[j])'
  BY <1>1, <1>2
     DEF Knows, GatewayFor, Settled, Paid, Stale, Sound, Backed
<1> QED
  BY <1>3, SubsKept, InvoicesKept, JobsKept DEF IInv, Keeps

\* The one job that runs moves on, its list shrunk.
LEMMA TrialListKept ==
  ASSUME IInv, NEW j \in Job, NEW r \in JobRow,
         job' = [job EXCEPT ![j] = r], r.pc \in InTrialJob,
         \A k \in Job : job[k].pc \in InTrialJob => k = j,
         \A s \in r.list : \/ sub'[s].status = "trial"
                           \/ r.pc = "trialCompany" /\ s = r.sub
  PROVE  TrialsSound'
<1>1. job'[j] = r /\ \A k \in Job : k # j => job'[k] = job[k]
  BY DEF IInv, TypeOK
<1> QED
  BY <1>1 DEF TrialsSound

\* Listing the trials that are over preserves the invariant.
LEMMA TrialCheckStartKeeps ==
  ASSUME IInv, NEW j \in Job, TrialCheckStart(j)
  PROVE  Keeps
<1>q. PICK q \in JobRow : q = job[j]
  BY DEF IInv, TypeOK
<1> DEFINE r == [q EXCEPT !.pc = "trialLoop", !.list = TrialsOver]
<1>1. Knows(q) /\ job' = [job EXCEPT ![j] = r] /\ OnlyJobs
  BY <1>q DEF IInv, JobsSound, TrialCheckStart, OnlyJobs
<1>2. TrialsOver \in SUBSET Sub
  BY DEF TrialsOver
<1>3. /\ r \in JobRow /\ r.pc = "trialLoop" /\ r.due = q.due
      /\ r.list = TrialsOver
  BY <1>2 DEF JobRow, PC
<1> HIDE DEF r
<1>4. Knows(r)
  BY <1>1, <1>3 DEF Knows, HasInvoice, HasSettled, HasSub
<1>5. TrialsSound'
  <2>1. \A s \in r.list : sub'[s].status = "trial"
    BY <1>1, <1>3 DEF TrialsOver, OnlyJobs
  <2>2. \A k \in Job : job[k].pc \notin InTrialJob
    BY DEF TrialCheckStart, InTrialJob
  <2>3. r.pc \in InTrialJob
    BY <1>3 DEF InTrialJob
  <2> QED
    BY <1>1, <1>3, <2>1, <2>2, <2>3, TrialListKept
<1>6. TypeOK'
  BY <1>1, <1>3 DEF OnlyJobs, IInv, TypeOK
<1> QED
  BY <1>1, <1>3, <1>4, <1>5, <1>6, OnlyJobsGrows, TrialJobKeeps

\* Expiring a listed row preserves the invariant: it is still a trial.
LEMMA ExpireTrialKeeps ==
  ASSUME IInv, NEW j \in Job, NEW s \in Sub, ExpireTrial(j, s)
  PROVE  Keeps
<1>q. PICK q \in JobRow : q = job[j]
  BY DEF IInv, TypeOK
<1> DEFINE r == [q EXCEPT !.pc = "trialCompany", !.sub = s]
           row == [sub[s] EXCEPT !.status = "expired"]
<1>1. /\ Knows(q) /\ q.pc = "trialLoop" /\ s \in q.list
      /\ job' = [job EXCEPT ![j] = r] /\ sub' = [sub EXCEPT ![s] = row]
      /\ UNCHANGED <<today, company, invoice, gateway, word>>
  BY <1>q DEF IInv, JobsSound, ExpireTrial
<1>2. /\ \A t \in q.list : sub[t].status = "trial"
      /\ \A k \in Job : job[k].pc \in InTrialJob => k = j
  BY <1>q, <1>1 DEF IInv, TrialsSound, InTrialJob
<1>3. sub[s] \in SubRow /\ sub[s].grace = NoDay /\ sub[s].status = "trial"
  BY <1>1, <1>2 DEF IInv, TypeOK, SubsSound, Sound
<1>4. row \in SubRow /\ row.status = "expired" /\ row.grace = NoDay
  BY <1>3 DEF SubRow, SubStatus
<1>5. /\ r \in JobRow /\ r.pc = "trialCompany" /\ r.sub = s
      /\ r.due = q.due /\ r.list = q.list
  BY DEF JobRow, PC
<1> HIDE DEF r, row
<1>6. Knows(r)
  BY <1>1, <1>5 DEF Knows, HasInvoice, HasSettled, HasSub
<1>7. sub'[s] = row /\ \A t \in Sub : t # s => sub'[t] = sub[t]
  BY <1>1 DEF IInv, TypeOK
<1>8. Begins /\ sub' \in [Sub -> SubRow]
  BY <1>1, <1>3, <1>4, <1>7 DEF Begins, Begun, IInv, TypeOK
<1>9. WritesSound
  BY <1>4, <1>7 DEF WritesSound, Sound
<1>10. Grows /\ AddsSound
  BY <1>1 DEF IInv, TypeOK, Grows, AddsSound
<1>11. TypeOK'
  BY <1>1, <1>5, <1>8 DEF IInv, TypeOK
<1>12. TrialsSound'
  <2>1. \A t \in q.list : t \in Sub
    BY JobFields
  <2>2. \A t \in r.list : sub'[t].status = "trial" \/ t = s
    BY <1>2, <1>5, <1>7, <2>1
  <2>3. r.pc \in InTrialJob
    BY <1>5 DEF InTrialJob
  <2> QED
    BY <1>1, <1>2, <1>5, <2>2, <2>3, TrialListKept
<1> QED
  BY <1>1, <1>5, <1>6, <1>8, <1>9, <1>10, <1>11, <1>12, TrialJobKeeps

\* Leaving the company of a handled row behind keeps the list a list of
\* trials.
LEMMA TrialGoesOn ==
  ASSUME IInv, NEW j \in Job, job[j].pc = "trialCompany",
         NextInLoop(j, "trialLoop"), UNCHANGED sub,
         TypeOK', Grows, Begins, AddsSound, WritesSound
  PROVE  Keeps
<1>q. PICK q \in JobRow : q = job[j]
  BY DEF IInv, TypeOK
<1> DEFINE r == Onward(q, "trialLoop")
<1>1. Knows(q) /\ q.sub \in Sub /\ q.pc = "trialCompany"
  BY <1>q DEF IInv, JobsSound, Knows, HasSub
<1>2. job' = [job EXCEPT ![j] = r]
  BY <1>q DEF NextInLoop, Onward
<1>3. /\ r \in JobRow /\ r.pc = "trialLoop" /\ r.due = q.due
      /\ r.list = q.list \ {q.sub}
  <2>1. "trialLoop" \in PC
    BY DEF PC
  <2> QED
    BY <1>1, <2>1, LoopGoesOn
<1> HIDE DEF r
<1>4. Knows(r)
  BY <1>1, <1>3 DEF Knows, HasInvoice, HasSettled, HasSub
<1>5. TrialsSound'
  <2>1. /\ \A s \in q.list : sub[s].status = "trial" \/ s = q.sub
        /\ \A k \in Job : job[k].pc \in InTrialJob => k = j
    BY <1>q, <1>1 DEF IInv, TrialsSound, InTrialJob
  <2>2. \A s \in r.list : sub'[s].status = "trial"
    BY <1>3, <2>1
  <2>3. r.pc \in InTrialJob
    BY <1>3 DEF InTrialJob
  <2> QED
    BY <1>2, <1>3, <2>1, <2>2, <2>3, TrialListKept
<1> QED
  BY <1>2, <1>3, <1>4, <1>5, TrialJobKeeps

\* Copying an expired trial to its company preserves the invariant.
LEMMA ExpireTrialCompanyKeeps ==
  ASSUME IInv, NEW j \in Job, ExpireTrialCompany(j)
  PROVE  Keeps
<1>q. PICK q \in JobRow : q = job[j]
  BY DEF IInv, TypeOK
<1>1. q.sub \in Sub
  BY <1>q DEF IInv, JobsSound, Knows, HasSub, ExpireTrialCompany
<1>c. PICK c \in Company : c = Owner[q.sub]
  BY <1>1, BillingAssumption
<1>2. [status |-> "expired", subStatus |-> "expired"] \in CompanyRow
  BY DEF CompanyRow, SubStatus
<1>3. company' \in [Company -> CompanyRow]
  BY <1>q, <1>c, <1>2, CompanyType DEF ExpireTrialCompany, IInv
<1>4. job' = [job EXCEPT ![j] = Onward(q, "trialLoop")]
  BY <1>q DEF ExpireTrialCompany, NextInLoop, Onward
<1>5. Onward(q, "trialLoop") \in JobRow
  BY <1>1, LoopGoesOn DEF PC
<1>6. UNCHANGED <<today, sub, invoice, gateway, word>>
  BY DEF ExpireTrialCompany
<1>7. TypeOK'
  BY <1>3, <1>4, <1>5, <1>6 DEF IInv, TypeOK
<1> QED
  BY <1>6, <1>7, CompanyGrows, TrialGoesOn DEF ExpireTrialCompany

----------------------------------------------------------------------------
(* Failures, time and the whole step *)

\* A statement that fails inside a loop preserves the invariant.
LEMMA RowFailsKeeps ==
  ASSUME IInv, NEW j \in Job, RowFails(j)
  PROVE  Keeps
<1>q. PICK q \in JobRow : q = job[j]
  BY DEF IInv, TypeOK
<1>1. OnlyJobs /\ Knows(q)
  BY <1>q DEF RowFails, OnlyJobs, IInv, JobsSound
<1>2. CASE q.pc \in {"paySub", "payCompany"} /\ Goto(j, "payLoop")
  <2> DEFINE r == [job[j] EXCEPT !.pc = "payLoop"]
  <2>1. /\ job[j].pc \in HasInvoice /\ job[j].inv \in Invoice
        /\ Settled(job[j].inv)
    BY <1>q, <1>1, <1>2 DEF Knows, HasInvoice, HasSettled
  <2>2. r \in JobRow /\ Knows(r) /\ r.pc \notin InTrialJob
    BY <2>1, GotoSettled
  <2>3. job' = [job EXCEPT ![j] = r]
    BY <1>2 DEF Goto
  <2> HIDE DEF r
  <2> QED
    BY <1>1, <2>2, <2>3, HandlerOnly
<1>3. CASE q.pc = "trialCompany" /\ NextInLoop(j, "trialLoop")
  <2>1. q.sub \in Sub
    BY <1>1, <1>3 DEF Knows, HasSub
  <2>2. job' = [job EXCEPT ![j] = Onward(q, "trialLoop")]
    BY <1>q, <1>3 DEF NextInLoop, Onward
  <2>3. Onward(q, "trialLoop") \in JobRow
    BY <2>1, LoopGoesOn DEF PC
  <2>4. TypeOK'
    BY <1>1, <2>2, <2>3 DEF OnlyJobs, IInv, TypeOK
  <2> QED
    BY <1>q, <1>1, <1>3, <2>4, OnlyJobsGrows, TrialGoesOn DEF OnlyJobs
<1>4. ASSUME q.pc = "trialLoop", NEW s \in q.list,
             job' = [job EXCEPT ![j].list = @ \ {s}]
      PROVE  Keeps
  <2> DEFINE r == [q EXCEPT !.list = @ \ {s}]
  <2>1. r \in JobRow /\ r.pc = "trialLoop" /\ r.due = q.due
        /\ r.list \subseteq q.list
    BY <1>4 DEF JobRow
  <2>2. job' = [job EXCEPT ![j] = r]
    BY <1>q, <1>4
  <2> HIDE DEF r
  <2>3. Knows(r)
    BY <1>1, <2>1 DEF Knows, HasInvoice, HasSettled, HasSub
  <2>4. TypeOK'
    BY <1>1, <2>1, <2>2 DEF OnlyJobs, IInv, TypeOK
  <2>5. TrialsSound'
    <3>1. /\ \A t \in q.list : sub[t].status = "trial"
          /\ \A k \in Job : job[k].pc \in InTrialJob => k = j
      BY <1>q, <1>4 DEF IInv, TrialsSound, InTrialJob
    <3>2. \A t \in r.list : sub'[t].status = "trial"
      BY <1>1, <2>1, <3>1 DEF OnlyJobs
    <3>3. r.pc \in InTrialJob
      BY <2>1 DEF InTrialJob
    <3> QED
      BY <2>1, <2>2, <3>1, <3>2, <3>3, TrialListKept
  <2> QED
    BY <1>1, <2>1, <2>2, <2>3, <2>4, <2>5, OnlyJobsGrows, TrialJobKeeps
<1> QED
  BY <1>q, <1>2, <1>3, <1>4 DEF RowFails

\* A passing day preserves the invariant: payments are never unmade, and
\* what was over stays over.
LEMMA TickKeeps ==
  ASSUME IInv, Tick
  PROVE  Keeps
<1>1. /\ today \in Nat /\ today' = today + 1
      /\ UNCHANGED <<sub, company, invoice, job, word>>
  BY DEF IInv, TypeOK, Tick
<1>2. \A g \in Gateway :
         \/ gateway'[g] = gateway[g]
         \/ /\ gateway[g].status = "PENDING"
            /\ gateway'[g] = [gateway[g] EXCEPT !.status = "EXPIRED",
                                                !.day = NoDay]
  BY DEF Tick
<1>3. ASSUME NEW g \in Gateway
      PROVE  /\ gateway'[g] \in GatewayRow
             /\ \/ gateway'[g] = gateway[g]
                \/ /\ gateway[g].status = "PENDING"
                   /\ gateway'[g].status = "EXPIRED"
                   /\ gateway'[g].inv = gateway[g].inv
  <2>h. PICK h \in GatewayRow : h = gateway[g]
    BY DEF IInv, TypeOK
  <2> DEFINE d == [h EXCEPT !.status = "EXPIRED", !.day = NoDay]
  <2>1. d \in GatewayRow /\ d.status = "EXPIRED" /\ d.inv = h.inv
    BY GatewayMoved
  <2>2. \/ gateway'[g] = h
        \/ h.status = "PENDING" /\ gateway'[g] = d
    BY <1>2, <2>h
  <2> HIDE DEF d
  <2> QED
    BY <2>h, <2>1, <2>2
<1>4. gateway' \in [Gateway -> GatewayRow]
  <2>1. gateway' = [g \in Gateway |-> gateway'[g]]
    BY DEF Tick
  <2> QED
    BY <1>3, <2>1
<1>5. today <= today' /\ today' \in Nat \ {0}
  BY <1>1
<1>6. Grows
  BY <1>1, <1>3, <1>5 DEF Grows
<1>7. AddsSound
  BY <1>1, <1>3 DEF AddsSound
<1>8. TypeOK'
  BY <1>1, <1>4, <1>5 DEF IInv, TypeOK
<1> QED
  BY <1>1, <1>6, <1>7, <1>8, SubsLeft, RequestKeeps DEF WellBehaved

\* So does a step that changes nothing.
LEMMA StutterKeeps ==
  ASSUME IInv, UNCHANGED vars
  PROVE  Keeps
<1>1. OnlyJobs /\ UNCHANGED job
  BY DEF vars, OnlyJobs
<1>2. TypeOK'
  BY <1>1 DEF IInv, TypeOK, OnlyJobs
<1> QED
  BY <1>1, <1>2, OnlyJobsGrows, RequestKeeps DEF WellBehaved

\* The requests of members and administrators preserve the invariant.
LEMMA RequestsKeep ==
  ASSUME IInv, Request
  PROVE  Keeps
<1>1. ASSUME NEW c \in Company, NEW s \in Sub, NEW i \in Invoice,
             NEW m \in Durations, RegisterCompany(c, s, i, m)
      PROVE  Keeps
  BY <1>1, RegisterCompanyKeeps
<1>2. ASSUME NEW c \in Company, NEW s \in Sub,
             RegisterTrial(c, s) \/ Subscribe(c, s)
      PROVE  Keeps
  BY <1>2, RegisterTrialKeeps, SubscribeKeeps
<1>3. ASSUME NEW c \in Company, CreateMember(c) PROVE Keeps
  BY <1>3, CreateMemberKeeps
<1>4. ASSUME NEW i \in Invoice, NEW g \in Gateway, PayInvoice(i, g)
      PROVE  Keeps
  BY <1>4, PayInvoiceKeeps
<1>5. ASSUME NEW j \in Job, NEW s \in Sub, ChangePlan(j, s)
      PROVE  Keeps
  BY <1>5, ChangePlanKeeps
<1>6. ASSUME NEW s \in Sub, CancelSubscription(s) PROVE Keeps
  BY <1>6, CancelSubscriptionKeeps
<1>7. ASSUME NEW s \in Sub, NEW m \in Durations \cup {0},
             ReactivateSubscription(s, m)
      PROVE  Keeps
  BY <1>7, ReactivateSubscriptionKeeps
<1>8. ASSUME NEW c \in Company, NEW m \in Durations,
             ExtendSubscription(c, m)
      PROVE  Keeps
  BY <1>8, ExtendSubscriptionKeeps
<1>9. ASSUME NEW i \in Invoice, CancelInvoice(i) PROVE Keeps
  BY <1>9, CancelInvoiceKeeps
<1>10. ASSUME NEW j \in Job, NEW s \in Sub, NEW m \in Durations,
              NEW i \in Invoice, RenewStart(j, s, m, i)
       PROVE  Keeps
  BY <1>10, RenewStartKeeps
<1>11. ASSUME NEW j \in Job, NEW i \in Invoice,
              CheckPayment(j, i) \/ AdminVerify(j, i)
       PROVE  Keeps
  BY <1>11, CheckPaymentKeeps, AdminVerifyKeeps
<1> QED
  BY <1>1, <1>2, <1>3, <1>4, <1>5, <1>6, <1>7, <1>8, <1>9, <1>10, <1>11
     DEF Request

\* The gateway and its webhooks preserve the invariant.
LEMMA FromGatewayKeeps ==
  ASSUME IInv, FromGateway
  PROVE  Keeps
<1>1. ASSUME NEW g \in Gateway, GatewayPay(g) PROVE Keeps
  BY <1>1, GatewayPayKeeps
<1>2. ASSUME NEW i \in Invoice, NEW g \in Gateway \cup {NoGateway},
             WebhookOther(i, g)
      PROVE  Keeps
  BY <1>2, WebhookOtherKeeps
<1>3. ASSUME NEW j \in Job, NEW i \in Invoice,
             NEW g \in Gateway \cup {NoGateway}, WebhookPaid(j, i, g)
      PROVE  Keeps
  BY <1>3, WebhookPaidKeeps
<1> QED
  BY <1>1, <1>2, <1>3 DEF FromGateway

\* Every step of a handler or job preserves the invariant.
LEMMA StepsKeep ==
  ASSUME IInv, NEW j \in Job, Step(j)
  PROVE  Keeps
<1>1. ASSUME NEW g \in Gateway, RenewGateway(j, g) PROVE Keeps
  BY <1>1, RenewGatewayKeeps
<1>2. ASSUME ChangePlanSave(j)
               \/ RenewSaveInvoice(j) \/ RenewSave(j) \/ CheckResult(j)
               \/ MarkPaid(j) \/ ActivateSub(j) \/ ActivateCompany(j)
      PROVE  Keeps
  BY <1>2, ChangePlanSaveKeeps, RenewSaveInvoiceKeeps, RenewSaveKeeps, CheckResultKeeps,
     MarkPaidKeeps, ActivateSubKeeps, ActivateCompanyKeeps
<1>3. ASSUME NEW i \in Invoice, NEW g \in Gateway,
             PaymentFound(j, i, g) \/ PaymentExpired(j, i, g)
               \/ PaymentUnknown(j, i, g)
      PROVE  Keeps
  BY <1>3, PaymentFoundKeeps, PaymentExpiredKeeps, PaymentUnknownKeeps
<1>4. ASSUME PaymentCheckSub(j) \/ PaymentCheckCompany(j) PROVE Keeps
  BY <1>4, PaymentCheckSubKeeps, PaymentCheckCompanyKeeps
<1>5. ASSUME NEW s \in Sub,
             ExpireRow(j, s) \/ SuspendRow(j, s) \/ ExpireTrial(j, s)
      PROVE  Keeps
  BY <1>5, ExpireRowKeeps, SuspendRowKeeps, ExpireTrialKeeps
<1>6. ASSUME ExpireCompany(j) \/ SuspendCompany(j) \/ SuspensionStart(j)
               \/ ExpireTrialCompany(j)
      PROVE  Keeps
  BY <1>6, LoopCompanyKeeps, SuspensionStartKeeps, ExpireTrialCompanyKeeps
<1>7. ASSUME RenewRejected(j) \/ PaymentCheckEnd(j) \/ ExpiryEnd(j)
               \/ TrialCheckEnd(j)
      PROVE  Keeps
  BY <1>7, EndKeeps
<1> QED
  BY <1>1, <1>2, <1>3, <1>4, <1>5, <1>6, <1>7 DEF Step

\* Every step of the specification preserves the invariant.
LEMMA NextKeeps ==
  ASSUME IInv, [Next]_vars
  PROVE  Keeps
<1>1. ASSUME NEW j \in Job, Start(j) PROVE Keeps
  BY <1>1, PaymentCheckStartKeeps, ExpiryStartKeeps, TrialCheckStartKeeps
     DEF Start
<1>2. ASSUME NEW j \in Job, RowFails(j) \/ Fail(j) PROVE Keeps
  BY <1>2, RowFailsKeeps, EndKeeps
<1> QED
  BY <1>1, <1>2, RequestsKeep, FromGatewayKeeps, StepsKeep, TickKeeps,
     StutterKeeps DEF Next

\* An empty database satisfies the invariant.
LEMMA InitIInv == Init => IInv
<1> SUFFICES ASSUME Init PROVE IInv
  OBVIOUS
<1>1. TypeOK
  <2>1. BlankSub \in SubRow
    BY DEF SubRow, BlankSub, SubStatus, Renewal, NoRenewal, NoDay
  <2>2. BlankInvoice \in InvoiceRow /\ BlankGateway \in GatewayRow
    BY DEF InvoiceRow, BlankInvoice, GatewayRow, BlankGateway, NoDay
  <2> QED
    BY <2>1, <2>2, IdleJobType, BillingAssumption
       DEF Init, TypeOK, CompanyRow, SubStatus
<1>2. InvoiceBacked /\ SubsSound
  BY DEF Init, InvoiceBacked, SubsSound, Sound, BlankSub, BlankInvoice, NoDay
<1>3. InvoicesSound
  BY DEF Init, InvoicesSound, BlankInvoice, BlankGateway
<1>4. JobsSound /\ TrialsSound
  BY IdleKnows DEF Init, JobsSound, TrialsSound, IdleJob
<1> QED
  BY <1>1, <1>2, <1>3, <1>4 DEF IInv

----------------------------------------------------------------------------
(* Theorems *)

\* The inductive invariant holds throughout, however requests, webhooks,
\* scheduled jobs, failures and days interleave.
THEOREM Invariance == Spec => []IInv
<1>1. IInv /\ [Next]_vars => IInv'
  BY NextKeeps DEF Keeps
<1> QED
  BY InitIInv, <1>1, PTL DEF Spec

\* Every table, and every running handler's memory, keeps its type.
THEOREM TypeCorrect == Spec => []TypeOK
<1>1. IInv => TypeOK
  BY DEF IInv
<1> QED
  BY Invariance, <1>1, PTL

\* No invoice is ever marked paid without a payment for it at the gateway,
\* an administrator's word, or a notification about it that the gateway would
\* not have sent; so none without the first two while every notification is
\* the gateway's.
THEOREM InvoicesArePaid == Spec => []InvoiceBacked
<1>1. IInv => InvoiceBacked
  BY DEF IInv
<1> QED
  BY Invariance, <1>1, PTL

\* No subscription becomes active, nor anything that follows active, without
\* an invoice of its own of which that holds, or an extension.
THEOREM AccessIsPaidFor == Spec => []AccessBacked
<1>1. IInv => AccessBacked
  BY DEF IInv, SubsSound, Sound, AccessBacked
<1> QED
  BY Invariance, <1>1, PTL

\* No step takes a subscription back to pending or to a trial.
THEOREM TrialIsOnce == Spec => NoSecondTrial
<1>1. ASSUME IInv, [Next]_vars
      PROVE  \A s \in Sub :
                sub[s].status \notin {"none", "pending", "trial"}
                   => sub'[s].status \notin {"none", "pending", "trial"}
  <2>1. Begins
    BY <1>1, NextKeeps DEF Keeps
  <2>2. \A s \in Sub : sub[s].status \in SubStatus
    BY <1>1 DEF IInv, TypeOK, SubRow
  <2> QED
    BY <2>1, <2>2 DEF Begins, Begun, SubStatus
<1>2. IInv /\ [Next]_vars =>
         [\A s \in Sub :
            sub[s].status \notin {"none", "pending", "trial"}
               => sub'[s].status \notin {"none", "pending", "trial"}]_vars
  BY <1>1
<1> QED
  BY Invariance, <1>2, PTL DEF Spec, NoSecondTrial
=============================================================================
