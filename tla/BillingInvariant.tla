-------------------------- MODULE BillingInvariant --------------------------
(***************************************************************************)
(* The inductive invariant of SubscriptionBilling and the refinement       *)
(* mapping to PaidAccess.                                                  *)
(***************************************************************************)
EXTENDS SubscriptionBilling

Begun == {"active", "expired", "suspended", "cancelled"}

(* What holds of every row of table subscriptions and of every copy of one *)
(* that a running handler will save.                                       *)
Sound(s, row) ==
    /\ row.status \in {"active", "suspended", "cancelled"} => Backed(s)
    /\ (row.status = "expired" /\ row.grace # NoDay) =>
          Backed(s) /\ row.end + GraceDays <= row.grace
    /\ row.status = "suspended" => row.end + GraceDays < today
    /\ row.status = "trial" => row.grace = NoDay

SubsSound == \A s \in Sub : Sound(s, sub[s])

(* An invoice belongs to a subscription that is no trial, and a reference  *)
(* to a gateway invoice is to one made for this very invoice, unless it    *)
(* came with a notification that is not the gateway's.                     *)
GatewayFor(g, i) == gateway[g].status # "none" /\ gateway[g].inv = i

InvoicesSound ==
    /\ \A i \in Invoice : invoice[i].status # "none" =>
          /\ invoice[i].sub \in Sub
          /\ sub[invoice[i].sub].status \notin {"none", "trial"}
    /\ \A i \in Invoice :
          /\ invoice[i].url # NoGateway => GatewayFor(invoice[i].url, i)
          /\ invoice[i].txRef # NoGateway =>
                GatewayFor(invoice[i].txRef, i) \/ i \in word.misreported
    /\ \A g \in Gateway : gateway[g].status # "none" =>
          gateway[g].inv \in Invoice /\ invoice[gateway[g].inv].status # "none"
    /\ \A i \in word.verified \cup word.misreported :
          invoice[i].status # "none"

(* What a running handler knows about the rows it names.                   *)
HasInvoice == {"check", "mark", "activate", "company", "renewedCompany",
               "renew", "renewAnswer", "renewSave", "paySub",
               "payCompany"}

HasSettled == {"mark", "activate", "company", "renewedCompany",
               "paySub", "payCompany"}

HasSub == {"renew", "renewAnswer", "renewSave", "changePlan",
           "expireCompany", "suspendCompany", "trialCompany"}

(* The copy row of subscription s is no older than the start of s's first  *)
(* paid or extended term, and saving it breaks nothing.                    *)
Stale(s, row) == sub[s].status \in Begun /\ Sound(s, row)

Knows(r) ==
    /\ r.pc \in HasInvoice =>
          r.inv \in Invoice /\ invoice[r.inv].status # "none"
    /\ r.pc \in HasSettled => Settled(r.inv)
    /\ r.pc \in HasSub => r.sub \in Sub
    /\ r.pc \in {"check", "renewAnswer"} => r.gw \in Gateway
    /\ r.pc = "check" => GatewayFor(r.gw, r.inv) \/ r.inv \in word.misreported
    /\ r.pc = "renewAnswer" => GatewayFor(r.gw, r.inv)
    /\ \A p \in r.due : GatewayFor(p[2], p[1])
    /\ r.pc \in {"renew", "renewAnswer", "renewSave", "changePlan"} =>
          /\ Stale(r.sub, r.rows[r.sub])
          /\ r.rows[r.sub].status \in {"active", "expired", "suspended"}
    /\ r.pc \in {"expireLoop", "expireCompany"} =>
          \A s \in r.list : /\ Stale(s, r.rows[s])
                            /\ r.rows[s].status = "active"
                            /\ r.rows[s].end < today
    /\ r.pc \in {"suspendLoop", "suspendCompany"} =>
          \A s \in r.list : /\ Stale(s, r.rows[s])
                            /\ r.rows[s].status = "expired"
                            /\ r.rows[s].grace # NoDay
                            /\ r.rows[s].grace < today

JobsSound == \A j \in Job : Knows(job[j])

(* Rows the trial job has listed and not handled yet are still trials; one *)
(* such job runs at a time.                                                *)
InTrialJob == {"trialLoop", "trialCompany"}

TrialsSound ==
    \A j \in Job : job[j].pc \in InTrialJob =>
       /\ \A s \in job[j].list :
             \/ sub[s].status = "trial"
             \/ job[j].pc = "trialCompany" /\ s = job[j].sub
       /\ \A k \in Job : job[k].pc \in InTrialJob => k = j

IInv ==
    /\ TypeOK
    /\ InvoiceBacked
    /\ SubsSound
    /\ InvoicesSound
    /\ JobsSound
    /\ TrialsSound

----------------------------------------------------------------------------
(* The detailed specification implements PaidAccess: access is what the    *)
(* status of a row means for the member, and the rows that handlers hold   *)
(* are the copies they may write back.                                     *)

AccessOf(row) ==
    CASE row.status \in {"none", "pending"} -> "none"
      [] row.status = "trial"               -> "trial"
      [] row.status = "active"              -> "open"
      [] row.status = "expired"             -> "ended"
      [] row.status = "suspended"           -> "blocked"
      [] row.status = "cancelled"           -> "cancelled"

Seen(row) == [access |-> AccessOf(row), term |-> row.end]

Funded == {s \in Sub :
              \/ s \in word.extended
              \/ \E i \in Invoice :
                    invoice[i].sub = s /\ (Paid(i) \/ i \in word.verified)}

Reported == {s \in Sub : \E i \in word.misreported : invoice[i].sub = s}

HeldRows(s) == {job[j].rows[s] : j \in {k \in Job :
                                         job[k].rows[s].status # "none"}}

Access == INSTANCE PaidAccess WITH
             day <- today,
             funded <- Funded,
             reported <- Reported,
             access <- [s \in Sub |-> AccessOf(sub[s])],
             term <- [s \in Sub |-> sub[s].end],
             held <- [s \in Sub |-> {Seen(row) : row \in HeldRows(s)}]

(* Requests, notifications, jobs and crashes together open a subscription  *)
(* only after a payment or somebody's word, and end or block one only by   *)
(* writing back a row that a handler held and whose term, or grace, was    *)
(* over: no save changes access or term in any other way.                  *)
ImplementsPaidAccess == Access!Spec
=============================================================================
