--------------------------- MODULE BillingClaims ---------------------------
(***************************************************************************)
(* What the comments of the code say of subscriptions and payments, and    *)
(* what SubscriptionBilling does not do.                                   *)
(***************************************************************************)
EXTENDS SubscriptionBilling

\* A step of activateSubscription that applies the pending renewal of s.
AppliesRenewal(j, s) ==
    /\ job[j].pc = "activate"
    /\ job'[j].pc = "renewedCompany"
    /\ s = invoice[job[j].inv].sub

(* subscriptions.service.ts: "Actual renewal happens after payment         *)
(* success".  A renewal is applied only when its own invoice is settled, at *)
(* least while every notification is the gateway's.                        *)
RenewalPaidFor ==
    [][\A j \in Job, s \in Sub :
          (AppliesRenewal(j, s) /\ word.misreported = {})
             => Settled(sub[s].renewal.invoice)]_vars
=============================================================================
