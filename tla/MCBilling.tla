------------------------------ MODULE MCBilling ------------------------------
(* Instances of SubscriptionBilling and of BillingClaims for TLC. *)
EXTENDS BillingClaims, BillingInvariant, TLC

\* One company holds every subscription row.
SoleOwner == [s \in 1..MaxSubs |-> CHOOSE c \in Company : TRUE]

\* Invoices, gateway invoices and job slots are interchangeable.
Symmetry == Permutations(Invoice) \cup Permutations(Gateway)
              \cup Permutations(Job)

\* What the properties speak of: not the statuses copied to companies.
View == <<today, sub, {c \in Company : company[c].status # "none"}, invoice,
          gateway, job, word>>
=============================================================================
