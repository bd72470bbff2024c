------------------------- MODULE AccountsInvariant -------------------------
(* What holds of points, totals and tiers whatever the handlers do.        *)
EXTENDS CustomerAccounts

(* What a customer has been sold, and the cents that additions of points   *)
(* rounded up to, bound the total, and with it the ranks.                  *)
Worth(c) == Price * Cardinality(SoldTo(c)) + cents[c]

Earned(c, row) ==
    /\ row.points <= granted[c]
    /\ row.spent <= Worth(c)
    /\ row.tier \subseteq TierOf(Worth(c)) \cup Reached(PageSpending, Worth(c))

(* What the handlers hold.                                                 *)
Reading == {"addSave", "redeemSave", "editSave", "upgradeSave", "cronSave",
            "voidCommit"}

JobHeld(h) ==
    /\ h.pc \in Reading =>
           h.customer \in Customer /\ Earned(h.customer, h.row)
    /\ h.pc = "redeemSave" => h.n <= h.row.points
    /\ h.pc = "voidCommit" => h.sale \in Sale
                              /\ sales[h.sale].status # "none"
    /\ \A c \in Customer : h.shot[c] <= granted[c]

Held == \A j \in Job : JobHeld(job[j])

SalesNamed == \A s \in Sale :
    sales[s].status # "none" => sales[s].customer \in Customer

(* However late rows are written back over each other, no customer has     *)
(* more points than were ever given, a total above what was ever sold to   *)
(* the customer by more than a cent for each addition of points, or a tier *)
(* such a total does not reach by either table.                            *)
AccountsEarned == \A c \in Customer : Earned(c, customers[c])

AccountsInv == TypeOK /\ SalesNamed /\ AccountsEarned /\ Held

(* The daily run repairs the tiers the other handlers left behind, its own *)
(* late writes included, though a removed customer ends the run early:     *)
(* once only the run is at work, active customers have the tier that the   *)
(* service gives for their total.                                          *)
Fits(c) == Live(c) /\ customers[c].active => ~ Misfits(c)

OnlyCron == <>[][\E j \in Job : CronRead(j) \/ CronStep(j)]_vars

TiersSettle == OnlyCron => <>[](\A c \in Customer : Fits(c))
=============================================================================
