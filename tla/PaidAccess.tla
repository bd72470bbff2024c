----------------------------- MODULE PaidAccess -----------------------------
(***************************************************************************)
(* What the billing code promises the owner of the platform and the        *)
(* member, without invoices and jobs.  Access is opened only for           *)
(* subscriptions that were paid for, granted by an administrator, or       *)
(* reported as paid.  What ends or blocks access is a handler that holds   *)
(* the row as it once was and writes it back: with its own term, and only  *)
(* when that term, or the grace period after it, has passed.  So a term    *)
(* once given is lost only to a handler that read the row before.          *)
(***************************************************************************)
EXTENDS Naturals

CONSTANTS
    Sub,        \* subscriptions
    GraceDays   \* days between the end of the term and a suspension

VARIABLES
    day,        \* the current day
    funded,     \* subscriptions paid for, vouched for or granted so far
    reported,   \* subscriptions of which a notification said what the
                \* gateway did not
    access,     \* "none", "trial", "open", "ended", "blocked", "cancelled"
    term,       \* last day of the term
    held        \* for each subscription, the states handlers hold copies of

vars == <<day, funded, reported, access, term, held>>

Init ==
    /\ day = 1
    /\ funded = {}
    /\ reported = {}
    /\ access = [s \in Sub |-> "none"]
    /\ term = [s \in Sub |-> 0]
    /\ held = [s \in Sub |-> {}]

State(s) == [access |-> access[s], term |-> term[s]]

(* Handlers end and let go of their copies at any time.                    *)
Releases == \A s \in Sub : held'[s] \subseteq held[s]

(* Only subscription s changes; its term as the action says.               *)
SetAccess(s, a) ==
    /\ access' = [access EXCEPT ![s] = a]
    /\ \A t \in Sub \ {s} : term'[t] = term[t]
    /\ Releases

Stays == UNCHANGED <<day, funded, reported>>

NextDay ==
    day' = day + 1 /\ UNCHANGED <<funded, reported, access, term, held>>

Fund(s) ==
    /\ funded' = funded \cup {s}
    /\ UNCHANGED <<day, reported, access, term, held>>

Report(s) ==
    /\ reported' = reported \cup {s}
    /\ UNCHANGED <<day, funded, access, term, held>>

(* A registration, with a trial or with an invoice to be paid first.       *)
Begin(s) ==
    /\ access[s] = "none"
    /\ \E a \in {"none", "trial"} : SetAccess(s, a)
    /\ Stays

(* A payment or a reactivation, with whatever term it sets.                *)
Open(s) == s \in funded \cup reported /\ SetAccess(s, "open") /\ Stays

(* An administrator never shortens a term.                                 *)
Grant(s) ==
    /\ funded' = funded \cup {s}
    /\ access[s] \in {"open", "ended"}
    /\ SetAccess(s, "open")
    /\ term'[s] > term[s]
    /\ term'[s] > day
    /\ UNCHANGED <<day, reported>>

Cancel(s) ==
    /\ access[s] = "open"
    /\ SetAccess(s, "cancelled")
    /\ UNCHANGED term
    /\ Stays

EndTrial(s) ==
    /\ access[s] = "trial"
    /\ SetAccess(s, "ended")
    /\ UNCHANGED term
    /\ Stays

Look ==
    /\ \A s \in Sub : held'[s] \subseteq held[s] \cup {State(s)}
    /\ UNCHANGED <<day, funded, reported, access, term>>

(* A handler saves the row it holds, for the sake of something else.       *)
PutBack(s) ==
    \E c \in held[s] :
       /\ c.access \in {"open", "ended", "blocked"}
       /\ SetAccess(s, c.access) /\ term'[s] = c.term
       /\ Stays

End(s) ==
    \E c \in held[s] :
       /\ c.access = "open" /\ c.term < day
       /\ SetAccess(s, "ended") /\ term'[s] = c.term
       /\ Stays

Block(s) ==
    \E c \in held[s] :
       /\ c.access = "ended" /\ c.term + GraceDays < day
       /\ SetAccess(s, "blocked") /\ term'[s] = c.term
       /\ Stays

Next ==
    \/ NextDay
    \/ Look
    \/ \E s \in Sub : \/ Fund(s) \/ Report(s)
                      \/ Begin(s) \/ Open(s) \/ Grant(s) \/ Cancel(s)
                      \/ EndTrial(s) \/ PutBack(s) \/ End(s) \/ Block(s)

Spec == Init /\ [][Next]_vars
=============================================================================
