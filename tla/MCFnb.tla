------------------------------- MODULE MCFnb -------------------------------
(* The instance of FnbOrders for TLC.  No symmetry: one of its properties  *)
(* is a liveness property.                                                 *)
EXTENDS FnbInvariant

(* What the next steps and the properties depend on: not the amounts of a  *)
(* paid sale, nor the one a checkout has read, which decides about them.   *)
View ==
    LET bill(s) == IF CheckedOut(s)
                   THEN [sales[s] EXCEPT !.subtotal = 0, !.items = 0]
                   ELSE sales[s]
    IN <<orders, [s \in Sale |-> bill(s)], tables,
         [j \in Job |-> [job[j] EXCEPT !.seen = 0]]>>
=============================================================================
