----------------------------- MODULE MCPosSales -----------------------------
(* Instances of PosSales for TLC. *)
EXTENDS PosSales, SalesInvariant, TLC

\* Orders are placed in one of the stores.
SoleStore == [o \in Order |-> AnyStore]

TwoOfEach == [p \in Product |-> 2]

\* Customers buy one of everything, or two of one product.
OneOfEach == [p \in Product |-> 1]

AnyProduct == CHOOSE p \in Product : TRUE
TwoOfOne == [p \in Product |-> IF p = AnyProduct THEN 2 ELSE 0]
FewOfEach == [p \in Product |-> IF p = AnyProduct THEN 2 ELSE 1]

MixedCarts == {OneOfEach, TwoOfOne}

\* ... or something that is no product.
CartsWithoutStock == {OneOfEach, EmptyCart}

\* Rows and job slots are interchangeable.
SalesSymmetry == Permutations(Sale) \cup Permutations(Job)
=============================================================================
