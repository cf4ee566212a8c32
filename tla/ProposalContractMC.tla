-------------------------- MODULE ProposalContractMC --------------------------
(***************************************************************************)
(* ProposalContract on small instances.                                    *)
(***************************************************************************)
EXTENDS ProposalContract

Decimal(c, e) == [coef |-> c, exp |-> e]

\* Nothing, written with a scale; half a coin, in two spellings, and its opposite.
Amounts == {Decimal(0, -1), Decimal(5, -1), Decimal(50, -2), Decimal(-5, -1)}

\* The hypotheses of the theorems about amounts.
ASSUME AmountsAreCanonical ==
    Canonical(Amounts \cup {Normalize(a) : a \in Amounts}) /\ Idempotent(Amounts)
=============================================================================
