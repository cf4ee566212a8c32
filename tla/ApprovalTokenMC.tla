---------------------------- MODULE ApprovalTokenMC ----------------------------
(***************************************************************************)
(* ApprovalToken on small instances: decimals of at most two digits.       *)
(***************************************************************************)
EXTENDS ApprovalToken, TLC

Decimal(c, e) == [coef |-> c, exp |-> e]

\* No action and no property tells proposals apart, or recipients.
Interchangeable == Permutations(Proposal) \cup Permutations(Recipient)

\* Half a coin, half a coin written with a zero, five coins.
WithinPrecision == {Decimal(5, -1), Decimal(50, -2), Decimal(5, 0)}

\* The hypothesis of the theorems about amounts.
ASSUME WithinPrecisionIsFaithful == Faithful(WithinPrecision)

\* Amounts that differ in a digit the decimal context does not keep.
BeyondPrecision == {Decimal(121, -2), Decimal(122, -2)}

ASSUME BeyondPrecisionIsNot == ~Faithful(BeyondPrecision)
=============================================================================
