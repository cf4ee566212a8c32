-------------------------------- MODULE Money --------------------------------
(***************************************************************************)
(* The amounts of the contracts package: Decimals, written as a            *)
(* coefficient and an exponent of ten, and _normalize_money, which gives   *)
(* every amount the form that is compared, hashed and MACed.  The rounding *)
(* is stated for amounts that are not negative: of the others, which every *)
(* contract refuses, only the sign matters.                                *)
(***************************************************************************)
EXTENDS Integers, FiniteSetsExt

CONSTANT Precision  \* digits of the decimal context (28)

ASSUME PrecisionAssumption == Precision \in Nat \ {0}

\* The same quantity, however it is written.
SameValue(a, b) ==
    LET e == IF a.exp < b.exp THEN a.exp ELSE b.exp
    IN  a.coef * 10 ^ (a.exp - e) = b.coef * 10 ^ (b.exp - e)

Digits(n) == CHOOSE k \in 1..10 : n < 10 ^ k /\ \A j \in 1..(k - 1) : n >= 10 ^ j

\* Decimal.normalize rounds to the context's precision, half to even ...
Round(a) ==
    LET excess == Digits(a.coef) - Precision
        unit == 10 ^ excess
        low == a.coef \div unit
        rest == 2 * (a.coef % unit)
        up == rest > unit \/ (rest = unit /\ low % 2 = 1)
    IN  IF excess <= 0 THEN a
        ELSE [coef |-> IF up THEN low + 1 ELSE low, exp |-> a.exp + excess]

\* ... and strips the trailing zeros.
Strip(a) ==
    LET z == Max({k \in 0..9 : a.coef % 10 ^ k = 0})
    IN  IF a.coef = 0 THEN [coef |-> 0, exp |-> 0]
        ELSE [coef |-> a.coef \div 10 ^ z, exp |-> a.exp + z]

\* format(..., "f") writes a whole number without an exponent.
Plain(a) == IF a.exp > 0 THEN [coef |-> a.coef * 10 ^ a.exp, exp |-> 0] ELSE a

Normalize(a) == Plain(Strip(Round(a)))

-----------------------------------------------------------------------------
\* What users of the rule may rely on, for amounts within the precision.

\* Normalizing two amounts does not matter to whether they are the same quantity.
Faithful(S) == \A a, b \in S : SameValue(Normalize(a), Normalize(b)) <=> SameValue(a, b)

\* An amount and its spellings have one normal form, and no two amounts share one.
Canonical(S) == \A a, b \in S : Normalize(a) = Normalize(b) <=> SameValue(a, b)

\* What is normalized once is normal.
Idempotent(S) == \A a \in S : Normalize(Normalize(a)) = Normalize(a)
=============================================================================
