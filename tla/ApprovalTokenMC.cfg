\* Two proposals, two recipients, three amounts within the precision; windows of
\* up to two units, a skew of one.
SPECIFICATION Spec
SYMMETRY Interchangeable
CONSTANTS
    Proposal = {p1, p2}
    Recipient = {hot, cold}
    Amount <- WithinPrecision
    Precision = 2
    MAX_TOKEN_TTL = 2
    CLOCK_SKEW = 1
    Horizon = 3
INVARIANTS
    OnlyAsIssued
    AmountAuthorized
    ShortLived
    HonestAccepted
    ReasonFromAuthenticClaims
