\* Amounts of three digits under a precision of two (28 in the code).
SPECIFICATION Spec
CONSTANTS
    Proposal = {p1, p2}
    Recipient = {hot, cold}
    Amount <- BeyondPrecision
    Precision = 2
    MAX_TOKEN_TTL = 2
    CLOCK_SKEW = 1
    Horizon = 3
INVARIANTS
    AmountAuthorized
