\* Two transactions of up to three statements (supersede a token, mint another,
\* record the approval) over one operator, one proposal, two tokens of one hash,
\* an approval, two attempts, and a granted role.
SPECIFICATION Spec
CONSTANTS
    t1 = t1
    t2 = t2
    k1 = k1
    k2 = k2
    x1 = x1
    x2 = x2
    Transactions = {t1, t2}
    Rows <- MCRows
    Values <- MCValues
    MaxStatements = 3
SYMMETRY Symmetry
INVARIANTS
    OneLiveToken
    OneAttemptPerToken
PROPERTIES
    TrailKept
