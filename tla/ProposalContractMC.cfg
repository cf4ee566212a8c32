\* Two actions, four amounts, one of them negative, timestamps in two offsets or naive.  The model
\* stops when its time is over and both documents are read.
SPECIFICATION Spec
CHECK_DEADLOCK FALSE
CONSTANTS
    Action = {"hold", "transfer"}
    Amount <- Amounts
    About = {text}
    Clock = {1, 2}
    Offset = {0, 1}
    Horizon = 2
    Precision = 2
INVARIANTS
    DigestIsMeaning
    StaysReadable
    DeadlineHonoured
