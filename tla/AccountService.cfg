\* Three concurrent requests on one funded and one new account; int64 is 3 bits.
CONSTANTS
    a1 = a1
    a2 = a2
    Accounts = {a1, a2}
    Requests = {r1, r2, r3}
    Adjustments <- MCAdjustments
    MaxInt = 3
    Opening <- MCOpening
SPECIFICATION Spec
INVARIANTS
    TypeOK
    BalanceChecks
    SerialUnlessOverwritten
    BalanceHasOrigin
    LedgerChain
PROPERTIES
    InactiveIsUntouched
\* Requests is finite: when all are answered the model has no step left.
CHECK_DEADLOCK FALSE
