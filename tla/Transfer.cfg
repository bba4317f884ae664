\* Two calls with the same key or with two keys.
CONSTANTS
    a1 = a1
    a2 = a2
    k1 = k1
    k2 = k2
    e1 = e1
    Accounts = {a1, a2}
    Keys = {k1, k2}
    Calls = {c1, c2}
    Orders <- MCOrders
    Edits = {e1}
    Edited <- MCEdited
    MaxInt = 1
    Opening <- MCOpening
SPECIFICATION Spec
SYMMETRY Symmetry
INVARIANTS
    TypeOK
    OncePerKey
    CompletedIsMoved
    NoMoneyCreated
    SettledIsBalanced
    BooksMatch
PROPERTIES
    ImplementsTransfer
