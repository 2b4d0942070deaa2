CONSTANTS
    i1 = i1
    b1 = b1
    Accounts = {cash, bank}
    Payments = {}
    Expenses = {e1, e2}
    Transfers = {t1}
    Invoices = {}
    Bills = {}
    Customers = {}
    Suppliers = {}
    Years = {2026}
    Amounts = {1}
    Openings = {0}
    AllocationLists = {}
    GrandTotal <- NoTotals
    NoRef = NoRef
    MaxInflight = 2
SPECIFICATION Spec
SYMMETRY RowSymmetry
INVARIANTS LedgerReconciles EntriesFollowStatus NumbersGapFree
PROPERTIES ImplementsPostings
