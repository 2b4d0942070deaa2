CONSTANTS
    i1 = i1
    b1 = b1
    Accounts = {cash}
    Payments = {p1}
    Expenses = {}
    Transfers = {}
    Invoices = {i1}
    Bills = {b1}
    Customers = {cust}
    Suppliers = {supp}
    Years = {2026}
    Amounts = {1, 2}
    Openings = {0, 1}
    AllocationLists <- DistinctTargets
    GrandTotal <- Totals
    NoRef = NoRef
    MaxInflight = 1
SPECIFICATION Spec
PROPERTY PostedForActiveParty
