CONSTANTS
    i1 = i1
    b1 = b1
    Accounts = {cash}
    Payments = {}
    Expenses = {e1}
    Transfers = {}
    Invoices = {}
    Bills = {}
    Customers = {}
    Suppliers = {}
    Years = {2026}
    Amounts = {1, 2}
    Openings = {0, 1}
    AllocationLists = {}
    GrandTotal <- NoTotals
    NoRef = NoRef
    MaxInflight = 1
SPECIFICATION Spec
PROPERTY PostedExpenseFrozen
