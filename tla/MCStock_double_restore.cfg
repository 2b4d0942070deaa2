CONSTANTS
    pen = pen
    repair = repair
    inv1 = inv1
    inv2 = inv2
    sr1 = sr1
    sr2 = sr2
    quote = quote
    order = order
    bill = bill
    pr1 = pr1
    pr2 = pr2
    Products = {pen, repair}
    Tracked = {pen}
    Services = {repair}
    Documents = {inv1, sr1}
    TypeOf <- TypesHere
    Years = {2026}
    Drafts <- DraftsHere
    NoDocument = NoDocument
    Openings = {0, 2}
    Quantities = {1}
    MaxStock = 3
    MaxAdjustments = 1
SPECIFICATION Spec
INVARIANT StockRestoredOnce
