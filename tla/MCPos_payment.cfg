CONSTANTS
    rice = rice
    repair = repair
    Tills = {t1}
    Handlers = {h1}
    Products = {rice, repair}
    Tracked = {rice}
    Rates <- MCRates
    Carts <- MCCarts
    OpeningStock <- MCStock
    MaxCheckouts = 1
SPECIFICATION PosSpec
INVARIANTS RecordedPaymentRecorded
