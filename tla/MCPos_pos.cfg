CONSTANTS
    rice = rice
    repair = repair
    Tills = {t1}
    Handlers = {h1, h2}
    Products = {rice, repair}
    Tracked = {rice}
    Rates <- MCRates
    Carts <- MCCarts
    OpeningStock <- MCStock
    MaxCheckouts = 2
SPECIFICATION PosSpec
SYMMETRY HandlerSymmetry
INVARIANTS PosTypeOK OneSalePerCheckout StockFollowsSales ReceiptsShowTheSale QuotesHold AmountsAddUp TaxFollowsRate
