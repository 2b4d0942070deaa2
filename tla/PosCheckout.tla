---------------------------- MODULE PosCheckout -----------------------------
(***************************************************************************)
(* The point of sale: pos.service.ts with the parts of invoices.service.ts *)
(* it sells through.  Tills preview a cart and submit it under a           *)
(* clientCheckoutId, which they keep until a checkout succeeds: they may   *)
(* give up on a handler that still runs and submit again, meanwhile        *)
(* products are edited, sales cancelled and customer receipts recorded     *)
(* elsewhere.                                                              *)
(*                                                                         *)
(* A handler is a lookup outside any transaction, the Serializable         *)
(* transaction that finalizes the sale, and the tender; it may die before  *)
(* each.  `rates` of a sale and of a quote are the rates they were         *)
(* computed with: the code does not keep them, properties do.              *)
(*                                                                         *)
(* Left out: numbering (Stock has it), the customer of a sale, the search  *)
(* and history queries.  The receipt the tender would create never exists: *)
(* see Outcome.                                                            *)
(***************************************************************************)
EXTENDS InvoiceCalculator, Sequences, Sums

CONSTANTS Tills, Handlers,
          Products,      \* active products and services
          Tracked,       \* those whose stock is tracked
          Rates,         \* the GST rates each product may be given
          Carts,         \* carts a till may submit
          OpeningStock,  \* of each tracked product
          MaxCheckouts   \* bound on the checkouts of one till

(* A till sends quantities, prices and discounts lineData accepts. *)
CartSet == [mode : PriceModes, intra : BOOLEAN,
            lines : Seq([product : Products, quantity : Nat, unitPrice : Nat,
                         discountType : DiscountTypes, discountValue : Nat])]

ASSUME PosAssumption ==
    /\ Tracked \subseteq Products
    /\ Rates \in [Products -> SUBSET Nat]
    /\ MaxCheckouts \in Nat
    /\ OpeningStock \in [Tracked -> Nat]
    /\ Carts \subseteq CartSet
    /\ \A cart \in Carts : \A i \in DOMAIN cart.lines :
          cart.lines[i].quantity > 0 /\ Discountable(cart.lines[i])

VARIABLES rate,    \* Product.gstRate
          stock,   \* Product.currentStock
          sales,   \* Invoice rows with salesChannel POS
          till,    \* what the page of each till holds
          handler  \* the checkout requests being served

posVars == <<rate, stock, sales, till, handler>>

Ids == Tills \X (1..MaxCheckouts)
RateTables == {table \in [Products -> UNION {Rates[p] : p \in Products}] :
                 \A p \in Products : table[p] \in Rates[p]}
PayLater == [mode |-> "PAY_LATER"]
Unquoted == [mode |-> "RECORDED_PAYMENT", amount |-> 0]
NoAnswer == [result |-> "none"]
NoRequest == [phase |-> "idle"]
Results == {"sold", "duplicate", "unpaid", "amount", "short", "refused"}

SaleRows == [id : Ids, cart : Carts, rates : RateTables, lines : Seq(Amounts),
             totals : [AmountFields -> Nat], status : {"FINALIZED", "CANCELLED"},
             paid : BOOLEAN]
Quotes == [mode : {"RECORDED_PAYMENT"}, amount : Nat, cart : Carts, rates : RateTables]
Answers == [result : Results, id : Ids, sale : Nat, total : Nat, payment : BOOLEAN]
Checkouts == [phase : {"received", "new", "sold"}, till : Tills, id : Ids, cart : Carts,
              tender : {PayLater, Unquoted} \cup Quotes, sale : Nat]

PosTypeOK ==
    /\ rate \in RateTables
    /\ stock \in [Tracked -> Nat]
    /\ sales \in Seq(SaleRows)
    /\ till \in [Tills -> [n : Nat, shown : Answers \cup {NoAnswer}, waits : SUBSET Handlers]]
    /\ handler \in [Handlers -> Checkouts \cup {NoRequest}]

PosInit ==
    /\ rate \in RateTables
    /\ stock = OpeningStock
    /\ sales = << >>
    /\ till = [t \in Tills |-> [n |-> 1, shown |-> NoAnswer, waits |-> {}]]
    /\ handler = [h \in Handlers |-> NoRequest]

-----------------------------------------------------------------------------
(* What a sale amounts to.                                                 *)

(* lineData: each line at the rate the table has for its product. *)
Lines(cart, table) ==
    [i \in DOMAIN cart.lines |->
        CalculatedLine(cart.lines[i], table[cart.lines[i].product], cart.mode, cart.intra)]

Totals(lines) ==
    [field \in AmountFields |-> SumOf([i \in DOMAIN lines |-> lines[i][field]])]

(* productQuantities: repeated lines of a product are added up. *)
Quantity(cart, p) ==
    SumOf([i \in {j \in DOMAIN cart.lines : cart.lines[j].product = p} |->
              cart.lines[i].quantity])

(* Mutant of CanSupply: each line is held against the stock on its own. *)
CanSupplyByLine(cart) ==
    \A i \in DOMAIN cart.lines :
        cart.lines[i].product \in Tracked =>
            cart.lines[i].quantity <= stock[cart.lines[i].product]

(* assertStockAvailable *)
CanSupply(cart) == \A p \in Tracked : Quantity(cart, p) <= stock[p]

Supply(cart, sign) ==
    stock' = [p \in Tracked |-> stock[p] + sign * Quantity(cart, p)]

SaleOf(id) == {s \in DOMAIN sales : sales[s].id = id}

-----------------------------------------------------------------------------
(* The till.                                                               *)

(* Mutant of Quote: the page adds up the cart itself, rounding once. *)
QuoteRoundedOnce(cart) ==
    IF cart.mode = "INCLUSIVE" THEN Totals(Lines(cart, rate))["total"]
    ELSE RoundHalfUp(SumOf([i \in DOMAIN cart.lines |->
                               LET line == cart.lines[i] IN
                               (Gross(line) - Discount(line)) * (10000 + rate[line.product])]),
                     10000)

(* previewPos computes what a sale would come to now. *)
Quote(cart) == Totals(Lines(cart, rate))["total"]

(* The tender amount of a recorded payment is what a preview said, of this *)
(* cart or of the one before its last edit, or 0.00 before any.            *)
Tenders ==
    {PayLater, Unquoted} \cup
    {[mode |-> "RECORDED_PAYMENT", amount |-> Quote(cart), cart |-> cart, rates |-> rate] :
        cart \in Carts}

Submit(t, h, cart, tender) ==
    /\ till[t].waits = {}
    /\ till[t].n <= MaxCheckouts
    /\ handler[h] = NoRequest
    /\ handler' = [handler EXCEPT ![h] =
          [phase |-> "received", till |-> t, id |-> <<t, till[t].n>>, cart |-> cart,
           tender |-> tender, sale |-> 0]]
    /\ till' = [till EXCEPT ![t].waits = {h}, ![t].shown = NoAnswer]
    /\ UNCHANGED <<rate, stock, sales>>

(* A timeout or a failed network: the id is kept, the handler goes on. *)
GiveUp(t) ==
    /\ till[t].waits # {}
    /\ till' = [till EXCEPT ![t].waits = {}]
    /\ UNCHANGED <<rate, stock, sales, handler>>

(* The till shows the answer, unless it gave up; a success ends the        *)
(* checkout and the next one gets an id of its own.                        *)
Answer(h, result, s, total, payment) ==
    LET t == handler[h].till
    IN  /\ handler' = [handler EXCEPT ![h] = NoRequest]
        /\ till' = IF h \notin till[t].waits THEN till ELSE
              [till EXCEPT ![t] =
                 [n |-> IF result \in {"sold", "duplicate", "unpaid"} THEN till[t].n + 1
                        ELSE till[t].n,
                  shown |-> [result |-> result, id |-> handler[h].id, sale |-> s,
                             total |-> total, payment |-> payment],
                  waits |-> {}]]

-----------------------------------------------------------------------------
(* checkout                                                                *)

(* Mutant of Known: the duplicate is answered with the cart of the request. *)
KnownRecomputed(h, s) ==
    Answer(h, "duplicate", s, Totals(Lines(handler[h].cart, rate))["total"], sales[s].paid)

(* A checkout whose sale exists is answered with that sale, and with the   *)
(* posted receipt it has by now; its tender is not looked at.              *)
Known(h, s) == Answer(h, "duplicate", s, sales[s].totals["total"], sales[s].paid)

Lookup(h) ==
    /\ handler[h].phase = "received"
    /\ \/ \E s \in SaleOf(handler[h].id) : Known(h, s)
       \/ /\ SaleOf(handler[h].id) = {}
          /\ handler' = [handler EXCEPT ![h].phase = "new"]
          /\ UNCHANGED till
    /\ UNCHANGED <<rate, stock, sales>>

Sell(h) ==
    LET cart == handler[h].cart
    IN  /\ CanSupply(cart)
        /\ Supply(cart, -1)
        /\ sales' = Append(sales,
              [id |-> handler[h].id, cart |-> cart, rates |-> rate, lines |-> Lines(cart, rate),
               totals |-> Totals(Lines(cart, rate)), status |-> "FINALIZED", paid |-> FALSE])
        /\ handler' = [handler EXCEPT ![h].phase = "sold", ![h].sale = Len(sales) + 1]

(* Mutant of Finalize: the id is not looked up again, nor is it unique. *)
FinalizeUnchecked(h) ==
    /\ handler[h].phase = "new"
    /\ Sell(h)
    /\ UNCHANGED <<rate, till>>

(* createFinalizedPosInvoice: draft, number and stock in one transaction,  *)
(* once per id: the id is looked up again and is a unique key of the table. *)
Finalize(h) ==
    /\ handler[h].phase = "new"
    /\ \/ \E s \in SaleOf(handler[h].id) :
             /\ handler' = [handler EXCEPT ![h].phase = "sold", ![h].sale = s]
             /\ UNCHANGED <<stock, sales>>
       \/ SaleOf(handler[h].id) = {} /\ Sell(h)
    /\ UNCHANGED <<rate, till>>

(* The transaction refuses: no stock, a product or customer deactivated    *)
(* since, seller details missing, three conflicts in a row.                *)
Refuse(h) ==
    /\ handler[h].phase = "new"
    /\ Answer(h, "refused", 0, 0, FALSE)
    /\ UNCHANGED <<rate, stock, sales>>

(* The tender is checked once the sale is final.  Recording it then fails: *)
(* paymentData refuses a CUSTOMER_RECEIPT without a customerId, and the    *)
(* payment checkout asks for never has one.                                *)
Outcome(h, short) ==
    IF handler[h].tender = PayLater THEN "sold"
    ELSE IF handler[h].tender.amount # sales[handler[h].sale].totals["total"] THEN "amount"
    ELSE IF short THEN "short" ELSE "unpaid"

(* `short`: less was tendered than the amount to record. *)
Conclude(h, short) ==
    /\ handler[h].phase = "sold"
    /\ Answer(h, Outcome(h, short), handler[h].sale,
              sales[handler[h].sale].totals["total"], FALSE)
    /\ UNCHANGED <<rate, stock, sales>>

(* The process dies with the request; the till waits until it gives up. *)
Die(h) ==
    /\ handler[h] # NoRequest
    /\ handler' = [handler EXCEPT ![h] = NoRequest]
    /\ UNCHANGED <<rate, stock, sales, till>>

-----------------------------------------------------------------------------
(* Elsewhere.                                                              *)

EditProduct(p, r) ==
    /\ rate' = [rate EXCEPT ![p] = r]
    /\ UNCHANGED <<stock, sales, till, handler>>

(* Mutant of CancelSale: its status is not looked at, so stock returns twice. *)
CancelSaleAgain(s) ==
    /\ sales' = [sales EXCEPT ![s].status = "CANCELLED"]
    /\ Supply(sales[s].cart, 1)
    /\ UNCHANGED <<rate, till, handler>>

(* InvoicesService.cancel restores the stock. *)
CancelSale(s) ==
    /\ sales[s].status = "FINALIZED"
    /\ sales' = [sales EXCEPT ![s].status = "CANCELLED"]
    /\ Supply(sales[s].cart, 1)
    /\ UNCHANGED <<rate, till, handler>>

(* A receipt of what is outstanding is posted by hand, or reversed. *)
PostReceipt(s) ==
    /\ sales[s].status = "FINALIZED"
    /\ ~sales[s].paid
    /\ sales' = [sales EXCEPT ![s].paid = TRUE]
    /\ UNCHANGED <<rate, stock, till, handler>>

ReverseReceipt(s) ==
    /\ sales[s].paid
    /\ sales' = [sales EXCEPT ![s].paid = FALSE]
    /\ UNCHANGED <<rate, stock, till, handler>>

PosNext ==
    \/ \E t \in Tills :
          \/ \E h \in Handlers, cart \in Carts, tender \in Tenders : Submit(t, h, cart, tender)
          \/ GiveUp(t)
    \/ \E h \in Handlers :
          \/ Lookup(h) \/ Finalize(h) \/ Refuse(h) \/ Die(h)
          \/ \E short \in BOOLEAN : Conclude(h, short)
    \/ \E p \in Products : \E r \in Rates[p] : EditProduct(p, r)
    \/ \E s \in DOMAIN sales : CancelSale(s) \/ PostReceipt(s) \/ ReverseReceipt(s)

PosSpec == PosInit /\ [][PosNext]_posVars

-----------------------------------------------------------------------------
(* Properties.                                                             *)

(* Two submits of one clientCheckoutId, at once or after a crash or a lost *)
(* answer, make one invoice.                                               *)
OneSalePerCheckout ==
    \A s1, s2 \in DOMAIN sales : sales[s1].id = sales[s2].id => s1 = s2

(* The stock is what the sales that stand have left of it, and never below *)
(* zero: repeated lines, retries and cancellations included.               *)
StockFollowsSales ==
    \A p \in Tracked :
        /\ stock[p] >= 0
        /\ OpeningStock[p] = stock[p] +
              SumOf([s \in {r \in DOMAIN sales : sales[r].status = "FINALIZED"} |->
                        Quantity(sales[s].cart, p)])

(* The receipt a till shows is the stored sale of its own checkout, at the *)
(* stored amount, whatever was edited between the sale and the retry.      *)
ReceiptsShowTheSale ==
    \A t \in Tills :
        till[t].shown.result \in {"sold", "duplicate", "unpaid"} =>
            /\ till[t].shown.sale \in SaleOf(till[t].shown.id)
            /\ till[t].shown.total = sales[till[t].shown.sale].totals["total"]

(* A quoted tender is refused for its amount only when the cart or a GST  *)
(* rate changed between the preview and the sale.                          *)
QuotesHold ==
    \A h \in Handlers :
        LET quote == handler[h].tender
            sale == sales[handler[h].sale]
        IN  handler[h].phase = "sold" /\ quote \in Quotes /\ Outcome(h, FALSE) = "amount" =>
                quote.cart # sale.cart \/ quote.rates # sale.rates

(* Of every line and of the invoice: the taxed part and the tax make the   *)
(* total, the halves make the tax, and the discount is off the price; the  *)
(* totals are those of the lines.  Rounding each amount loses no paisa.    *)
AmountsAddUp ==
    \A s \in DOMAIN sales :
        LET sale == sales[s]
            AddsUp(a) ==
                /\ a["taxable"] + a["tax"] = a["total"]
                /\ a["cgst"] + a["sgst"] + a["igst"] = a["tax"]
                /\ a["gross"] - a["discount"] =
                      IF sale.cart.mode = "INCLUSIVE" THEN a["total"] ELSE a["taxable"]
        IN  /\ AddsUp(sale.totals)
            /\ \A i \in DOMAIN sale.lines :
                  /\ AddsUp(sale.lines[i])
                  /\ sale.lines[i].cgst - sale.lines[i].sgst \in
                        IF sale.cart.intra THEN {0, 1} ELSE {0}

(* In both price modes the tax of a line is its rate of the taxed part, to *)
(* within half a paisa of either.                                          *)
TaxFollowsRate ==
    \A s \in DOMAIN sales : \A i \in DOMAIN sales[s].lines :
        LET line == sales[s].lines[i]
            r == sales[s].rates[sales[s].cart.lines[i].product]
            error == 10000 * line.tax - r * line.taxable
        IN  2 * error <= 10000 + r /\ -2 * error <= 10000 + r

(* README: with a recorded payment, checkout creates and posts a customer  *)
(* receipt against the finalized invoice.  Recording may fail, but nothing *)
(* here makes it: tender and total agree and the account is active.  So no *)
(* till is told that its tender was not recorded, with the sale unpaid.    *)
RecordedPaymentRecorded ==
    \A t \in Tills :
        till[t].shown.result = "unpaid" =>
            sales[till[t].shown.sale].paid \/ sales[till[t].shown.sale].status = "CANCELLED"

=============================================================================
