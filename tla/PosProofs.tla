----------------------------- MODULE PosProofs ------------------------------
(***************************************************************************)
(* PosCheckout for any number of tills, handlers, products and checkouts,  *)
(* and any carts and rates.                                                *)
(*                                                                         *)
(* The inductive invariant PosInv: every sale is a row that was computed   *)
(* from its own cart and rates (SaleShape), every quoted tender likewise   *)
(* (QuoteShape), a handler past its transaction points at the sale of its  *)
(* id, and a till that shows a success shows that sale.  With StockOK, the  *)
(* stock follows the sales that stand; what the totals of a sale amount to *)
(* follows from its shape alone.                                           *)
(***************************************************************************)
EXTENDS PosCheckout, CalculatorProofs, LedgerProofs

SaleShape ==
    {[id |-> id, cart |-> cart, rates |-> table, lines |-> Lines(cart, table),
      totals |-> Totals(Lines(cart, table)), status |-> status, paid |-> paid] :
        id \in Ids, cart \in Carts, table \in RateTables,
        status \in {"FINALIZED", "CANCELLED"}, paid \in BOOLEAN}

QuoteShape ==
    {[mode |-> "RECORDED_PAYMENT", amount |-> Totals(Lines(cart, table))["total"],
      cart |-> cart, rates |-> table] : cart \in Carts, table \in RateTables}

Requests ==
    [phase : {"received", "new", "sold"}, till : Tills, id : Ids, cart : Carts,
     tender : {PayLater, Unquoted} \cup QuoteShape, sale : Nat]

Shown == [result : Results, id : Ids, sale : Nat,
          total : {Totals(lines)["total"] : lines \in Seq(Amounts)} \cup {0},
          payment : BOOLEAN]

TillRows == [n : Nat \ {0}, shown : Shown \cup {NoAnswer}, waits : SUBSET Handlers]

ShapeOK ==
    /\ rate \in RateTables
    /\ sales \in Seq(SaleShape)
    /\ till \in [Tills -> TillRows]
    /\ handler \in [Handlers -> Requests \cup {NoRequest}]

(* A handler past its transaction points at the sale of its id. *)
SoldIsStored ==
    \A h \in Handlers : handler[h].phase = "sold" =>
        /\ handler[h].sale \in DOMAIN sales
        /\ sales[handler[h].sale].id = handler[h].id

PosInv == ShapeOK /\ OneSalePerCheckout /\ SoldIsStored /\ ReceiptsShowTheSale

-----------------------------------------------------------------------------
(* Every line of a cart meets what the calculator's theorems assume. *)
LEMMA LineOfCart ==
    ASSUME NEW cart \in Carts, NEW table \in RateTables, NEW i \in DOMAIN cart.lines
    PROVE  /\ cart.mode \in PriceModes /\ cart.intra \in BOOLEAN
           /\ LineInput(cart.lines[i]) /\ Discountable(cart.lines[i])
           /\ table[cart.lines[i].product] \in Nat
<1> DEFINE LineSet == [product : Products, quantity : Nat, unitPrice : Nat,
                       discountType : DiscountTypes, discountValue : Nat]
<1>1. /\ cart.mode \in PriceModes /\ cart.intra \in BOOLEAN
      /\ cart.lines \in Seq(LineSet)
  BY PosAssumption DEF CartSet
<1>2. \A line \in LineSet : LineInput(line) /\ line.product \in Products
  BY DEF LineInput
<1> HIDE DEF LineSet
<1>3. LineInput(cart.lines[i]) /\ cart.lines[i].product \in Products
  BY <1>1, <1>2
<1>4. Discountable(cart.lines[i])
  BY PosAssumption
<1>5. table[cart.lines[i].product] \in Nat
  BY <1>3, PosAssumption DEF RateTables
<1> QED BY <1>1, <1>3, <1>4, <1>5

(* So its amounts are natural numbers. *)
LEMMA LinesAreAmounts ==
    ASSUME NEW cart \in Carts, NEW table \in RateTables
    PROVE  Lines(cart, table) \in Seq(Amounts)
<1> DEFINE LineSet == [product : Products, quantity : Nat, unitPrice : Nat,
                       discountType : DiscountTypes, discountValue : Nat]
<1>1. cart.lines \in Seq(LineSet)
  BY PosAssumption DEF CartSet
<1> HIDE DEF LineSet
<1>2. ASSUME NEW i \in DOMAIN cart.lines
      PROVE  CalculatedLine(cart.lines[i], table[cart.lines[i].product], cart.mode, cart.intra)
                \in Amounts
  BY LineOfCart, LineIsPositive
<1>3. /\ Len(cart.lines) \in Nat
      /\ DOMAIN cart.lines = 1 .. Len(cart.lines)
  BY <1>1
<1>4. Lines(cart, table) \in [1 .. Len(cart.lines) -> Amounts]
  BY <1>2, <1>3 DEF Lines
<1> QED BY <1>3, <1>4

(* What a row of `sales` is, and that editing its status or its receipt    *)
(* leaves it one, of the same checkout and amounts.                        *)
LEMMA SaleRow ==
    ASSUME NEW row \in SaleShape
    PROVE  /\ row.id \in Ids
           /\ row.cart \in Carts /\ row.rates \in RateTables
           /\ row.lines = Lines(row.cart, row.rates)
           /\ row.totals = Totals(row.lines)
           /\ \A status \in {"FINALIZED", "CANCELLED"} :
                 /\ [row EXCEPT !.status = status] \in SaleShape
                 /\ [row EXCEPT !.status = status].id = row.id
                 /\ [row EXCEPT !.status = status].totals = row.totals
           /\ \A paid \in BOOLEAN :
                 /\ [row EXCEPT !.paid = paid] \in SaleShape
                 /\ [row EXCEPT !.paid = paid].id = row.id
                 /\ [row EXCEPT !.paid = paid].totals = row.totals
<1>1. PICK id \in Ids, cart \in Carts, table \in RateTables,
           status \in {"FINALIZED", "CANCELLED"}, paid \in BOOLEAN :
        row = [id |-> id, cart |-> cart, rates |-> table, lines |-> Lines(cart, table),
               totals |-> Totals(Lines(cart, table)), status |-> status, paid |-> paid]
  BY DEF SaleShape
<1>2. ASSUME NEW st \in {"FINALIZED", "CANCELLED"}
      PROVE  [row EXCEPT !.status = st] =
               [id |-> id, cart |-> cart, rates |-> table, lines |-> Lines(cart, table),
                totals |-> Totals(Lines(cart, table)), status |-> st, paid |-> paid]
  BY <1>1
<1>3. ASSUME NEW pd \in BOOLEAN
      PROVE  [row EXCEPT !.paid = pd] =
               [id |-> id, cart |-> cart, rates |-> table, lines |-> Lines(cart, table),
                totals |-> Totals(Lines(cart, table)), status |-> status, paid |-> pd]
  BY <1>1
<1>4. \A st \in {"FINALIZED", "CANCELLED"} : [row EXCEPT !.status = st] \in SaleShape
  BY <1>2 DEF SaleShape
<1>5. \A pd \in BOOLEAN : [row EXCEPT !.paid = pd] \in SaleShape
  BY <1>3 DEF SaleShape
<1> QED BY <1>1, <1>2, <1>3, <1>4, <1>5

(* What Sell appends, and its later versions. *)
LEMMA ARow ==
    ASSUME NEW id \in Ids, NEW cart \in Carts, NEW table \in RateTables,
           NEW status \in {"FINALIZED", "CANCELLED"}, NEW paid \in BOOLEAN
    PROVE  [id |-> id, cart |-> cart, rates |-> table, lines |-> Lines(cart, table),
            totals |-> Totals(Lines(cart, table)), status |-> status, paid |-> paid]
              \in SaleShape
BY DEF SaleShape

(* The amount a sale comes to is one a till can show. *)
LEMMA SaleAmount ==
    ASSUME NEW row \in SaleShape
    PROVE  row.totals["total"] \in {Totals(lines)["total"] : lines \in Seq(Amounts)}
<1>1. row.lines \in Seq(Amounts) /\ row.totals = Totals(row.lines)
  BY SaleRow, LinesAreAmounts
<1> QED BY <1>1

-----------------------------------------------------------------------------
(* The sums over the lines of a cart. *)

LEMMA LinesAreFinite ==
    ASSUME NEW cart \in Carts
    PROVE  /\ IsFiniteSet(DOMAIN cart.lines)
           /\ \A i \in DOMAIN cart.lines : cart.lines[i].quantity \in Nat
<1> DEFINE LineSet == [product : Products, quantity : Nat, unitPrice : Nat,
                       discountType : DiscountTypes, discountValue : Nat]
<1>1. cart.lines \in Seq(LineSet)
  BY PosAssumption DEF CartSet
<1>2. \A line \in LineSet : line.quantity \in Nat
  OBVIOUS
<1> HIDE DEF LineSet
<1>3. DOMAIN cart.lines = 1 .. Len(cart.lines) /\ Len(cart.lines) \in Nat
  BY <1>1
<1>4. IsFiniteSet(1 .. Len(cart.lines))
  BY <1>3, FS_Interval
<1> QED BY <1>1, <1>2, <1>3, <1>4

LEMMA QuantityIsNat ==
    ASSUME NEW cart \in Carts, NEW p
    PROVE  Quantity(cart, p) \in Nat
<1> DEFINE S == {j \in DOMAIN cart.lines : cart.lines[j].product = p}
           f == [i \in S |-> cart.lines[i].quantity]
<1>1. IsFiniteSet(S) /\ \A i \in S : cart.lines[i].quantity \in Nat
  BY LinesAreFinite, FS_Subset
<1>2. DOMAIN f = S /\ \A i \in DOMAIN f : f[i] \in Nat
  BY <1>1
<1>3. Quantity(cart, p) = SumOf(f)
  BY DEF Quantity
<1> HIDE DEF S, f
<1> QED BY <1>1, <1>2, <1>3, SumOfNat

(* The column of an amount over the lines of a sale. *)
Column(lines, field) == [i \in DOMAIN lines |-> lines[i][field]]

LEMMA TotalsAreSums ==
    ASSUME NEW lines \in Seq(Amounts), NEW field \in AmountFields
    PROVE  /\ Totals(lines)[field] = SumOf(Column(lines, field))
           /\ DOMAIN Column(lines, field) = DOMAIN lines
           /\ IsFiniteSet(DOMAIN lines)
           /\ \A i \in DOMAIN lines : /\ Column(lines, field)[i] = lines[i][field]
                                      /\ lines[i][field] \in Nat
           /\ Totals(lines)[field] \in Nat
<1>1. DOMAIN lines = 1 .. Len(lines) /\ Len(lines) \in Nat
  OBVIOUS
<1>2. IsFiniteSet(DOMAIN lines)
  BY <1>1, FS_Interval
<1>3. \A a \in Amounts : a[field] \in Nat
  BY DEF Amounts, AmountFields
<1>4. \A i \in DOMAIN lines : lines[i][field] \in Nat
  <2>1. \A i \in DOMAIN lines : lines[i] \in Amounts
    BY <1>1
  <2> QED BY <1>3, <2>1
<1>5. Totals(lines)[field] = SumOf(Column(lines, field))
  BY DEF Totals, Column
<1>6. /\ DOMAIN Column(lines, field) = DOMAIN lines
      /\ \A i \in DOMAIN lines : Column(lines, field)[i] = lines[i][field]
  BY DEF Column
<1>7. SumOf(Column(lines, field)) \in Nat
  BY <1>2, <1>4, <1>6, SumOfNat
<1> QED BY <1>2, <1>4, <1>5, <1>6, <1>7

LEMMA TotalsType ==
    ASSUME NEW lines \in Seq(Amounts)
    PROVE  Totals(lines) \in [AmountFields -> Nat]
<1>1. \A field \in AmountFields : Totals(lines)[field] \in Nat
  BY TotalsAreSums
<1>2. Totals(lines) = [field \in AmountFields |-> Totals(lines)[field]]
  BY DEF Totals
<1> QED BY <1>1, <1>2

(* Two columns that make a third line by line make its total. *)
LEMMA ColumnsAddUp ==
    ASSUME NEW lines \in Seq(Amounts),
           NEW a \in AmountFields, NEW b \in AmountFields, NEW c \in AmountFields,
           \A i \in DOMAIN lines : lines[i][a] + lines[i][b] = lines[i][c]
    PROVE  Totals(lines)[a] + Totals(lines)[b] = Totals(lines)[c]
<1> DEFINE f == Column(lines, a)
           g == Column(lines, b)
           h == Column(lines, c)
<1>1. /\ DOMAIN f = DOMAIN lines /\ DOMAIN g = DOMAIN lines /\ DOMAIN h = DOMAIN lines
      /\ IsFiniteSet(DOMAIN lines)
      /\ Totals(lines)[a] = SumOf(f) /\ Totals(lines)[b] = SumOf(g)
      /\ Totals(lines)[c] = SumOf(h)
      /\ \A i \in DOMAIN lines : /\ f[i] = lines[i][a] /\ g[i] = lines[i][b] /\ h[i] = lines[i][c]
                                 /\ lines[i][a] \in Nat /\ lines[i][b] \in Nat
  BY TotalsAreSums
<1> HIDE DEF f, g, h
<1>2. \A i \in DOMAIN f : f[i] \in Int /\ g[i] \in Int /\ h[i] = f[i] + g[i]
  BY <1>1
<1>3. SumOf(h) = SumOf(f) + SumOf(g)
  BY <1>1, <1>2, SumOfPlus
<1> QED BY <1>1, <1>3

(* What LineAddsUp says of the lines of a sale holds of its totals. *)
LEMMA SaleAddsUp ==
    ASSUME NEW cart \in Carts, NEW table \in RateTables,
           NEW lines, lines = Lines(cart, table)
    PROVE  LET AddsUp(a) ==
                 /\ a["taxable"] + a["tax"] = a["total"]
                 /\ a["cgst"] + a["sgst"] + a["igst"] = a["tax"]
                 /\ a["gross"] - a["discount"] =
                       IF cart.mode = "INCLUSIVE" THEN a["total"] ELSE a["taxable"]
           IN  /\ AddsUp(Totals(lines))
               /\ \A i \in DOMAIN lines :
                     /\ AddsUp(lines[i])
                     /\ lines[i].cgst - lines[i].sgst \in
                           IF cart.intra THEN {0, 1} ELSE {0}
<1>1. lines \in Seq(Amounts)
  BY LinesAreAmounts
<1>2. ASSUME NEW i \in DOMAIN lines
      PROVE  /\ lines[i].taxable + lines[i].tax = lines[i].total
             /\ lines[i].cgst + lines[i].sgst + lines[i].igst = lines[i].tax
             /\ lines[i].gross - lines[i].discount =
                   IF cart.mode = "INCLUSIVE" THEN lines[i].total ELSE lines[i].taxable
             /\ lines[i].cgst - lines[i].sgst \in (IF cart.intra THEN {0, 1} ELSE {0})
             /\ lines[i] \in Amounts
  <2> DEFINE input == cart.lines[i]
             r == table[input.product]
             line == lines[i]
  <2>1. i \in DOMAIN cart.lines /\ line = CalculatedLine(input, r, cart.mode, cart.intra)
    BY DEF Lines
  <2>2. /\ cart.mode \in PriceModes /\ cart.intra \in BOOLEAN
        /\ LineInput(input) /\ Discountable(input) /\ r \in Nat
    BY <2>1, LineOfCart
  <2>3. line \in Amounts
    BY <2>1, <2>2, LineIsPositive
  <2> HIDE DEF input, r
  <2>4. LET m == cart.mode
            n == cart.intra
        IN  /\ line.taxable + line.tax = line.total
            /\ line.cgst + line.sgst + line.igst = line.tax
            /\ line.gross - line.discount =
                  IF m = "INCLUSIVE" THEN line.total ELSE line.taxable
            /\ line.cgst - line.sgst \in (IF n THEN {0, 1} ELSE {0})
    <3> HIDE DEF line
    <3> QED BY <2>1, <2>2, LineAddsUp
  <2> QED BY <2>3, <2>4
<1>3. \A i \in DOMAIN lines :
         /\ lines[i].taxable \in Nat /\ lines[i].tax \in Nat /\ lines[i].total \in Nat
         /\ lines[i].cgst \in Nat /\ lines[i].sgst \in Nat /\ lines[i].igst \in Nat
         /\ lines[i].gross \in Nat /\ lines[i].discount \in Nat
  BY <1>2 DEF Amounts
<1> DEFINE total == Totals(lines)
<1>4. \A field \in AmountFields : total[field] \in Nat
  BY <1>1, TotalsAreSums
<1>5. total["taxable"] + total["tax"] = total["total"]
  BY <1>1, <1>2, ColumnsAddUp DEF AmountFields
<1>6. total["cgst"] + total["sgst"] + total["igst"] = total["tax"]
  <2> DEFINE f == Column(lines, "cgst")
             g == Column(lines, "sgst")
             k == Column(lines, "igst")
             h == Column(lines, "tax")
             fg == [i \in DOMAIN lines |-> lines[i].cgst + lines[i].sgst]
  <2>1. /\ DOMAIN f = DOMAIN lines /\ DOMAIN g = DOMAIN lines
        /\ DOMAIN h = DOMAIN lines /\ DOMAIN k = DOMAIN lines
        /\ IsFiniteSet(DOMAIN lines)
        /\ total["cgst"] = SumOf(f) /\ total["sgst"] = SumOf(g)
        /\ total["igst"] = SumOf(k) /\ total["tax"] = SumOf(h)
        /\ \A i \in DOMAIN lines : /\ f[i] = lines[i].cgst /\ g[i] = lines[i].sgst
                                   /\ k[i] = lines[i].igst /\ h[i] = lines[i].tax
    BY <1>1, TotalsAreSums DEF AmountFields
  <2>2. DOMAIN fg = DOMAIN lines /\ \A i \in DOMAIN lines : fg[i] = lines[i].cgst + lines[i].sgst
    OBVIOUS
  <2> HIDE DEF f, g, h, k, fg, total
  <2>3. \A i \in DOMAIN f : f[i] \in Int /\ g[i] \in Int /\ fg[i] = f[i] + g[i]
    BY <1>3, <2>1, <2>2
  <2>4. SumOf(fg) = SumOf(f) + SumOf(g)
    BY <2>1, <2>2, <2>3, SumOfPlus
  <2>5. \A i \in DOMAIN fg : fg[i] \in Int /\ k[i] \in Int /\ h[i] = fg[i] + k[i]
    BY <1>2, <1>3, <2>1, <2>2
  <2>6. SumOf(h) = SumOf(fg) + SumOf(k)
    BY <2>1, <2>2, <2>5, SumOfPlus
  <2> QED BY <2>1, <2>4, <2>6
<1>7. total["gross"] - total["discount"] =
         IF cart.mode = "INCLUSIVE" THEN total["total"] ELSE total["taxable"]
  <2>1. CASE cart.mode = "INCLUSIVE"
    <3>1. \A i \in DOMAIN lines : lines[i]["total"] + lines[i]["discount"] = lines[i]["gross"]
      BY <1>2, <1>3, <2>1
    <3>2. total["total"] + total["discount"] = total["gross"]
      BY <1>1, <3>1, ColumnsAddUp DEF AmountFields
    <3> HIDE DEF total
    <3> QED BY <1>4, <2>1, <3>2 DEF AmountFields
  <2>2. CASE cart.mode # "INCLUSIVE"
    <3>1. \A i \in DOMAIN lines : lines[i]["taxable"] + lines[i]["discount"] = lines[i]["gross"]
      BY <1>2, <1>3, <2>2
    <3>2. total["taxable"] + total["discount"] = total["gross"]
      BY <1>1, <3>1, ColumnsAddUp DEF AmountFields
    <3> HIDE DEF total
    <3> QED BY <1>4, <2>2, <3>2 DEF AmountFields
  <2> QED BY <2>1, <2>2
<1> HIDE DEF total
<1> QED BY <1>2, <1>5, <1>6, <1>7 DEF total

-----------------------------------------------------------------------------
LEMMA InvInitially == PosInit => PosInv
<1> SUFFICES ASSUME PosInit PROVE PosInv
  OBVIOUS
<1>1. sales = << >> /\ DOMAIN sales = {} /\ sales \in Seq(SaleShape)
  BY DEF PosInit
<1>2. ShapeOK
  BY <1>1 DEF PosInit, ShapeOK, TillRows
<1>3. OneSalePerCheckout
  BY <1>1 DEF OneSalePerCheckout
<1>4. SoldIsStored
  BY DEF PosInit, SoldIsStored, NoRequest
<1>5. ReceiptsShowTheSale
  BY DEF PosInit, ReceiptsShowTheSale, NoAnswer
<1> QED BY <1>2, <1>3, <1>4, <1>5 DEF PosInv

(* A row edited in place keeps the invariant. *)
LEMMA EditKeepsInv ==
    ASSUME PosInv, NEW s \in DOMAIN sales, NEW row \in SaleShape,
           row.id = sales[s].id, row.totals = sales[s].totals,
           sales' = [sales EXCEPT ![s] = row], UNCHANGED <<rate, till, handler>>
    PROVE  PosInv'
<1>1. sales \in Seq(SaleShape)
  BY DEF PosInv, ShapeOK
<1>2. sales' \in Seq(SaleShape) /\ DOMAIN sales' = DOMAIN sales
  BY <1>1
<1>3. \A i \in DOMAIN sales :
         sales'[i].id = sales[i].id /\ sales'[i].totals = sales[i].totals
  BY <1>1
<1>4. ShapeOK'
  BY <1>2 DEF PosInv, ShapeOK
<1>5. OneSalePerCheckout'
  BY <1>2, <1>3 DEF PosInv, OneSalePerCheckout
<1>6. SoldIsStored'
  BY <1>2, <1>3 DEF PosInv, SoldIsStored
<1>7. \A id : SaleOf(id)' = SaleOf(id)
  BY <1>2, <1>3 DEF SaleOf
<1>8. ReceiptsShowTheSale'
  BY <1>2, <1>3, <1>7 DEF PosInv, ReceiptsShowTheSale, SaleOf
<1> QED BY <1>4, <1>5, <1>6, <1>8 DEF PosInv

(* Answering keeps the invariant when a success names the sale of the id. *)
LEMMA AnswerKeepsInv ==
    ASSUME PosInv, NEW h \in Handlers, handler[h] # NoRequest,
           NEW result \in Results, NEW s \in Nat, NEW payment \in BOOLEAN,
           NEW total \in {Totals(lines)["total"] : lines \in Seq(Amounts)} \cup {0},
           result \in {"sold", "duplicate", "unpaid"} =>
              s \in SaleOf(handler[h].id) /\ total = sales[s].totals["total"],
           Answer(h, result, s, total, payment), UNCHANGED <<rate, stock, sales>>
    PROVE  PosInv'
<1> DEFINE t == handler[h].till
           shown == [result |-> result, id |-> handler[h].id, sale |-> s,
                     total |-> total, payment |-> payment]
<1>1. /\ handler[h] \in Requests /\ t \in Tills /\ handler[h].id \in Ids
      /\ shown \in Shown
  BY DEF PosInv, ShapeOK, Requests, Shown
<1>2. \/ till' = till
      \/ \E n \in Nat \ {0} : till' = [till EXCEPT ![t] = [n |-> n, shown |-> shown, waits |-> {}]]
  <2>1. till[t] \in TillRows
    BY <1>1 DEF PosInv, ShapeOK
  <2>2. CASE h \notin till[t].waits
    BY <2>2, Zenon DEF Answer
  <2>3. CASE h \in till[t].waits
    <3> DEFINE n == IF result \in {"sold", "duplicate", "unpaid"} THEN till[t].n + 1 ELSE till[t].n
    <3>1. n \in Nat \ {0}
      BY <2>1 DEF TillRows
    <3>2. till' = [till EXCEPT ![t] = [n |-> n, shown |-> shown, waits |-> {}]]
      BY <2>3, Zenon DEF Answer
    <3> QED BY <3>1, <3>2
  <2> QED BY <2>2, <2>3
<1>3. handler' = [handler EXCEPT ![h] = NoRequest]
  BY DEF Answer
<1> HIDE DEF t, shown
<1>4. \A u \in Tills : till'[u].shown \in {till[u].shown, shown}
  BY <1>1, <1>2 DEF PosInv, ShapeOK
<1>5. ShapeOK'
  <2>1. till' \in [Tills -> TillRows]
    BY <1>1, <1>2 DEF PosInv, ShapeOK, TillRows
  <2>2. handler' \in [Handlers -> Requests \cup {NoRequest}]
    BY <1>3 DEF PosInv, ShapeOK
  <2> QED BY <2>1, <2>2 DEF PosInv, ShapeOK
<1>6. OneSalePerCheckout'
  BY DEF PosInv, OneSalePerCheckout
<1>7. SoldIsStored'
  BY <1>3 DEF PosInv, ShapeOK, SoldIsStored, NoRequest
<1>8. ReceiptsShowTheSale'
  <2> SUFFICES ASSUME NEW u \in Tills,
                      till'[u].shown.result \in {"sold", "duplicate", "unpaid"}
               PROVE  /\ till'[u].shown.sale \in SaleOf(till'[u].shown.id)
                      /\ till'[u].shown.total = sales[till'[u].shown.sale].totals["total"]
    BY DEF ReceiptsShowTheSale, SaleOf
  <2>1. CASE till'[u].shown = till[u].shown
    BY <2>1 DEF PosInv, ReceiptsShowTheSale
  <2>2. CASE till'[u].shown = shown
    BY <2>2 DEF shown
  <2> QED BY <1>4, <2>1, <2>2
<1> QED BY <1>5, <1>6, <1>7, <1>8 DEF PosInv

(* Handlers that move on and tills that wait or give up keep the invariant, *)
(* when each handler past its transaction points at the sale of its id.    *)
LEMMA MoveKeepsInv ==
    ASSUME PosInv, UNCHANGED <<rate, sales>>,
           handler' \in [Handlers -> Requests \cup {NoRequest}],
           \A h \in Handlers : handler'[h] # handler[h] =>
              (handler'[h].phase = "sold" => handler'[h].sale \in SaleOf(handler'[h].id)),
           till' \in [Tills -> TillRows],
           \A t \in Tills : till'[t].shown \in {till[t].shown, NoAnswer}
    PROVE  PosInv'
<1>1. ShapeOK'
  BY DEF PosInv, ShapeOK
<1>2. OneSalePerCheckout'
  BY DEF PosInv, OneSalePerCheckout
<1>3. SoldIsStored'
  BY DEF PosInv, SoldIsStored, SaleOf
<1>4. ReceiptsShowTheSale'
  BY DEF PosInv, ReceiptsShowTheSale, SaleOf, NoAnswer
<1> QED BY <1>1, <1>2, <1>3, <1>4 DEF PosInv

(* A tender is one of a till that previewed at the present rates, or none. *)
LEMMA SubmitKeepsInv ==
    ASSUME PosInv, NEW t \in Tills, NEW h \in Handlers, NEW cart \in Carts,
           NEW tender \in Tenders, Submit(t, h, cart, tender)
    PROVE  PosInv'
<1> DEFINE request == [phase |-> "received", till |-> t, id |-> <<t, till[t].n>>,
                       cart |-> cart, tender |-> tender, sale |-> 0]
<1>1. tender \in {PayLater, Unquoted} \cup QuoteShape
  BY DEF Tenders, Quote, QuoteShape, PosInv, ShapeOK
<1>2. till[t] \in TillRows /\ till[t].n \in Nat \ {0}
  BY DEF PosInv, ShapeOK, TillRows
<1>3. <<t, till[t].n>> \in Ids
  BY <1>2 DEF Submit, Ids
<1>4. request \in Requests /\ request.phase # "sold"
  BY <1>1, <1>3 DEF Requests
<1> HIDE DEF request
<1>5. handler' = [handler EXCEPT ![h] = request]
  BY DEF Submit, request
<1>6. /\ handler' \in [Handlers -> Requests \cup {NoRequest}]
      /\ \A g \in Handlers : handler'[g] # handler[g] => handler'[g].phase # "sold"
  BY <1>4, <1>5 DEF PosInv, ShapeOK
<1>7. /\ till' \in [Tills -> TillRows]
      /\ \A u \in Tills : till'[u].shown \in {till[u].shown, NoAnswer}
  BY DEF Submit, PosInv, ShapeOK, TillRows
<1> QED BY <1>6, <1>7, MoveKeepsInv DEF Submit

LEMMA GiveUpKeepsInv ==
    ASSUME PosInv, NEW t \in Tills, GiveUp(t)
    PROVE  PosInv'
<1>1. /\ till' \in [Tills -> TillRows]
      /\ \A u \in Tills : till'[u].shown \in {till[u].shown, NoAnswer}
  BY DEF GiveUp, PosInv, ShapeOK, TillRows
<1>2. handler' = handler /\ handler \in [Handlers -> Requests \cup {NoRequest}]
  BY DEF GiveUp, PosInv, ShapeOK
<1> QED BY <1>1, <1>2, MoveKeepsInv DEF GiveUp

LEMMA LookupKeepsInv ==
    ASSUME PosInv, NEW h \in Handlers, Lookup(h)
    PROVE  PosInv'
<1>1. handler[h] # NoRequest /\ handler[h] \in Requests
  BY DEF Lookup, NoRequest, PosInv, ShapeOK
<1>2. CASE \E s \in SaleOf(handler[h].id) : Known(h, s)
  <2>1. PICK s \in SaleOf(handler[h].id) : Known(h, s)
    BY <1>2
  <2>2. s \in DOMAIN sales /\ s \in Nat /\ sales[s] \in SaleShape
    BY DEF SaleOf, PosInv, ShapeOK
  <2>3. sales[s].paid \in BOOLEAN
    BY <2>2 DEF SaleShape
  <2>4. sales[s].totals["total"] \in {Totals(lines)["total"] : lines \in Seq(Amounts)}
    BY <2>2, SaleAmount
  <2> QED BY <1>1, <2>1, <2>2, <2>3, <2>4, AnswerKeepsInv DEF Known, Lookup, Results
<1>3. CASE handler' = [handler EXCEPT ![h].phase = "new"] /\ UNCHANGED till
  <2>1. [handler[h] EXCEPT !.phase = "new"] \in Requests
    BY <1>1 DEF Requests
  <2>2. handler' = [handler EXCEPT ![h] = [handler[h] EXCEPT !.phase = "new"]]
    BY <1>3
  <2>3. /\ handler' \in [Handlers -> Requests \cup {NoRequest}]
        /\ \A g \in Handlers : handler'[g] # handler[g] => handler'[g].phase # "sold"
    BY <1>1, <2>1, <2>2 DEF PosInv, ShapeOK, Requests
  <2>4. /\ till' \in [Tills -> TillRows]
        /\ \A u \in Tills : till'[u].shown \in {till[u].shown, NoAnswer}
    BY <1>3 DEF PosInv, ShapeOK
  <2> QED BY <2>3, <2>4, MoveKeepsInv DEF Lookup
<1> QED BY <1>2, <1>3 DEF Lookup

LEMMA RefuseKeepsInv ==
    ASSUME PosInv, NEW h \in Handlers, Refuse(h)
    PROVE  PosInv'
<1>1. handler[h] # NoRequest /\ "refused" \in Results /\ FALSE \in BOOLEAN /\ 0 \in Nat
  BY DEF Refuse, NoRequest, Results
<1>2. Answer(h, "refused", 0, 0, FALSE) /\ UNCHANGED <<rate, stock, sales>>
  BY DEF Refuse
<1>3. "refused" \notin {"sold", "duplicate", "unpaid"}
  OBVIOUS
<1> QED BY <1>1, <1>2, <1>3, AnswerKeepsInv

(* The tender of a finalized sale: whatever is said of it, the sale is the *)
(* stored one.                                                             *)
LEMMA ConcludeKeepsInv ==
    ASSUME PosInv, NEW h \in Handlers, NEW short \in BOOLEAN, Conclude(h, short)
    PROVE  PosInv'
<1> DEFINE s == handler[h].sale
<1>1. handler[h] # NoRequest /\ Outcome(h, short) \in Results
  BY DEF Conclude, NoRequest, Outcome, Results
<1>2. s \in SaleOf(handler[h].id)
  BY DEF Conclude, PosInv, SoldIsStored, SaleOf
<1>3. s \in Nat /\ sales[s] \in SaleShape
  BY <1>2 DEF SaleOf, PosInv, ShapeOK
<1>4. sales[s].totals["total"] \in {Totals(lines)["total"] : lines \in Seq(Amounts)}
  BY <1>3, SaleAmount
<1> QED BY <1>1, <1>2, <1>3, <1>4, AnswerKeepsInv DEF Conclude

LEMMA DieKeepsInv ==
    ASSUME PosInv, NEW h \in Handlers, Die(h)
    PROVE  PosInv'
<1>1. /\ handler' \in [Handlers -> Requests \cup {NoRequest}]
      /\ \A g \in Handlers : handler'[g] # handler[g] => handler'[g].phase # "sold"
  BY DEF Die, PosInv, ShapeOK, NoRequest
<1>2. /\ till' \in [Tills -> TillRows]
      /\ \A u \in Tills : till'[u].shown \in {till[u].shown, NoAnswer}
  BY DEF Die, PosInv, ShapeOK
<1> QED BY <1>1, <1>2, MoveKeepsInv DEF Die

-----------------------------------------------------------------------------
(* The transaction: the id had no sale, so the new one is its only one,    *)
(* and what pointed at a sale still does.                                  *)
LEMMA SellKeepsInv ==
    ASSUME PosInv, NEW h \in Handlers, handler[h].phase = "new",
           SaleOf(handler[h].id) = {}, Sell(h), UNCHANGED <<rate, till>>
    PROVE  PosInv'
<1> DEFINE cart == handler[h].cart
           row == [id |-> handler[h].id, cart |-> cart, rates |-> rate, lines |-> Lines(cart, rate),
                   totals |-> Totals(Lines(cart, rate)), status |-> "FINALIZED", paid |-> FALSE]
           request == [handler[h] EXCEPT !.phase = "sold", !.sale = Len(sales) + 1]
<1>1. handler[h] \in Requests /\ sales \in Seq(SaleShape) /\ rate \in RateTables
      /\ Len(sales) \in Nat
  BY DEF PosInv, ShapeOK, NoRequest
<1>2. row \in SaleShape /\ row.id = handler[h].id
  <2>1. handler[h].id \in Ids /\ cart \in Carts
    BY <1>1 DEF Requests
  <2>2. FALSE \in BOOLEAN /\ "FINALIZED" \in {"FINALIZED", "CANCELLED"}
    OBVIOUS
  <2> HIDE DEF cart
  <2>3. row \in SaleShape
    BY <1>1, <2>1, <2>2, ARow
  <2> QED BY <2>3
<1>3. request \in Requests /\ request.sale = Len(sales) + 1 /\ request.id = handler[h].id
  <2> DEFINE new == Len(sales) + 1
  <2>1. new \in Nat
    BY <1>1
  <2> HIDE DEF new
  <2>2. [handler[h] EXCEPT !.phase = "sold", !.sale = new] \in Requests
    BY <1>1, <2>1 DEF Requests
  <2>3. /\ [handler[h] EXCEPT !.phase = "sold", !.sale = new].sale = new
        /\ [handler[h] EXCEPT !.phase = "sold", !.sale = new].id = handler[h].id
    BY <1>1 DEF Requests
  <2> QED BY <2>2, <2>3 DEF new
<1> HIDE DEF row, request
<1>4. sales' = Append(sales, row)
  BY Zenon DEF Sell, row
<1>5. handler' = [handler EXCEPT ![h] = request]
  BY DEF Sell, request, PosInv, ShapeOK
<1>6. /\ sales' \in Seq(SaleShape)
      /\ DOMAIN sales = 1 .. Len(sales)
      /\ DOMAIN sales' = 1 .. (Len(sales) + 1)
      /\ sales'[Len(sales) + 1] = row
      /\ \A s \in DOMAIN sales : s \in DOMAIN sales' /\ sales'[s] = sales[s]
  BY <1>1, <1>2, <1>4
<1>7. ShapeOK'
  BY <1>3, <1>5, <1>6 DEF PosInv, ShapeOK
<1>8. OneSalePerCheckout'
  <2>1. \A s \in DOMAIN sales : sales[s].id # handler[h].id
    BY DEF SaleOf
  <2>2. \A s \in DOMAIN sales' : s \in DOMAIN sales \/ s = Len(sales) + 1
    BY <1>1, <1>6
  <2> QED BY <1>2, <1>6, <2>1, <2>2 DEF PosInv, OneSalePerCheckout
<1>9. SoldIsStored'
  <2>1. Len(sales) + 1 \in DOMAIN sales'
    BY <1>1, <1>6
  <2> QED BY <1>1, <1>2, <1>3, <1>5, <1>6, <2>1 DEF PosInv, ShapeOK, SoldIsStored
<1>10. ReceiptsShowTheSale'
  BY <1>6 DEF PosInv, ReceiptsShowTheSale, SaleOf
<1> QED BY <1>7, <1>8, <1>9, <1>10 DEF PosInv

LEMMA FinalizeKeepsInv ==
    ASSUME PosInv, NEW h \in Handlers, Finalize(h)
    PROVE  PosInv'
<1>1. handler[h] # NoRequest /\ handler[h] \in Requests
  BY DEF Finalize, NoRequest, PosInv, ShapeOK
<1>2. CASE \E s \in SaleOf(handler[h].id) :
             /\ handler' = [handler EXCEPT ![h].phase = "sold", ![h].sale = s]
             /\ UNCHANGED <<stock, sales>>
  <2>1. PICK s \in SaleOf(handler[h].id) :
             /\ handler' = [handler EXCEPT ![h].phase = "sold", ![h].sale = s]
             /\ UNCHANGED <<stock, sales>>
    BY <1>2
  <2> DEFINE request == [handler[h] EXCEPT !.phase = "sold", !.sale = s]
  <2>2. s \in Nat
    BY DEF SaleOf, PosInv, ShapeOK
  <2>3. request \in Requests /\ request.sale = s /\ request.id = handler[h].id
    BY <1>1, <2>2 DEF Requests
  <2>4. handler' = [handler EXCEPT ![h] = request]
    BY <2>1 DEF PosInv, ShapeOK
  <2> HIDE DEF request
  <2>5. /\ handler' \in [Handlers -> Requests \cup {NoRequest}]
        /\ \A g \in Handlers : handler'[g] # handler[g] =>
              handler'[g].sale \in SaleOf(handler'[g].id)
    BY <2>1, <2>3, <2>4 DEF PosInv, ShapeOK
  <2>6. /\ till' \in [Tills -> TillRows]
        /\ \A u \in Tills : till'[u].shown \in {till[u].shown, NoAnswer}
    BY DEF Finalize, PosInv, ShapeOK
  <2> QED BY <2>1, <2>5, <2>6, MoveKeepsInv DEF Finalize
<1>3. CASE SaleOf(handler[h].id) = {} /\ Sell(h)
  BY <1>3, SellKeepsInv DEF Finalize
<1> QED BY <1>2, <1>3 DEF Finalize

-----------------------------------------------------------------------------
LEMMA StepKeepsInv ==
    ASSUME PosInv, [PosNext]_posVars
    PROVE  PosInv'
<1>1. ASSUME NEW t \in Tills, NEW h \in Handlers, NEW cart \in Carts, NEW tender \in Tenders,
             Submit(t, h, cart, tender)
      PROVE  PosInv'
  BY <1>1, SubmitKeepsInv
<1>2. ASSUME NEW t \in Tills, GiveUp(t)
      PROVE  PosInv'
  BY <1>2, GiveUpKeepsInv
<1>3. ASSUME NEW h \in Handlers,
             Lookup(h) \/ Finalize(h) \/ Refuse(h) \/ Die(h)
             \/ \E short \in BOOLEAN : Conclude(h, short)
      PROVE  PosInv'
  BY <1>3, LookupKeepsInv, FinalizeKeepsInv, RefuseKeepsInv, DieKeepsInv, ConcludeKeepsInv
<1>4. ASSUME NEW p \in Products, NEW r \in Rates[p], EditProduct(p, r)
      PROVE  PosInv'
  <2>1. rate' \in RateTables
    <3>1. rate' = [rate EXCEPT ![p] = r] /\ rate \in RateTables
      BY <1>4 DEF EditProduct, PosInv, ShapeOK
    <3>2. r \in UNION {Rates[q] : q \in Products}
      OBVIOUS
    <3> QED BY <3>1, <3>2 DEF RateTables
  <2>2. ShapeOK'
    BY <1>4, <2>1 DEF EditProduct, PosInv, ShapeOK
  <2>3. OneSalePerCheckout' /\ SoldIsStored'
    BY <1>4 DEF EditProduct, PosInv, OneSalePerCheckout, SoldIsStored
  <2>4. ReceiptsShowTheSale'
    BY <1>4 DEF EditProduct, PosInv, ReceiptsShowTheSale, SaleOf
  <2> QED BY <2>2, <2>3, <2>4 DEF PosInv
<1>5. ASSUME NEW s \in DOMAIN sales, CancelSale(s) \/ PostReceipt(s) \/ ReverseReceipt(s)
      PROVE  PosInv'
  <2>1. sales \in Seq(SaleShape) /\ sales[s] \in SaleShape
    BY DEF PosInv, ShapeOK
  <2>2. PICK row \in {[sales[s] EXCEPT !.status = "CANCELLED"],
                      [sales[s] EXCEPT !.paid = TRUE], [sales[s] EXCEPT !.paid = FALSE]} :
           sales' = [sales EXCEPT ![s] = row]
    BY <1>5, <2>1 DEF CancelSale, PostReceipt, ReverseReceipt
  <2>3. row \in SaleShape /\ row.id = sales[s].id /\ row.totals = sales[s].totals
    BY <2>1, SaleRow
  <2>4. UNCHANGED <<rate, till, handler>>
    BY <1>5 DEF CancelSale, PostReceipt, ReverseReceipt
  <2> QED BY <2>2, <2>3, <2>4, EditKeepsInv
<1>6. CASE UNCHANGED posVars
  BY <1>6 DEF posVars, PosInv, ShapeOK, OneSalePerCheckout, SoldIsStored,
              ReceiptsShowTheSale, SaleOf
<1> QED BY <1>1, <1>2, <1>3, <1>4, <1>5, <1>6, Zenon DEF PosNext

LEMMA InvAlways == PosSpec => []PosInv
<1> QED BY InvInitially, StepKeepsInv, PTL DEF PosSpec

(* However often, whenever and by whom a clientCheckoutId is submitted,    *)
(* and wherever handlers die, checkout makes one invoice of it.            *)
THEOREM CheckoutSellsOnce == PosSpec => []OneSalePerCheckout
<1>1. PosInv => OneSalePerCheckout
  BY DEF PosInv
<1> QED BY <1>1, InvAlways, PTL

(* A till that is told its checkout succeeded shows the stored invoice of  *)
(* that checkout and the stored total, retries and edits notwithstanding.  *)
THEOREM TillsShowTheSale == PosSpec => []ReceiptsShowTheSale
<1>1. PosInv => ReceiptsShowTheSale
  BY DEF PosInv
<1> QED BY <1>1, InvAlways, PTL

(* checkout refuses the amount a preview quoted only when the cart or a    *)
(* rate changed in between.                                                *)
THEOREM QuotedTendersHold == PosSpec => []QuotesHold
<1>1. PosInv => QuotesHold
  <2> SUFFICES ASSUME PosInv, NEW h \in Handlers, handler[h].phase = "sold",
                      handler[h].tender \in Quotes, Outcome(h, FALSE) = "amount",
                      handler[h].tender.cart = sales[handler[h].sale].cart,
                      handler[h].tender.rates = sales[handler[h].sale].rates
               PROVE  FALSE
    BY DEF QuotesHold
  <2> DEFINE quote == handler[h].tender
             sale == sales[handler[h].sale]
  <2>1. handler[h] \in Requests /\ sale \in SaleShape
    BY DEF PosInv, ShapeOK, SoldIsStored, NoRequest
  <2>2. quote \in QuoteShape
    <3>1. PayLater \notin Quotes
      BY DEF PayLater, Quotes
    <3>2. Unquoted \notin Quotes
      BY DEF Unquoted, Quotes
    <3> QED BY <2>1, <3>1, <3>2 DEF Requests
  <2>3. quote.amount = Totals(Lines(quote.cart, quote.rates))["total"]
    BY <2>2 DEF QuoteShape
  <2>4. sale.totals = Totals(Lines(sale.cart, sale.rates))
    BY <2>1, SaleRow
  <2>5. quote.amount # sale.totals["total"]
    BY DEF Outcome
  <2> QED BY <2>3, <2>4, <2>5
<1> QED BY <1>1, InvAlways, PTL

(* Of every line of every sale, in both price modes, the tax is the rate   *)
(* its product had, of the taxed part.                                     *)
THEOREM SalesAreTaxedByRate == PosSpec => []TaxFollowsRate
<1>1. PosInv => TaxFollowsRate
  <2> SUFFICES ASSUME PosInv, NEW s \in DOMAIN sales, NEW i \in DOMAIN sales[s].lines
               PROVE  LET line == sales[s].lines[i]
                          r == sales[s].rates[sales[s].cart.lines[i].product]
                          error == 10000 * line.tax - r * line.taxable
                      IN  2 * error <= 10000 + r /\ -2 * error <= 10000 + r
    BY DEF TaxFollowsRate
  <2> DEFINE cart == sales[s].cart
             r == sales[s].rates[cart.lines[i].product]
             line == sales[s].lines[i]
  <2>1. sales[s] \in SaleShape
    BY DEF PosInv, ShapeOK
  <2>2. /\ cart \in Carts /\ sales[s].rates \in RateTables
        /\ sales[s].lines = Lines(cart, sales[s].rates)
    BY <2>1, SaleRow
  <2>3. /\ i \in DOMAIN cart.lines
        /\ line = CalculatedLine(cart.lines[i], r, cart.mode, cart.intra)
    BY <2>2 DEF Lines
  <2>4. /\ LineInput(cart.lines[i]) /\ Discountable(cart.lines[i]) /\ r \in Nat
        /\ cart.mode \in PriceModes /\ cart.intra \in BOOLEAN
    BY <2>2, <2>3, LineOfCart
  <2> HIDE DEF cart, r, line
  <2>5. /\ 2 * (10000 * line.tax - r * line.taxable) <= 10000 + r
        /\ -2 * (10000 * line.tax - r * line.taxable) <= 10000 + r
    BY <2>3, <2>4, LineTaxFollowsRate
  <2> QED BY <2>5 DEF cart, r, line
<1> QED BY <1>1, InvAlways, PTL

-----------------------------------------------------------------------------
(* The stock.  Sold(p) is what the sales that stand took of p; a row more, *)
(* a row cancelled and a row that keeps both change it by what they say.   *)

Standing == {s \in DOMAIN sales : sales[s].status = "FINALIZED"}
Sold(p) == [s \in Standing |-> Quantity(sales[s].cart, p)]

StockOK == stock \in [Tracked -> Nat] /\ StockFollowsSales

LEMMA SoldIsNat ==
    ASSUME PosInv, NEW p
    PROVE  /\ IsFiniteSet(Standing) /\ DOMAIN Sold(p) = Standing
           /\ \A s \in Standing : /\ Sold(p)[s] = Quantity(sales[s].cart, p)
                                  /\ Sold(p)[s] \in Nat
           /\ SumOf(Sold(p)) \in Nat
<1>1. sales \in Seq(SaleShape) /\ DOMAIN sales = 1 .. Len(sales) /\ Len(sales) \in Nat
  BY DEF PosInv, ShapeOK
<1>2. IsFiniteSet(DOMAIN sales)
  BY <1>1, FS_Interval
<1>3. IsFiniteSet(Standing)
  BY <1>2, FS_Subset DEF Standing
<1>4. \A s \in Standing : sales[s].cart \in Carts
  <2>1. \A s \in DOMAIN sales : sales[s] \in SaleShape
    BY <1>1
  <2> QED BY <2>1, SaleRow DEF Standing
<1>5. DOMAIN Sold(p) = Standing /\ \A s \in Standing : Sold(p)[s] = Quantity(sales[s].cart, p)
  BY DEF Sold
<1>6. \A s \in Standing : Sold(p)[s] \in Nat
  BY <1>4, <1>5, QuantityIsNat
<1>7. SumOf(Sold(p)) \in Nat
  BY <1>3, <1>5, <1>6, SumOfNat
<1> QED BY <1>3, <1>5, <1>6, <1>7

LEMMA StockOKDef ==
    StockOK <=> /\ stock \in [Tracked -> Nat]
                /\ \A p \in Tracked : stock[p] >= 0 /\ OpeningStock[p] = stock[p] + SumOf(Sold(p))
BY DEF StockOK, StockFollowsSales, Sold, Standing

LEMMA StockInitially == PosInit => StockOK
<1> SUFFICES ASSUME PosInit PROVE StockOK
  OBVIOUS
<1>1. stock = OpeningStock /\ stock \in [Tracked -> Nat]
  BY PosAssumption DEF PosInit
<1>2. \A p \in Tracked : DOMAIN Sold(p) = {}
  BY DEF PosInit, Sold, Standing
<1>3. \A p \in Tracked : SumOf(Sold(p)) = 0
  BY <1>2, SumOfEmpty
<1>4. \A p \in Tracked : stock[p] \in Nat
  BY <1>1
<1> QED BY <1>1, <1>3, <1>4, StockOKDef

(* Rows that keep their cart and status keep the stock explained. *)
LEMMA SameStanding ==
    ASSUME StockOK, stock' = stock, DOMAIN sales' = DOMAIN sales,
           \A s \in DOMAIN sales : /\ sales'[s].cart = sales[s].cart
                                   /\ sales'[s].status = sales[s].status
    PROVE  StockOK'
<1>1. \A p : Sold(p)' = Sold(p)
  BY DEF Sold, Standing
<1>2. StockOK' <=> /\ stock' \in [Tracked -> Nat]
                   /\ \A p \in Tracked : stock'[p] >= 0
                                         /\ OpeningStock[p] = stock'[p] + SumOf(Sold(p)')
  BY DEF StockOK, StockFollowsSales, Sold, Standing
<1> QED BY <1>1, <1>2, StockOKDef

(* createFinalizedPosInvoice: the new sale takes what its lines add up to, *)
(* and there was enough of it.                                             *)
LEMMA SellKeepsStock ==
    ASSUME PosInv, PosInv', StockOK, NEW h \in Handlers, handler[h].phase = "new", Sell(h)
    PROVE  StockOK'
<1> DEFINE cart == handler[h].cart
           row == [id |-> handler[h].id, cart |-> cart, rates |-> rate,
                   lines |-> Lines(cart, rate), totals |-> Totals(Lines(cart, rate)),
                   status |-> "FINALIZED", paid |-> FALSE]
           n == Len(sales) + 1
<1>1. cart \in Carts
  BY DEF PosInv, ShapeOK, Requests, NoRequest
<1>2. row.cart = cart /\ row.status = "FINALIZED"
  OBVIOUS
<1>3. sales' = Append(sales, row) /\ CanSupply(cart) /\ Supply(cart, -1)
  BY DEF Sell
<1> HIDE DEF row, cart
<1>4. sales \in Seq(SaleShape) /\ Len(sales) \in Nat
  BY DEF PosInv, ShapeOK
<1>5. /\ DOMAIN sales' = DOMAIN sales \cup {n} /\ n \notin DOMAIN sales
      /\ sales'[n] = row /\ \A s \in DOMAIN sales : sales'[s] = sales[s]
  BY <1>3, <1>4
<1> HIDE DEF n
<1>6. Standing' = Standing \cup {n} /\ n \notin Standing
  BY <1>2, <1>5 DEF Standing
<1>7. ASSUME NEW p \in Tracked
      PROVE  SumOf(Sold(p)') = SumOf(Sold(p)) + Quantity(cart, p)
  <2> DEFINE f == Sold(p)
             k == Sold(p)'
  <2>1. /\ IsFiniteSet(Standing) /\ DOMAIN f = Standing
        /\ \A s \in Standing : f[s] = Quantity(sales[s].cart, p) /\ f[s] \in Nat
    BY SoldIsNat
  <2>2. DOMAIN k = Standing' /\ \A s \in Standing' : k[s] = Quantity(sales'[s].cart, p)
    BY DEF Sold, Quantity
  <2>3. k[n] = Quantity(cart, p) /\ Quantity(cart, p) \in Nat
    BY <1>1, <1>2, <1>5, <1>6, <2>2, QuantityIsNat
  <2>4. \A s \in Standing : k[s] = f[s]
    BY <1>5, <1>6, <2>1, <2>2 DEF Standing
  <2>5. IsFiniteSet(Standing')
    BY <1>6, <2>1, FS_AddElement
  <2> HIDE DEF f, k
  <2>6. /\ IsFiniteSet(DOMAIN k) /\ n \in DOMAIN k /\ DOMAIN f = DOMAIN k \ {n}
        /\ \A s \in DOMAIN k : k[s] \in Int
        /\ \A s \in DOMAIN f : f[s] = k[s]
    BY <1>6, <2>1, <2>2, <2>3, <2>4, <2>5
  <2>7. SumOf(k) = SumOf(f) + k[n]
    BY <2>6, SumOfAdded
  <2> QED BY <2>3, <2>7 DEF f, k
<1>8. ASSUME NEW p \in Tracked
      PROVE  stock'[p] = stock[p] - Quantity(cart, p) /\ stock'[p] \in Nat
  <2>1. stock[p] \in Nat /\ Quantity(cart, p) \in Nat /\ Quantity(cart, p) <= stock[p]
    BY <1>1, <1>3, QuantityIsNat, StockOKDef DEF CanSupply
  <2>2. stock'[p] = stock[p] + (-1) * Quantity(cart, p)
    BY <1>3 DEF Supply
  <2> QED BY <2>1, <2>2
<1>9. stock' \in [Tracked -> Nat]
  BY <1>3, <1>8 DEF Supply
<1>10. ASSUME NEW p \in Tracked
       PROVE  stock'[p] >= 0 /\ OpeningStock[p] = stock'[p] + SumOf(Sold(p)')
  <2>1. /\ stock[p] \in Nat /\ SumOf(Sold(p)) \in Nat /\ Quantity(cart, p) \in Nat
        /\ OpeningStock[p] = stock[p] + SumOf(Sold(p))
    BY <1>1, QuantityIsNat, SoldIsNat, StockOKDef
  <2> QED BY <1>7, <1>8, <2>1
<1>11. StockOK' <=> /\ stock' \in [Tracked -> Nat]
                    /\ \A p \in Tracked : stock'[p] >= 0
                                          /\ OpeningStock[p] = stock'[p] + SumOf(Sold(p)')
  BY DEF StockOK, StockFollowsSales, Sold, Standing
<1> QED BY <1>9, <1>10, <1>11

(* InvoicesService.cancel: the sale stood, and gives back what it took. *)
LEMMA CancelKeepsStock ==
    ASSUME PosInv, StockOK, NEW n \in DOMAIN sales, CancelSale(n)
    PROVE  StockOK'
<1> DEFINE cart == sales[n].cart
           row == [sales[n] EXCEPT !.status = "CANCELLED"]
<1>1. sales \in Seq(SaleShape) /\ sales[n] \in SaleShape
  BY DEF PosInv, ShapeOK
<1>2. cart \in Carts
  BY <1>1, SaleRow
<1>3. row.status = "CANCELLED" /\ row.status # "FINALIZED"
  BY <1>1 DEF SaleShape
<1>4. /\ sales[n].status = "FINALIZED" /\ Supply(cart, 1)
      /\ sales' = [sales EXCEPT ![n] = row]
  BY DEF CancelSale
<1> HIDE DEF row
<1>5. /\ DOMAIN sales' = DOMAIN sales /\ sales'[n] = row
      /\ \A s \in DOMAIN sales : s # n => sales'[s] = sales[s]
  BY <1>1, <1>4
<1>6. Standing' = Standing \ {n} /\ n \in Standing
  BY <1>3, <1>4, <1>5 DEF Standing
<1>7. ASSUME NEW p \in Tracked
      PROVE  SumOf(Sold(p)) = SumOf(Sold(p)') + Quantity(cart, p)
  <2> DEFINE f == Sold(p)
             k == Sold(p)'
  <2>1. /\ IsFiniteSet(Standing) /\ DOMAIN f = Standing
        /\ \A s \in Standing : f[s] = Quantity(sales[s].cart, p) /\ f[s] \in Nat
    BY SoldIsNat
  <2>2. DOMAIN k = Standing' /\ \A s \in Standing' : k[s] = Quantity(sales'[s].cart, p)
    BY DEF Sold, Quantity
  <2>3. \A s \in Standing' : k[s] = f[s]
    BY <1>5, <1>6, <2>1, <2>2 DEF Standing
  <2>4. f[n] = Quantity(cart, p)
    BY <1>6, <2>1
  <2> HIDE DEF f, k
  <2>5. SumOf(f) = SumOf(k) + f[n]
    BY <1>6, <2>1, <2>2, <2>3, SumOfAdded
  <2> QED BY <2>4, <2>5 DEF f, k
<1> HIDE DEF cart
<1>8. ASSUME NEW p \in Tracked
      PROVE  stock'[p] = stock[p] + Quantity(cart, p) /\ stock'[p] \in Nat
  <2>1. stock[p] \in Nat /\ Quantity(cart, p) \in Nat
    BY <1>2, QuantityIsNat, StockOKDef
  <2>2. stock'[p] = stock[p] + 1 * Quantity(cart, p)
    BY <1>4 DEF Supply
  <2> QED BY <2>1, <2>2
<1>9. stock' \in [Tracked -> Nat]
  BY <1>4, <1>8 DEF Supply
<1>10. ASSUME NEW p \in Tracked
       PROVE  stock'[p] >= 0 /\ OpeningStock[p] = stock'[p] + SumOf(Sold(p)')
  <2>1. /\ stock[p] \in Nat /\ SumOf(Sold(p)) \in Nat /\ Quantity(cart, p) \in Nat
        /\ OpeningStock[p] = stock[p] + SumOf(Sold(p))
    BY <1>2, QuantityIsNat, SoldIsNat, StockOKDef
  <2>2. SumOf(Sold(p)') \in Int
    <3> DEFINE k == Sold(p)'
    <3>1. DOMAIN k = Standing' /\ \A s \in Standing' : k[s] = Quantity(sales'[s].cart, p)
      BY DEF Sold, Quantity
    <3>2. \A s \in Standing' : k[s] = Sold(p)[s] /\ k[s] \in Nat
      BY <1>5, <1>6, <3>1, SoldIsNat DEF Standing
    <3>3. IsFiniteSet(Standing')
      BY <1>6, SoldIsNat, FS_Subset
    <3> HIDE DEF k
    <3>4. SumOf(k) \in Int
      BY <3>1, <3>2, <3>3, SumOfType
    <3> QED BY <3>4 DEF k
  <2> QED BY <1>7, <1>8, <2>1, <2>2
<1>11. StockOK' <=> /\ stock' \in [Tracked -> Nat]
                    /\ \A p \in Tracked : stock'[p] >= 0
                                          /\ OpeningStock[p] = stock'[p] + SumOf(Sold(p)')
  BY DEF StockOK, StockFollowsSales, Sold, Standing
<1> QED BY <1>9, <1>10, <1>11

LEMMA StepKeepsStock ==
    ASSUME PosInv, PosInv', StockOK, [PosNext]_posVars
    PROVE  StockOK'
<1>1. CASE UNCHANGED <<sales, stock>>
  BY <1>1, SameStanding
<1>2. ASSUME NEW t \in Tills, NEW h \in Handlers, NEW cart \in Carts, NEW tender \in Tenders,
             Submit(t, h, cart, tender)
      PROVE  StockOK'
  BY <1>1, <1>2 DEF Submit
<1>3. ASSUME NEW t \in Tills, GiveUp(t)
      PROVE  StockOK'
  BY <1>1, <1>3 DEF GiveUp
<1>4. ASSUME NEW h \in Handlers,
             Lookup(h) \/ Refuse(h) \/ Die(h) \/ \E short \in BOOLEAN : Conclude(h, short)
      PROVE  StockOK'
  BY <1>1, <1>4 DEF Lookup, Refuse, Die, Conclude
<1>5. ASSUME NEW h \in Handlers, Finalize(h)
      PROVE  StockOK'
  <2>1. CASE Sell(h)
    BY <1>5, <2>1, SellKeepsStock DEF Finalize
  <2>2. CASE UNCHANGED <<stock, sales>>
    BY <1>1, <2>2
  <2> QED BY <1>5, <2>1, <2>2 DEF Finalize
<1>6. ASSUME NEW p \in Products, NEW r \in Rates[p], EditProduct(p, r)
      PROVE  StockOK'
  BY <1>1, <1>6 DEF EditProduct
<1>7. ASSUME NEW s \in DOMAIN sales, CancelSale(s)
      PROVE  StockOK'
  BY <1>7, CancelKeepsStock
<1>8. ASSUME NEW s \in DOMAIN sales, PostReceipt(s) \/ ReverseReceipt(s)
      PROVE  StockOK'
  <2>1. sales \in Seq(SaleShape) /\ sales[s] \in SaleShape
    BY DEF PosInv, ShapeOK
  <2>2. PICK row \in {[sales[s] EXCEPT !.paid = TRUE], [sales[s] EXCEPT !.paid = FALSE]} :
           sales' = [sales EXCEPT ![s] = row]
    BY <1>8 DEF PostReceipt, ReverseReceipt
  <2>3. row.cart = sales[s].cart /\ row.status = sales[s].status
    BY <2>1, <2>2 DEF SaleShape
  <2>4. /\ DOMAIN sales' = DOMAIN sales
        /\ \A i \in DOMAIN sales : /\ sales'[i].cart = sales[i].cart
                                   /\ sales'[i].status = sales[i].status
    BY <2>1, <2>2, <2>3
  <2>5. stock' = stock
    BY <1>8 DEF PostReceipt, ReverseReceipt
  <2> QED BY <2>4, <2>5, SameStanding
<1>9. CASE UNCHANGED posVars
  BY <1>1, <1>9 DEF posVars
<1> QED BY <1>2, <1>3, <1>4, <1>5, <1>6, <1>7, <1>8, <1>9, Zenon DEF PosNext

LEMMA StockAlways == PosSpec => []StockOK
<1> QED BY InvInitially, StepKeepsInv, StockInitially, StepKeepsStock, InvAlways, PTL DEF PosSpec

-----------------------------------------------------------------------------
(* A reachable state is one the tables can hold. *)
LEMMA ShapeIsTyped ==
    ASSUME PosInv, StockOK
    PROVE  PosTypeOK
<1>1. \A lines \in Seq(Amounts) : Totals(lines) \in [AmountFields -> Nat]
  BY TotalsType
<1>2. SaleShape \subseteq SaleRows
  <2> SUFFICES ASSUME NEW id \in Ids, NEW cart \in Carts, NEW table \in RateTables,
                      NEW status \in {"FINALIZED", "CANCELLED"}, NEW paid \in BOOLEAN
               PROVE  [id |-> id, cart |-> cart, rates |-> table, lines |-> Lines(cart, table),
                       totals |-> Totals(Lines(cart, table)), status |-> status,
                       paid |-> paid] \in SaleRows
    BY DEF SaleShape
  <2>1. Lines(cart, table) \in Seq(Amounts)
    BY LinesAreAmounts
  <2>2. Totals(Lines(cart, table)) \in [AmountFields -> Nat]
    BY <1>1, <2>1
  <2> QED BY <2>1, <2>2 DEF SaleRows
<1>3. sales \in Seq(SaleRows)
  BY <1>2 DEF PosInv, ShapeOK
<1>4. QuoteShape \subseteq Quotes
  <2> SUFFICES ASSUME NEW cart \in Carts, NEW table \in RateTables
               PROVE  [mode |-> "RECORDED_PAYMENT",
                       amount |-> Totals(Lines(cart, table))["total"],
                       cart |-> cart, rates |-> table] \in Quotes
    BY DEF QuoteShape
  <2>1. Totals(Lines(cart, table))["total"] \in Nat
    BY <1>1, LinesAreAmounts DEF AmountFields
  <2> QED BY <2>1 DEF Quotes
<1>5. Requests \subseteq Checkouts
  BY <1>4 DEF Requests, Checkouts
<1>6. Shown \subseteq Answers
  <2>1. {Totals(lines)["total"] : lines \in Seq(Amounts)} \cup {0} \subseteq Nat
    BY <1>1 DEF AmountFields
  <2> QED BY <2>1 DEF Shown, Answers
<1>7. till \in [Tills -> [n : Nat, shown : Answers \cup {NoAnswer}, waits : SUBSET Handlers]]
  <2>1. TillRows \subseteq [n : Nat, shown : Answers \cup {NoAnswer}, waits : SUBSET Handlers]
    BY <1>6 DEF TillRows
  <2> QED BY <2>1 DEF PosInv, ShapeOK
<1>8. handler \in [Handlers -> Checkouts \cup {NoRequest}]
  BY <1>5 DEF PosInv, ShapeOK
<1> QED BY <1>3, <1>7, <1>8 DEF PosTypeOK, PosInv, ShapeOK, StockOK

(* Sales, tills, requests and stock keep their types: every amount of a    *)
(* stored sale and of an answer is a natural number, and so is the stock,  *)
(* for any carts, rates and interleaving of checkouts.                     *)
THEOREM CheckoutTypeOK == PosSpec => []PosTypeOK
<1> QED BY ShapeIsTyped, InvAlways, StockAlways, PTL

(* The stock of a product is its opening stock less what the sales that    *)
(* stand took, and never negative: repeated lines of a product, retried    *)
(* checkouts and cancellations notwithstanding.                            *)
THEOREM StockIsWhatSalesLeft == PosSpec => []StockFollowsSales
<1>1. StockOK => StockFollowsSales
  BY DEF StockOK
<1> QED BY <1>1, StockAlways, PTL

(* Rounding loses no paisa of a stored sale, on any line or in its totals: *)
(* taxed part and tax make the total, the halves make the tax, and the     *)
(* discount is off the price.                                              *)
THEOREM SalesAddUp == PosSpec => []AmountsAddUp
<1>1. PosInv => AmountsAddUp
  <2> SUFFICES ASSUME PosInv, NEW s \in DOMAIN sales
               PROVE  LET sale == sales[s]
                          AddsUp(a) ==
                             /\ a["taxable"] + a["tax"] = a["total"]
                             /\ a["cgst"] + a["sgst"] + a["igst"] = a["tax"]
                             /\ a["gross"] - a["discount"] =
                                   IF sale.cart.mode = "INCLUSIVE" THEN a["total"]
                                   ELSE a["taxable"]
                      IN  /\ AddsUp(sale.totals)
                          /\ \A i \in DOMAIN sale.lines :
                                /\ AddsUp(sale.lines[i])
                                /\ sale.lines[i].cgst - sale.lines[i].sgst \in
                                      IF sale.cart.intra THEN {0, 1} ELSE {0}
    BY DEF AmountsAddUp
  <2>1. sales[s] \in SaleShape
    BY DEF PosInv, ShapeOK
  <2>2. PICK sale : sale = sales[s]
    OBVIOUS
  <2>3. /\ sale.cart \in Carts /\ sale.rates \in RateTables
        /\ sale.lines = Lines(sale.cart, sale.rates) /\ sale.totals = Totals(sale.lines)
    BY <2>1, <2>2, SaleRow
  <2>4. PICK cart \in Carts, table \in RateTables : cart = sale.cart /\ table = sale.rates
    BY <2>3
  <2>5. PICK lines : lines = sale.lines
    OBVIOUS
  <2>6. lines = Lines(cart, table)
    BY <2>3, <2>4, <2>5
  <2> QED BY <2>2, <2>3, <2>4, <2>5, <2>6, SaleAddsUp
<1> QED BY <1>1, InvAlways, PTL

=============================================================================
