-------------------------- MODULE CalculatorProofs --------------------------
(***************************************************************************)
(* InvoiceCalculator for every quantity, price, discount and rate.         *)
(***************************************************************************)
EXTENDS InvoiceCalculator, TLAPS

(* \div is the quotient: the remainder is less than the divisor. *)
LEMMA Quotient ==
    ASSUME NEW n \in Nat, NEW d \in Nat \ {0}
    PROVE  /\ n \div d \in Nat
           /\ d * (n \div d) <= n
           /\ n < d * (n \div d) + d
  OBVIOUS

(* What lies below a multiple of the divisor has a smaller quotient. *)
LEMMA QuotientBound ==
    ASSUME NEW n \in Nat, NEW d \in Nat \ {0}, NEW k \in Nat, n < d * k + d
    PROVE  n \div d <= k
<1> DEFINE q == n \div d
<1>1. q \in Nat /\ d * q <= n
  BY Quotient
<1>2. CASE q >= k + 1
  <2>1. d * q >= d * (k + 1)
    BY <1>1, <1>2
  <2>2. d * (k + 1) = d * k + d
    OBVIOUS
  <2> QED BY <1>1, <2>1, <2>2
<1> QED BY <1>1, <1>2

(* Rounding a half up: twice the error is within the divisor. *)
LEMMA Rounding ==
    ASSUME NEW n \in Nat, NEW d \in Nat \ {0}
    PROVE  /\ RoundHalfUp(n, d) \in Nat
           /\ 2 * (d * RoundHalfUp(n, d)) <= 2 * n + d
           /\ 2 * n < 2 * (d * RoundHalfUp(n, d)) + d
<1> DEFINE q == RoundHalfUp(n, d)
<1>1. 2 * d \in Nat \ {0} /\ 2 * n + d \in Nat
  OBVIOUS
<1>2. /\ q \in Nat
      /\ (2 * d) * q <= 2 * n + d
      /\ 2 * n + d < (2 * d) * q + 2 * d
  BY <1>1, Quotient, Zenon DEF RoundHalfUp
<1>3. (2 * d) * q = 2 * (d * q)
  BY <1>2
<1>4. d * q \in Nat
  BY <1>2
<1> HIDE DEF q
<1> QED BY <1>2, <1>3, <1>4 DEF q

(* What is at most k times the divisor rounds to at most k. *)
LEMMA RoundingBound ==
    ASSUME NEW n \in Nat, NEW d \in Nat \ {0}, NEW k \in Nat, n <= d * k
    PROVE  RoundHalfUp(n, d) <= k
<1>1. /\ 2 * d \in Nat \ {0}
      /\ 2 * n + d \in Nat
      /\ d * k \in Nat
  OBVIOUS
<1>2. (2 * d) * k = 2 * (d * k)
  OBVIOUS
<1>3. 2 * n + d < (2 * d) * k + 2 * d
  BY <1>1, <1>2
<1> QED BY <1>1, <1>3, QuotientBound, Zenon DEF RoundHalfUp

-----------------------------------------------------------------------------
LEMMA GrossIsNat ==
    ASSUME NEW input, LineInput(input)
    PROVE  Gross(input) \in Nat
<1>1. input.quantity * input.unitPrice \in Nat
  BY DEF LineInput
<1> QED BY <1>1, Rounding DEF Gross

(* A discount never exceeds what it is taken from. *)
LEMMA DiscountWithinGross ==
    ASSUME NEW input, LineInput(input), Discountable(input)
    PROVE  /\ Discount(input) \in Nat
           /\ Discount(input) <= Gross(input)
<1> DEFINE g == Gross(input)
           v == input.discountValue
<1>1. g \in Nat /\ v \in Nat
  BY GrossIsNat DEF LineInput
<1>2. CASE input.discountType = "NONE"
  BY <1>1, <1>2 DEF Discount
<1>3. CASE input.discountType = "AMOUNT"
  BY <1>1, <1>3 DEF Discount, Discountable
<1>4. CASE input.discountType = "PERCENT"
  <2>1. v <= 10000
    BY <1>4 DEF Discountable
  <2>2. g * v \in Nat /\ g * v <= 10000 * g
    BY <1>1, <2>1
  <2> DEFINE n == g * v
  <2>3. n \in Nat /\ n <= 10000 * g /\ g \in Nat /\ 10000 \in Nat \ {0}
    BY <1>1, <2>2
  <2> HIDE DEF n
  <2>4. RoundHalfUp(n, 10000) \in Nat
    BY <2>3, Rounding
  <2>5. RoundHalfUp(n, 10000) <= g
    BY <2>3, RoundingBound
  <2> QED BY <1>4, <2>4, <2>5 DEF Discount, n
<1> QED BY <1>2, <1>3, <1>4 DEF LineInput, DiscountTypes

(* An inclusive price contains its tax: the taxed part is at most the price. *)
LEMMA TaxableWithinPrice ==
    ASSUME NEW charged \in Nat, NEW rate \in Nat, NEW mode \in PriceModes
    PROVE  /\ Taxable(charged, rate, mode) \in Nat
           /\ Taxable(charged, rate, mode) <= charged
           /\ Tax(charged, rate, mode) \in Nat
<1>1. CASE mode = "INCLUSIVE"
  <2> DEFINE t == RoundHalfUp(charged * 10000, 10000 + rate)
  <2>1. charged * 10000 \in Nat /\ 10000 + rate \in Nat \ {0}
    OBVIOUS
  <2>2. charged * 10000 <= (10000 + rate) * charged
    <3>1. (10000 + rate) * charged = charged * 10000 + rate * charged /\ rate * charged \in Nat
      OBVIOUS
    <3> QED BY <2>1, <3>1
  <2>3. t \in Nat /\ t <= charged
    BY <2>1, <2>2, Rounding, RoundingBound
  <2> QED BY <1>1, <2>3 DEF Taxable, Tax
<1>2. CASE mode = "EXCLUSIVE"
  <2>1. charged * rate \in Nat
    OBVIOUS
  <2> QED BY <1>2, <2>1, Rounding DEF Taxable, Tax
<1> QED BY <1>1, <1>2 DEF PriceModes

(* The parts of the tax are natural numbers that make the tax; CGST is the *)
(* larger half by one paisa at most.                                       *)
LEMMA SplitAddsUp ==
    ASSUME NEW tax \in Nat, NEW intra \in BOOLEAN
    PROVE  /\ Split(tax, intra) \in [cgst : Nat, sgst : Nat, igst : Nat]
           /\ Split(tax, intra).cgst + Split(tax, intra).sgst + Split(tax, intra).igst = tax
           /\ Split(tax, intra).cgst - Split(tax, intra).sgst
                 \in (IF intra THEN {0, 1} ELSE {0})
<1> DEFINE half == RoundHalfUp(tax, 2)
<1>1. half \in Nat /\ 2 * (2 * half) <= 2 * tax + 2 /\ 2 * tax < 2 * (2 * half) + 2
  BY Rounding
<1>2. tax - half \in Nat /\ half - (tax - half) \in {0, 1}
  BY <1>1
<1> HIDE DEF half
<1>3. CASE intra
  <2>1. Split(tax, intra) = [cgst |-> half, sgst |-> tax - half, igst |-> 0]
    BY <1>3 DEF Split, half
  <2>2. half + (tax - half) + 0 = tax
    BY <1>1
  <2>3. (IF intra THEN {0, 1} ELSE {0}) = {0, 1}
    BY <1>3
  <2> QED BY <1>1, <1>2, <2>1, <2>2, <2>3
<1>4. CASE ~intra
  <2>1. Split(tax, intra) = [cgst |-> 0, sgst |-> 0, igst |-> tax]
    BY <1>4 DEF Split
  <2>2. (IF intra THEN {0, 1} ELSE {0}) = {0}
    BY <1>4
  <2> QED BY <2>1, <2>2
<1> QED BY <1>3, <1>4, Zenon

-----------------------------------------------------------------------------
(* The amounts of a line are natural numbers: neither a discount nor the   *)
(* tax in an inclusive price makes one negative.                           *)
THEOREM LineIsPositive ==
    ASSUME NEW input, LineInput(input), Discountable(input), NEW rate \in Nat,
           NEW mode \in PriceModes, NEW intra \in BOOLEAN
    PROVE  CalculatedLine(input, rate, mode, intra) \in Amounts
<1> DEFINE charged == Gross(input) - Discount(input)
           taxable == Taxable(charged, rate, mode)
           tax == Tax(charged, rate, mode)
           split == Split(tax, intra)
<1>1. Gross(input) \in Nat /\ Discount(input) \in Nat /\ charged \in Nat
  BY GrossIsNat, DiscountWithinGross
<1>2. taxable \in Nat /\ tax \in Nat
  BY <1>1, TaxableWithinPrice
<1>3. split \in [cgst : Nat, sgst : Nat, igst : Nat] /\ split.cgst + split.sgst + split.igst = tax
  BY <1>2, SplitAddsUp
<1>4. CalculatedLine(input, rate, mode, intra) =
        [gross |-> Gross(input), discount |-> Discount(input), taxable |-> taxable,
         cgst |-> split.cgst, sgst |-> split.sgst, igst |-> split.igst,
         tax |-> split.cgst + split.sgst + split.igst,
         total |-> IF mode = "INCLUSIVE" THEN charged ELSE taxable + tax]
  BY Zenon DEF CalculatedLine
<1> HIDE DEF charged, taxable, tax, split
<1>5. (IF mode = "INCLUSIVE" THEN charged ELSE taxable + tax) \in Nat
  BY <1>1, <1>2
<1> QED BY <1>1, <1>2, <1>3, <1>4, <1>5 DEF Amounts

(* Of a line, for every input: the taxed part and the tax make the total,  *)
(* CGST, SGST and IGST make the tax with at most a paisa between the       *)
(* halves, and the discount is off the price.                              *)
THEOREM LineAddsUp ==
    ASSUME NEW input, LineInput(input), Discountable(input), NEW rate \in Nat,
           NEW mode \in PriceModes, NEW intra \in BOOLEAN,
           NEW line, line = CalculatedLine(input, rate, mode, intra)
    PROVE  /\ line.taxable + line.tax = line.total
           /\ line.cgst + line.sgst + line.igst = line.tax
           /\ line.gross - line.discount =
                 IF mode = "INCLUSIVE" THEN line.total ELSE line.taxable
           /\ line.cgst - line.sgst \in (IF intra THEN {0, 1} ELSE {0})
<1> DEFINE charged == Gross(input) - Discount(input)
           taxable == Taxable(charged, rate, mode)
           tax == Tax(charged, rate, mode)
           split == Split(tax, intra)
<1>1. Gross(input) \in Nat /\ Discount(input) \in Nat /\ charged \in Nat
  BY GrossIsNat, DiscountWithinGross
<1>2. taxable \in Nat /\ tax \in Nat
  BY <1>1, TaxableWithinPrice
<1>3. /\ split \in [cgst : Nat, sgst : Nat, igst : Nat]
      /\ split.cgst + split.sgst + split.igst = tax
      /\ split.cgst - split.sgst \in (IF intra THEN {0, 1} ELSE {0})
  BY <1>2, SplitAddsUp
<1>4. line =
        [gross |-> Gross(input), discount |-> Discount(input), taxable |-> taxable,
         cgst |-> split.cgst, sgst |-> split.sgst, igst |-> split.igst,
         tax |-> split.cgst + split.sgst + split.igst,
         total |-> IF mode = "INCLUSIVE" THEN charged ELSE taxable + tax]
  BY Zenon DEF CalculatedLine
<1>5. mode = "INCLUSIVE" => taxable + tax = charged
  BY <1>1, <1>2 DEF Tax
<1>6. mode # "INCLUSIVE" => taxable = charged
  BY DEF Taxable
<1>7. line.gross - line.discount = charged
  BY <1>4
<1> HIDE DEF charged, taxable, tax, split
<1>8. /\ line.tax = tax /\ line.taxable = taxable
      /\ line.cgst = split.cgst /\ line.sgst = split.sgst /\ line.igst = split.igst
      /\ line.total = IF mode = "INCLUSIVE" THEN charged ELSE taxable + tax
  BY <1>3, <1>4
<1> QED BY <1>3, <1>5, <1>6, <1>7, <1>8

(* The tax of a line is its rate of the taxed part to within half a paisa  *)
(* of either, in both price modes.                                         *)
THEOREM LineTaxFollowsRate ==
    ASSUME NEW input, LineInput(input), Discountable(input), NEW rate \in Nat,
           NEW mode \in PriceModes, NEW intra \in BOOLEAN,
           NEW line, line = CalculatedLine(input, rate, mode, intra)
    PROVE  /\ 2 * (10000 * line.tax - rate * line.taxable) <= 10000 + rate
           /\ -2 * (10000 * line.tax - rate * line.taxable) <= 10000 + rate
<1> DEFINE charged == Gross(input) - Discount(input)
           taxable == Taxable(charged, rate, mode)
           tax == Tax(charged, rate, mode)
<1>1. charged \in Nat
  BY GrossIsNat, DiscountWithinGross
<1>2. taxable \in Nat /\ tax \in Nat
  BY <1>1, TaxableWithinPrice
<1>3. /\ Split(tax, intra) \in [cgst : Nat, sgst : Nat, igst : Nat]
      /\ Split(tax, intra).cgst + Split(tax, intra).sgst + Split(tax, intra).igst = tax
  BY <1>2, SplitAddsUp
<1>4. line.tax = tax /\ line.taxable = taxable
  BY <1>3 DEF CalculatedLine
<1> HIDE DEF charged
<1>5. CASE mode = "INCLUSIVE"
  <2> DEFINE d == 10000 + rate
           n == charged * 10000
  <2>1. taxable = RoundHalfUp(n, d) /\ tax = charged - taxable
    BY <1>5 DEF Taxable, Tax
  <2>2. n \in Nat /\ d \in Nat \ {0}
    BY <1>1
  <2> HIDE DEF taxable, tax, n, d
  <2>3. 2 * (d * taxable) <= 2 * n + d /\ 2 * n < 2 * (d * taxable) + d
    BY <2>1, <2>2, Rounding
  <2> USE DEF n, d
  <2>4. d * taxable = 10000 * taxable + rate * taxable /\ rate * taxable \in Nat
    BY <1>2
  <2> QED BY <1>1, <1>2, <1>4, <2>1, <2>3, <2>4
<1>6. CASE mode = "EXCLUSIVE"
  <2> DEFINE n == charged * rate
             d == 10000
  <2>1. taxable = charged /\ tax = RoundHalfUp(n, d)
    BY <1>6 DEF Taxable, Tax
  <2>2. n \in Nat /\ n = rate * charged /\ d \in Nat \ {0}
    BY <1>1
  <2> HIDE DEF taxable, tax, n, d
  <2>3. 2 * (d * tax) <= 2 * n + d /\ 2 * n < 2 * (d * tax) + d
    BY <2>1, <2>2, Rounding
  <2> USE DEF d
  <2> QED BY <1>1, <1>2, <1>4, <2>1, <2>2, <2>3
<1> QED BY <1>5, <1>6 DEF PriceModes

=============================================================================
