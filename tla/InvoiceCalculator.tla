------------------------- MODULE InvoiceCalculator --------------------------
(***************************************************************************)
(* What one invoice line costs: invoice-calculator.ts.                     *)
(*                                                                         *)
(* The code computes with decimals and rounds every intermediate amount to *)
(* two places.  Here money is in paise, quantities in thousandths, rates   *)
(* and percentages in hundredths of a percent, all natural numbers, and a  *)
(* rounding to two places is RoundHalfUp of an exact fraction.  Left out:  *)
(* the twenty significant digits decimal.js keeps, which no amount of a    *)
(* stored invoice reaches, and the echo of the rates in the line.          *)
(***************************************************************************)
EXTENDS Integers

PriceModes == {"EXCLUSIVE", "INCLUSIVE"}
DiscountTypes == {"NONE", "PERCENT", "AMOUNT"}

LineInput(input) ==
    /\ input.quantity \in Nat /\ input.unitPrice \in Nat
    /\ input.discountType \in DiscountTypes /\ input.discountValue \in Nat

AmountFields == {"gross", "discount", "taxable", "cgst", "sgst", "igst", "tax", "total"}
Amounts == [gross : Nat, discount : Nat, taxable : Nat, cgst : Nat, sgst : Nat,
            igst : Nat, tax : Nat, total : Nat]

(* money: n/d to the nearest unit, a half goes up. *)
RoundHalfUp(n, d) == (2 * n + d) \div (2 * d)

Gross(input) == RoundHalfUp(input.quantity * input.unitPrice, 1000)

Discount(input) ==
    CASE input.discountType = "NONE"    -> 0
      [] input.discountType = "PERCENT" -> RoundHalfUp(Gross(input) * input.discountValue, 10000)
      [] input.discountType = "AMOUNT"  -> input.discountValue

(* lineData refuses a discount above 100 percent or above the amount. *)
Discountable(input) ==
    /\ input.discountType = "PERCENT" => input.discountValue <= 10000
    /\ input.discountType = "AMOUNT" => input.discountValue <= Gross(input)

(* Mutant of Taxable: an inclusive price is reduced by the rate itself. *)
TaxableOfGross(charged, rate, mode) ==
    IF mode = "INCLUSIVE" THEN charged - RoundHalfUp(charged * rate, 10000) ELSE charged

(* The part of the discounted price that is taxed: an inclusive price      *)
(* contains its tax.                                                       *)
Taxable(charged, rate, mode) ==
    IF mode = "INCLUSIVE" THEN RoundHalfUp(charged * 10000, 10000 + rate) ELSE charged

Tax(charged, rate, mode) ==
    IF mode = "INCLUSIVE" THEN charged - Taxable(charged, rate, mode)
                          ELSE RoundHalfUp(charged * rate, 10000)

(* Mutant of Split: both halves are rounded. *)
SplitRounded(tax, intra) ==
    IF intra THEN [cgst |-> RoundHalfUp(tax, 2), sgst |-> RoundHalfUp(tax, 2), igst |-> 0]
             ELSE [cgst |-> 0, sgst |-> 0, igst |-> tax]

(* Within one state the tax is halved, CGST taking the odd paisa. *)
Split(tax, intra) ==
    IF intra THEN [cgst |-> RoundHalfUp(tax, 2), sgst |-> tax - RoundHalfUp(tax, 2), igst |-> 0]
             ELSE [cgst |-> 0, sgst |-> 0, igst |-> tax]

(* line: the amounts of a line under the rate its product has now. *)
CalculatedLine(input, rate, mode, intra) ==
    LET charged == Gross(input) - Discount(input)
        split == Split(Tax(charged, rate, mode), intra)
    IN  [gross |-> Gross(input), discount |-> Discount(input),
         taxable |-> Taxable(charged, rate, mode),
         cgst |-> split.cgst, sgst |-> split.sgst, igst |-> split.igst,
         tax |-> split.cgst + split.sgst + split.igst,
         total |-> IF mode = "INCLUSIVE" THEN charged
                   ELSE Taxable(charged, rate, mode) + Tax(charged, rate, mode)]

=============================================================================
