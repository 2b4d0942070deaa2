----------------------------- MODULE MCFinance ------------------------------
(* Small instances of Finance for TLC. *)
EXTENDS Finance, TLC

CONSTANTS i1, b1   \* an invoice and a purchase bill

To(d, n) == [target |-> d, amount |-> n]

(* The invoice is for 2, the bill for 1. *)
Totals == [d \in {i1, b1} |-> IF d = i1 THEN 2 ELSE 1]

(* Allocation lists: part and all of the invoice, the bill, and both at once, *)
(* which no posting accepts.                                                 *)
DistinctTargets == {<<To(i1, 1)>>, <<To(i1, 2)>>, <<To(b1, 1)>>,
                    <<To(i1, 1), To(b1, 1)>>}

(* A list may also name one invoice twice. *)
RepeatedTargets == {<<To(i1, 1), To(i1, 2)>>}

NoTotals == [d \in {} |-> 0]

RowSymmetry == Permutations(Payments) \cup Permutations(Expenses)
                 \cup Permutations(Accounts)

=============================================================================
