------------------------------ MODULE MCStock -------------------------------
(* Small instances of Stock for TLC. *)
EXTENDS Stock, TLC

CONSTANTS pen, repair,           \* a tracked product, and a service
          inv1, inv2, sr1, sr2,  \* invoices and sales returns
          quote, order,          \* a quotation and a purchase order
          bill, pr1, pr2         \* a purchase bill and purchase returns

Types ==
    [d \in {inv1, inv2, sr1, sr2, quote, order, bill, pr1, pr2} |->
        CASE d \in {inv1, inv2} -> "INVOICE"
          [] d \in {sr1, sr2} -> "SALES_RETURN"
          [] d = quote -> "QUOTATION"
          [] d = order -> "PURCHASE_ORDER"
          [] d = bill -> "PURCHASE_BILL"
          [] d \in {pr1, pr2} -> "PURCHASE_RETURN"]

TypesHere == [d \in Documents |-> Types[d]]

Of(p, n) == [product |-> p, quantity |-> n, sourceLine |-> NoLine]
Back(p, n, s, i) == [product |-> p, quantity |-> n, sourceLine |-> <<s, i>>]

Dated(lists, s) == [lines : lists, source : {s}, year : Years]

(* Two of the product, on one line or split over two; and one with a service. *)
Goods == {<<Of(pen, 2)>>, <<Of(pen, 1), Of(pen, 1)>>, <<Of(pen, 1), Of(repair, 1)>>}

(* One or two of the first line of s, on one line or split; the second line *)
(* of s, which may be the service.                                          *)
Returns(s) == {<<Back(pen, 1, s, 1)>>, <<Back(pen, 1, s, 1), Back(pen, 1, s, 1)>>,
               <<Back(repair, 1, s, 2)>>}

DraftsHere ==
    [d \in Documents |->
        CASE TypeOf[d] = "SALES_RETURN" -> Dated(Returns(inv1), inv1)
          [] TypeOf[d] = "PURCHASE_RETURN" -> Dated(Returns(bill), bill)
          [] TypeOf[d] \in {"INVOICE", "QUOTATION", "PURCHASE_ORDER", "PURCHASE_BILL"}
                -> Dated(Goods, NoDocument)]

ReturnSymmetry == Permutations(Documents \cap {sr1, sr2})
                    \cup Permutations(Documents \cap {pr1, pr2})

=============================================================================
