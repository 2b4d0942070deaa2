------------------------------- MODULE MCPos --------------------------------
(* Small instances of PosCheckout for TLC. *)
EXTENDS PosCheckout, TLC

CONSTANTS rice, repair  \* a tracked product and a service

Line(product, quantity, unitPrice, discountType, discountValue) ==
    [product |-> product, quantity |-> quantity, unitPrice |-> unitPrice,
     discountType |-> discountType, discountValue |-> discountValue]

(* Rice twice, within one state: 1.000 at 33.30 and 1.000 at 10.17 less    *)
(* 12.5 percent; at 5 percent the tax of either line ends in half a paisa. *)
Repeated == [mode |-> "EXCLUSIVE", intra |-> TRUE,
             lines |-> <<Line(rice, 1000, 3330, "NONE", 0),
                         Line(rice, 1000, 1017, "PERCENT", 1250)>>]

(* Rice and a service, tax included, to another state. *)
Mixed == [mode |-> "INCLUSIVE", intra |-> FALSE,
          lines |-> <<Line(rice, 1000, 9999, "AMOUNT", 250),
                      Line(repair, 1500, 1777, "NONE", 0)>>]

MCCarts == {Repeated, Mixed}
MCRates == [p \in {rice, repair} |-> IF p = rice THEN {500, 1800} ELSE {1800}]
MCStock == [p \in {rice} |-> 2000]
HandlerSymmetry == Permutations(Handlers)

=============================================================================
