------------------------------ MODULE Postings ------------------------------
(***************************************************************************)
(* What the bookkeeping of this system promises, with everything else      *)
(* forgotten.  A CELL holds a quantity (the balance of a money account,    *)
(* the stock of a product).  An ITEM (a payment, a transfer, an invoice,   *)
(* a purchase bill) is applied at most once, changing several cells in     *)
(* one step, and undone at most once, taking back exactly the change it    *)
(* made.  Everything else that touches a cell (an opening balance, an      *)
(* adjustment) changes one cell at a time and belongs to no item.          *)
(*                                                                         *)
(* Finance and Stock are shown to implement this specification.            *)
(***************************************************************************)
EXTENDS Integers

CONSTANTS Cells,    \* what holds a quantity
          Items     \* what is applied once and undone once

VARIABLES quantity, \* quantity[c]: what cell c holds
          posting   \* posting[i]: the phase of item i and the change it made

vars == <<quantity, posting>>

NoEffect == [c \in Cells |-> 0]

Idle == [phase |-> "idle", effect |-> NoEffect]

(* The change a step makes to every cell. *)
Change == [c \in Cells |-> quantity'[c] - quantity[c]]

-----------------------------------------------------------------------------

Init == /\ quantity = [c \in Cells |-> 0]
        /\ posting = [i \in Items |-> Idle]

(* Item i takes effect: whatever the step changed is recorded as its own. *)
Apply(i) ==
    /\ posting[i].phase = "idle"
    /\ posting' = [posting EXCEPT ![i] = [phase |-> "applied", effect |-> Change]]

(* Item i is undone: every cell gives back what the item changed. *)
Undo(i) ==
    /\ posting[i].phase = "applied"
    /\ quantity' = [c \in Cells |-> quantity[c] - posting[i].effect[c]]
    /\ posting' = [posting EXCEPT ![i].phase = "undone"]

(* A change of the single cell c that no item owns. *)
Adjust(c) ==
    /\ quantity' = [quantity EXCEPT ![c] = quantity'[c]]
    /\ UNCHANGED posting

Next == \/ \E i \in Items : Apply(i) \/ Undo(i)
        \/ \E c \in Cells : Adjust(c)

Spec == Init /\ [][Next]_vars

=============================================================================
