------------------------------- MODULE Ledger -------------------------------
(***************************************************************************)
(* The append-only log that stands behind every quantity the system keeps: *)
(* the MoneyAccountEntry rows of an account and the StockMovement rows of  *)
(* a product.  Each row stores the signed change together with the         *)
(* quantity read before it and the quantity written after it.              *)
(***************************************************************************)
EXTENDS Integers, Sequences

(* A row written when `delta` is applied to a cell that held `before`.  The *)
(* code's direction and absolute amount are the sign and size of `delta`.   *)
Entry(kind, delta, before, ref) ==
    [kind |-> kind, delta |-> delta, before |-> before,
     after |-> before + delta, ref |-> ref]

EntrySet(kinds, refs) ==
    [kind : kinds, delta : Int, before : Int, after : Int, ref : refs]

(* Every row adds up, each starts where the one before it ended, the first *)
(* starts at zero, and the last ends at the current quantity.              *)
Reconciles(log, quantity) ==
    /\ \A i \in DOMAIN log :
          /\ log[i].after = log[i].before + log[i].delta
          /\ log[i].before = IF i = 1 THEN 0 ELSE log[i-1].after
    /\ quantity = IF log = << >> THEN 0 ELSE log[Len(log)].after

=============================================================================
