------------------------------- MODULE MCWeb --------------------------------
(* Small instances of Web for TLC.  Which of the two calls is made in which *)
(* tab is symmetric, so the first is always in the first tab.               *)
EXTENDS Web

CONSTANTS c1, c2, t1, t2

InitHere == Init /\ tabOf[c1] = t1

SpecHere == InitHere /\ [][Next]_vars /\ Fairness

=============================================================================
