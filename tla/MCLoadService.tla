--------------------------- MODULE MCLoadService ---------------------------
(* Small instances of LoadService for TLC.                                  *)
EXTENDS LoadService

CONSTANTS main, child, other

(* A database with a child.                                                 *)
Pair == {main, child}
OneChild == [d \in Pair |-> IF d = main THEN <<child>> ELSE <<>>]

(* A database with two children, one of which names it in turn.             *)
Family == {main, child, other}
TwoChildren ==
  [d \in Family |-> CASE d = main -> <<child, other>>
                      [] d = child -> <<main>>
                      [] d = other -> <<>>]
=============================================================================
