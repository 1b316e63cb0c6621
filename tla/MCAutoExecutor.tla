--------------------------- MODULE MCAutoExecutor ---------------------------
(* Instances of the executor pool for TLC.                                 *)
EXTENDS AutoExecutor, TLC

CONSTANTS a1, a2, a3

\* a2 depends on a1, a3 stands alone.
Chain == [a \in Action |-> IF a = a2 THEN {a1} ELSE {}]
EmptyOrNetworkLoss == {{"empty"}, {"networkLoss"}}
=============================================================================
