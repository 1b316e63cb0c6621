------------------------ MODULE MCHistoricIndexing ------------------------
(* Instances of the historic pass for TLC.                                 *)
EXTENDS HistoricIndexing

\* The two newest of three messages have one time, and the lesser id, which
\* push_doc takes for the older message, is listed first.
TwoOfOneTime == [p \in Position |-> [time |-> IF p = 3 THEN 1 ELSE 2, id |-> p]]
=============================================================================
