--------------------------- MODULE MCSearchIndex ---------------------------
(* Instances of the search index for TLC: the configurations give all of   *)
(* its constants.                                                          *)
EXTENDS SearchIndex
=============================================================================
