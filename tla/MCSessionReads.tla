--------------------------- MODULE MCSessionReads ---------------------------
(* The namespace changes twice, so that a copy made late is outdated too. *)
EXTENDS SessionReads
MCELPEs == {0, 1}
MCMaxVersion == [i \in Items |-> IF i = "namespace" THEN 2 ELSE 1]
=============================================================================
