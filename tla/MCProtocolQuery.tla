--------------------------- MODULE MCProtocolQuery ---------------------------
(* Every function that reads a data structure, in any order.               *)
EXTENDS ProtocolQuery
MCQueries == AllQueries
=============================================================================
