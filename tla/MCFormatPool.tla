--------------------------- MODULE MCFormatPool ---------------------------
(* A small instance of the streaming pool: the rank of a file in the report. *)
EXTENDS FormatPool

CONSTANTS f1, f2, f3

MCRank == [f \in Files |-> CASE f = f1 -> 2 [] f = f2 -> 1 [] OTHER -> 3]
=============================================================================
