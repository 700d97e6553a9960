----------------------------- MODULE MC_Embedding -----------------------------
(* Embedding tables for 3 ranks: 6 rows (divisible) and 7 rows (not).     *)
EXTENDS Embedding

\* distinct non-zero rows, so that a zero row or a wrong row shows
MC_Table == [id \in Ids |-> 10 + id]
================================================================================
