------------------------------- MODULE Tensors --------------------------------
(***************************************************************************)
(* The few torch tensor operations the linear layers of                    *)
(* lorax_server/utils/layers.py use, on 2-d integer matrices.  A matrix    *)
(* with r rows and c columns is a function [1..r -> [1..c -> Int]].        *)
(* Column and row ranges are given the Python way: 0-based, half open,     *)
(* [lo, hi), as in result[:, start_idx:end_idx].  Integers stand for the   *)
(* floating point values: the properties compare exact sums, which is the  *)
(* spec's "equal modulo summation order".                                  *)
(***************************************************************************)
EXTENDS Integers, Sequences, FiniteSets

NRows(M) == Cardinality(DOMAIN M)
NCols(M) == IF DOMAIN M = {} THEN 0 ELSE Cardinality(DOMAIN M[1])

Matrices(r, c, V) == [1..r -> [1..c -> V]]

Zeros(r, c) == [i \in 1..r |-> [j \in 1..c |-> 0]]

\* torch.matmul / the @ operator
MatMul(A, B) ==
  [i \in DOMAIN A |-> [j \in 1..NCols(B) |->
     LET RECURSIVE Dot(_)
         Dot(k) == IF k = 0 THEN 0 ELSE A[i][k] * B[k][j] + Dot(k - 1)
     IN  Dot(NCols(A))]]

MatAdd(A, B) == [i \in DOMAIN A |-> [j \in DOMAIN A[i] |-> A[i][j] + B[i][j]]]

\* M[:, lo:hi]
ColSlice(M, lo, hi) == [i \in DOMAIN M |-> [j \in 1..(hi - lo) |-> M[i][lo + j]]]

\* M[lo:hi, :]
RowSlice(M, lo, hi) == [i \in 1..(hi - lo) |-> M[lo + i]]

\* M[:, lo:lo + NCols(D)] += D   (in-place add into a column slice)
AddIntoCols(M, lo, D) ==
  [i \in DOMAIN M |-> [j \in DOMAIN M[i] |->
     IF lo < j /\ j <= lo + NCols(D) THEN M[i][j] + D[i][j - lo] ELSE M[i][j]]]

\* M * mask.view(-1, 1): keeps the rows i with Keep[i], zeroes the others
MaskRows(M, Keep) ==
  [i \in DOMAIN M |-> [j \in DOMAIN M[i] |-> IF Keep[i] THEN M[i][j] ELSE 0]]

\* torch.cat(seq, dim=1)
RECURSIVE ConcatCols(_)
ConcatCols(s) ==
  IF Len(s) = 1 THEN s[1]
  ELSE LET L == s[1]
           R == ConcatCols(Tail(s))
       IN  [i \in DOMAIN L |-> [j \in 1..(NCols(L) + NCols(R)) |->
              IF j <= NCols(L) THEN L[i][j] ELSE R[i][j - NCols(L)]]]

\* elementwise sum of a non-empty sequence of equally shaped matrices
RECURSIVE SumMats(_)
SumMats(s) == IF Len(s) = 1 THEN s[1] ELSE MatAdd(s[1], SumMats(Tail(s)))

================================================================================
