---------------------------- MODULE EmbeddingSpec -----------------------------
(***************************************************************************)
(* What an embedding lookup promises, seen as one process: the call        *)
(* eventually returns, once, the table row of every id of its input.       *)
(* Which rank owns which rows, and how the partial lookups are summed, is  *)
(* invisible at this level.                                                *)
(***************************************************************************)

CONSTANTS
  Embed(_),   \* Embed(ids): the table rows of the ids, in input order
  NoOutput    \* model value: the call has not returned yet

VARIABLES
  input,      \* the ids looked up
  output      \* what the call returned, or NoOutput

Init == output = NoOutput

\* the call returns the rows of the ids; the input is fixed
Forward ==
  /\ output = NoOutput
  /\ output' = Embed(input)
  /\ UNCHANGED input

Spec == Init /\ [][Forward]_<<input, output>> /\ WF_<<input, output>>(Forward)

================================================================================
