----------------------------- MODULE LoraLayerSpec -----------------------------
(***************************************************************************)
(* What one forward call of an adapter-aware linear layer promises, seen   *)
(* as a single process: the call eventually returns, once, the base        *)
(* projection of the input plus, on every batch row, the LoRA product      *)
(* X @ A @ B of that row's adapter (zero for an adapter without weights    *)
(* for the layer type).  How the ranks shard, collect and reduce it is     *)
(* invisible at this level.                                                *)
(***************************************************************************)

CONSTANTS
  Ref(_),     \* Ref(b): the single-process output of the layer for batch b
  NoOutput    \* model value: the call has not returned yet

VARIABLES
  batch,      \* the AdapterBatchData of the call
  output      \* what the call returned, or NoOutput

Init == output = NoOutput

\* the call returns the layer's output for the batch; the batch is fixed
Forward ==
  /\ output = NoOutput
  /\ output' = Ref(batch)
  /\ UNCHANGED batch

Spec == Init /\ [][Forward]_<<batch, output>> /\ WF_<<batch, output>>(Forward)

================================================================================
