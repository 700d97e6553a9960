------------------------------ MODULE MC_LoraRow ------------------------------
(* An o_proj (TensorParallelAdapterRowLinear) on 2 ranks, 3 batch rows, 2  *)
(* adapters of LoRA ranks 1 and 2 (two rank buckets).                      *)
EXTENDS LoraLinear, TLC

MC_P == 2
MC_N == 3
MC_F == 2
MC_LayerNames == <<"o">>
MC_Sizes == "o" :> 2
MC_Adapters == {0, 1}
MC_LoraR == (0 :> 1) @@ (1 :> 2)
MC_Bias == "o" :> <<2, -1>>
MC_X == <<<<1, 2>>, <<3, -1>>, <<2, 1>>>>
MC_W == "o" :> <<<<1, 2>>, <<2, -1>>>>
MC_LoraA == "o" :> ((0 :> <<<<2>>, <<1>>>>) @@ (1 :> <<<<1, 3>>, <<2, 1>>>>))
MC_LoraB == "o" :> ((0 :> <<<<1, 2>>>>) @@ (1 :> <<<<3, 1>>, <<1, 2>>>>))
================================================================================
