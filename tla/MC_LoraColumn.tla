---------------------------- MODULE MC_LoraColumn -----------------------------
(* A packed q/k projection (TensorParallelMultiAdapterLinear) on 2 ranks,   *)
(* 3 batch rows, 2 adapters of LoRA ranks 2 and 4 (two rank buckets).      *)
EXTENDS LoraLinear, TLC

MC_P == 2
MC_N == 3
MC_F == 2
MC_LayerNames == <<"q", "k">>
MC_LayerNamesSingle == <<"q">>
MC_Sizes == [n \in {"q", "k"} |-> 2]
MC_Adapters == {0, 1}
MC_LoraR == (0 :> 2) @@ (1 :> 4)
MC_Bias == ("q" :> <<1, -2>>) @@ ("k" :> <<3, 1>>)
MC_X == <<<<1, 2>>, <<3, -1>>, <<2, 1>>>>
MC_W == ("q" :> <<<<1, 0>>, <<2, 1>>>>) @@ ("k" :> <<<<0, 1>>, <<1, 3>>>>)
MC_LoraA ==
  ("q" :> ((0 :> <<<<1, 2>>, <<0, 1>>>>) @@ (1 :> <<<<1, 0, 2, 1>>, <<1, 1, 0, 3>>>>)))
  @@ ("k" :> ((0 :> <<<<2, 1>>, <<1, 0>>>>) @@ (1 :> <<<<0, 1, 1, 2>>, <<3, 0, 1, 1>>>>)))
MC_LoraB ==
  ("q" :> ((0 :> <<<<1, 3>>, <<2, 1>>>>) @@ (1 :> <<<<1, 0>>, <<0, 2>>, <<3, 1>>, <<1, 1>>>>)))
  @@ ("k" :> ((0 :> <<<<2, 0>>, <<1, 1>>>>) @@ (1 :> <<<<0, 1>>, <<2, 1>>, <<1, 0>>, <<1, 3>>>>)))
================================================================================
