----------------------------- MODULE AdapterTargets -----------------------------
(***************************************************************************)
(* How FlashMistral (lorax_server/models/flash_mistral.py) is built and   *)
(* how it exposes its layers to adapter loading.  Construction loads the   *)
(* base layer of each module through its TensorParallel*.load and          *)
(* get_linear, with config.quantize.  Adapter loading then uses           *)
(* adapter_layers (ADAPTER_LAYERS), get_num_layers_for_type,              *)
(* adapter_target_to_layer and is_row_parallel (ROW_PARALLEL).  Loading an *)
(* adapter walks every layer type and every layer index of that type,      *)
(* looks the module up, and shards the LoRA weights row- or column-wise as *)
(* is_row_parallel says; the module then collects X @ A with the policy of *)
(* its class.  The two must agree (an all_reduce for row-sharded LoRA-A,   *)
(* an all_gather for column-sharded), or the output is silently wrong.     *)
(***************************************************************************)
EXTENDS Integers, Sequences, FiniteSets, TLC

CONSTANTS
  NumLayers,  \* len(self.model.model.layers)
  EmbedModes, \* the embed_mode values the model may be built with
  Quantizes,  \* the quantize values the server may be started with
              \* ("none" for None)
  HasEetq     \* HAS_EETQ: the EETQ kernels could be imported

ASSUME /\ NumLayers \in Nat \ {0} /\ EmbedModes \subseteq BOOLEAN /\ EmbedModes # {}
       /\ Quantizes # {} /\ HasEetq \in BOOLEAN

VARIABLES
  embed,      \* self.embed_mode
  quantize,   \* config.quantize
  built,      \* the base layers built so far, in construction order:
              \* the quantize get_linear was given, the wrapper, the error
  ti,         \* index into adapter_layers of the layer type being loaded
  lid,        \* the layer index being loaded
  loaded,     \* the (layer, layer type) targets loaded so far, with the
              \* LoRA sharding used and the collect policy of the module
  pc          \* "build", "load", "done", "missing" (a key without a
              \* target) or "error" (construction raised)

vars == <<embed, quantize, built, ti, lid, loaded, pc>>

-------------------------------------------------------------------------------
(* FlashMistral                                                            *)

ADAPTER_LAYERS == <<"q_proj", "k_proj", "v_proj", "o_proj",
                    "gate_proj", "up_proj", "down_proj", "lm_head">>

\* mutant: the head left out of the row-parallel table
ROW_PARALLELNoHead == {"o_proj", "down_proj"}

ROW_PARALLEL == {"o_proj", "down_proj", "lm_head"}

\* the module attribute each layer type of a decoder layer is wrapped in
Module ==
  ("q_proj" :> "query_key_value") @@ ("k_proj" :> "query_key_value")
  @@ ("v_proj" :> "query_key_value") @@ ("o_proj" :> "o_proj")
  @@ ("gate_proj" :> "gate_up_proj") @@ ("up_proj" :> "gate_up_proj")
  @@ ("down_proj" :> "down_proj") @@ ("lm_head" :> "lm_head")

\* mutant: the decoder layers enumerated from 1
TargetKeysFromOne(e) ==
  {<<i, t>> : i \in 1..NumLayers,
              t \in {"q_proj", "k_proj", "v_proj", "o_proj", "gate_proj", "up_proj", "down_proj"}}
  \cup (IF e THEN {} ELSE {<<0, "lm_head">>})

\* the keys of adapter_target_to_layer(): every decoder layer's seven
\* projections, and (0, lm_head) unless the model is built for embeddings
TargetKeys(e) ==
  {<<i, t>> : i \in 0..(NumLayers - 1),
              t \in {"q_proj", "k_proj", "v_proj", "o_proj", "gate_proj", "up_proj", "down_proj"}}
  \cup (IF e THEN {} ELSE {<<0, "lm_head">>})

\* mutant: the layer count taken as an inclusive bound
GetNumLayersForTypeInclusive(t) == IF t = "lm_head" THEN 2 ELSE NumLayers + 1

GetNumLayersForType(t) == IF t = "lm_head" THEN 1 ELSE NumLayers

IsRowParallel(t) == t \in ROW_PARALLEL

-------------------------------------------------------------------------------
(* The layer classes (flash_mistral_modeling, not under src/) and their   *)
(* collect_lora_a (layers.py)                                              *)

\* query_key_value and gate_up_proj are TensorParallelMultiAdapterLinear,
\* o_proj and down_proj TensorParallelAdapterRowLinear, lm_head a
\* MultiAdapterHead
ModuleClass(m) ==
  CASE m \in {"query_key_value", "gate_up_proj"} -> "TensorParallelMultiAdapterLinear"
    [] m \in {"o_proj", "down_proj"} -> "TensorParallelAdapterRowLinear"
    [] m = "lm_head" -> "MultiAdapterHead"

\* TensorParallelMultiAdapterLinear gathers, TensorParallelAdapterRowLinear
\* (and so MultiAdapterHead) all-reduces
CollectPolicy(c) ==
  IF c = "TensorParallelMultiAdapterLinear" THEN "all_gather" ELSE "all_reduce"

-------------------------------------------------------------------------------
(* Base layer construction: get_linear and the loaders that call it       *)

\* the modules the modeling file (not under src/) builds, in its order;
\* every decoder layer builds the same four, so one of each stands for all
MODULES == <<"query_key_value", "o_proj", "gate_up_proj", "down_proj", "lm_head">>

\* Weights.get_multi_weights_col/_row (not under src/): a pre-quantized
\* checkpoint comes as the tuple of its packed tensors, which the gptq and
\* awq branches of get_linear unpack; every other format as a dense tensor
WeightKind(q) == IF q \in {"gptq", "awq"} THEN "packed" ELSE "dense"

Built(cls) == [cls |-> cls, err |-> "none"]
Raised(e) == [cls |-> "none", err |-> e]

\* Fp8Linear.__init__: weight.dtype and fp8_quantize(weight) need a tensor
Fp8Linear(w) == IF w = "dense" THEN Built("Fp8Linear") ELSE Raised("AttributeError")

\* the elif chain of get_linear below its first branch
QuantizedLinear(w, q) ==
  CASE q = "none" -> Built("FastLinear")
    [] q = "bitsandbytes" -> Built("Linear8bitLt")
    [] q \in {"bitsandbytes-nf4", "bitsandbytes-fp4"} -> Built("Linear4bit")
    [] q = "eetq" -> IF HasEetq THEN Built("EETQLinear") ELSE Raised("ImportError")
    [] q = "gptq" -> IF w = "packed" THEN Built("QuantLinear") ELSE Raised("NotImplementedError")
    [] q = "awq" -> IF w = "packed" THEN Built("AWQLinear") ELSE Raised("NotImplementedError")
    [] q \in {"hqq-4bit", "hqq-3bit", "hqq-2bit"} -> Built("HQQLinearLayer")
    \* another "hqq-" name leaves quant_config unbound
    [] q \in {"hqq-8bit"} -> Raised("UnboundLocalError")
    [] OTHER -> Raised("NotImplementedError")

\* get_linear(weight, bias, quantize): its first branch is `if True:`
\* (the callers here pass fan_in_fan_out=False)
GetLinear(w, q) == IF TRUE THEN Fp8Linear(w) ELSE QuantizedLinear(w, q)

\* TensorParallelHead.load: the head is loaded unquantized for the
\* pre-quantized formats, from a dense get_sharded/get_tensor weight
HeadQuantize(q) == IF q \in {"gptq", "awq", "eetq"} THEN "none" ELSE q

\* TensorParallelHead.load: get_linear on the dense head weight
LoadHead(q) == [q |-> HeadQuantize(q)] @@ GetLinear("dense", HeadQuantize(q))

\* TensorParallelColumnLinear.load_multi (and TensorParallelRowLinear.load):
\* get_linear on the weight as loaded, with config.quantize
LoadDecoder(q) == [q |-> q] @@ GetLinear(WeightKind(q), q)

\* the loader the modeling file calls for module m
LoadBase(m, q) == IF m = "lm_head" THEN LoadHead(q) ELSE LoadDecoder(q)

\* build the next module; FlashMistralForEmbedding has no lm_head.  An
\* exception ends construction
BuildModule ==
  /\ pc = "build"
  /\ LET m == MODULES[Len(built) + 1]
         r == LoadBase(m, quantize)
         last == Len(built) + 1 = Len(MODULES) \/ (embed /\ MODULES[Len(built) + 2] = "lm_head")
     IN /\ built' = Append(built, [module |-> m] @@ r)
        /\ pc' = CASE r.err # "none" -> "error"
                  [] last -> "load"
                  [] OTHER -> "build"
  /\ UNCHANGED <<embed, quantize, ti, lid, loaded>>

-------------------------------------------------------------------------------
(* Adapter loading (the model's loader, not under src/)                   *)

\* look (lid, layer type) up and load its LoRA weights, sharded row-wise
\* (A on the input features) when is_row_parallel, column-wise otherwise;
\* then the next layer index, or the next layer type
LoadTarget ==
  /\ pc = "load"
  /\ LET t == ADAPTER_LAYERS[ti]
         key == <<lid, t>>
         lastId == lid + 1 = GetNumLayersForType(t)
     IN IF key \notin TargetKeys(embed)
        THEN /\ pc' = "missing"
             /\ UNCHANGED <<ti, lid, loaded>>
        ELSE /\ loaded' = loaded \cup
                  {[key |-> key,
                    shard |-> IF IsRowParallel(t) THEN "row" ELSE "column",
                    collect |-> CollectPolicy(ModuleClass(Module[t]))]}
             /\ lid' = IF lastId THEN 0 ELSE lid + 1
             /\ ti' = IF lastId /\ ti < Len(ADAPTER_LAYERS) THEN ti + 1 ELSE ti
             /\ pc' = IF lastId /\ ti = Len(ADAPTER_LAYERS) THEN "done" ELSE "load"
  /\ UNCHANGED <<embed, quantize, built>>

Init ==
  /\ embed \in EmbedModes
  /\ quantize \in Quantizes
  /\ built = <<>>
  /\ ti = 1
  /\ lid = 0
  /\ loaded = {}
  /\ pc = "build"

Next ==
  \/ BuildModule
  \/ LoadTarget
  \/ pc \in {"done", "missing", "error"} /\ UNCHANGED vars

Spec == Init /\ [][Next]_vars

-------------------------------------------------------------------------------

TypeOK ==
  /\ embed \in BOOLEAN
  /\ ti \in 1..Len(ADAPTER_LAYERS)
  /\ lid \in 0..(NumLayers - 1)
  /\ quantize \in Quantizes
  /\ built \in Seq([module : {MODULES[k] : k \in DOMAIN MODULES}, q : Quantizes \cup {"none"},
                    cls : STRING, err : STRING])
  /\ Len(built) <= Len(MODULES)
  /\ pc \in {"build", "load", "done", "missing", "error"}

\* Every LoRA weight is collected the way it was sharded: the layer types
\* is_row_parallel shards on the input features are exactly those whose
\* module all-reduces X @ A; the column-sharded ones are all-gathered.
ShardingMatchesCollect ==
  \A r \in loaded : (r.shard = "row") <=> (r.collect = "all_reduce")

\* Every (layer index, layer type) that adapter_layers and
\* get_num_layers_for_type announce has a module in adapter_target_to_layer,
\* so loading an adapter never looks up a missing target.
TargetsCoverLayers == pc # "missing"

\* The numeric format of each base layer is the one config.quantize asks
\* for (spec 4.5: full precision for None, 8-bit, 4-bit, float8, GPTQ, AWQ,
\* HQQ; the head unquantized for the pre-quantized formats), and a format
\* that cannot be built fails with a configuration error, NotImplementedError
\* or ImportError (spec 7: never silently degrade).
FormatOf(q) ==
  CASE q = "none" -> "FastLinear"
    [] q = "bitsandbytes" -> "Linear8bitLt"
    [] q \in {"bitsandbytes-nf4", "bitsandbytes-fp4"} -> "Linear4bit"
    [] q = "eetq" -> "EETQLinear"
    [] q = "fp8" -> "Fp8Linear"
    [] q = "gptq" -> "QuantLinear"
    [] q = "awq" -> "AWQLinear"
    [] q \in {"hqq-4bit", "hqq-3bit", "hqq-2bit"} -> "HQQLinearLayer"
    [] OTHER -> "unsupported"
FormatHonoured ==
  \A k \in DOMAIN built :
    IF built[k].err = "none" THEN built[k].cls = FormatOf(built[k].q)
    ELSE built[k].err \in {"NotImplementedError", "ImportError"}

================================================================================
