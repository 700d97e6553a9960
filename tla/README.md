# TLA+ models of the LoRAX tensor-parallel adapter layers

This directory holds TLA+ models of `src/server/lorax_server/utils/layers.py`,
the part of LoRAX that applies many LoRA adapters in one batched forward pass
on top of a base model sharded over several tensor-parallel ranks. The models
are checked with TLC. `PROJECT.json` lists the components, the runs, the
mutants, the map from each definition to the source lines it translates, the
findings, and the hazards.

## The system

`layers.py` has these parts, leaves first:

* **Process group.** `torch.distributed` offers `all_gather`, `all_reduce` and
  `all_gather_into_tensor`. Each is a blocking rendezvous: every rank must
  make the same calls, in the same order, with tensors of the same shape.
* **Sharded base layers.** `SuperLayer` wraps a `get_linear` wrapper. On top
  of it sit:
  * `TensorParallelColumnLinear`: the output features are sharded, and the
    packed `load_multi` concatenates each projection's shard;
  * `TensorParallelRowLinear`: the input features are sharded, the bias is
    loaded only on rank 0, and the layer optionally ends with an `all_reduce`;
  * `TensorParallelHead`: the vocabulary is sharded when it divides evenly,
    and the layer ends with an `all_gather` + `cat`;
  * `TensorParallelEmbedding`: each rank owns an id block and a zero "null"
    row, and the layer ends with an `all_reduce`.
* **Adapter-aware layers.**
  * `LoraLinear.forward_layer_type` adds to a slice `[start_idx, end_idx)` of
    the base result the `X @ A @ B` of each row's adapter. It takes one of
    two paths:
    * the fused `sgmv` kernels, one shrink/collect/expand per rank bucket,
      either in place or through a scratch `proj`;
    * the per-adapter masked fallback.
  * `collect_lora_a` differs per subclass:
    * `TensorParallelMultiAdapterLinear` (packed column layers such as
      q/k/v) uses `all_gather` + `cat`, with slices `offset // world_size`;
    * `TensorParallelAdapterRowLinear` (o_proj, down_proj) uses
      `all_reduce`, and writes the delta only into the rank's own output
      stride.
  * `MultiAdapterHead` is a row adapter over a `TensorParallelHead`, plus the
    medusa speculative logits.
* **Rotary embeddings.**
  * `PositionRotaryEmbedding`, `DynamicPositionRotaryEmbedding` (NTK) and
    `YarnPositionRotaryEmbedding` keep a cos/sin cache.
  * `static()` and `load()` build one of them from the `rope_scaling` dict
    that `_get_rope_config` returns: the config's dict, or one made from the
    `ROPE_SCALING`/`ROPE_FACTOR` environment variables. They read `factor`,
    pop `type`, and pass the remaining keys to Yarn as keyword arguments.
    `load()` gives Dynamic and Yarn `base=10000.0`.
  * `_update_cos_sin_cache` rebuilds the cache when a longer sequence is
    seen. `get_cos_sin` calls it only while the server warms up (the
    `is_warmup()` flag), so that captured CUDA graphs stay valid.
* **Quantization factory.** `get_linear(weight, bias, quantize)` picks the
  wrapper of the base weight (`FastLinear`, `Fp8Linear`, bitsandbytes, EETQ,
  GPTQ, AWQ, HQQ). Its first branch is `if True:`, so it always builds
  `Fp8Linear`. `TensorParallelHead.load` loads the head unquantized for the
  pre-quantized formats.
* `FastLayerNorm` and the forward passes of the quantized wrappers are kernel
  calls. They are not modelled (see below).

`models/flash_mistral.py` wires these layers into a model and tells the
adapter loader where each LoRA weight goes:
* `adapter_layers` lists the layer types (`ADAPTER_LAYERS`);
* `get_num_layers_for_type` gives how many layers of a type there are;
* `adapter_target_to_layer` maps `(layer index, layer type)` to a module;
* `is_row_parallel` (the `ROW_PARALLEL` table) tells the loader to shard the
  LoRA weights on the input features rather than the output features.

The loader shards the weights by `is_row_parallel`, and the module collects
`X @ A` by its class (`collect_lora_a`). The two must agree.

## Modules

| module | models | state |
|---|---|---|
| `Tensors` | the torch operations used: matmul, column and row slices, in-place slice add, row mask, cat, sum. Matrices are integer functions, and slices are 0-based and half-open, as in Python. | none (operators) |
| `LoraLinear` | the base forward and `forward_layer_type`/`forward_lora` of the three adapter layers (`Kind` = `"column"`, `"row"`, `"head"`), on `P` ranks, with every collective | per rank: `pc`, layer-name index `li`, `path`, the work list of buckets or adapters, `result`, `proj`, `aout` (the collected `X@A`), the posted `call`; the batch; `aligned` (a history variable) |
| `MC_LoraColumn`, `MC_LoraRow` | small integer weights, inputs and adapters for the column and row/head layers | |
| `Embedding` | `TensorParallelEmbedding.__init__`/`forward` on `P` ranks | `reduce`, `input`, per-rank `pc` and `out` |
| `EmbeddingSpec` | the abstract lookup: one call that returns, once, the table rows of its ids | `input`, `output` |
| `MC_Embedding` | the table `10 + id` | |
| `LoraLayerSpec` | the abstract layer: one forward call that returns, once, `X@W+b+X@A@B` | `batch`, `output` |
| `AdapterTargets` | the construction of `FlashMistral`'s base layers through `get_linear`, its adapter interface, and the loader's walk over it | `embed`, `quantize`, the `built` layers (wrapper or exception), the layer type `ti` and index `lid` being loaded, the `loaded` targets (with sharding and collect policy), `pc` |
| `RotaryCache` | `_get_rope_config`, the construction (`static`, `load`, each class's `__init__`), the `_update_cos_sin_cache` of each class, `get_cos_sin`, and the end of warmup | `rope`, `config` (constructor and dict keys, history), `base`, `pc`, `invFreq`, `scaling`, `mscale`, `cache`, `warm`, `maxWarm` (history), `served` |

How `LoraLinear` corresponds to the code:
* `BaseForward` is `self.base_layer(input)`, including a base collective.
* `StartLayerType` is the lookup of the data and the choice of path
  (lines 579–587).
* On the fused path, `ShrinkFused`, `Collective` and `ExpandFused` are one
  rank bucket: `lora_a_sgmv_cutlass`, `collect_lora_a`, then
  `lora_b_sgmv_cutlass`.
* On the fallback path, `ShrinkFallback`, `Collective` and `ExpandFallback`
  are one adapter of `forward_lora`. `SkipAdapter` is an adapter without
  weights for the layer. The adapters come in the iteration order of the
  Python set `adapter_set`. That order is unspecified, so the batch carries
  it (`order`, any permutation). It is the same on every rank, because each
  process builds the set from the same metadata.
* `FinishLayerType` is the add-back of `proj` (line 616), followed by the
  next layer name of `forward` (lines 673–682).
* `Collective` is enabled only when every rank has posted a call. It records
  whether the ops and tags agree. It combines the calls only if their ops and
  shapes match, because a mismatched NCCL call has no defined result.
* Data is abstracted in two places:
  * the ranks are `0..P-1`, and the batch rows, adapters and LoRA ranks are
    small sets of integers;
  * `SizesGiven` is `self.sizes is not None`. Without sizes the offset never
    advances and every layer name's slice ends at `result.shape[1]`
    (lines 675–680);
  * the batch metadata (`adapter_segments`, `rank_data`) and the shard
    helpers (`get_sharded`, `shard_lora_weights`) are computed from the
    batch by `SegStarts`/`RankData`/`Part`. Their code is not under `src/`,
    so they are modelled from the spec (marked `spec_modelled` in the map).

`LoraLinear` refines `LoraLayerSpec` (`Abstract == INSTANCE LoraLayerSpec
WITH ...`, property `LayerRefinesSpec`). The refinement mapping:
* `Ref` is `ReferenceOf`, the single-process output of each layer name;
* the abstract `output` is `NoCall` until every rank is done, then
  `Gathered`, the output the caller assembles from the ranks' results:
  * column: each rank's `[PackedOffset, PackedOffset + size/P)` slices,
    concatenated in rank order;
  * row over a non-reducing base: the sum of the ranks' results (the
    caller's all_reduce);
  * otherwise: the common result, when all ranks agree.

`AdapterTargets` keeps the code's tables as they are (`ADAPTER_LAYERS`,
`ROW_PARALLEL`, the keys of `adapter_target_to_layer`). The layer classes of
the modules come from the modeling file, which is not under `src/`, so
`ModuleClass` is modelled from the spec. `LoadTarget` is one step of the
loader (also outside `src/`): look the key up, then record the sharding
`is_row_parallel` asks for and the collect policy of the module's class.

Before loading, `BuildModule` builds the base layer of each module
(`query_key_value`, `o_proj`, `gate_up_proj`, `down_proj`, then `lm_head`
unless in embed mode) with `LoadBase`: the head through `TensorParallelHead.load`
(`HeadQuantize`), the others through `load_multi`/`TensorParallelRowLinear.load`.
All of them call `GetLinear`. A built layer is the wrapper class, or the
exception raised. The first exception ends construction (`pc = "error"`). The
weight is abstracted to its kind: a pre-quantized gptq/awq checkpoint comes as
the tuple of packed tensors that `get_linear`'s own gptq/awq branches unpack
(`WeightKind`, modelled from the spec), every other format as a dense
tensor. `GetLinear` keeps the `if True:` and the whole elif chain behind it
(`QuantizedLinear`), so the dead branches are part of the model.

`Embedding` refines `EmbeddingSpec` (property `LookupRefinesSpec`). The
abstract `output` is `NoOutput` until every rank is done. Then it is what the
caller has: the rank's output when `reduce` is set, otherwise the sum of the
ranks' partial lookups, which a caller that builds the layer with
`reduce=False` performs (`RankSum`, the same sum as the all_reduce).

In `RotaryCache`, a frequency table is abstracted to what it is built from:
* `BaseFreq(b)` (`_create_inv_freq(dim, b)`), with `Base` for the model's
  base `Theta`;
* `<<"ntk", b, L>>` (the dynamic base `b` rescaled for length `L`);
* `Yarn` (the table `yarn()` computes).

Each cached row records that table, the divisor of the positions, and
`mscale`. A constructor is modelled as the sequence of assignments it makes,
so Yarn's `yarn()` followed by `super().__init__` is kept in that order.
A `rope_scaling` dict is abstracted to its type and its set of keys
(`ScalingKeys`). `Construct` raises `KeyError` without `type` or `factor`,
and `TypeError` for a Yarn dict with a key outside Yarn's keyword parameters
(`YarnParams`). `GetRopeConfig` replaces the keys by `{type, factor}` when
the environment variables are set.

## Runs

| run | cfg | expect | what it shows |
|---|---|---|---|
| lora_column | MC_LoraColumn.cfg | pass (69 968 states) | Two packed projections (q, k; width 2 each) on 2 ranks, 3 rows, 2 adapters with LoRA ranks 2 and 4 (two rank buckets), bias on, every adapter assignment, every weight presence, both adapter iteration orders and both paths. The gathers are aligned (`CollectivesAligned`). The collected `X@A` is the unsharded one (`CollectReconstructs`). Each rank ends with its slice of `X@W+b+X@A@B` (`OutputMatchesReference`). |
| lora_column_inplace | MC_LoraColumnSingle.cfg | pass (7 936 states) | One projection loaded without sizes (`SizesGiven` false): its slice is the whole result, and the fused path writes into `result` itself (`proj` is `result`). The ranks still implement `LoraLayerSpec`: each delta is added once, and every call returns (`LayerRefinesSpec`). |
| lora_row | MC_LoraRow.cfg | pass | A row adapter over a non-reducing base implements `LoraLayerSpec`: the all_reduce of `X@A_local` and the per-rank strides sum to the single-process result, with the bias counted once. |
| lora_head | MC_LoraHead.cfg | violation | `MultiAdapterHead` over a gathering `TensorParallelHead`: the ranks' logits differ, and each has the delta in one vocabulary stride only. |
| embedding | MC_Embedding.cfg | pass (612 states) | 3 ranks, 6 ids, two ids per input, every input, reduce on or off. After the reduce every id yields its row on every rank (`EmbeddingMatchesTable`). With either flag the layer implements `EmbeddingSpec`: every call returns on every rank, once, with the table rows (`LookupRefinesSpec`). |
| embedding_uneven | MC_EmbeddingUneven.cfg | violation | 7 ids on 3 ranks: id 6 is owned by nobody and embeds as 0. |
| adapter_targets | MC_AdapterTargets.cfg | pass (464 states) | 32 decoder layers, not in embed mode, quantize `None`, `gptq` or `hqq-4bit`. Every announced `(layer, type)` has a target (`TargetsCoverLayers`). Each weight is row-sharded exactly when its module all-reduces `X@A` (`ShardingMatchesCollect`). |
| adapter_targets_embed | MC_AdapterTargetsEmbed.cfg | violation | In embed mode the loader looks up `(0, lm_head)`, which `adapter_target_to_layer` left out. |
| adapter_targets_quantize | MC_AdapterTargetsQuantize.cfg | violation | With `quantize="gptq"`, `get_linear` hands the packed weight tuple to `Fp8Linear`, which raises `AttributeError`: neither the GPTQ layer nor a configuration error (`FormatHonoured`). |
| rotary | MC_RotaryCache.cfg | pass (284 states) | Rope types none, linear, dynamic and an unsupported one, built by `static()` for a model base of 1 000 000. The rope_scaling dict has `type` and `factor`, or also `original_max_position_embeddings`, or comes from the environment variables. The call lengths 1..5 are above and below `max_position_embeddings` = 2, with warmup ending at any point. Every served row is the embedding of its rope type. Nothing warmed up is refused after warmup. |
| rotary_yarn | MC_RotaryYarn.cfg | violation | A Yarn embedding serves rows built from the plain base table. |
| rotary_load | MC_RotaryLoad.cfg | violation | `load()` does not build what `static()` builds from the same config (`LoadMatchesStatic`). It raises for no scaling and for linear scaling. For a model base of 500 000 with dynamic or yarn scaling, it rebuilds the frequencies from base 10 000. |

Each violation run has a finding in `PROJECT.json`. Each property of a
passing run has a mutant: a plausible bug in a mapped definition that TLC
must catch. Examples:
* an undivided slice offset;
* swapped collect policies;
* a per-process path choice (`has_sgmv()` read by each rank process, so
  the ranks pair a gather per rank bucket with a gather per adapter);
* a missing or doubled add-back;
* an exclusive `min_id`;
* a cache that resets on any length change, as the method's comment
  suggests;
* a dynamic rescale past the wrong bound;
* an embedding that enters the all_reduce whatever its `reduce` flag.

### Bounds

* Two ranks are the smallest group in which the gather order, the rank-0
  bias and the strides matter.
* Both iteration orders of the two adapters are explored.
* Three rows with two adapters give every segmentation: a single segment,
  alternating segments, and a missing adapter.
* LoRA ranks 2 and 4 make two rank buckets, so a rank issues more than one
  collective per layer name. Both LoRA ranks divide by `P`, as the column
  sharding requires.
* Two packed projections make the slice offsets non-zero.
* For the embedding, 3 ranks put an id block strictly in the middle, and
  6 against 7 ids is the divisible/non-divisible pair.
* For rotary, lengths up to 5 against `max_position_embeddings` = 2 and
  factor 2 separate "within", "past max" and "past max × factor".

### Fairness and termination

`LoraLinear` declares weak fairness for each rank's steps and for
`Collective`:
* each rank is its own process;
* a matched collective returns on every rank.

Liveness is checked through the refinement: `LoraLayerSpec` carries weak
fairness on `Forward`, so `LayerRefinesSpec` requires every forward call to
return on the detailed model under the fairness above. Every model is
acyclic up to its terminal state, and deadlock checking is on: TLC reports any state where a rank waits
forever on a collective that its peers never reach. Such a state is the
"hang" of spec §4.1. So the passing runs show that every behaviour completes.
`Embedding` declares the same fairness, for each rank's `Lookup` and for
`AllReduce`, and `EmbeddingSpec` has weak fairness on `Forward`. So
`LookupRefinesSpec` also requires every lookup to return on every rank.
`RotaryCache` serves calls forever. Its only terminal state is a failed
construction, which the model marks with an explicit stutter.

## Findings

The six findings are listed in `PROJECT.json`. In short:
* `MultiAdapterHead` over a gathering head leaves the ranks with different
  logits. The same shape of defect applies to `TensorParallelAdapterRowLinear`
  over a base loaded with the default `all_reduce=True`: the delta goes into
  one stride of an output that is already complete. The spec never says the
  base must be loaded with `all_reduce=False`.
* `get_linear` ignores `quantize`: gptq/awq models crash at construction, and
  every other format silently becomes float8.
* The embedding's floor block size loses the last ids when the vocabulary
  does not divide evenly.
* Yarn's constructor discards `yarn()`'s frequencies.
* `PositionRotaryEmbedding.load` calls the constructor with three arguments
  missing. For dynamic and yarn scaling it throws away the checkpoint's
  `inv_freq` and rebuilds it from base 10000, whatever base the model uses.
* In embed mode `FlashMistral` announces an `lm_head` adapter layer that
  `adapter_target_to_layer` does not provide.

## Not modelled

* **The forward passes of the quantized wrappers.** These are numeric
  kernels with one linear contract. Only what their constructors require of
  the weight is modelled.
* **`FastLayerNorm` and the Yarn correction math.** These are floating-point
  formulas. `FastLayerNorm` has one branch, on a hidden width above 8192.
  Both paths return the normed sum and the pre-norm residual. No module
  under `src/` uses it: `FlashMistral`'s norms are defined in its modeling
  file.
* **The medusa speculative logits of `MultiAdapterHead`.** These come from an
  external model call and change no state.
* **`load_qkv`.** `FlashMistral` never calls it.
* **The rest of `FlashMistral.__init__`, and `tokenize_to_batch`.** They
  load the tokenizer, config and weight files, and call the tokenizer. They are I/O with no
  state the layers observe.
* **The medusa test.**

## Plan for further work

1. A decoder-level composition. It would instantiate `LoraLinear` for the
   sequence q/k/v (column), o (row), gate/up (column), down (row) and head,
   following `AdapterTargets`. It would check that collectives stay aligned
   across layers.
2. The row stride when the output width does not divide by the world size.
3. Rope configs whose `rope_scaling` carries `rope_type` next to `type`, as
   newer configs do. For yarn such a key reaches the Yarn constructor as a
   keyword argument it does not take, so construction raises TypeError. This
   is recorded as a hazard, with no property. It is not a finding, because the
   configs this code is given are outside the repository.
