------------------------------ MODULE LoraLinear ------------------------------
(***************************************************************************)
(* One forward call of an adapter-aware linear layer of                    *)
(* lorax_server/utils/layers.py, run by every rank of the process group.   *)
(*                                                                         *)
(*   Kind = "column": TensorParallelMultiAdapterLinear.forward over a      *)
(*     TensorParallelColumnLinear base holding several packed projections *)
(*     (q/k/v or gate/up); LoRA-A and LoRA-B are column sharded and        *)
(*     collect_lora_a is an all_gather.                                    *)
(*   Kind = "row": TensorParallelAdapterRowLinear.forward over a           *)
(*     TensorParallelRowLinear base (o_proj, down_proj); LoRA-A is row     *)
(*     sharded, LoRA-B column sharded, collect_lora_a is an all_reduce.    *)
(*   Kind = "head": MultiAdapterHead.forward, the row composition over a   *)
(*     TensorParallelHead base that all_gathers the vocabulary slices.     *)
(*                                                                         *)
(* Each rank is a process with its own pc; a collective is a rendezvous    *)
(* that completes only when every rank has posted its call (Collective).   *)
(* Tensors are small integer matrices, so the output of the ranks can be   *)
(* compared with the unsharded computation X @ W + X @ A @ B.              *)
(***************************************************************************)
EXTENDS Integers, Sequences, FiniteSets, Tensors

LOCAL Seqs == INSTANCE SequencesExt

CONSTANTS
  P,             \* process_group.size()
  N,             \* rows of the batch (input.shape[0])
  F,             \* in_features of the base layer
  Kind,          \* "column", "row" or "head", see above
  LayerNames,    \* self.layer_names (column) or <<self.layer_name>> (row)
  Sizes,         \* [name -> global out_features of that projection]
  SizesGiven,    \* self.sizes is not None (the column layer was given Sizes)
  Adapters,      \* adapter indices (small ints) a batch may use
  LoraR,         \* [Adapters -> LoRA rank r]
  X,             \* the input, N x F
  W,             \* [name -> F x Sizes[name]]: unsharded base weight
  LoraA,         \* [name -> [Adapters -> F x LoraR[a]]]
  LoraB,         \* [name -> [Adapters -> LoraR[a] x Sizes[name]]]
  BiasOn,        \* the base layer was loaded with bias=True
  Bias,          \* [name -> the unsharded bias vector of that projection]
  BaseAllReduce, \* all_reduce flag of the wrapped TensorParallelRowLinear
  SgmvPerRank,   \* may has_sgmv() differ between the rank processes?
  NoCall         \* model value: no collective posted

Ranks == 0..(P - 1)
Rows == 1..N
Names == {LayerNames[k] : k \in DOMAIN LayerNames}

ASSUME /\ P \in Nat \ {0} /\ N \in Nat \ {0} /\ F \in Nat \ {0}
       /\ Kind \in {"column", "row", "head"}
       /\ Kind # "column" => Len(LayerNames) = 1
       /\ Kind = "head" => ~BiasOn
       /\ F % P = 0 /\ \A n \in Names : Sizes[n] % P = 0
       /\ Kind = "column" => \A a \in Adapters : LoraR[a] % P = 0
       /\ SizesGiven \in BOOLEAN /\ BiasOn \in BOOLEAN /\ BaseAllReduce \in BOOLEAN /\ SgmvPerRank \in BOOLEAN

VARIABLES
  batch,    \* the AdapterBatchData of this call; fixed during the call
  pc,       \* [Ranks -> control point]
  li,       \* [Ranks -> index into LayerNames of the layer type in progress]
  path,     \* [Ranks -> "inplace" | "scratch" | "fallback"]
  work,     \* [Ranks -> rank buckets (fused) or adapter ids (fallback) left]
  result,   \* [Ranks -> the rank's result tensor]
  proj,     \* [Ranks -> scratch proj tensor of the fused path]
  aout,     \* [Ranks -> X @ A of the current item, after collect_lora_a]
  call,     \* [Ranks -> the collective the rank is blocked in, or NoCall]
  aligned   \* history: every completed collective matched on all ranks

vars == <<batch, pc, li, path, work, result, proj, aout, call, aligned>>

-------------------------------------------------------------------------------
(* Batch metadata (AdapterBatchMetadata, BatchLoraWeights: not under src/) *)

AdapterSet == {batch.indices[i] : i \in Rows}

\* iterating adapter_data.meta.adapter_set: a Python set of ints, whose
\* order is unspecified but the same in every rank process, since each
\* builds it from the same batch metadata
AdapterOrder == SelectSeq(batch.order, LAMBDA a : a \in AdapterSet)

\* adapter_data.data.get(layer_type).get(LORA) is not None: some adapter of
\* the batch has weights for this layer type
HasData(n) == batch.weights[n] \cap AdapterSet # {}

\* data.has_adapter(adapter_index)
HasAdapter(n, a) == a \in batch.weights[n]

\* adapter_segments / segment_indices: the maximal runs of rows with the
\* same adapter, as 0-based [start, end) offsets
SegStarts == Seqs!SetToSortSeq({1} \cup {i \in 2..N : batch.indices[i] # batch.indices[i - 1]}, <)
Segments ==
  [k \in 1..Len(SegStarts) |->
     [start   |-> SegStarts[k] - 1,
      end     |-> IF k < Len(SegStarts) THEN SegStarts[k + 1] - 1 ELSE N,
      adapter |-> batch.indices[SegStarts[k]]]]

\* data.rank_data: the segments of adapters with weights for n, grouped by
\* LoRA rank, buckets in order of first appearance (dict insertion order)
LoraSegments(n) == SelectSeq(Segments, LAMBDA s : HasAdapter(n, s.adapter))
RankOrder(n) ==
  Seqs!FoldLeft(LAMBDA acc, s : IF \E k \in DOMAIN acc : acc[k] = LoraR[s.adapter]
                                THEN acc ELSE Append(acc, LoraR[s.adapter]),
                <<>>, LoraSegments(n))
RankData(n) ==
  [k \in DOMAIN RankOrder(n) |->
     [r |-> RankOrder(n)[k],
      segs |-> SelectSeq(LoraSegments(n), LAMBDA s : LoraR[s.adapter] = RankOrder(n)[k])]]

\* the segment of a bucket that holds row i, if any
InSegs(i, segs) == \E k \in DOMAIN segs : segs[k].start < i /\ i <= segs[k].end
SegAdapter(i, segs) == segs[CHOOSE k \in DOMAIN segs : segs[k].start < i /\ i <= segs[k].end].adapter

-------------------------------------------------------------------------------
(* Shards held by rank p (WeightSource loaders: not under src/)           *)

Part(len, p) == [lo |-> p * (len \div P), hi |-> (p + 1) * (len \div P)]

\* the input of a row-parallel layer is the previous column layer's slice
LocalIn(p) ==
  IF Kind = "row" THEN ColSlice(X, Part(F, p).lo, Part(F, p).hi) ELSE X

\* LoRA-A of the row and head compositions is sharded on the input features
LoraIn(p) ==
  IF Kind = "column" THEN X ELSE ColSlice(X, Part(F, p).lo, Part(F, p).hi)

\* TensorParallelHead.load: with more than one rank the head is sharded on
\* the vocabulary when get_sharded accepts it (the vocabulary divides evenly),
\* and should_gather is set; otherwise the whole weight is loaded
ShouldGather == P > 1 /\ Sizes[LayerNames[1]] % P = 0

LocalW(p) ==
  CASE Kind = "column" ->
         ConcatCols([k \in DOMAIN LayerNames |->
           LET n == LayerNames[k] IN ColSlice(W[n], Part(Sizes[n], p).lo, Part(Sizes[n], p).hi)])
    [] Kind = "row" -> RowSlice(W[LayerNames[1]], Part(F, p).lo, Part(F, p).hi)
    [] Kind = "head" ->
         IF ShouldGather
         THEN ColSlice(W[LayerNames[1]], Part(Sizes[LayerNames[1]], p).lo, Part(Sizes[LayerNames[1]], p).hi)
         ELSE W[LayerNames[1]]
LocalA(n, a, p) ==
  IF Kind = "column"
  THEN ColSlice(LoraA[n][a], Part(LoraR[a], p).lo, Part(LoraR[a], p).hi)
  ELSE RowSlice(LoraA[n][a], Part(F, p).lo, Part(F, p).hi)
LocalB(n, a, p) == ColSlice(LoraB[n][a], Part(Sizes[n], p).lo, Part(Sizes[n], p).hi)

\* mutant: the base weight used unsharded (the whole packed projection)
BaseOutUnsharded(p) ==
  MatMul(LocalIn(p), ConcatCols([k \in DOMAIN LayerNames |-> W[LayerNames[k]]]))

\* mutant: the row-parallel bias loaded on every rank
RowBiasEveryRank(p) == Bias[LayerNames[1]]

\* TensorParallelColumnLinear.load_multi: every rank holds its slice of
\* each projection's bias, concatenated like the weights
ColumnBias(p) ==
  ConcatCols([k \in DOMAIN LayerNames |->
    LET n == LayerNames[k] IN ColSlice(<<Bias[n]>>, Part(Sizes[n], p).lo, Part(Sizes[n], p).hi)])[1]

\* TensorParallelRowLinear.load: the bias is only loaded on rank 0, so that
\* the sum over the ranks counts it once
RowBias(p) ==
  IF p = 0 THEN Bias[LayerNames[1]] ELSE [j \in 1..Sizes[LayerNames[1]] |-> 0]

LocalBias(p) == IF Kind = "column" THEN ColumnBias(p) ELSE RowBias(p)

\* SuperLayer.forward -> linear.forward: the base layer on the rank's shard
\* (F.linear: input @ weight.T + bias)
BaseOut(p) ==
  LET xw == MatMul(LocalIn(p), LocalW(p))
  IN IF BiasOn THEN MatAdd(xw, [i \in Rows |-> LocalBias(p)]) ELSE xw

\* rows of the result tensor held by each rank before any LoRA is added
LocalOut ==
  IF Kind = "column"
  THEN Seqs!FoldLeft(LAMBDA acc, n : acc + Sizes[n] \div P, 0, LayerNames)
  ELSE Sizes[LayerNames[1]]

-------------------------------------------------------------------------------
(* The slice [start_idx, end_idx) of result a layer type writes            *)

\* TensorParallelMultiAdapterLinear.forward: offset // process_group.size(),
\* offset advanced by self.sizes[i] only when sizes is not None
ColumnOffset(k) ==
  IF SizesGiven THEN Seqs!FoldLeft(+, 0, [j \in 1..(k - 1) |-> Sizes[LayerNames[j]]]) ELSE 0
\* mutant: the offset not divided by the group size
ColumnStartIdxUndivided(k) == ColumnOffset(k)
ColumnStartIdx(k) == ColumnOffset(k) \div P
\* without sizes every layer type ends at result.shape[1]
ColumnEndIdx(k) == IF SizesGiven THEN ColumnOffset(k + 1) \div P ELSE LocalOut

\* TensorParallelAdapterRowLinear.forward (also MultiAdapterHead): the
\* rank's stride of the output
RowStartIdx(p) == p * (NCols(result[p]) \div P)
RowEndIdx(p) == (p + 1) * (NCols(result[p]) \div P)

StartIdx(p) == IF Kind = "column" THEN ColumnStartIdx(li[p]) ELSE RowStartIdx(p)
EndIdx(p) == IF Kind = "column" THEN ColumnEndIdx(li[p]) ELSE RowEndIdx(p)

Name(p) == LayerNames[li[p]]

\* mutant: the subclasses' collectives swapped
CollectOpSwapped == IF Kind = "column" THEN "all_reduce" ELSE "all_gather"

\* collect_lora_a: the subclass decides the collective
CollectOp == IF Kind = "column" THEN "all_gather" ELSE "all_reduce"

\* what a matched collective delivers to every rank: the rank-ordered
\* concatenation along dim 1 (all_gather + torch.cat) or the sum (all_reduce)
Combine(op, vals) == IF op = "all_gather" THEN ConcatCols(vals) ELSE SumMats(vals)

\* width of X @ A for a rank-r adapter on one rank
LocalR(r) == IF Kind = "column" THEN r \div P ELSE r

-------------------------------------------------------------------------------
(* Actions of rank p                                                       *)

\* post v to collect_lora_a when the group has more than one rank
CollectLoraA(p, tag, v) ==
  IF P > 1
  THEN /\ call' = [call EXCEPT ![p] = [op |-> CollectOp, tag |-> tag, val |-> v]]
       /\ pc' = [pc EXCEPT ![p] = "wait"]
       /\ UNCHANGED aout
  ELSE /\ aout' = [aout EXCEPT ![p] = v]
       /\ pc' = [pc EXCEPT ![p] = "expand"]
       /\ UNCHANGED call

\* pop the item just handled
Advance(p) ==
  /\ work' = [work EXCEPT ![p] = Tail(@)]
  /\ pc' = [pc EXCEPT ![p] = IF Len(work[p]) = 1 THEN "finish" ELSE "next"]

\* the collective the base layer ends with: TensorParallelRowLinear
\* all-reduces when size() > 1 and its all_reduce flag is set;
\* TensorParallelHead all-gathers when should_gather (all_gather_into_tensor
\* on its single-row fast branch, all_gather + cat otherwise: the same
\* rank-ordered concatenation)
BaseCollective ==
  CASE Kind = "row" /\ P > 1 /\ BaseAllReduce -> "all_reduce"
    [] Kind = "head" /\ ShouldGather -> "all_gather"
    [] OTHER -> "none"

\* result = self.base_layer(input)
BaseForward(p) ==
  /\ pc[p] = "base"
  /\ IF BaseCollective # "none"
     THEN /\ call' = [call EXCEPT ![p] = [op |-> BaseCollective, tag |-> "base", val |-> BaseOut(p)]]
          /\ pc' = [pc EXCEPT ![p] = "base_wait"]
          /\ UNCHANGED result
     ELSE /\ result' = [result EXCEPT ![p] = BaseOut(p)]
          /\ pc' = [pc EXCEPT ![p] = "start"]
          /\ UNCHANGED call
  /\ UNCHANGED <<batch, li, path, work, proj, aout, aligned>>

\* forward_layer_type, up to the loop: look the layer type's LoRA data up
\* and pick the fused (sgmv) path or the per-adapter fallback
StartLayerType(p) ==
  /\ pc[p] = "start"
  /\ LET n == Name(p)
         width == EndIdx(p) - StartIdx(p)
         fused == batch.sgmv[p] /\ HasData(n) /\ batch.vectorize
         items == IF fused THEN RankData(n) ELSE AdapterOrder
     IN /\ path' = [path EXCEPT ![p] = IF ~fused THEN "fallback"
                                        ELSE IF width # NCols(result[p]) THEN "scratch"
                                        ELSE "inplace"]
        /\ proj' = [proj EXCEPT ![p] = Zeros(N, width)]
        /\ work' = [work EXCEPT ![p] = items]
        /\ pc' = [pc EXCEPT ![p] = IF items = <<>> THEN "finish" ELSE "next"]
  /\ UNCHANGED <<batch, li, result, aout, call, aligned>>

\* fused path: lora_a_sgmv_cutlass over the bucket's segments, then
\* collect_lora_a (the bucket's lora_a_ptr and lora_b_ptr are never None:
\* a bucket is only made for adapters that have weights)
ShrinkFused(p) ==
  /\ pc[p] = "next"
  /\ path[p] # "fallback"
  /\ LET b == Head(work[p])
         n == Name(p)
         v == [i \in Rows |->
                 IF InSegs(i, b.segs)
                 THEN MatMul(<<LoraIn(p)[i]>>, LocalA(n, SegAdapter(i, b.segs), p))[1]
                 ELSE [j \in 1..LocalR(b.r) |-> 0]]
     IN CollectLoraA(p, [layer |-> n, bucket |-> b.r], v)
  /\ UNCHANGED <<batch, li, path, work, result, proj, aligned>>

\* fallback path, adapter with weights: forward_lora up to collect_lora_a
ShrinkFallback(p) ==
  /\ pc[p] = "next"
  /\ path[p] = "fallback"
  /\ LET a == Head(work[p])
         n == Name(p)
     IN /\ HasData(n) /\ HasAdapter(n, a)
        /\ CollectLoraA(p, [layer |-> n, adapter |-> a], MatMul(LoraIn(p), LocalA(n, a, p)))
  /\ UNCHANGED <<batch, li, path, work, result, proj, aligned>>

\* fallback path, adapter without weights for this layer type: skipped
SkipAdapter(p) ==
  /\ pc[p] = "next"
  /\ path[p] = "fallback"
  /\ ~(HasData(Name(p)) /\ HasAdapter(Name(p), Head(work[p])))
  /\ Advance(p)
  /\ UNCHANGED <<batch, li, path, result, proj, aout, call, aligned>>

\* the group's rendezvous: enabled once every rank has posted a call.  A
\* matched call delivers Combine to all; calls that differ in op or shape
\* leave each rank with its own tensor (NCCL gives no defined result)
Collective ==
  /\ \A p \in Ranks : call[p] # NoCall
  /\ LET vals == [k \in 1..P |-> call[k - 1].val]
         same == \A p, q \in Ranks : call[p].op = call[q].op /\ call[p].tag = call[q].tag
         combinable == \A p, q \in Ranks : /\ call[p].op = call[q].op
                                         /\ NRows(call[p].val) = NRows(call[q].val)
                                         /\ NCols(call[p].val) = NCols(call[q].val)
         recv(p) == IF combinable THEN Combine(call[p].op, vals) ELSE call[p].val
     IN /\ aligned' = (aligned /\ same)
        /\ result' = [p \in Ranks |-> IF pc[p] = "base_wait" THEN recv(p) ELSE result[p]]
        /\ aout' = [p \in Ranks |-> IF pc[p] = "wait" THEN recv(p) ELSE aout[p]]
        /\ pc' = [p \in Ranks |-> IF pc[p] = "base_wait" THEN "start" ELSE "expand"]
        /\ call' = [p \in Ranks |-> NoCall]
  /\ UNCHANGED <<batch, li, path, work, proj>>

\* fused path: lora_b_sgmv_cutlass accumulates (X @ A) @ B of each row's
\* adapter into proj, which is result itself when the slice is all of it
ExpandFused(p) ==
  /\ pc[p] = "expand"
  /\ path[p] # "fallback"
  /\ LET b == Head(work[p])
         n == Name(p)
         D == [i \in Rows |->
                 IF InSegs(i, b.segs)
                 THEN MatMul(<<aout[p][i]>>, LocalB(n, SegAdapter(i, b.segs), p))[1]
                 ELSE [j \in 1..(Sizes[n] \div P) |-> 0]]
     IN IF path[p] = "inplace"
        THEN /\ result' = [result EXCEPT ![p] = AddIntoCols(@, 0, D)]
             /\ UNCHANGED proj
        ELSE /\ proj' = [proj EXCEPT ![p] = AddIntoCols(@, 0, D)]
             /\ UNCHANGED result
  /\ Advance(p)
  /\ UNCHANGED <<batch, li, path, aout, call, aligned>>

\* fallback path: result[:, start_idx:end_idx] += (a_out @ lora_b) * mask
ExpandFallback(p) ==
  /\ pc[p] = "expand"
  /\ path[p] = "fallback"
  /\ LET a == Head(work[p])
         mask == [i \in Rows |-> batch.indices[i] = a]
         delta == MaskRows(MatMul(aout[p], LocalB(Name(p), a, p)), mask)
     IN result' = [result EXCEPT ![p] = AddIntoCols(@, StartIdx(p), delta)]
  /\ Advance(p)
  /\ UNCHANGED <<batch, li, path, proj, aout, call, aligned>>

\* mutant: the scratch proj never added back into result
FinishLayerTypeNoAddBack(p) ==
  /\ pc[p] = "finish"
  /\ li' = [li EXCEPT ![p] = IF @ < Len(LayerNames) THEN @ + 1 ELSE @]
  /\ pc' = [pc EXCEPT ![p] = IF li[p] < Len(LayerNames) THEN "start" ELSE "done"]
  /\ UNCHANGED <<batch, path, work, proj, aout, call, aligned, result>>

\* mutant: result[:, start_idx:end_idx] += proj done unconditionally; on
\* the in-place path proj is result itself, so its slice is added to itself
FinishLayerTypeAlwaysAddBack(p) ==
  /\ pc[p] = "finish"
  /\ result' = [result EXCEPT ![p] =
                  CASE path[p] = "scratch" -> AddIntoCols(@, StartIdx(p), proj[p])
                    [] path[p] = "inplace" -> AddIntoCols(@, StartIdx(p), ColSlice(@, StartIdx(p), EndIdx(p)))
                    [] OTHER -> @]
  /\ li' = [li EXCEPT ![p] = IF @ < Len(LayerNames) THEN @ + 1 ELSE @]
  /\ pc' = [pc EXCEPT ![p] = IF li[p] < Len(LayerNames) THEN "start" ELSE "done"]
  /\ UNCHANGED <<batch, path, work, proj, aout, call, aligned>>

\* end of forward_layer_type (result[:, start_idx:end_idx] += proj on the
\* scratch path), then the next layer name of forward, or return
FinishLayerType(p) ==
  /\ pc[p] = "finish"
  /\ result' = [result EXCEPT ![p] = IF path[p] = "scratch"
                                      THEN AddIntoCols(@, StartIdx(p), proj[p]) ELSE @]
  /\ li' = [li EXCEPT ![p] = IF @ < Len(LayerNames) THEN @ + 1 ELSE @]
  /\ pc' = [pc EXCEPT ![p] = IF li[p] < Len(LayerNames) THEN "start" ELSE "done"]
  /\ UNCHANGED <<batch, path, work, proj, aout, call, aligned>>

-------------------------------------------------------------------------------

\* mutant: kernel availability decided by each process (its own device)
SgmvChoicesPerProcess == [Ranks -> BOOLEAN]

\* has_sgmv() is evaluated by each rank's process
SgmvChoices ==
  IF SgmvPerRank THEN [Ranks -> BOOLEAN] ELSE {[p \in Ranks |-> b] : b \in BOOLEAN}

Batches ==
  [indices : [Rows -> Adapters], weights : [Names -> SUBSET Adapters],
   vectorize : BOOLEAN, sgmv : SgmvChoices, order : Seqs!SetToSeqs(Adapters)]

Init ==
  /\ batch \in Batches
  /\ pc = [p \in Ranks |-> "base"]
  /\ li = [p \in Ranks |-> 1]
  /\ path = [p \in Ranks |-> "fallback"]
  /\ work = [p \in Ranks |-> <<>>]
  /\ result = [p \in Ranks |-> Zeros(N, LocalOut)]
  /\ proj = [p \in Ranks |-> Zeros(N, 0)]
  /\ aout = [p \in Ranks |-> Zeros(N, 0)]
  /\ call = [p \in Ranks |-> NoCall]
  /\ aligned = TRUE

AllDone == \A p \in Ranks : pc[p] = "done"

RankStep(p) ==
  \/ BaseForward(p) \/ StartLayerType(p)
  \/ ShrinkFused(p) \/ ShrinkFallback(p) \/ SkipAdapter(p)
  \/ ExpandFused(p) \/ ExpandFallback(p) \/ FinishLayerType(p)

Next ==
  \/ \E p \in Ranks : RankStep(p)
  \/ Collective
  \/ AllDone /\ UNCHANGED vars

\* each rank is its own process and a matched collective returns on all ranks
Fairness == (\A p \in Ranks : WF_vars(RankStep(p))) /\ WF_vars(Collective)

Spec == Init /\ [][Next]_vars /\ Fairness

-------------------------------------------------------------------------------
(* Properties                                                              *)

TypeOK ==
  /\ pc \in [Ranks -> {"base", "base_wait", "start", "next", "wait", "expand", "finish", "done"}]
  /\ li \in [Ranks -> DOMAIN LayerNames]
  /\ path \in [Ranks -> {"inplace", "scratch", "fallback"}]
  /\ \A p \in Ranks : NRows(result[p]) = N /\ NCols(result[p]) = LocalOut
  /\ \A p \in Ranks : call[p] = NoCall \/ call[p].op \in {"all_gather", "all_reduce"}
  /\ aligned \in BOOLEAN

\* What a single process computes for batch b, per layer name: the base
\* output plus, on each row, the LoRA product of the row's adapter
ReferenceOf(b) ==
  [n \in Names |->
     LET base == MatMul(X, W[n])
         delta == [i \in Rows |->
                     LET a == b.indices[i]
                     IN IF a \in b.weights[n]
                        THEN MatMul(MatMul(<<X[i]>>, LoraA[n][a]), LoraB[n][a])[1]
                        ELSE [j \in 1..Sizes[n] |-> 0]]
     IN MatAdd(IF BiasOn THEN MatAdd(base, [i \in Rows |-> Bias[n]]) ELSE base, delta)]

Reference(n) == ReferenceOf(batch)[n]

\* where projection LayerNames[k] starts in a rank's packed result
PackedOffset(k) == Seqs!FoldLeft(+, 0, [j \in 1..(k - 1) |-> Sizes[LayerNames[j]] \div P])

\* X @ A computed unsharded for the item rank p is expanding
UnshardedAOut(p) ==
  LET n == Name(p)
      item == Head(work[p])
  IN IF path[p] = "fallback"
     THEN MatMul(X, LoraA[n][item])
     ELSE [i \in Rows |->
             IF InSegs(i, item.segs)
             THEN MatMul(<<X[i]>>, LoraA[n][SegAdapter(i, item.segs)])[1]
             ELSE [j \in 1..item.r |-> 0]]

\* Every collective the ranks complete is the same call on all of them:
\* same op (all_gather/all_reduce), same layer type and same rank bucket
\* or adapter.  Otherwise NCCL hangs or mixes tensors of different adapters.
CollectivesAligned == aligned

\* collect_lora_a reconstructs, on every rank, the X @ A of the single
\* process computation before lora_b is applied: the all_gather of the
\* column-sharded layer concatenates the rank slices of the LoRA rank
\* dimension, the all_reduce of the row-sharded layer sums the partial dot
\* products over the input features.
CollectReconstructs ==
  \A p \in Ranks : pc[p] = "expand" => aout[p] = UnshardedAOut(p)

\* When every rank has returned from forward, the ranks together hold the
\* single-process result X @ W + X @ A @ B of each row's adapter, whichever
\* path (sgmv or per-adapter) each layer type took: for the column layer each
\* rank holds its output slice of each packed projection; for the row layer
\* the caller's all-reduce of the ranks' results (or, when the base layer
\* already reduced, each rank's result) is that value; every rank holds the
\* full logits of the head, as its base gathered them.
OutputMatchesReference ==
  AllDone =>
    IF Kind = "column"
    THEN \A p \in Ranks, k \in DOMAIN LayerNames :
           LET n == LayerNames[k]
               off == PackedOffset(k)
           IN ColSlice(result[p], off, off + Sizes[n] \div P)
                = ColSlice(Reference(n), Part(Sizes[n], p).lo, Part(Sizes[n], p).hi)
    ELSE IF Kind = "head" \/ BaseAllReduce
         THEN \A p \in Ranks : result[p] = Reference(LayerNames[1])
         ELSE SumMats([k \in 1..P |-> result[k - 1]]) = Reference(LayerNames[1])

-------------------------------------------------------------------------------
(* Refinement of LoraLayerSpec                                             *)

\* what the caller of forward holds once every rank has returned: the
\* column layer's rank slices concatenated per projection, the row layer's
\* results summed by the all-reduce that follows it, or the result the
\* ranks agree on when the base layer already reduced or gathered (the
\* ranks' results themselves when they disagree)
Gathered ==
  CASE Kind = "column" ->
         [n \in Names |->
            LET k == CHOOSE k \in DOMAIN LayerNames : LayerNames[k] = n
            IN ConcatCols([q \in 1..P |->
                 ColSlice(result[q - 1], PackedOffset(k), PackedOffset(k) + Sizes[n] \div P)])]
    [] Kind = "row" /\ ~BaseAllReduce ->
         [n \in Names |-> SumMats([q \in 1..P |-> result[q - 1]])]
    [] OTHER ->
         IF \A p \in Ranks : result[p] = result[0] THEN [n \in Names |-> result[0]] ELSE result

Abstract == INSTANCE LoraLayerSpec
              WITH Ref <- ReferenceOf, NoOutput <- NoCall,
                   output <- IF AllDone THEN Gathered ELSE NoCall

\* Every behaviour of the ranks is a behaviour of the single-process layer:
\* nothing is returned until all ranks are done, then exactly the layer's
\* output for the batch, and under the fairness of the ranks and of the
\* collectives the call does return.
LayerRefinesSpec == Abstract!Spec

================================================================================
