------------------------------ MODULE Embedding -------------------------------
(***************************************************************************)
(* TensorParallelEmbedding of lorax_server/utils/layers.py: each rank      *)
(* holds a contiguous block of the embedding table plus one zero row       *)
(* (F.pad), maps the ids it does not own to that zero row, and the ranks   *)
(* sum their lookups with an all_reduce.  An embedding row is an integer.  *)
(***************************************************************************)
EXTENDS Integers, Sequences, FiniteSets

CONSTANTS
  P,        \* process_group.size()
  V,        \* num_embeddings (rows of the unsharded table)
  L,        \* number of ids in the input
  Table,    \* [0..V-1 -> Int]: the unsharded embedding table
  Reduces,  \* the reduce flags a layer may be built with (a subset of BOOLEAN)
  NoOutput  \* model value: the call has not returned on every rank

Ranks == 0..(P - 1)
Ids == 0..(V - 1)

ASSUME /\ P \in Nat \ {0} /\ V \in Nat \ {0} /\ L \in Nat \ {0}
       /\ V >= P /\ Table \in [Ids -> Int] /\ Reduces \subseteq BOOLEAN

VARIABLES
  reduce,   \* self.reduce of the layer
  input,    \* the ids looked up (the same on every rank)
  pc,       \* [Ranks -> "lookup" | "wait" | "done"]
  out       \* [Ranks -> [1..L -> Int]]: the rank's output

vars == <<reduce, input, pc, out>>

-------------------------------------------------------------------------------
(* TensorParallelEmbedding.__init__                                        *)

BlockSize == V \div P
MinId(p) == p * BlockSize
MaxId(p) == IF V < (p + 1) * BlockSize THEN V ELSE (p + 1) * BlockSize
NullIdx == BlockSize

\* Weights.get_partial_sharded(dim=0) (not under src/): rank p's block of
\* the table, rows [p * (V // P), (p + 1) * (V // P))
ShardRows(p) == [k \in 0..(BlockSize - 1) |-> Table[p * BlockSize + k]]

\* F.pad(weight, (0, 0, 0, 1)): one zero row appended after the block
LocalWeight(p) ==
  [k \in 0..BlockSize |-> IF k < BlockSize THEN ShardRows(p)[k] ELSE 0]

-------------------------------------------------------------------------------
(* TensorParallelEmbedding.forward                                         *)

\* mutant: the lower bound taken as exclusive
RemapMinExclusive(p, id) == IF MinId(p) >= id \/ id >= MaxId(p) THEN NullIdx ELSE id - MinId(p)

\* torch.where((min_id > input) | (input >= max_id), null_idx, input - min_id)
Remap(p, id) == IF MinId(p) > id \/ id >= MaxId(p) THEN NullIdx ELSE id - MinId(p)

\* mutant: the all_reduce entered whatever the reduce flag
LookupAlwaysReduces(p) ==
  /\ pc[p] = "lookup"
  /\ out' = [out EXCEPT ![p] = [i \in 1..L |-> LocalWeight(p)[Remap(p, input[i])]]]
  /\ pc' = [pc EXCEPT ![p] = IF P > 1 THEN "wait" ELSE "done"]
  /\ UNCHANGED <<reduce, input>>

\* torch.nn.functional.embedding(input, self.weight), then the all_reduce
\* when reduce is set and there is more than one rank
Lookup(p) ==
  /\ pc[p] = "lookup"
  /\ out' = [out EXCEPT ![p] = [i \in 1..L |-> LocalWeight(p)[Remap(p, input[i])]]]
  /\ pc' = [pc EXCEPT ![p] = IF reduce /\ P > 1 THEN "wait" ELSE "done"]
  /\ UNCHANGED <<reduce, input>>

\* mutant: the ranks' lookups gathered instead of summed
AllReduceGathers ==
  /\ \A p \in Ranks : pc[p] = "wait"
  /\ out' = [p \in Ranks |-> [i \in 1..(P * L) |-> out[(i - 1) \div L][((i - 1) % L) + 1]]]
  /\ pc' = [p \in Ranks |-> "done"]
  /\ UNCHANGED <<reduce, input>>

\* the elementwise sum over the ranks of their lookups of row i
RankSum(i) == LET RECURSIVE S(_)
                  S(q) == IF q < 0 THEN 0 ELSE out[q][i] + S(q - 1)
              IN S(P - 1)

\* torch.distributed.all_reduce(out): a rendezvous of all ranks, each gets
\* the elementwise sum of the ranks' lookups
AllReduce ==
  /\ \A p \in Ranks : pc[p] = "wait"
  /\ out' = [p \in Ranks |-> [i \in 1..L |-> RankSum(i)]]
  /\ pc' = [p \in Ranks |-> "done"]
  /\ UNCHANGED <<reduce, input>>

Init ==
  /\ reduce \in Reduces
  /\ input \in [1..L -> Ids]
  /\ pc = [p \in Ranks |-> "lookup"]
  /\ out = [p \in Ranks |-> [i \in 1..L |-> 0]]

AllDone == \A p \in Ranks : pc[p] = "done"

Next ==
  \/ \E p \in Ranks : Lookup(p)
  \/ AllReduce
  \/ AllDone /\ UNCHANGED vars

\* Each rank's process keeps running its forward, and an all_reduce every
\* rank has entered completes.
Fairness == (\A p \in Ranks : WF_vars(Lookup(p))) /\ WF_vars(AllReduce)

Spec == Init /\ [][Next]_vars /\ Fairness

-------------------------------------------------------------------------------

TypeOK ==
  /\ reduce \in BOOLEAN
  /\ input \in [1..L -> Ids]
  /\ pc \in [Ranks -> {"lookup", "wait", "done"}]
  /\ out \in [Ranks -> [1..L -> Int]]

\* Once a rank's forward has returned with the reduce done, each of its
\* output rows is the table row of the id: exactly one rank owns the id and
\* looks it up, every other rank maps it to its zero row.
EmbeddingMatchesTable ==
  reduce => \A p \in Ranks : pc[p] = "done" => \A i \in 1..L : out[p][i] = Table[input[i]]

\* What a caller has once every rank has returned: with reduce the rank's
\* own output (already summed), without it the sum of the ranks' partial
\* lookups, which a caller building the layer with reduce=False performs.
Returned == IF reduce THEN out[0] ELSE [i \in 1..L |-> RankSum(i)]

TableRows(ids) == [i \in 1..L |-> Table[ids[i]]]

Abstract == INSTANCE EmbeddingSpec
              WITH Embed <- TableRows,
                   output <- IF AllDone THEN Returned ELSE NoOutput

\* TensorParallelEmbedding.forward implements the lookup: every call
\* returns on every rank (no rank is left waiting in the all_reduce), and
\* what it returns, once, is the table row of each id, with or without the
\* reduce flag.
LookupRefinesSpec == Abstract!Spec

================================================================================
