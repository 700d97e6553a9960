------------------------------ MODULE RotaryCache ------------------------------
(***************************************************************************)
(* The cos/sin cache of PositionRotaryEmbedding and its Dynamic (NTK) and  *)
(* Yarn subclasses in lorax_server/utils/layers.py: construction through   *)
(* static() or load() from the rope_scaling dict _get_rope_config returns, *)
(* the cache rebuilt by _update_cos_sin_cache, which get_cos_sin only      *)
(* calls while the server warms up, and the rows served.  A frequency      *)
(* table is abstracted to the value it is built from: <<"base", b>>        *)
(* (_create_inv_freq(dim, b)), <<"ntk", b, L>> (the dynamic base b         *)
(* rescaled for sequence length L) or Yarn (the table yarn() computes).    *)
(* A cached row is the record of what its cos and sin were computed from.  *)
(* A rope_scaling dict is abstracted to its type and the set of its keys.  *)
(***************************************************************************)
EXTENDS Integers, FiniteSets

CONSTANTS
  MaxPos,     \* config.max_position_embeddings
  Factor,     \* rope_scaling["factor"]
  RopeTypes,  \* rope_scaling["type"] values tried: "none" (no rope_scaling),
              \* "linear", "dynamic", "yarn", or an unsupported name
  Ctors,      \* "static" (PositionRotaryEmbedding.static) and/or "load"
  SeqLens,    \* the max_s values get_cos_sin is called with
  Theta,      \* the base static() is given (the model's rope theta), also
              \* the base a checkpoint's stored inv_freq was computed from
  ScalingKeys,\* the key sets of the config's rope_scaling dicts tried
  EnvRope     \* whether ROPE_SCALING / ROPE_FACTOR are set: a subset of BOOLEAN

\* the keys a rope_scaling dict may carry
KeyNames == {"type", "rope_type", "factor", "original_max_position_embeddings",
             "attention_factor", "beta_fast"}

ASSUME /\ MaxPos \in Nat \ {0} /\ Factor \in Nat \ {0}
       /\ Ctors \subseteq {"static", "load"}
       /\ SeqLens \subseteq Nat \ {0}
       /\ Theta \in Nat \ {0}
       /\ ScalingKeys \subseteq SUBSET KeyNames
       /\ EnvRope \subseteq BOOLEAN

\* load() gives Dynamic and Yarn embeddings base=10000.0
LoadBase == 10000

\* the keyword parameters of YarnPositionRotaryEmbedding.__init__ that
\* **rope_scaling may fill (dim, max_position_embeddings, base, device and
\* dtype are passed explicitly, so a dict key of that name is a TypeError too)
YarnParams == {"factor", "original_max_position_embeddings", "extrapolation_factor",
               "attn_factor", "beta_fast", "beta_slow", "finetuned"}

VARIABLES
  rope,       \* the rope type the embedding was built for
  config,     \* how it was built: [ctor, keys] (history)
  base,       \* self.base of a Dynamic embedding (Theta otherwise)
  pc,         \* "ready" or "error" (construction raised)
  invFreq,    \* self.inv_freq
  scaling,    \* self.scaling_factor (1 when None)
  mscale,     \* self.mscale of a Yarn embedding (Unit otherwise)
  cache,      \* [len, inv, tdiv, mscale]: _seq_len_cached and what the
              \* cached rows were computed from
  warm,       \* is_warmup()
  maxWarm,    \* the largest max_s seen during warmup (history)
  served      \* the last get_cos_sin: [m, ok, row]

vars == <<rope, config, base, pc, invFreq, scaling, mscale, cache, warm, maxWarm, served>>

\* frequency tables and magnitude scales, as tagged pairs:
\* _create_inv_freq(dim, b)
BaseFreq(b) == <<"base", b>>
Base == BaseFreq(Theta)
Yarn == <<"yarn", 0>>
Unit == <<"mscale", 1>>

NoServe == [m |-> 0, ok |-> TRUE, row |-> [inv |-> Base, tdiv |-> 1, mscale |-> Unit]]

-------------------------------------------------------------------------------
(* _update_cos_sin_cache of each class, called with the new seqlen.        *)
(* dtype and device are those of the model and never change, so the        *)
(* device/dtype disjunct of the guard never holds.                         *)

\* mutant: the base rescaled for factor * seqlen
NewBaseFactor(b, L) == IF L = MaxPos THEN BaseFreq(b) ELSE <<"ntk", b, L * Factor>>

\* the dynamic base at seqlen L: b * ((f*L/max) - (f-1)) ** (dim/(dim-2)),
\* which is b itself at L = max_position_embeddings
NewBase(b, L) == IF L = MaxPos THEN BaseFreq(b) ELSE <<"ntk", b, L>>

\* mutant: the tables reset whenever the length "has changed", as the
\* comment of the method says, shrinking them on a shorter call
UpdateBaseShrinks(s, L) ==
  IF L # s.cache.len
  THEN [s EXCEPT !.cache = [len |-> L, inv |-> s.invFreq, tdiv |-> s.scaling, mscale |-> Unit]]
  ELSE s

\* PositionRotaryEmbedding: t = arange(seqlen) / scaling_factor
UpdateBase(s, L) ==
  IF L > s.cache.len
  THEN [s EXCEPT !.cache = [len |-> L, inv |-> s.invFreq, tdiv |-> s.scaling, mscale |-> Unit]]
  ELSE s

\* mutant: the base rescaled only past max_position_embeddings * factor
UpdateDynamicStale(s, L) ==
  IF L > s.cache.len
  THEN LET inv == IF L > MaxPos * Factor THEN NewBase(s.base, L) ELSE s.invFreq
       IN [s EXCEPT !.invFreq = inv,
                    !.cache = [len |-> L, inv |-> inv, tdiv |-> 1, mscale |-> Unit]]
  ELSE s

\* DynamicPositionRotaryEmbedding: past max_position_embeddings inv_freq is
\* rebuilt from the rescaled self.base; t is not divided
UpdateDynamic(s, L) ==
  IF L > s.cache.len
  THEN LET inv == IF L > MaxPos THEN NewBase(s.base, L) ELSE s.invFreq
       IN [s EXCEPT !.invFreq = inv,
                    !.cache = [len |-> L, inv |-> inv, tdiv |-> 1, mscale |-> Unit]]
  ELSE s

\* YarnPositionRotaryEmbedding: cos and sin scaled by mscale, t not divided
UpdateYarn(s, L) ==
  IF L > s.cache.len
  THEN [s EXCEPT !.cache = [len |-> L, inv |-> s.invFreq, tdiv |-> 1, mscale |-> s.mscale]]
  ELSE s

\* the method self._update_cos_sin_cache dispatches to
Update(s, L) ==
  CASE s.rope = "dynamic" -> UpdateDynamic(s, L)
    [] s.rope = "yarn" -> UpdateYarn(s, L)
    [] OTHER -> UpdateBase(s, L)

-------------------------------------------------------------------------------
(* Construction                                                            *)

\* _get_rope_config: ROPE_SCALING / ROPE_FACTOR in the environment replace
\* the config's rope_scaling by {"type": ..., "factor": ...}
GetRopeConfig(env, keys) == IF env THEN {"type", "factor"} ELSE keys

\* get_mscale(scale): 0.1 * ln(scale) + 1, or 1 for scale <= 1
MScale(f) == <<"mscale", IF f <= 1 THEN 1 ELSE f>>

\* PositionRotaryEmbedding.__init__: the fields reset, inv_freq and
\* scaling_factor taken from the arguments, then the cache built for
\* max_position_embeddings by the subclass's _update_cos_sin_cache
InitEmbedding(s, inv, sf) ==
  Update([s EXCEPT !.invFreq = inv, !.scaling = sf,
                   !.cache = [len |-> 0, inv |-> inv, tdiv |-> sf, mscale |-> Unit]],
         MaxPos)

Fresh(r) == [rope |-> r, err |-> FALSE, base |-> Theta, invFreq |-> Base, scaling |-> 1,
             mscale |-> Unit, cache |-> [len |-> 0, inv |-> Base, tdiv |-> 1, mscale |-> Unit]]

Raised(r) == [Fresh(r) EXCEPT !.err = TRUE]

\* DynamicPositionRotaryEmbedding.__init__(dim, max_pos, base, ...):
\* inv_freq = _create_inv_freq(dim, base), self.base = base, then
\* super().__init__ with scaling_factor
DynamicInit(s, b) == InitEmbedding([s EXCEPT !.base = b], BaseFreq(b), Factor)

\* YarnPositionRotaryEmbedding.__init__: self.yarn(device, factor) sets
\* inv_freq and mscale, then super().__init__ is given _create_inv_freq(dim, base)
YarnInit(s, b) ==
  LET afterYarn == [s EXCEPT !.invFreq = Yarn, !.mscale = MScale(Factor)]
  IN InitEmbedding(afterYarn, BaseFreq(b), Factor)

\* the object static() or load() returns for rope type r and a rope_scaling
\* dict with the given keys, or an error: rope_scaling["factor"] and
\* rope_scaling.pop("type") raise KeyError when the key is missing; the
\* rest of the dict goes to Yarn as keyword arguments (TypeError for one it
\* does not take); an unknown type raises NotImplementedError; load() calls
\* cls(inv_freq, scaling_factor) without max_position_embeddings, device
\* and dtype, a TypeError, and gives Dynamic and Yarn base 10000 in place of
\* the checkpoint's inv_freq
Construct(ctor, r, keys) ==
  LET b == IF ctor = "static" THEN Theta ELSE LoadBase
  IN IF r = "none" THEN IF ctor = "static" THEN InitEmbedding(Fresh(r), Base, 1) ELSE Raised(r)
     ELSE IF ~({"type", "factor"} \subseteq keys) THEN Raised(r)
     ELSE CASE r = "dynamic" -> DynamicInit(Fresh(r), b)
            [] r = "yarn" /\ keys \ {"type"} \subseteq YarnParams -> YarnInit(Fresh(r), b)
            [] r = "linear" /\ ctor = "static" -> InitEmbedding(Fresh(r), Base, Factor)
            [] OTHER -> Raised(r)

\* the environment variable always names a rope type
Init ==
  \E env \in EnvRope, ctor \in Ctors, r \in RopeTypes, k \in ScalingKeys :
    LET keys == GetRopeConfig(env, k)
        s == Construct(ctor, r, keys)
    IN /\ ~(env /\ r = "none")
       /\ rope = r
       /\ config = [ctor |-> ctor, keys |-> keys]
       /\ pc = IF s.err THEN "error" ELSE "ready"
       /\ base = s.base
       /\ invFreq = s.invFreq /\ scaling = s.scaling
       /\ mscale = s.mscale /\ cache = s.cache
       /\ warm = TRUE
       /\ maxWarm = 0
       /\ served = NoServe

-------------------------------------------------------------------------------
(* get_cos_sin(position_ids, max_s, dtype)                                 *)

State == [rope |-> rope, base |-> base, invFreq |-> invFreq, scaling |-> scaling,
          mscale |-> mscale, cache |-> cache]

\* during warmup the cache is first updated for max_s; the rows of the
\* batch's positions (up to max_s - 1) are then index_select-ed from it,
\* an IndexError when a position is past the cache
GetCosSin(m) ==
  /\ pc = "ready"
  /\ LET s == IF warm THEN Update(State, m) ELSE State
     IN /\ invFreq' = s.invFreq
        /\ cache' = s.cache
        /\ served' = [m |-> m, ok |-> m <= s.cache.len,
                      row |-> [inv |-> s.cache.inv, tdiv |-> s.cache.tdiv,
                               mscale |-> s.cache.mscale]]
  /\ maxWarm' = IF warm /\ m > maxWarm THEN m ELSE maxWarm
  /\ UNCHANGED <<rope, config, base, pc, scaling, mscale, warm>>

\* the server's warmup ends (lorax_server.utils.state, not under src/)
EndWarmup ==
  /\ pc = "ready" /\ warm
  /\ warm' = FALSE
  /\ UNCHANGED <<rope, config, base, pc, invFreq, scaling, mscale, cache, maxWarm, served>>

Next ==
  \/ \E m \in SeqLens : GetCosSin(m)
  \/ EndWarmup
  \/ pc = "error" /\ UNCHANGED vars

Spec == Init /\ [][Next]_vars

-------------------------------------------------------------------------------

Bases == {Theta, LoadBase}
Freqs == {BaseFreq(b) : b \in Bases} \cup {Yarn} \cup {<<"ntk", b, L>> : b \in Bases, L \in SeqLens}
Rows == [inv : Freqs, tdiv : {1, Factor}, mscale : {Unit, MScale(Factor)}]

TypeOK ==
  /\ pc \in {"ready", "error"}
  /\ config \in [ctor : Ctors, keys : SUBSET KeyNames]
  /\ base \in Bases
  /\ invFreq \in Freqs
  /\ cache \in [len : Nat, inv : Freqs, tdiv : {1, Factor}, mscale : {Unit, MScale(Factor)}]
  /\ served \in [m : Nat, ok : BOOLEAN, row : Rows]

\* load() builds the embedding static() builds from the same config: the
\* two classmethods differ only in where inv_freq comes from (the
\* checkpoint, computed with the model's base, or _create_inv_freq).
LoadMatchesStatic ==
  config.ctor = "load" =>
    Construct("load", rope, config.keys) = Construct("static", rope, config.keys)

\* What a served row is computed from: the frequency table, the divisor of
\* the positions and the magnitude scale of the rope type (linear: t /
\* factor; dynamic: the model's base rescaled for the longest cached length
\* past max_position_embeddings; yarn: yarn()'s table and mscale).
Expected(r, len) ==
  CASE r = "linear" -> [inv |-> Base, tdiv |-> Factor, mscale |-> Unit]
    [] r = "dynamic" -> [inv |-> IF len > MaxPos THEN NewBase(Theta, len) ELSE Base,
                         tdiv |-> 1, mscale |-> Unit]
    [] r = "yarn" -> [inv |-> Yarn, tdiv |-> 1, mscale |-> MScale(Factor)]
    [] OTHER -> [inv |-> Base, tdiv |-> 1, mscale |-> Unit]

\* Every row get_cos_sin returns is the rotary embedding of the rope type
\* the layer was built for, whatever the order of the warmup calls.
RowsMatchRope ==
  served.m > 0 /\ served.ok => served.row = Expected(rope, cache.len)

\* Once warmup is over no call fails for lack of cache: any max_s up to the
\* longest warmed-up one (or max_position_embeddings) is served, since the
\* cache may no longer grow without breaking the captured cuda graphs.
ServedAfterWarmup ==
  served.m > 0 /\ ~served.ok => served.m > maxWarm /\ served.m > MaxPos

================================================================================
