------------------------------- MODULE Sizing -------------------------------
(***************************************************************************)
(* How much of a GPU a model needs, and whether its settings can work:     *)
(* services/sizing.py.  Memory is counted in ticks, of which the unit that *)
(* estimates are rounded to (a tenth of a GB) has TICKS, and the unit that *)
(* cards and claims are counted in (an MB) has MB: with ticks of a fifth   *)
(* of an MB, 512 and 5.                                                    *)
(*                                                                         *)
(* A body is what the caller asks for, merged with the catalog entry it    *)
(* names: config (the model's config.json or NoConfig), named (what the    *)
(* repository's name says), tp, len, seqs, quant and catalog (its          *)
(* min_gpu_memory).                                                        *)
(***************************************************************************)
EXTENDS Integers, FiniteSetsExt

CONSTANTS
  NoConfig,
  TICKS,                  \* ticks in a tenth of a GB
  MB,                     \* ticks in an MB
  GIGA,                   \* parameters that weigh a tick at one byte each
  KV_GIGA,                \* bytes of KV cache that make a tick
  OVERHEAD,               \* OVERHEAD_GB
  ROOM_FOR_KV,            \* the 8 GB a guess adds for the KV cache
  WORTH,                  \* 1 GB of KV cache: less is not worth shortening
  KV_SIZING_SEQUENCES,
  MIN_LEN,                \* 2048: no shorter context is proposed
  DEFAULT_LEN             \* 4096

ASSUME SizingAssumption ==
  /\ {TICKS, GIGA, KV_GIGA, KV_SIZING_SEQUENCES, MIN_LEN, DEFAULT_LEN} \subseteq Nat \ {0}
  /\ {OVERHEAD, ROOM_FOR_KV, WORTH} \subseteq Nat
  /\ MB \in 1..TICKS /\ MB % 2 = 1      \* odd, so that no size is halfway between two

-----------------------------------------------------------------------------
AtLeast1(n) == Max({n, 1})

\* x or y: a missing number is 0.
Or(x, y) == IF x # 0 THEN x ELSE y

\* round(x, 1), of ticks to ticks.
Round(x) == TICKS * ((2 * x + TICKS) \div (2 * TICKS))

\* params_from_config: attention and a gated MLP per layer, and embeddings.
HeadDim(c) == Or(c.head_dim, c.hidden \div AtLeast1(c.heads))

KvHeads(c) == Or(c.kv_heads, AtLeast1(c.heads))

ParamsFromConfig(c) ==
  LET q    == AtLeast1(c.heads) * HeadDim(c)
      attn == c.hidden * q + 2 * c.hidden * (KvHeads(c) * HeadDim(c)) + q * c.hidden
      mlp  == 3 * c.hidden * Or(c.inter, 4 * c.hidden)
  IN  IF c.layers = 0 \/ c.hidden = 0 THEN 0
      ELSE c.layers * (attn + mlp) + 2 * c.vocab * c.hidden

\* Bytes per parameter are counted in halves: an override of the caller, the
\* bits the checkpoint declares, its dtype, or 16 bits.
QUANT_HALVES == [fp8 |-> 2, awq |-> 1, gptq |-> 1, int4 |-> 1, bitsandbytes |-> 1]

WeightHalves(c, quant) ==
  IF quant \in DOMAIN QUANT_HALVES THEN QUANT_HALVES[quant]
  ELSE IF c # NoConfig /\ c.bits # 0 THEN c.bits \div 4
  ELSE IF c # NoConfig THEN 2 * c.dtype_bytes
  ELSE 4

\* Weights split over the group, and the KV cache of seqs sequences.
Weights(params, halves, tp) == (params * halves) \div (2 * GIGA * AtLeast1(tp))

KvCache(c, len, seqs, tp) ==
  LET perToken == 2 * c.layers * KvHeads(c) * HeadDim(c) * 2
  IN  (perToken * len * seqs) \div (KV_GIGA * AtLeast1(tp))

EffectiveLen(b) == Or(b.len, Or(b.config.ctx, DEFAULT_LEN))

\* assess without a config: the catalog's figure, or a guess from the name.
GuessedEstimate(b) ==
  LET quant   == IF b.quant # "" THEN b.quant ELSE b.named.quant
      weights == Weights(b.named.params, WeightHalves(NoConfig, quant), b.tp)
      sized   == Or(b.catalog, weights + ROOM_FOR_KV)
  IN  [total |-> Round(sized), weights |-> Round(weights),
       kv |-> Round(Max({0, sized - weights - OVERHEAD})),
       minimum |-> Round(weights + OVERHEAD), tp |-> b.tp, len |-> b.len]

ParamsOf(b) == Or(ParamsFromConfig(b.config), b.named.params)

\* assess with a config.
MeasuredEstimate(b) ==
  LET weights == Weights(ParamsOf(b), WeightHalves(b.config, b.quant), b.tp)
      len     == EffectiveLen(b)
      kv      == KvCache(b.config, len, Min({b.seqs, KV_SIZING_SEQUENCES}), b.tp)
      floor   == KvCache(b.config, len, 1, b.tp)
  IN  [total |-> Round(weights + kv + OVERHEAD), weights |-> Round(weights), kv |-> Round(kv),
       minimum |-> Round(weights + floor + OVERHEAD), tp |-> b.tp, len |-> len]

Estimate(b) == IF b.config = NoConfig THEN GuessedEstimate(b) ELSE MeasuredEstimate(b)

-----------------------------------------------------------------------------
\* The settings vLLM would reject, and those it would serve badly.  hw is the
\* node the model would land on, [model, cards], or no hardware: model "" and
\* no cards.
HOPPER == {"H100", "H200", "H800", "B100", "B200", "GB200"}

Error(title)   == [severity |-> "error", title |-> title]
Warning(title) == [severity |-> "warning", title |-> title]

Checks(b, hw) ==
  LET c       == b.config
      uneven  == b.tp > 1 /\ c.heads # 0 /\ c.heads % b.tp # 0
      kvHeads == Or(c.kv_heads, c.heads)
      floor   == KvCache(c, EffectiveLen(b), 1, b.tp)
      weights == Weights(ParamsOf(b), WeightHalves(c, b.quant), b.tp)
  IN
  IF c = NoConfig THEN {Warning("config could not be read")}
  ELSE {k \in {Error("context")}      : b.len # 0 /\ c.ctx # 0 /\ b.len > c.ctx}
    \cup {k \in {Error("heads")}        : uneven}
    \cup {k \in {Warning("kv heads")}   : b.tp > 1 /\ kvHeads # 0 /\ kvHeads % b.tp # 0}
    \cup {k \in {Error("fp8")}          : b.quant = "fp8" /\ hw.model # "" /\ hw.model \notin HOPPER}
    \cup {k \in {Error("quantization")} : b.quant # "" /\ c.method # "" /\ b.quant # c.method}
    \cup {k \in {Error("GPUs")}         : hw.cards # 0 /\ b.tp > hw.cards}
    \cup {k \in {Warning("expensive")}  : 4 * floor > Max({8 * WORTH, weights})}

Blocks(checks) == \E k \in checks : k.severity = "error"

-----------------------------------------------------------------------------
\* recommend: the cheapest change of each kind that would make the model fit
\* into free ticks on a node of gpus cards.  A change is [kind, by].
Offer(kind, S) == {[kind |-> kind, by |-> k] : k \in {m \in S : \A o \in S : m <= o}}

Wider(b, e, free, gpus) ==
  {k \in {2, 4, 8} :
     /\ k > e.tp /\ k <= gpus
     /\ b.config = NoConfig \/ b.config.heads % k = 0
     /\ Max({e.minimum - OVERHEAD, e.weights}) * e.tp + OVERHEAD * k <= free * k}

\* Faulty: the weights shrink with the context as well.
MutantShorter(e, free) ==
  LET kv == Max({e.minimum - e.weights - OVERHEAD, 0}) IN
  {k \in {2, 4, 8} :
     /\ kv > WORTH /\ e.len > MIN_LEN /\ e.len \div k >= MIN_LEN
     /\ kv + e.weights + OVERHEAD * k <= free * k}

Shorter(e, free) ==
  LET kv == Max({e.minimum - e.weights - OVERHEAD, 0}) IN
  {k \in {2, 4, 8} :
     /\ kv > WORTH /\ e.len > MIN_LEN /\ e.len \div k >= MIN_LEN
     /\ kv + (e.weights + OVERHEAD) * k <= free * k}

\* Bytes per parameter become 2 \div k of what they are.
Smaller(b, e, free) ==
  {k \in {2, 4} :
     /\ b.quant = ""
     /\ e.weights + (Max({e.minimum - e.weights, OVERHEAD})) * k <= free * k}

Recommend(b, free, gpus) ==
  LET e == Estimate(b) IN
  IF free <= 0 THEN {}
  ELSE Offer("tp", Wider(b, e, free, gpus)) \cup Offer("len", Shorter(e, free))
         \cup Offer("quant", Smaller(b, e, free))

\* The body that takes the advice.
Follow(b, o) ==
  CASE o.kind = "tp"    -> [b EXCEPT !.tp = o.by]
    [] o.kind = "len"   -> [b EXCEPT !.len = Estimate(b).len \div o.by]
    [] o.kind = "quant" -> [b EXCEPT !.quant = IF o.by = 2 THEN "fp8" ELSE "awq"]
=============================================================================
