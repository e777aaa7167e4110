------------------------------ MODULE MCPlanner ------------------------------
(***************************************************************************)
(* Five nodes: two alike with a pair of H100, one with four A100, a mixed  *)
(* one whose three A100 are not all adjacent, and a single card.  Sizes    *)
(* are rounded to five ticks and claimed in units of three, so that what   *)
(* the plan cuts off and what the claim rounds up differ.                  *)
(***************************************************************************)
EXTENDS Planner, TLC

\* Cards are pairs of a node and an index.
McNode == {"box1", "box2", "quad", "mixed", "solo"}
McGpu == {<<"box1", 0>>, <<"box1", 1>>, <<"box2", 0>>, <<"box2", 1>>,
          <<"quad", 0>>, <<"quad", 1>>, <<"quad", 2>>, <<"quad", 3>>,
          <<"mixed", 0>>, <<"mixed", 1>>, <<"mixed", 2>>, <<"mixed", 3>>, <<"solo", 0>>}
McNodeOf == [g \in McGpu |-> g[1]]
McIndex == [g \in McGpu |-> g[2]]
McModel == [g \in McGpu |->
  CASE g[1] \in {"box1", "box2"} -> "H100"
    [] g[1] \in {"quad", "solo"}   -> "A100"
    [] g[1] = "mixed"            -> IF g[2] = 1 THEN "H100" ELSE "A100"]
McTotal == [g \in McGpu |-> 24]
McPort == 1..6

\* The small model takes 36 ticks of weights at 16 bits and 12 of KV cache for a
\* sequence of the full context, the large one 58 and 48; a card has 72.
Shape(layers, vocab, ctx) ==
  [layers |-> layers, hidden |-> 8, heads |-> 4, kv_heads |-> 2, head_dim |-> 2, inter |-> 16,
   vocab |-> vocab, ctx |-> ctx, bits |-> 0, dtype_bytes |-> 2, method |-> ""]

McConfig == [small |-> Shape(2, 18, 48), large |-> Shape(4, 1, 96)]
McNamed == [small |-> [params |-> 1440, quant |-> ""], large |-> [params |-> 1440, quant |-> "fp8"]]

Flag(dashes, sep, name, form, value) ==
  [raw |-> [dashes |-> dashes, sep |-> sep, name |-> name, form |-> form], value |-> value]

McCatalog ==
  [understated |-> [repo |-> "small", tp |-> 1, gb |-> 2, len |-> 0, quant |-> "fp8",
                    extra |-> {Flag(FALSE, "_", "max-num-seqs", "whole", "int")}],
   wide        |-> [repo |-> "large", tp |-> 1, gb |-> 2, len |-> 0, quant |-> "", extra |-> {}]]

Plain == [spec |-> NoKey, repo |-> "small", tp |-> 0, len |-> 0, quant |-> "", seqs |-> 4,
          extra |-> {}, replicas |-> 1, within |-> McNode, share |-> 0]

McAsk ==
  [catalog  |-> [Plain EXCEPT !.spec = "understated", !.repo = NoRepo, !.replicas = 2,
                              !.within = {"box1", "box2"}],
   guessed  |-> [Plain EXCEPT !.repo = "large", !.within = {"box1"}],
   pair     |-> [Plain EXCEPT !.tp = 2, !.within = {"quad", "mixed"},
                              !.extra = {Flag(TRUE, "-", "max-num-seqs", "whole", "digits")}],
   fp8      |-> [Plain EXCEPT !.quant = "fp8", !.within = {"quad", "mixed"}, !.len = 24],
   toolong  |-> [Plain EXCEPT !.len = 96, !.quant = "fp8", !.within = {"box2"}],
   uneven   |-> [Plain EXCEPT !.tp = 3, !.within = {"mixed"}],
   many     |-> [Plain EXCEPT !.spec = "wide", !.repo = NoRepo, !.replicas = 4, !.within = {"quad"}],
   badflag  |-> [Plain EXCEPT !.repo = "large", !.within = {"mixed"},
                              !.extra = {Flag(FALSE, "_", "gpu-memory-utilization", "whole", "fraction")}],
   byhand   |-> [Plain EXCEPT !.share = 900, !.within = {"solo"},
                              !.extra = {Flag(TRUE, "-", "enforce-eager", "whole", "true"),
                                         Flag(TRUE, "-", "gpu-memory-utilization", "value", "true")}]]
McSession == DOMAIN McAsk

McManaged == ALWAYS \cup {"max-model-len", "quantization", "revision"}
McKnown == ("max-num-seqs" :> "int") @@ ("enforce-eager" :> "flag")
McPolled == {<<"mixed", 3>>}
=============================================================================
