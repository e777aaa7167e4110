------------------------------- MODULE Planner -------------------------------
(***************************************************************************)
(* From what a caller asks for to the rows it is given: plan_deployment    *)
(* and create_deployment of api/deployments.py over Placement, Sizing and  *)
(* VllmArgs.  A request is one step here: its races are Allocation's, and  *)
(* so are named targets and quotas.                                        *)
(*                                                                         *)
(* An ask is a record: spec (a catalog key or NoKey), repo (or NoRepo),    *)
(* tp, len and quant (0 or "" where the caller left it open), seqs (the    *)
(* number that max-num-seqs is given, where it is), extra, replicas,       *)
(* within, and share (per mille of a card, 0 where it is left to dgxctl).  *)
(***************************************************************************)
EXTENDS Choice, Placement, Sizing, VllmArgs

CONSTANTS
  Ask,             \* [Session -> asks]
  NoKey, NoRepo,
  Catalog,         \* [keys -> catalog entries: repo, tp, gb, len, quant, extra]
  Config,          \* [repositories -> what config.json says, or NoConfig]
  Named,           \* [repositories -> what the name says: params, quant]
  MAX_REPLICAS,    \* 32
  DEFAULT_SEQS,    \* 256
  Polled,          \* the cards whose usage the run changes,
  UsageReading,    \* the usage they may report,
  Drainable,       \* and the nodes whose status it changes
  MaxRows          \* no create is tried while more rows than this are alive

Repo == DOMAIN Config

\* What sizing reads of a config.json; a number that is missing is 0.
ModelConfig ==
  [layers : Nat, hidden : Nat, heads : Nat, kv_heads : Nat, head_dim : Nat, inter : Nat,
   vocab : Nat, ctx : Nat, bits : Nat, dtype_bytes : Nat, method : STRING]

\* Nobody checks that the sizes a caller or a catalog entry gives are not negative;
\* those that are, are left out.
ASSUME AskAssumption ==
  /\ \A s \in Session :
       LET a == Ask[s] IN
       /\ a.spec = NoKey \/ a.repo = NoRepo
       /\ a.repo \in Repo \cup {NoRepo} /\ a.within \subseteq Node /\ a.extra \subseteq ExtraFlag
       /\ {a.tp, a.len, a.share} \subseteq Nat /\ {a.seqs, a.replicas} \subseteq Int
  /\ \A k \in DOMAIN Catalog :
       LET c == Catalog[k] IN
       /\ c.repo \in Repo /\ c.extra \subseteq ExtraFlag
       /\ c.tp \in Nat \ {0} /\ {c.gb, c.len} \subseteq Nat
  /\ \A r \in Repo : Config[r] \in ModelConfig \cup {NoConfig} /\ Named[r].params \in Nat
  /\ DOMAIN Named = Repo
  /\ MAX_REPLICAS \in Nat /\ DEFAULT_SEQS \in Nat
  /\ Polled \subseteq Gpu /\ Drainable \subseteq Node
  /\ UsageReading \subseteq Nat /\ 0 \in UsageReading
  /\ MaxRows \in Nat

VARIABLES
  rows,     \* the deployments that count as alive
  used,     \* the memory each card last reported
  status,   \* the status of each node
  cache,    \* _CONFIG_CACHE: "none", or what the last fetch came to
  sized     \* how the rows of each session were sized

vars == <<rows, used, status, cache, sized>>

Fleet == [rows |-> rows, status |-> status, capacity |-> Capacities(rows, used)]

-----------------------------------------------------------------------------
\* fetch_config, which remembers an hour long what it got, and a failure as well:
\* what it may come to for repository r with the configs c in memory, and what is in
\* memory after it came to k.
Fetched(c, r) ==
  IF c[r] # "none" THEN {c[r]}
  ELSE {"unread"} \cup {k \in {"read"} : Config[r] # NoConfig}

\* Faulty: only a config that was read is remembered.
MutantRemembered(c, r, k) == [c EXCEPT ![r] = IF k = "read" THEN k ELSE "none"]

Remembered(c, r, k) == [c EXCEPT ![r] = k]

\* _resolve_model: the caller's settings over those of the catalog entry.
Known(a) == a.spec = NoKey \/ a.spec \in DOMAIN Catalog

Named1(a) == a.repo # NoRepo \/ a.spec # NoKey

RepoOf(a) == IF a.repo # NoRepo THEN a.repo ELSE Catalog[a.spec].repo

Extra(a) == IF a.spec = NoKey THEN a.extra ELSE Merged(Catalog[a.spec].extra, a.extra)

\* Of the three spellings of --max-num-seqs that are accepted, _assess reads two.
Sequences(a) ==
  IF \E x \in Extra(a) : /\ x.raw.name = "max-num-seqs" /\ x.raw.sep = "-"
                         /\ x.raw.form = "whole"
                         /\ x.value \in {"int", "digits"}
  THEN a.seqs ELSE DEFAULT_SEQS

\* The body that sizing judges, with the config the fetch came to.
Body(a, fetched) ==
  LET spec == IF a.spec = NoKey THEN [tp |-> 1, gb |-> 0, len |-> 0, quant |-> ""]
              ELSE Catalog[a.spec]
  IN  [config  |-> IF fetched = "read" THEN Config[RepoOf(a)] ELSE NoConfig,
       named   |-> Named[RepoOf(a)],
       tp      |-> Or(a.tp, spec.tp),
       len     |-> Or(a.len, spec.len),
       seqs    |-> Sequences(a),
       quant   |-> IF a.quant # "" THEN a.quant ELSE spec.quant,
       catalog |-> TICKS * spec.gb]

\* Faulty: the catalog's figure is trusted where there is one.
MutantRequirement(b) == Or(b.catalog, Estimate(b).minimum)

\* _requirement: the larger of the catalog's figure and vLLM's floor.
Requirement(b) == Max({b.catalog, Estimate(b).minimum})

\* The plan cuts the requirement down to whole units, the claim rounds it.
Demand(a, b) ==
  [need |-> Requirement(b) \div MB, tp |-> b.tp, replicas |-> a.replicas, within |-> a.within]

Claim(b) == (2 * Requirement(b) + MB) \div (2 * MB)

\* Both callers of _requirement judge the settings before a node is chosen.
NoHardware == [model |-> "", cards |-> 0]

Findings(a, b) == Checks(b, NoHardware) \cup Validate(Extra(a))

-----------------------------------------------------------------------------
\* plan_deployment: what would happen if I deployed this?
Blocked(a, b) == Blocks(Findings(a, b))

PlanOffers(a, b) == Offered(Fleet, Demand(a, b))

\* _best_available: the roomiest card of the nodes the caller could use.
LargestFree(f, n) == MB * Max({f.capacity[g] : g \in Cards(n)})

BestNodes(f, a, b) ==
  LET N == {n \in a.within : status[n] = "online" /\ Cardinality(Cards(n)) >= b.tp} IN
  {n \in N : \A m \in N : LargestFree(f, m) <= LargestFree(f, n)}

Options(f, b, n) == Recommend(b, LargestFree(f, n), Cardinality(Cards(n)))

\* create_deployment: the refusals in their order.
Refusal(a, b) ==
  IF a.replicas \notin 1..MAX_REPLICAS THEN "400 replicas"
  ELSE IF Blocks(Validate(Extra(a))) THEN "422 flag"
  ELSE IF Blocks(Checks(b, NoHardware)) THEN "422 setting"
  ELSE IF PlanOffers(a, b) = {} THEN "409 nowhere"
  ELSE "none"

\* Faulty: the requirement is recorded before it is converted.
MutantNewRows(s, b, T) ==
  {[by |-> s, node |-> t.node, gpus |-> t.gpus, mb |-> Requirement(b),
    port |-> CHOOSE p \in Port : IsNextPort(rows, t.node, p)] : t \in T}

\* _reserve: the cards of each target are asked again for the claim, and each
\* target takes its node's next port.  The request is refused when a card is too
\* full, which another look at an unchanged fleet does not mend, or a node has no port.
HasPorts(T) == \A t \in T : ~ (Port \subseteq TakenPorts(rows, t.node))

HasRoom(T, b) == \A t \in T : \A g \in t.gpus : Fleet.capacity[g] >= Claim(b)

Granted(T, b) == HasRoom(T, b) /\ HasPorts(T)

NewRows(s, b, T) ==
  {[by |-> s, node |-> t.node, gpus |-> t.gpus, mb |-> Claim(b),
    port |-> CHOOSE p \in Port : IsNextPort(rows, t.node, p)] : t \in T}

\* Faulty: an unset share is the usual nine tenths of a card.
MutantEngineShare(d) == IF Ask[d.by].share # 0 THEN Ask[d.by].share ELSE 900

\* --gpu-memory-utilization of a row, in thousandths of its largest card.
EngineShare(d) ==
  LET largest == Max({Total[g] : g \in d.gpus}) IN
  IF Ask[d.by].share # 0 THEN Ask[d.by].share
  ELSE IF largest = 0 THEN 900
  ELSE (2000 * d.mb + largest) \div (2 * largest)

\* The thousandths that the engines of S take between them, each labelled with its
\* row, so that their sum is the size of a set.
Thousandths(S) == UNION {{d} \X (1..EngineShare(d)) : d \in S}

\* The flags dgxctl adds for a session, and its command line.
Sometimes(a, b) ==
  {f \in {"max-model-len"} : b.len # 0} \cup {f \in {"quantization"} : b.quant # ""}

CommandLine(a, b) == Argv(Sometimes(a, b), Extra(a))

-----------------------------------------------------------------------------
Init ==
  /\ rows = {}
  /\ used = [g \in Gpu |-> 0]
  /\ status = [n \in Node |-> "online"]
  /\ cache = [r \in Repo |-> "none"]
  /\ sized = [s \in Session |-> "never"]

\* The plan endpoint changes nothing but the cache of configs.
Plan(s) ==
  LET a == Ask[s] IN
  /\ Known(a) /\ Named1(a)
  /\ \E k \in Fetched(cache, RepoOf(a)) : cache' = Remembered(cache, RepoOf(a), k)
  /\ UNCHANGED <<rows, used, status, sized>>

Create(s) ==
  LET a == Ask[s] IN
  /\ Known(a) /\ Named1(a) /\ \A d \in rows : d.by # s
  /\ Cardinality(rows) <= MaxRows
  /\ \E k \in Fetched(cache, RepoOf(a)) :
       LET b == Body(a, k) IN
       /\ cache' = Remembered(cache, RepoOf(a), k)
       /\ \/ /\ Refusal(a, b) # "none"
             /\ UNCHANGED <<rows, sized>>
          \/ /\ Refusal(a, b) = "none"
             /\ \E T \in Resolved(Fleet, Demand(a, b)) :
                  /\ rows' = IF Granted(T, b) THEN rows \cup NewRows(s, b, T) ELSE rows
                  /\ sized' = IF Granted(T, b) THEN [sized EXCEPT ![s] = k] ELSE sized
  /\ UNCHANGED <<used, status>>

\* The fleet moves on: a row is stopped, a card reports, a node is drained or
\* comes back, an hour passes.
Stop(d) ==
  /\ rows' = rows \ {d}
  /\ sized' = [s \in Session |-> IF \E e \in rows' : e.by = s THEN sized[s] ELSE "never"]
  /\ UNCHANGED <<used, status, cache>>

Report(g) ==
  /\ \E mb \in UsageReading : mb # used[g] /\ used' = [used EXCEPT ![g] = mb]
  /\ UNCHANGED <<rows, status, cache, sized>>

Drain(n) ==
  /\ status' = [status EXCEPT ![n] = IF @ = "online" THEN "draining" ELSE "online"]
  /\ UNCHANGED <<rows, used, cache, sized>>

Expire(r) ==
  /\ cache[r] # "none"
  /\ cache' = [cache EXCEPT ![r] = "none"]
  /\ UNCHANGED <<rows, used, status, sized>>

Next ==
  \/ \E s \in Session : Plan(s) \/ Create(s)
  \/ \E d \in rows : Stop(d)
  \/ \E g \in Polled : Report(g)
  \/ \E n \in Drainable : Drain(n)
  \/ \E r \in Repo : Expire(r)

Spec == Init /\ [][Next]_vars

-----------------------------------------------------------------------------
TypeOK ==
  /\ rows \subseteq Row
  /\ used \in [Gpu -> UsageReading]
  /\ status \in [Node -> {"online", "draining"}]
  /\ cache \in [Repo -> {"none", "read", "unread"}]
  /\ sized \in [Session -> {"never", "read", "unread"}]

\* What each session may ask for now.
Answerable == {s \in Session : Known(Ask[s]) /\ Named1(Ask[s])}

Bodies(s) == {Body(Ask[s], k) : k \in Fetched(cache, RepoOf(Ask[s]))}

\* The groups a demand allows on node n, by definition: tp cards of one model,
\* each with room.
Suitable(f, q, n) ==
  {G \in SUBSET Roomy(f, q, n) :
     Cardinality(G) = q.tp /\ Cardinality({Model[g] : g \in G}) = 1}

LowestIndex(G) == Min({Index[g] : g \in G})

Adjacent(G) == Max({Index[g] : g \in G}) - LowestIndex(G) = Cardinality(G) - 1

\* "Why each other node was skipped": the step-by-step verdict offers a node
\* exactly when it accepts work and has a suitable group, and the group that is
\* picked is one: aligned, or failing that adjacent, whenever its model has such
\* a group (placement.py, plan and _pick_group).
OfferedIffSuitable ==
  LET f == Fleet IN
  \A s \in Answerable : \A b \in Bodies(s) :
    LET q == Demand(Ask[s], b) IN
    /\ Offered(f, q) = {n \in q.within : status[n] = "online" /\ Suitable(f, q, n) # {}}
    /\ \A n \in Offered(f, q) :
         LET G    == Group(f, q, n)
             like == {H \in Suitable(f, q, n) : {Model[g] : g \in H} = {Model[g] : g \in G}}
         IN  /\ G \in Suitable(f, q, n)
             /\ (\E H \in like : Adjacent(H)) => Adjacent(G)
             /\ (\E H \in like : Adjacent(H) /\ LowestIndex(H) % q.tp = 0)
                  => LowestIndex(G) % q.tp = 0

\* "Prefer packing over opening another card": of two nodes of one size whose
\* groups are of like cards, both called aligned or neither, the one that has models
\* on its group is preferred, whatever those models leave of it (placement.py, the
\* score).  A scattered group that is called aligned can upset that: nothing is
\* claimed between it and a group that is not.
PacksFirst ==
  LET f == Fleet IN
  \A s \in Answerable : \A b \in Bodies(s) :
    LET q       == Demand(Ask[s], b)
        Kind(n) == {<<Total[g], used[g]>> : g \in Group(f, q, n)}
        Bonus(n) == CalledAligned(f, Group(f, q, n))
        shared  == {n \in Offered(f, q) : Sharing(f, Group(f, q, n)) > 0}
        unused  == {n \in Offered(f, q) : Sharing(f, Group(f, q, n)) = 0}
    IN  \A n \in shared, m \in unused :
          /\ Cardinality(Cards(n)) = Cardinality(Cards(m)) /\ Kind(n) = Kind(m)
          /\ Bonus(n) <=> Bonus(m)
          => Score(f, q, n) < Score(f, q, m)

\* "One replica per node": whatever is preferred, the targets of a request are
\* groups with room on nodes of their own, as many as there are replicas or nodes
\* (resolve_targets; what Allocation takes for granted of a placement).
PicksAllowed ==
  \A s \in Answerable : \A b \in Bodies(s) :
    LET q == Demand(Ask[s], b) IN
    Ask[s].replicas \in 1..MAX_REPLICAS =>
      \A T \in Resolved(Fleet, q) :
        IsPlacement([rows |-> rows, used |-> used, status |-> status], Model, q, T)

\* "What would happen if I deployed this?": a deploy that follows its preview on an
\* unchanged fleet, within the hour that the config is remembered, is refused
\* for its flags, its settings or want of a place exactly when the preview blocked or
\* showed none.  One that is not is granted, unless a node of its targets has no port
\* left or a card has just what the plan asked for and not the claim, which is rounded
\* (plan_deployment against create_deployment and _reserve, for the numbers of
\* replicas that the deploy accepts).
PreviewAgrees ==
  \A s \in Answerable : Ask[s].replicas \in 1..MAX_REPLICAS =>
    LET a        == Ask[s]
        r        == RepoOf(a)
        Shown(k) == PlanOffers(a, Body(a, k)) # {} /\ ~ Blocked(a, Body(a, k))
    IN
    \A k \in Fetched(cache, r) : \A j \in Fetched(Remembered(cache, r, k), r) :
      LET b == Body(a, j)
          q == Demand(a, b)
      IN
      /\ Shown(k) <=> Refusal(a, b) = "none"
      /\ Shown(k) =>
           \A T \in Resolved(Fleet, q) :
             /\ T # {}
             /\ \/ Granted(T, b)
                \/ ~ HasPorts(T)
                \/ \E t \in T : \E g \in t.gpus :
                     Fleet.capacity[g] = q.need /\ q.need < Claim(b)

\* "A wrong catalog entry can be conservative but never dangerous": a row whose
\* config was read holds what its weights, one sequence and the overhead take,
\* and its settings are ones the model has (_requirement, create_deployment).
GrantedCanStart ==
  \A d \in rows : sized[d.by] = "read" =>
    LET b == Body(Ask[d.by], "read") IN
    /\ MB * d.mb + MB + TICKS >= Weights(ParamsOf(b), WeightHalves(b.config, b.quant), b.tp)
                                 + KvCache(b.config, EffectiveLen(b), 1, b.tp) + OVERHEAD
    /\ b.config.ctx # 0 => EffectiveLen(b) <= b.config.ctx
    /\ b.tp > 1 => b.config.heads % b.tp = 0

\* The rows whose share of the card is left to dgxctl.
ShareDerived(d) ==
  /\ Ask[d.by].share = 0
  /\ \A x \in Extra(Ask[d.by]) : x.raw.name # "gpu-memory-utilization"

\* Engines that share a card and were left their share to dgxctl never claim
\* more than the card between them: the shares are of the whole card, are
\* rounded, and are taken from the largest card of a group (_reserve).
EnginesFit ==
  \A g \in Gpu :
    (\A d \in Tenants(rows, g) : ShareDerived(d))
      => Cardinality(Thousandths(Tenants(rows, g))) <= 1000

\* "Setting it by hand is how a card gets oversubscribed": vLLM is given a flag
\* that dgxctl manages by dgxctl alone when it is spelled whole, whatever its dashes
\* and underscores, and in a form that dgxctl does not know, with its value behind an
\* "=" or cut short, only after a warning that it did not recognise it (vllm_args.py,
\* MANAGED, normalise and validate against build_vllm_args).
ManagedFlagsOwned ==
  \A d \in rows : \A m \in MANAGED :
    \A x \in Given(CommandLine(Ask[d.by], Body(Ask[d.by], sized[d.by])), m) :
      \/ x.owner = "dgxctl"
      \/ x.flag.form # "whole" /\ Issue("warning", "unknown") \in Validate(Extra(Ask[d.by]))

\* The checkpoints that quantizing helps: 16 bits, and no quantization of their own.
Unquantized(c) == c.bits = 0 /\ c.dtype_bytes = 2 /\ c.method = ""

\* The cards of a node with the most room.
Roomiest(f, n) == {g \in Cards(n) : \A h \in Cards(n) : f.capacity[h] <= f.capacity[g]}

\* "Only offered if it would actually fit": a recommendation that is followed raises no
\* error and brings the requirement down to what the roomiest card has free, the
\* rounding of the estimate aside; and the node it is offered for has a group for it
\* when enough of its cards are of one model and as roomy as that one, which
\* recommend is not told: it gets the roomiest card and the number of all cards.
\* For a catalog figure that the card can hold, since recommend does not look at it,
\* and where it is to quantize, for an unquantized checkpoint (recommend against
\* _requirement; the other two kinds hold for any).
AdviceFitsTheCard ==
  LET f == Fleet IN
  \A s \in Answerable : \A b \in Bodies(s) : \A n \in BestNodes(f, Ask[s], b) :
    PlanOffers(Ask[s], b) = {} /\ b.config # NoConfig /\ b.catalog <= LargestFree(f, n) =>
      \A o \in Options(f, b, n) : (o.kind = "quant" => Unquantized(b.config)) =>
        LET c    == Follow(b, o)
            best == Roomiest(f, n)
            slim == [Demand(Ask[s], c) EXCEPT !.need = (Requirement(c) - 2 * TICKS) \div MB]
        IN
        /\ Requirement(c) < LargestFree(f, n) + 2 * TICKS
        /\ Checks(c, NoHardware) \subseteq
             Checks(b, NoHardware) \cup {Warning("kv heads"), Warning("expensive")}
        /\ (\E g \in best : Cardinality(OfModel(best, Model[g])) >= c.tp)
             => Suitable(f, slim, n) # {}

\* "Done against the node it would actually land on, because ... FP8 needing
\* Hopper" (_assess): a row that overrides to FP8 is on cards that run FP8.
Fp8OnHopper ==
  \A d \in rows : sized[d.by] = "read" /\ Body(Ask[d.by], "read").quant = "fp8" =>
    \A g \in d.gpus : Model[g] \in HOPPER
=============================================================================
