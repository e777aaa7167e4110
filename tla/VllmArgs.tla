------------------------------ MODULE VllmArgs ------------------------------
(***************************************************************************)
(* The extra vLLM flags a caller or a catalog entry sets by hand, and the  *)
(* command line made of them: services/vllm_args.py and build_vllm_args of *)
(* services/deployments.py.                                                *)
(*                                                                         *)
(* A raw name is a spelling of a flag: with or without its dashes, with    *)
(* "-" or "_" between its words, and written whole, with its value behind  *)
(* an "=", or cut short.  Extra flags are a set of records [raw, value],   *)
(* one for each raw name.                                                  *)
(***************************************************************************)
EXTENDS Integers, FiniteSets

CONSTANTS
  MANAGED,   \* names of the flags dgxctl sets itself
  KNOWN      \* [names -> kinds of value] for the flags it knows

ASSUME RegistryAssumption == MANAGED \cap DOMAIN KNOWN = {}

\* The values JSON can give a flag, by what _type_ok tells apart.
Value == {"true", "false", "null", "int", "fraction", "digits", "decimal", "text"}

\* "value" is --name=value, "short" a prefix of --name that no other flag has.
Form == {"whole", "value", "short"}

ExtraFlag ==
  [raw : [dashes : BOOLEAN, sep : {"-", "_"}, name : STRING, form : Form], value : Value]

-----------------------------------------------------------------------------
\* Faulty: an underscore is left as it is.
MutantNormalise(raw) == [raw EXCEPT !.dashes = TRUE]

\* normalise: `max_num_seqs`, `max-num-seqs` and `--max-num-seqs` alike.
Normalise(raw) == [raw EXCEPT !.dashes = TRUE, !.sep = "-"]

\* The entries of MANAGED and KNOWN are whole names, spelled with dashes throughout.
Listed(raw, names) ==
  raw.dashes /\ raw.sep = "-" /\ raw.form = "whole" /\ raw.name \in names

TypeOk(kind, value) ==
  CASE kind = "flag"  -> value \in {"true", "false"}
    [] kind = "int"   -> value \in {"int", "digits"}
    [] kind = "float" -> value \in {"int", "fraction", "digits", "decimal"}
    [] kind = "str"   -> value \in Value \ {"true", "false", "null"}

\* validate: a flag of ours and a wrong type are errors, an unknown flag is not.
Issue(severity, title) == [severity |-> severity, title |-> title]

Judged(x) ==
  LET name == Normalise(x.raw) IN
  IF Listed(name, MANAGED) THEN {Issue("error", "managed")}
  ELSE IF ~ Listed(name, DOMAIN KNOWN) THEN {Issue("warning", "unknown")}
  ELSE {i \in {Issue("error", "type")} : ~ TypeOk(KNOWN[name.name], x.value)}

Validate(extra) == UNION {Judged(x) : x \in extra}

\* {**spec.extra_args, **body.extra_args}: equal spellings override.
Merged(catalog, asked) ==
  asked \cup {x \in catalog : \A y \in asked : y.raw # x.raw}

\* build_vllm_args: the flags of the command line.  set says which of the
\* managed flags that are only sometimes given this deployment gives.  A false
\* or null value drops the flag; the spelling is passed on with its dashes.
ALWAYS == {"model", "served-model-name", "host", "port", "tensor-parallel-size",
           "gpu-memory-utilization"}

Argv(set, extra) ==
  {[owner |-> "dgxctl", flag |-> [dashes |-> TRUE, sep |-> "-", name |-> m, form |-> "whole"]]
     : m \in ALWAYS \cup set}
  \cup {[owner |-> "extra", flag |-> [x.raw EXCEPT !.dashes = TRUE]]
          : x \in {y \in extra : y.value \notin {"false", "null"}}}

\* vLLM's parser reads underscores as dashes, takes a value behind an "=" and
\* completes a name that is cut short: the flags it is given for name.
Given(argv, name) == {a \in argv : a.flag.dashes /\ a.flag.name = name}
=============================================================================
