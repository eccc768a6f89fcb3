----------------------------- MODULE ConfigMerge -----------------------------
(***************************************************************************)
(* How _config.py resolves a configuration: it loads up to four documents, *)
(* migrates aliases, narrows each one by what the ones before it ask of    *)
(* the security fields, merges them over the built-in defaults and applies *)
(* the environment and the command line.  A document is a partial function *)
(* from paths <<section, field>> to values.                                *)
(***************************************************************************)
EXTENDS Integers, Sequences

CONSTANTS Inputs,    \* what a resolution starts from
          Defaults,  \* path -> value: required_defaults
          Schema,    \* path -> its legal values: EffectiveConfiguration
          StrictBools, Denials, Allowlists, Ceilings,  \* the security paths, by kind
          Ranks,     \* the registered classifications, by rank
          EnvPath,   \* registered variable -> the path it overrides
          Adapter,   \* path of a provider key -> the path of its adapter and its name
          None, Garbled

Security == StrictBools \union Denials \union Allowlists \union Ceilings
Aliases == [run |-> "runtime", routing |-> "routes"]

VARIABLES inputs,     \* the files, flags, environment and overrides given
          step,       \* where the resolution stands
          sources,    \* the documents found, lowest precedence first, or None
          at,         \* the source or layer that is next
          layers,     \* the documents as they enter the merge
          effective,  \* effective_security
          authority,  \* security_authority of the merge
          merged,
          result      \* None, "ok" or a reason code

vars == <<inputs, step, sources, at, layers, effective, authority, merged, result>>

Keys(document) == { path[1] : path \in DOMAIN document }
CanonicalKeys == { path[1] : path \in DOMAIN Schema }
Canonical(key) == IF key \in DOMAIN Aliases THEN Aliases[key] ELSE key

\* _deep_merge, whose innermost values override each other.
Overlay(base, over) ==
  [path \in DOMAIN base \union DOMAIN over |->
     IF path \in DOMAIN over THEN over[path] ELSE base[path]]

NoFields == [path \in {} |-> None]

\* migrate_aliases of a document that does not write one section in two ways.
Written(document, path) ==
  CHOOSE from \in DOMAIN document : Canonical(from[1]) = path[1] /\ from[2] = path[2]
Migrate(document) ==
  [path \in { <<Canonical(from[1]), from[2]>> : from \in DOMAIN document } |->
     document[Written(document, path)]]

\* The kinds are disjoint, only plain fields are overridden by variables, and
\* classifications are represented by numbers.
Ranked(document) == \A path \in Ceilings \intersect DOMAIN document : document[path] \in Nat

ASSUMPTION ConfigAssumption ==
  /\ DOMAIN Defaults \subseteq DOMAIN Schema
  /\ Security \subseteq DOMAIN Defaults
  /\ StrictBools \intersect (Denials \union Allowlists \union Ceilings) = {}
  /\ Denials \intersect (Allowlists \union Ceilings) = {}
  /\ Allowlists \intersect Ceilings = {}
  /\ Ranks \subseteq Nat
  /\ None # "ok"
  /\ \A variable \in DOMAIN EnvPath :
       /\ EnvPath[variable] \notin Security
       /\ EnvPath[variable] \in DOMAIN Adapter => Adapter[EnvPath[variable]][1] \notin Security

ASSUMPTION InputsAssumption ==
  \A input \in Inputs :
    /\ {"system", "user", "fallback", "repository"} \subseteq DOMAIN input.files
    /\ input.flag \in DOMAIN input.files \union {None}
    /\ "HARNESS_CONFIG" \in DOMAIN input.environment =>
         input.environment["HARNESS_CONFIG"] \in DOMAIN input.files
    /\ \A location \in DOMAIN input.files :
         input.files[location] \notin {None, Garbled} => Ranked(Migrate(input.files[location]))
    /\ Ranked(input.cli)

\* Two spellings of one section, in one document or in two.
TwoSpellings(documents) ==
  LET keys == UNION { Keys(document) : document \in documents } IN
  \E key, other \in keys : key # other /\ Canonical(key) = Canonical(other)

Found == { sources[i] : i \in 1..4 } \ {None}

-----------------------------------------------------------------------------
(* Narrowing. *)

\* The value a layer's request becomes under what is held already.
Meet(path, held, asked) ==
  CASE path \in StrictBools -> TRUE \in {held, asked}
    [] path \in Denials     -> IF "deny" \in {held, asked} THEN "deny" ELSE asked
    [] path \in Allowlists  -> asked \intersect held
    [] path \in Ceilings    -> IF held <= asked THEN held ELSE asked

\* apply_security_monotonicity.
Narrow(held, layer) ==
  [path \in DOMAIN layer |->
     IF path \in Security \intersect DOMAIN held
     THEN Meet(path, held[path], layer[path]) ELSE layer[path]]

\* classification_rank raises for a label that is not registered.
Unranked(held, layer) ==
  \E path \in Ceilings \intersect DOMAIN held \intersect DOMAIN layer :
    ~({held[path], layer[path]} \subseteq Ranks)

-----------------------------------------------------------------------------
(* The environment layer. *)

EnvValue(variable, raw) ==
  IF EnvPath[variable] \in DOMAIN Adapter THEN [source |-> "env", name |-> variable]
  ELSE IF raw \in {"true", "TRUE"} THEN TRUE
  ELSE IF raw \in {"false", "FALSE"} THEN FALSE ELSE raw

\* Registered variables only; a provider's key declares its adapter too.
EnvLayer(environment) ==
  LET given == DOMAIN environment \intersect DOMAIN EnvPath
      keyed == { variable \in given : EnvPath[variable] \in DOMAIN Adapter }
      values == [path \in { EnvPath[v] : v \in given } |->
        LET v == CHOOSE v \in given : EnvPath[v] = path IN EnvValue(v, environment[v])]
      adapters == [path \in { Adapter[EnvPath[v]][1] : v \in keyed } |->
        LET v == CHOOSE v \in keyed : Adapter[EnvPath[v]][1] = path IN Adapter[EnvPath[v]][2]]
  IN Overlay(values, adapters)

-----------------------------------------------------------------------------
Init ==
  /\ inputs \in Inputs
  /\ step = "load" /\ at = 1
  /\ sources = <<None, None, None, None>> /\ layers = <<Defaults>>
  /\ effective = NoFields /\ authority = NoFields /\ merged = NoFields
  /\ result = None

End(code) ==
  /\ step' = "done" /\ result' = code
  /\ UNCHANGED <<inputs, sources, at, layers, effective, authority, merged>>

\* The path of --config, or else of HARNESS_CONFIG.
ExplicitPath ==
  IF inputs.flag # None THEN inputs.flag
  ELSE IF "HARNESS_CONFIG" \in DOMAIN inputs.environment
       THEN inputs.environment["HARNESS_CONFIG"] ELSE None

\* On Linux the user's file has a fallback (elsewhere that file is absent).
UserFile ==
  IF inputs.files["user"] # None THEN inputs.files["user"] ELSE inputs.files["fallback"]
ExplicitFile == IF ExplicitPath = None THEN None ELSE inputs.files[ExplicitPath]

\* resolve_configuration_from_files: only a file named explicitly must exist.
Load ==
  LET found == <<inputs.files["system"], UserFile, inputs.files["repository"], ExplicitFile>> IN
  /\ step = "load"
  /\ IF (ExplicitPath # None /\ ExplicitFile = None) \/ \E i \in 1..4 : found[i] = Garbled
     THEN End("CONFIG_INVALID")
     ELSE /\ sources' = found /\ step' = "check"
          /\ UNCHANGED <<inputs, at, layers, effective, authority, merged, result>>

\* check_cross_source_alias_conflict, which sees each document as well.
CheckSources ==
  /\ step = "check"
  /\ IF TwoSpellings(Found) THEN End("CONFIG_ALIAS_CONFLICT")
     ELSE /\ step' = "take"
          /\ UNCHANGED <<inputs, sources, at, layers, effective, authority, merged, result>>

NextSource ==
  /\ at' = IF at = 4 THEN 1 ELSE at + 1
  /\ step' = IF at = 4 THEN "merge" ELSE "take"

\* A document enters the merge, narrowed by the ones before it.
TakeLayer ==
  /\ step = "take" /\ sources[at] # None
  /\ Keys(Migrate(sources[at])) \subseteq CanonicalKeys
  /\ ~Unranked(effective, Migrate(sources[at]))
  /\ layers' = Append(layers, Narrow(effective, Migrate(sources[at])))
  /\ effective' = Overlay(effective, Narrow(effective, Migrate(sources[at])))
  /\ NextSource
  /\ UNCHANGED <<inputs, sources, authority, merged, result>>

SkipLayer ==
  /\ step = "take" /\ sources[at] = None
  /\ NextSource
  /\ UNCHANGED <<inputs, sources, layers, effective, authority, merged, result>>

RefuseLayer ==
  /\ step = "take" /\ sources[at] # None
  /\ LET layer == Migrate(sources[at]) IN
     \/ ~(Keys(layer) \subseteq CanonicalKeys) /\ End("CONFIG_UNKNOWN_KEY")
     \/ /\ Keys(layer) \subseteq CanonicalKeys /\ Unranked(effective, layer)
        /\ End("INVALID_CONTRACT_VALUE")

\* Mutant: the built-in defaults constrain like any other layer.
MergeDefaultsToo ==
  /\ step = "merge"
  /\ merged' = Overlay(merged, Narrow(authority, layers[at]))
  /\ authority' = Overlay(authority, Narrow(authority, layers[at]))
  /\ IF at = Len(layers) THEN step' = "environment" /\ UNCHANGED at
     ELSE at' = at + 1 /\ UNCHANGED step
  /\ UNCHANGED <<inputs, sources, layers, effective, result>>

\* merge_layers narrows once more, against what it has merged of the layers
\* above the defaults.
MergeLayer ==
  /\ step = "merge"
  /\ LET layer == IF at = 1 THEN layers[at] ELSE Narrow(authority, layers[at]) IN
     /\ merged' = Overlay(merged, layer)
     /\ authority' = IF at = 1 THEN authority ELSE Overlay(authority, layer)
  /\ IF at = Len(layers) THEN step' = "environment" /\ UNCHANGED at
     ELSE at' = at + 1 /\ UNCHANGED step
  /\ UNCHANGED <<inputs, sources, layers, effective, result>>

\* Mutant: the environment only fills what the documents leave open.
EnvironmentFills ==
  /\ step = "environment"
  /\ merged' = Overlay(EnvLayer(inputs.environment), merged)
  /\ step' = "command line"
  /\ UNCHANGED <<inputs, sources, at, layers, effective, authority, result>>

ApplyEnvironment ==
  /\ step = "environment"
  /\ merged' = Overlay(merged, Narrow(effective, EnvLayer(inputs.environment)))
  /\ step' = "command line"
  /\ UNCHANGED <<inputs, sources, at, layers, effective, authority, result>>

\* Mutant: the command line is narrowed by the document before it alone.
CommandLineAgainstLast ==
  /\ step = "command line"
  /\ merged' = Overlay(merged, Narrow(IF Len(layers) = 1 THEN NoFields ELSE layers[Len(layers)],
                                      inputs.cli))
  /\ step' = "validate"
  /\ UNCHANGED <<inputs, sources, at, layers, effective, authority, result>>

\* Overrides are neither migrated nor checked; validation sees what is left.
ApplyCommandLine ==
  /\ step = "command line"
  /\ IF Unranked(effective, inputs.cli) THEN End("INVALID_CONTRACT_VALUE")
     ELSE /\ merged' = Overlay(merged, Narrow(effective, inputs.cli))
          /\ step' = "validate"
          /\ UNCHANGED <<inputs, sources, at, layers, effective, authority, result>>

\* A declared provider has an adapter.
Legal ==
  /\ \A path \in DOMAIN merged : merged[path] \in Schema[path]
  /\ \A path \in DOMAIN merged \intersect DOMAIN Adapter : Adapter[path][1] \in DOMAIN merged

Validate ==
  /\ step = "validate"
  /\ \/ ~(DOMAIN merged \subseteq DOMAIN Schema) /\ End("CONFIG_UNKNOWN_KEY")
     \/ DOMAIN merged \subseteq DOMAIN Schema /\ ~Legal /\ End("CONFIG_INVALID")
     \/ DOMAIN merged \subseteq DOMAIN Schema /\ Legal /\ End("ok")

Next ==
  \/ Load \/ CheckSources \/ TakeLayer \/ SkipLayer \/ RefuseLayer
  \/ MergeLayer \/ ApplyEnvironment \/ ApplyCommandLine \/ Validate

Spec == Init /\ [][Next]_vars

-----------------------------------------------------------------------------
(* Properties. *)

Supplied == { Migrate(document) : document \in Found }

\* A value grants nothing that the one asked for withholds.
NoWider(path, value, asked) ==
  CASE path \in StrictBools -> asked = TRUE => value = TRUE
    [] path \in Denials     -> asked = "deny" => value = "deny"
    [] path \in Allowlists  -> value \subseteq asked
    [] path \in Ceilings    -> value <= asked

\* The values the documents and the command line ask for.
Asked(path) ==
  { document[path] : document \in { d \in Supplied \union {inputs.cli} : path \in DOMAIN d } }

\* A security field is never wider than any document or override asked for
\* (10.6.1), whatever the order and however often the merge narrows.
NeverWider ==
  result = "ok" =>
    \A path \in Security : \A value \in Asked(path) : NoWider(path, merged[path], value)

\* Nor is it narrower than all of them together: a security field is exactly
\* the intersection, and the default where nobody asks.
EffectiveIsIntersection ==
  result = "ok" => \A path \in Security :
    IF Asked(path) = {} THEN merged[path] = Defaults[path]
    ELSE \A value \in Schema[path] :
           (\A asked \in Asked(path) : NoWider(path, value, asked))
             => NoWider(path, value, merged[path])

\* The layers in ordinary precedence, lowest first.
Precedence ==
  <<Defaults>>
    \o [i \in 1..4 |-> IF sources[i] = None THEN NoFields ELSE Migrate(sources[i])]
    \o <<EnvLayer(inputs.environment), inputs.cli>>

\* The adapters that a document declares and a variable's provider key implies.
Disputed ==
  LET keys == DOMAIN Adapter \intersect DOMAIN EnvLayer(inputs.environment) IN
  { path \in { Adapter[key][1] : key \in keys } :
      \E i \in 1..5 : path \in DOMAIN Precedence[i] }

\* Every other field has the value of the highest layer that sets it (9.9.1),
\* under its alias or not, and no layer is lost.  Left open is an adapter that
\* a document declares and a key in the environment implies: the comment on
\* apply_env_overrides keeps the declared one, its code the implied one.  The
\* value is a layer's there too.
OrdinaryIsLast ==
  result = "ok" => \A i \in 1..7 : \A path \in DOMAIN Precedence[i] \ Security :
    /\ path \in DOMAIN merged
    /\ \E j \in 1..7 : path \in DOMAIN Precedence[j] /\ merged[path] = Precedence[j][path]
    /\ (\A j \in (i + 1)..7 : path \notin DOMAIN Precedence[j])
         => merged[path] = Precedence[i][path] \/ path \in Disputed
=============================================================================
