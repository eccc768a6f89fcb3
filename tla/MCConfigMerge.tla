---------------------------- MODULE MCConfigMerge ----------------------------
(* Small instances of ConfigMerge: for each kind of field every combination *)
(* of layers that ask for it; files that are missing or unreadable; aliases *)
(* and unknown keys; the environment.                                       *)
EXTENDS ConfigMerge, TLC

Level     == <<"runtime", "log_level">>
Aliased   == <<"run", "log_level">>
Isolation == <<"sandbox", "require_isolation">>
Network   == <<"network", "default">>
Origins   == <<"network", "allowed_origins">>
Egress    == <<"data_egress", "maximum_classification">>
ApiKey    == <<"providers", "openai.api_key">>
AdapterOf == <<"providers", "openai.adapter">>

Levels == {"INFO", "DEBUG", "WARNING", "ERROR"}
Variable == "HARNESS_PROVIDER_OPENAI_KEY"
SecretRef == [source |-> "env", name |-> Variable]

SomeSchema ==
  Level :> Levels @@ Isolation :> BOOLEAN @@ Network :> {"deny", "allow"}
    @@ Origins :> SUBSET {"o1", "o2"} @@ Egress :> 0..2
    @@ ApiKey :> {SecretRef} @@ AdapterOf :> {"openai", "openrouter"}
SomeDefaults ==
  Level :> "INFO" @@ Isolation :> TRUE @@ Network :> "deny" @@ Origins :> {} @@ Egress :> 0
SomeEnvPath == "HARNESS_LOG_LEVEL" :> Level @@ Variable :> ApiKey
SomeAdapter == ApiKey :> <<AdapterOf, "openai">>

Locations == {"system", "user", "fallback", "repository", "flagged", "named"}
NoFiles == [location \in Locations |-> None]
NoEnvironment == [variable \in {} |-> ""]

\* Every layer asks for one of the values, or is absent; the explicit file may
\* ask for something else.
OneField(path, values) ==
  LET documents == { path :> value : value \in values } IN
  { [files |-> [NoFiles EXCEPT !["system"] = s, !["user"] = u, !["repository"] = r,
                               !["flagged"] = e],
     flag |-> IF e = None THEN None ELSE "flagged",
     environment |-> NoEnvironment, cli |-> c] :
      s \in documents \union {None}, u \in documents \union {None},
      r \in documents \union {None}, e \in documents \union {None, Level :> "DEBUG"},
      c \in documents \union {NoFields} }

\* Which files exist, and how an explicit one is named.
Present ==
  { [files |-> [l \in Locations |-> IF l \in there THEN
                 IF l = garbled THEN Garbled
                 ELSE Level :> (IF l \in {"user", "flagged"} THEN "DEBUG"
                                ELSE IF l \in {"fallback", "named"} THEN "WARNING" ELSE "ERROR")
               ELSE None],
     flag |-> flag, environment |-> environment, cli |-> NoFields] :
      there \in SUBSET Locations, garbled \in {None, "fallback", "flagged"},
      flag \in {None, "flagged"},
      environment \in {NoEnvironment, "HARNESS_CONFIG" :> "named"} }

\* Aliases, both spellings, sections and fields that nobody registered.
Spellings ==
  LET documents == { None, Aliased :> "DEBUG", Level :> "ERROR", Aliased :> "DEBUG" @@ Level :> "INFO",
                     <<"extra", "field">> :> "x", <<"runtime", "field">> :> "x",
                     Level :> "LOUD" } IN
  { [files |-> [NoFiles EXCEPT !["system"] = s, !["repository"] = r],
     flag |-> None, environment |-> NoEnvironment, cli |-> c] :
      s \in documents, r \in documents,
      c \in {NoFields, Aliased :> "DEBUG", Level :> "WARNING"} }

\* Registered and other variables over a provider that is declared or not.
Variables ==
  { [files |-> [NoFiles EXCEPT !["system"] = d], flag |-> None,
     environment |-> e, cli |-> c] :
      d \in {None, ApiKey :> SecretRef, AdapterOf :> "openrouter", Level :> "ERROR"},
      e \in {NoEnvironment, "HARNESS_LOG_LEVEL" :> "DEBUG", "HARNESS_LOG_LEVEL" :> "LOUD",
             Variable :> "key", "HARNESS_OTHER" :> "x"},
      c \in {NoFields, Level :> "WARNING"} }

AllInputs ==
  OneField(Isolation, BOOLEAN) \union OneField(Network, {"deny", "allow"})
    \union OneField(Origins, SUBSET {"o1", "o2"}) \union OneField(Egress, {0, 1, 2})
    \union OneField(Egress, {1, 9})
    \union Present \union Spellings \union Variables

Booleans == {Isolation}
DenyWins == {Network}
Lists == {Origins}
Ceiling == {Egress}
=============================================================================
