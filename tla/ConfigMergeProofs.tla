-------------------------- MODULE ConfigMergeProofs --------------------------
(***************************************************************************)
(* For every schema, every set of files and every command line: a security *)
(* field is no wider than any layer asked for, and exactly the intersection *)
(* of what was asked; every other field is the last writer's.              *)
(***************************************************************************)
EXTENDS ConfigMerge, SequenceTheorems, TLAPS

Doc(i) == Migrate(sources[i])

\* The documents that have entered effective_security.
Taken(i) ==
  /\ i \in 1..4 /\ sources[i] # None
  /\ \/ step = "take" /\ i < at
     \/ step \in {"merge", "environment", "command line", "validate"}
     \/ result = "ok"

\* A partial document asks for a path, and holds nothing wider than another.
Below(document, other) ==
  \A path \in Security \intersect DOMAIN other :
    path \in DOMAIN document /\ NoWider(path, document[path], other[path])

Sources ==
  /\ inputs \in Inputs
  /\ at \in Nat
  /\ step \in {"load", "check", "take", "merge", "environment", "command line",
               "validate", "done"}
  /\ step = "take" => at \in 1..4
  /\ result = "ok" => step = "done"
  /\ \A i \in 1..4 : sources[i] # None => Ranked(Doc(i))
  /\ step \in {"load", "check"} => at = 1

\* effective_security is below every document taken, and whatever it holds is
\* held by some layer.
Held ==
  /\ Ranked(effective)
  /\ \A i \in 1..4 : Taken(i) => Below(effective, Doc(i))
  /\ \E Documents : layers \in Seq(Documents)
  /\ Len(layers) >= 1
  /\ \A j \in 2..Len(layers) : Ranked(layers[j])
  /\ \A path \in DOMAIN effective : \E j \in 2..Len(layers) :
       path \in DOMAIN layers[j] /\ layers[j][path] = effective[path]

\* The merge is below every layer above the defaults that it has seen.
Merging ==
  /\ step \in {"load", "check", "take"} => authority = NoFields /\ merged = NoFields
  /\ step = "merge" =>
       /\ at \in 1..Len(layers)
       /\ at = 1 => authority = NoFields /\ merged = NoFields
       /\ \A path \in DOMAIN authority :
            path \in DOMAIN merged /\ merged[path] = authority[path]
       /\ Ranked(authority)
       /\ \A j \in 2..(at - 1) : Below(authority, layers[j])

Merged ==
  /\ step \in {"environment", "command line"} =>
       /\ Below(merged, effective)
       /\ \A path \in Ceilings \intersect DOMAIN effective : merged[path] \in Nat
  /\ step = "validate" \/ result = "ok" =>
       /\ \A i \in 1..4 : sources[i] # None => Below(merged, Doc(i))
       /\ Below(merged, inputs.cli)

IInv == Sources /\ Held /\ Merging /\ Merged

-----------------------------------------------------------------------------
(* Narrowing, field by field. *)

LEMMA NoWiderOrder ==
  ASSUME NEW path \in Security, NEW x, NEW y, NEW z,
         path \in Ceilings => x \in Nat /\ y \in Nat /\ z \in Nat
  PROVE  /\ NoWider(path, x, x)
         /\ NoWider(path, x, y) /\ NoWider(path, y, z) => NoWider(path, x, z)
  <1>1. CASE path \in StrictBools
    <2>1. \A v, w : NoWider(path, v, w) <=> (w = TRUE => v = TRUE)
      BY <1>1, ConfigAssumption DEF NoWider
    <2>2. QED
      BY <2>1
  <1>2. CASE path \in Denials
    <2>1. \A v, w : NoWider(path, v, w) <=> (w = "deny" => v = "deny")
      BY <1>2, ConfigAssumption DEF NoWider
    <2>2. QED
      BY <2>1
  <1>3. CASE path \in Allowlists
    <2>1. \A v, w : NoWider(path, v, w) <=> v \subseteq w
      BY <1>3, ConfigAssumption DEF NoWider
    <2>2. QED
      BY <2>1
  <1>4. CASE path \in Ceilings
    <2>1. \A v, w : NoWider(path, v, w) <=> v <= w
      BY <1>4, ConfigAssumption DEF NoWider
    <2>2. QED
      BY <1>4, <2>1
  <1>5. QED
    BY <1>1, <1>2, <1>3, <1>4 DEF Security

LEMMA MeetBelow ==
  ASSUME NEW path \in Security, NEW held, NEW asked,
         path \in Ceilings => held \in Nat /\ asked \in Nat
  PROVE  /\ NoWider(path, Meet(path, held, asked), held)
         /\ NoWider(path, Meet(path, held, asked), asked)
         /\ path \in Ceilings => Meet(path, held, asked) \in Nat
  <1>1. CASE path \in StrictBools
    <2>1. \A v, w : NoWider(path, v, w) <=> (w = TRUE => v = TRUE)
      BY <1>1, ConfigAssumption DEF NoWider
    <2>2. Meet(path, held, asked) = (TRUE \in {held, asked})
      BY <1>1, ConfigAssumption DEF Meet
    <2>3. QED
      BY <1>1, <2>1, <2>2, ConfigAssumption
  <1>2. CASE path \in Denials
    <2>1. \A v, w : NoWider(path, v, w) <=> (w = "deny" => v = "deny")
      BY <1>2, ConfigAssumption DEF NoWider
    <2>2. Meet(path, held, asked) = IF "deny" \in {held, asked} THEN "deny" ELSE asked
      BY <1>2, ConfigAssumption DEF Meet
    <2>3. QED
      BY <1>2, <2>1, <2>2, ConfigAssumption
  <1>3. CASE path \in Allowlists
    <2>1. \A v, w : NoWider(path, v, w) <=> v \subseteq w
      BY <1>3, ConfigAssumption DEF NoWider
    <2>2. Meet(path, held, asked) = asked \intersect held
      BY <1>3, ConfigAssumption DEF Meet
    <2>3. QED
      BY <1>3, <2>1, <2>2, ConfigAssumption
  <1>4. CASE path \in Ceilings
    <2>1. \A v, w : NoWider(path, v, w) <=> v <= w
      BY <1>4, ConfigAssumption DEF NoWider
    <2>2. Meet(path, held, asked) = IF held <= asked THEN held ELSE asked
      BY <1>4, ConfigAssumption DEF Meet
    <2>3. QED
      BY <1>4, <2>1, <2>2
  <1>5. QED
    BY <1>1, <1>2, <1>3, <1>4 DEF Security

LEMMA NarrowBelow ==
  ASSUME NEW held, NEW layer, Ranked(held), Ranked(layer)
  PROVE  /\ DOMAIN Narrow(held, layer) = DOMAIN layer
         /\ Ranked(Narrow(held, layer))
         /\ Below(Narrow(held, layer), layer)
         /\ \A path \in Security \intersect DOMAIN held \intersect DOMAIN layer :
              NoWider(path, Narrow(held, layer)[path], held[path])
  <1> DEFINE narrow == Narrow(held, layer)
  <1>1. DOMAIN narrow = DOMAIN layer
    BY DEF Narrow
  <1>2. ASSUME NEW path \in Security \intersect DOMAIN layer, path \in DOMAIN held
        PROVE  /\ NoWider(path, narrow[path], held[path])
               /\ NoWider(path, narrow[path], layer[path])
               /\ path \in Ceilings => narrow[path] \in Nat
    <2>1. narrow[path] = Meet(path, held[path], layer[path])
      BY <1>2 DEF Narrow
    <2>2. QED
      BY <1>2, <2>1, MeetBelow DEF Ranked
  <1>3. ASSUME NEW path \in Security \intersect DOMAIN layer, path \notin DOMAIN held
        PROVE  /\ NoWider(path, narrow[path], layer[path])
               /\ path \in Ceilings => narrow[path] \in Nat
    <2>1. narrow[path] = layer[path]
      BY <1>3 DEF Narrow
    <2>2. QED
      BY <1>3, <2>1, NoWiderOrder DEF Ranked
  <1>4. Ranked(narrow)
    BY <1>1, <1>2, <1>3 DEF Ranked, Security
  <1>5. QED
    BY <1>1, <1>2, <1>3, <1>4 DEF Below

(* A layer narrowed by what is held, and laid over it, keeps all bounds.    *)
LEMMA OverlayBelow ==
  ASSUME NEW held, NEW layer, Ranked(held), Ranked(layer)
  PROVE  LET over == Overlay(held, Narrow(held, layer)) IN
         /\ Ranked(over)
         /\ Below(over, held)
         /\ Below(over, layer)
  <1> DEFINE narrow == Narrow(held, layer)
             over == Overlay(held, narrow)
  <1>1. /\ DOMAIN narrow = DOMAIN layer /\ Ranked(narrow) /\ Below(narrow, layer)
        /\ \A path \in Security \intersect DOMAIN held \intersect DOMAIN layer :
             NoWider(path, narrow[path], held[path])
    BY NarrowBelow
  <1>2. \A path : path \in DOMAIN over <=> path \in DOMAIN held \/ path \in DOMAIN narrow
    BY DEF Overlay
  <1>3. \A path \in DOMAIN narrow : over[path] = narrow[path]
    BY DEF Overlay
  <1>4. \A path \in DOMAIN held \ DOMAIN narrow : over[path] = held[path]
    BY DEF Overlay
  <1> HIDE DEF narrow, over
  <1>5. Ranked(over)
    BY <1>1, <1>2, <1>3, <1>4 DEF Ranked
  <1>6. Below(over, layer)
    BY <1>1, <1>2, <1>3 DEF Below
  <1>7. ASSUME NEW path \in Security \intersect DOMAIN held
        PROVE  path \in DOMAIN over /\ NoWider(path, over[path], held[path])
    <2>1. CASE path \in DOMAIN layer
      BY <1>1, <1>2, <1>3, <2>1
    <2>2. CASE path \notin DOMAIN layer
      <3>1. over[path] = held[path]
        BY <1>1, <1>4, <1>7, <2>2
      <3>2. path \in Ceilings => held[path] \in Nat
        BY <1>7 DEF Ranked
      <3>3. QED
        BY <1>2, <3>1, <3>2, NoWiderOrder
    <2>3. QED
      BY <2>1, <2>2
  <1>8. Below(over, held)
    BY <1>7 DEF Below
  <1>9. QED
    BY <1>5, <1>6, <1>8 DEF over, narrow

LEMMA BelowTransitive ==
  ASSUME NEW x, NEW y, NEW z, Ranked(x), Ranked(y), Ranked(z), Below(x, y), Below(y, z)
  PROVE  Below(x, z)
  <1>1. SUFFICES ASSUME NEW path \in Security \intersect DOMAIN z
                 PROVE  path \in DOMAIN x /\ NoWider(path, x[path], z[path])
    BY DEF Below
  <1>2. /\ path \in DOMAIN x /\ path \in DOMAIN y
        /\ NoWider(path, x[path], y[path]) /\ NoWider(path, y[path], z[path])
    BY <1>1 DEF Below
  <1>3. path \in Ceilings => x[path] \in Nat /\ y[path] \in Nat /\ z[path] \in Nat
    BY <1>1, <1>2 DEF Ranked
  <1>4. QED
    BY <1>1, <1>2, <1>3, NoWiderOrder

-----------------------------------------------------------------------------
(* The invariant. *)

LEMMA Starts == Init => IInv
  <1>1. SUFFICES ASSUME Init PROVE IInv
    OBVIOUS
  <1>2. /\ Len(layers) = 1 /\ layers \in Seq({Defaults})
        /\ effective = NoFields /\ DOMAIN effective = {}
        /\ \A i \in 1..4 : sources[i] = None
        /\ result = None /\ step = "load"
    BY <1>1 DEF Init, NoFields
  <1>3. Sources
    BY <1>1, <1>2, ConfigAssumption DEF Init, Sources
  <1>4. Held
    <2>1. Ranked(effective)
      BY <1>2 DEF Ranked
    <2>2. \A i \in 1..4 : ~Taken(i)
      BY <1>2 DEF Taken
    <2>3. QED
      BY <1>2, <2>1, <2>2 DEF Held
  <1>5. Merging
    BY <1>1 DEF Init, Merging
  <1>6. Merged
    BY <1>1, <1>2, ConfigAssumption DEF Init, Merged
  <1>7. QED
    BY <1>3, <1>4, <1>5, <1>6 DEF IInv

LEMMA Ends ==
  ASSUME IInv, NEW code, code # "ok", End(code)
  PROVE  IInv'
  <1>1. \A i \in 1..4 : ~Taken(i)'
    BY DEF End, Taken
  <1>2. Sources'
    BY DEF IInv, Sources, End, Doc
  <1>3. Held'
    BY <1>1 DEF IInv, Held, End, Ranked
  <1>4. Merging' /\ Merged'
    BY DEF IInv, Merging, Merged, End
  <1>5. QED
    BY <1>2, <1>3, <1>4 DEF IInv

LEMMA Loads ==
  ASSUME IInv, Load
  PROVE  IInv'
  <1> DEFINE found == <<inputs.files["system"], UserFile, inputs.files["repository"], ExplicitFile>>
  <1>1. CASE End("CONFIG_INVALID")
    BY <1>1, Ends
  <1>2. CASE /\ sources' = found /\ step' = "check"
             /\ ~(ExplicitPath # None /\ ExplicitFile = None)
             /\ ~ \E i \in 1..4 : found[i] = Garbled
             /\ UNCHANGED <<inputs, at, layers, effective, authority, merged, result>>
    <2>1. step = "load" /\ inputs \in Inputs
      BY DEF Load, IInv, Sources
    <2>2. \A i \in 1..4 : found[i] # None =>
            \E location \in DOMAIN inputs.files : found[i] = inputs.files[location]
      BY <2>1, InputsAssumption DEF UserFile, ExplicitFile, ExplicitPath
    <2>3. \A i \in 1..4 : sources'[i] # None => Ranked(Migrate(sources'[i]))
      BY <1>2, <2>1, <2>2, InputsAssumption
    <2>4. result # "ok" /\ \A i \in 1..4 : ~Taken(i)'
      BY <1>2, <2>1 DEF IInv, Sources, Taken
    <2>5. Sources'
      BY <1>2, <2>1, <2>3, <2>4 DEF IInv, Sources, Doc
    <2>6. Held'
      BY <1>2, <2>4 DEF IInv, Held, Ranked
    <2>7. Merging' /\ Merged'
      BY <1>2, <2>1, <2>4 DEF IInv, Merging, Merged
    <2>8. QED
      BY <2>5, <2>6, <2>7 DEF IInv
  <1>3. QED
    BY <1>1, <1>2 DEF Load

LEMMA Checks ==
  ASSUME IInv, CheckSources
  PROVE  IInv'
  <1>1. CASE End("CONFIG_ALIAS_CONFLICT")
    BY <1>1, Ends
  <1>2. CASE /\ step = "check" /\ step' = "take"
             /\ UNCHANGED <<inputs, sources, at, layers, effective, authority, merged, result>>
    <2>1. at = 1 /\ result # "ok" /\ \A i \in 1..4 : ~Taken(i)'
      BY <1>2 DEF IInv, Sources, Taken
    <2>2. Sources'
      BY <1>2, <2>1 DEF IInv, Sources, Doc
    <2>3. Held'
      BY <1>2, <2>1 DEF IInv, Held, Ranked
    <2>4. Merging' /\ Merged'
      BY <1>2, <2>1 DEF IInv, Merging, Merged
    <2>5. QED
      BY <2>2, <2>3, <2>4 DEF IInv
  <1>3. QED
    BY <1>1, <1>2 DEF CheckSources

LEMMA Takes ==
  ASSUME IInv, TakeLayer
  PROVE  IInv'
  <1> DEFINE layer == Doc(at)
             narrow == Narrow(effective, layer)
  <1>1. /\ step = "take" /\ at \in 1..4 /\ sources[at] # None
        /\ Ranked(effective) /\ Ranked(layer) /\ result # "ok"
        /\ layers' = Append(layers, narrow) /\ effective' = Overlay(effective, narrow)
    BY DEF IInv, Sources, Held, TakeLayer, Doc
  <1>2. UNCHANGED <<inputs, sources, authority, merged, result>>
    BY DEF TakeLayer
  <1>3. \/ at # 4 /\ at' = at + 1 /\ step' = "take"
        \/ at = 4 /\ at' = 1 /\ step' = "merge"
    BY DEF TakeLayer, NextSource
  <1>4. Ranked(effective') /\ Below(effective', effective) /\ Below(effective', layer)
    BY <1>1, OverlayBelow
  <1>5. DOMAIN narrow = DOMAIN layer /\ Ranked(narrow)
    BY <1>1, NarrowBelow
  <1>6. /\ Len(layers') = Len(layers) + 1 /\ Len(layers) \in Nat \ {0}
        /\ layers'[Len(layers) + 1] = narrow
        /\ \A j \in 1..Len(layers) : layers'[j] = layers[j]
        /\ \E Documents : layers' \in Seq(Documents)
    <2>1. PICK Documents : layers \in Seq(Documents)
      BY DEF IInv, Held
    <2>2. layers \in Seq(Documents \union {narrow})
      BY <2>1
    <2>3. layers' \in Seq(Documents \union {narrow})
      BY <1>1, <2>2
    <2>4. Len(layers) >= 1
      BY DEF IInv, Held
    <2>5. QED
      BY <1>1, <2>2, <2>3, <2>4
  <1>7. Sources'
    <2>1. CASE at # 4 /\ at' = at + 1 /\ step' = "take"
      BY <1>1, <1>2, <2>1 DEF IInv, Sources, Doc
    <2>2. CASE at = 4 /\ at' = 1 /\ step' = "merge"
      BY <1>1, <1>2, <2>2 DEF IInv, Sources, Doc
    <2>3. QED
      BY <1>3, <2>1, <2>2
  <1>8. \A i \in 1..4 : Taken(i)' => Below(effective', Doc(i)')
    <2>1. SUFFICES ASSUME NEW i \in 1..4, Taken(i)'
                   PROVE  Below(effective', Doc(i))
      BY <1>2 DEF Doc
    <2>2. i = at \/ Taken(i)
      <3>1. CASE at # 4 /\ at' = at + 1 /\ step' = "take"
        BY <1>1, <1>2, <2>1, <3>1 DEF Taken
      <3>2. CASE at = 4 /\ at' = 1 /\ step' = "merge"
        BY <1>1, <1>2, <2>1, <3>2 DEF Taken
      <3>3. QED
        BY <1>3, <3>1, <3>2
    <2>3. CASE i = at
      BY <1>4, <2>3
    <2>4. CASE Taken(i)
      <3>1. Below(effective, Doc(i)) /\ Ranked(Doc(i))
        BY <2>1, <2>4 DEF IInv, Held, Sources, Taken
      <3>2. QED
        BY <1>1, <1>4, <3>1, BelowTransitive
    <2>5. QED
      BY <2>2, <2>3, <2>4
  <1>9. \A j \in 2..Len(layers') : Ranked(layers'[j])
    <2>1. \A j \in 2..Len(layers) : Ranked(layers[j])
      BY DEF IInv, Held
    <2>2. \A j \in 2..Len(layers') : j = Len(layers) + 1 \/ j \in 2..Len(layers)
      BY <1>6
    <2>3. QED
      BY <1>5, <1>6, <2>1, <2>2
  <1>10. ASSUME NEW path \in DOMAIN effective'
        PROVE  \E j \in 2..Len(layers') :
                 path \in DOMAIN layers'[j] /\ layers'[j][path] = effective'[path]
    <2>1. CASE path \in DOMAIN narrow
      <3>1. effective'[path] = narrow[path]
        BY <1>1, <2>1 DEF Overlay
      <3>2. QED
        BY <1>6, <2>1, <3>1
    <2>2. CASE path \notin DOMAIN narrow
      <3>1. path \in DOMAIN effective /\ effective'[path] = effective[path]
        BY <1>1, <1>10, <2>2 DEF Overlay
      <3>2. PICK j \in 2..Len(layers) :
              path \in DOMAIN layers[j] /\ layers[j][path] = effective[path]
        BY <3>1 DEF IInv, Held
      <3>3. QED
        BY <1>6, <3>1, <3>2
    <2>3. QED
      BY <2>1, <2>2
  <1>11. Held'
    BY <1>4, <1>6, <1>8, <1>9, <1>10 DEF Held
  <1>12. Merging'
    <2>1. authority' = NoFields /\ merged' = NoFields /\ DOMAIN NoFields = {}
      BY <1>1, <1>2 DEF IInv, Merging, NoFields
    <2>2. QED
      BY <1>1, <1>3, <1>6, <2>1 DEF Merging, Ranked
  <1>13. Merged'
    BY <1>1, <1>2, <1>3 DEF Merged
  <1>14. QED
    BY <1>7, <1>11, <1>12, <1>13 DEF IInv

LEMMA Skips ==
  ASSUME IInv, SkipLayer
  PROVE  IInv'
  <1>1. /\ step = "take" /\ at \in 1..4 /\ sources[at] = None /\ result # "ok"
        /\ UNCHANGED <<inputs, sources, layers, effective, authority, merged, result>>
    BY DEF IInv, Sources, SkipLayer
  <1>2. \/ at # 4 /\ at' = at + 1 /\ step' = "take"
        \/ at = 4 /\ at' = 1 /\ step' = "merge"
    BY DEF SkipLayer, NextSource
  <1>3. \A i \in 1..4 : Taken(i)' => Taken(i)
    <2>1. CASE at # 4 /\ at' = at + 1 /\ step' = "take"
      BY <1>1, <2>1 DEF Taken
    <2>2. CASE at = 4 /\ at' = 1 /\ step' = "merge"
      BY <1>1, <2>2 DEF Taken
    <2>3. QED
      BY <1>2, <2>1, <2>2
  <1>4. Sources'
    <2>1. CASE at # 4 /\ at' = at + 1 /\ step' = "take"
      BY <1>1, <2>1 DEF IInv, Sources, Doc
    <2>2. CASE at = 4 /\ at' = 1 /\ step' = "merge"
      BY <1>1, <2>2 DEF IInv, Sources, Doc
    <2>3. QED
      BY <1>2, <2>1, <2>2
  <1>5. Held'
    BY <1>1, <1>3 DEF IInv, Held, Ranked, Doc, Below
  <1>6. Merging'
    <2>1. /\ authority' = NoFields /\ merged' = NoFields /\ DOMAIN NoFields = {}
          /\ Len(layers) >= 1
      BY <1>1 DEF IInv, Merging, Held, NoFields
    <2>2. PICK Documents : layers \in Seq(Documents)
      BY DEF IInv, Held
    <2>3. QED
      BY <1>1, <1>2, <2>1, <2>2 DEF Merging, Ranked
  <1>7. Merged'
    BY <1>1, <1>2 DEF Merged
  <1>8. QED
    BY <1>4, <1>5, <1>6, <1>7 DEF IInv

LEMMA Merges ==
  ASSUME IInv, MergeLayer
  PROVE  IInv'
  <1> DEFINE last == at = Len(layers) /\ step' = "environment" /\ at' = at
             more == at # Len(layers) /\ step' = "merge" /\ at' = at + 1
  <1>1. /\ step = "merge" /\ at \in 1..Len(layers) /\ result # "ok" /\ at \in Nat
        /\ Len(layers) \in Nat
    <2>1. PICK Documents : layers \in Seq(Documents)
      BY DEF IInv, Held
    <2>2. QED
      BY <2>1 DEF IInv, Sources, Merging, MergeLayer
  <1>2. UNCHANGED <<inputs, sources, layers, effective, result>>
    BY DEF MergeLayer
  <1>3. last \/ more
    BY <1>1 DEF MergeLayer
  <1>4. Sources'
    <2>1. CASE last
      BY <1>1, <1>2, <2>1 DEF IInv, Sources, Doc
    <2>2. CASE more
      BY <1>1, <1>2, <2>2 DEF IInv, Sources, Doc
    <2>3. QED
      BY <1>3, <2>1, <2>2
  <1>5. Held'
    <2>1. \A i \in 1..4 : Taken(i)' => Taken(i)
      BY <1>1, <1>2 DEF Taken
    <2>2. QED
      BY <1>2, <2>1 DEF IInv, Held, Ranked, Doc, Below
  <1>6. /\ \A path \in DOMAIN authority' : path \in DOMAIN merged' /\ merged'[path] = authority'[path]
        /\ Ranked(authority')
        /\ \A j \in 2..at : Below(authority', layers[j])
    <2>1. CASE at = 1
      <3>1. authority' = NoFields /\ DOMAIN NoFields = {}
        BY <1>1, <2>1 DEF IInv, Merging, MergeLayer, NoFields
      <3>2. QED
        BY <2>1, <3>1 DEF Ranked
    <2>2. CASE at # 1
      <3> DEFINE layer == layers[at]
                 narrow == Narrow(authority, layer)
      <3>1. merged' = Overlay(merged, narrow) /\ authority' = Overlay(authority, narrow)
        BY <2>2 DEF MergeLayer
      <3>2. at \in 2..Len(layers) /\ Ranked(layer) /\ Ranked(authority)
        BY <1>1, <2>2 DEF IInv, Held, Merging
      <3>3. Ranked(authority') /\ Below(authority', authority) /\ Below(authority', layer)
        BY <3>1, <3>2, OverlayBelow
      <3>4. \A path \in DOMAIN authority' : path \in DOMAIN merged' /\ merged'[path] = authority'[path]
        <4>1. \A path \in DOMAIN authority : path \in DOMAIN merged /\ merged[path] = authority[path]
          BY <1>1 DEF IInv, Merging
        <4>2. QED
          BY <3>1, <4>1 DEF Overlay
      <3>5. ASSUME NEW j \in 2..at
            PROVE  Below(authority', layers[j])
        <4>1. CASE j = at
          BY <3>3, <4>1
        <4>2. CASE j # at
          <5>1. Below(authority, layers[j]) /\ Ranked(layers[j])
            <6>1. j \in 2..(at - 1) /\ j \in 2..Len(layers)
              BY <1>1, <3>2, <3>5, <4>2
            <6>2. QED
              BY <1>1, <6>1 DEF IInv, Held, Merging
          <5>2. QED
            BY <3>2, <3>3, <5>1, BelowTransitive
        <4>3. QED
          BY <4>1, <4>2
      <3>6. QED
        BY <3>3, <3>4, <3>5
    <2>3. QED
      BY <2>1, <2>2
  <1>7. Merging'
    <2>1. CASE last
      BY <2>1 DEF Merging
    <2>2. CASE more
      <3>1. at' \in 1..Len(layers) /\ at' # 1 /\ at' - 1 = at
        BY <1>1, <2>2
      <3>2. QED
        BY <1>2, <1>6, <2>2, <3>1 DEF Merging
    <2>3. QED
      BY <1>3, <2>1, <2>2
  <1>8. Merged'
    <2>1. CASE more
      BY <1>1, <1>2, <2>1 DEF Merged
    <2>2. CASE last
      <3>1. ASSUME NEW path \in Security \intersect DOMAIN effective
            PROVE  /\ path \in DOMAIN merged'
                   /\ NoWider(path, merged'[path], effective[path])
                   /\ path \in Ceilings => merged'[path] \in Nat
        <4>1. PICK j \in 2..Len(layers) :
                path \in DOMAIN layers[j] /\ layers[j][path] = effective[path]
          BY <3>1 DEF IInv, Held
        <4>2. Below(authority', layers[j])
          BY <1>1, <1>6, <2>2, <4>1
        <4>3. path \in DOMAIN authority' /\ NoWider(path, authority'[path], effective[path])
          BY <3>1, <4>1, <4>2 DEF Below
        <4>4. QED
          BY <1>6, <4>3 DEF Ranked
      <3>2. Below(merged', effective')
        BY <1>2, <3>1 DEF Below
      <3>3. \A path \in Ceilings \intersect DOMAIN effective' : merged'[path] \in Nat
        BY <1>2, <3>1 DEF Security
      <3>4. QED
        BY <1>1, <1>2, <2>2, <3>2, <3>3 DEF Merged
    <2>3. QED
      BY <1>3, <2>1, <2>2
  <1>9. QED
    BY <1>4, <1>5, <1>7, <1>8 DEF IInv

(* Registered variables and the adapters they declare are plain fields.     *)
LEMMA EnvPlain ==
  ASSUME NEW environment
  PROVE  DOMAIN EnvLayer(environment) \intersect Security = {}
  BY ConfigAssumption DEF EnvLayer, Overlay

LEMMA Environment ==
  ASSUME IInv, ApplyEnvironment
  PROVE  IInv'
  <1> DEFINE layer == Narrow(effective, EnvLayer(inputs.environment))
  <1>1. /\ step = "environment" /\ step' = "command line" /\ result # "ok"
        /\ merged' = Overlay(merged, layer)
    BY DEF IInv, Sources, ApplyEnvironment
  <1>2. UNCHANGED <<inputs, sources, at, layers, effective, authority, result>>
    BY DEF ApplyEnvironment
  <1>3. DOMAIN layer \intersect Security = {}
    BY EnvPlain DEF Narrow
  <1>4. Sources'
    BY <1>1, <1>2 DEF IInv, Sources, Doc
  <1>5. \A i \in 1..4 : Taken(i)' => Taken(i)
    BY <1>1, <1>2 DEF Taken
  <1>6. Held'
    BY <1>2, <1>5 DEF IInv, Held, Ranked, Doc, Below
  <1>7. Merging'
    BY <1>1 DEF Merging
  <1>8. \A path \in Security \intersect DOMAIN merged :
          path \in DOMAIN merged' /\ merged'[path] = merged[path]
    BY <1>1, <1>3 DEF Overlay
  <1>9. Merged'
    <2>1. Below(merged, effective) /\ \A path \in Ceilings \intersect DOMAIN effective : merged[path] \in Nat
      BY <1>1 DEF IInv, Merged
    <2>2. Below(merged', effective')
      BY <1>2, <1>8, <2>1 DEF Below
    <2>3. \A path \in Ceilings \intersect DOMAIN effective' : merged'[path] \in Nat
      BY <1>2, <1>8, <2>1 DEF Below, Security
    <2>4. QED
      BY <1>1, <1>2, <2>2, <2>3 DEF Merged
  <1>10. QED
    BY <1>4, <1>6, <1>7, <1>9 DEF IInv

LEMMA CommandLine ==
  ASSUME IInv, ApplyCommandLine
  PROVE  IInv'
  <1> DEFINE narrow == Narrow(effective, inputs.cli)
  <1>1. CASE End("INVALID_CONTRACT_VALUE")
    BY <1>1, Ends
  <1>2. CASE ~End("INVALID_CONTRACT_VALUE")
    <2>1. /\ step = "command line" /\ step' = "validate" /\ result # "ok"
          /\ merged' = Overlay(merged, narrow)
      BY <1>2 DEF IInv, Sources, ApplyCommandLine
    <2>2. UNCHANGED <<inputs, sources, at, layers, effective, authority, result>>
      BY <1>2 DEF ApplyCommandLine
    <2>3. Sources'
      BY <2>1, <2>2 DEF IInv, Sources, Doc
    <2>4. Held'
      <3>1. \A i \in 1..4 : Taken(i)' => Taken(i)
        BY <2>1, <2>2 DEF Taken
      <3>2. QED
        BY <2>2, <3>1 DEF IInv, Held, Ranked, Doc, Below
    <2>5. Merging'
      BY <2>1 DEF Merging
    <2>6. /\ Ranked(effective) /\ Ranked(inputs.cli)
          /\ Below(merged, effective)
          /\ \A path \in Ceilings \intersect DOMAIN effective : merged[path] \in Nat
      BY <2>1, InputsAssumption DEF IInv, Sources, Held, Merged
    <2>7. /\ DOMAIN narrow = DOMAIN inputs.cli /\ Ranked(narrow) /\ Below(narrow, inputs.cli)
          /\ \A path \in Security \intersect DOMAIN effective \intersect DOMAIN inputs.cli :
               NoWider(path, narrow[path], effective[path])
      BY <2>6, NarrowBelow
    <2>8. Below(merged', inputs.cli)
      BY <2>1, <2>7 DEF Below, Overlay
    <2>9. ASSUME NEW i \in 1..4, sources[i] # None
          PROVE  Below(merged', Doc(i))
      <3>1. SUFFICES ASSUME NEW path \in Security \intersect DOMAIN Doc(i)
                     PROVE  path \in DOMAIN merged' /\ NoWider(path, merged'[path], Doc(i)[path])
        BY DEF Below
      <3>2. Taken(i) /\ Ranked(Doc(i))
        BY <2>1, <2>9 DEF Taken, IInv, Sources
      <3>3. path \in DOMAIN effective /\ NoWider(path, effective[path], Doc(i)[path])
        BY <3>1, <3>2 DEF IInv, Held, Below
      <3>4. path \in DOMAIN merged' /\ NoWider(path, merged'[path], effective[path])
        <4>1. CASE path \in DOMAIN narrow
          BY <2>1, <2>7, <3>1, <3>3, <4>1 DEF Overlay
        <4>2. CASE path \notin DOMAIN narrow
          BY <2>1, <2>6, <3>1, <3>3, <4>2 DEF Overlay, Below
        <4>3. QED
          BY <4>1, <4>2
      <3>5. path \in Ceilings =>
              merged'[path] \in Nat /\ effective[path] \in Nat /\ Doc(i)[path] \in Nat
        <4>1. CASE path \in DOMAIN narrow
          BY <2>1, <2>6, <2>7, <3>1, <3>2, <3>3, <4>1 DEF Overlay, Ranked
        <4>2. CASE path \notin DOMAIN narrow
          BY <2>1, <2>6, <3>1, <3>2, <3>3, <4>2 DEF Overlay, Ranked, Below
        <4>3. QED
          BY <4>1, <4>2
      <3>6. QED
        BY <3>1, <3>3, <3>4, <3>5, NoWiderOrder
    <2>10. Merged'
      BY <2>1, <2>2, <2>8, <2>9 DEF Merged, Doc
    <2>11. QED
      BY <2>3, <2>4, <2>5, <2>10 DEF IInv
  <1>3. QED
    BY <1>1, <1>2

LEMMA Validates ==
  ASSUME IInv, Validate
  PROVE  IInv'
  <1>1. CASE End("CONFIG_UNKNOWN_KEY") \/ End("CONFIG_INVALID")
    BY <1>1, Ends
  <1>2. CASE End("ok")
    <2>1. step = "validate" /\ step' = "done" /\ result' = "ok"
      BY <1>2 DEF Validate, End
    <2>2. UNCHANGED <<inputs, sources, at, layers, effective, authority, merged>>
      BY <1>2 DEF End
    <2>3. Sources'
      BY <2>1, <2>2 DEF IInv, Sources, Doc
    <2>4. Held'
      <3>1. \A i \in 1..4 : Taken(i)' => Taken(i)
        BY <2>1, <2>2 DEF Taken
      <3>2. QED
        BY <2>2, <3>1 DEF IInv, Held, Ranked, Doc, Below
    <2>5. Merging'
      BY <2>1 DEF Merging
    <2>6. Merged'
      BY <2>1, <2>2 DEF IInv, Merged, Doc, Below
    <2>7. QED
      BY <2>3, <2>4, <2>5, <2>6 DEF IInv
  <1>3. QED
    BY <1>1, <1>2 DEF Validate

LEMMA Steps == IInv /\ [Next]_vars => IInv'
  <1>1. SUFFICES ASSUME IInv, [Next]_vars PROVE IInv'
    OBVIOUS
  <1>2. CASE RefuseLayer
    <2>1. End("CONFIG_UNKNOWN_KEY") \/ End("INVALID_CONTRACT_VALUE")
      BY <1>2 DEF RefuseLayer
    <2>2. QED
      BY <1>1, <2>1, Ends
  <1>3. CASE UNCHANGED vars
    <2>1. \A i \in 1..4 : Taken(i)' => Taken(i)
      BY <1>3 DEF vars, Taken
    <2>2. Sources' /\ Merging' /\ Merged'
      BY <1>1, <1>3 DEF IInv, vars, Sources, Merging, Merged, Doc, Below, Ranked
    <2>3. Held'
      BY <1>1, <1>3, <2>1 DEF IInv, vars, Held, Doc, Below, Ranked
    <2>4. QED
      BY <2>2, <2>3 DEF IInv
  <1>4. QED
    BY <1>1, <1>2, <1>3, Loads, Checks, Takes, Skips, Merges, Environment, CommandLine, Validates
       DEF Next

-----------------------------------------------------------------------------
(* What was asked is all that narrows, and the last layer wins.             *)

(* What no document forbids a field is held by, no value of it forbids.     *)
Greatest(path, held) ==
  \A value \in Schema[path] :
    (\A i \in 1..4 : sources[i] # None /\ path \in DOMAIN Doc(i)
                       => NoWider(path, value, Doc(i)[path]))
      => NoWider(path, value, held)

GreatestIn(document) ==
  \A path \in Security \intersect DOMAIN document : Greatest(path, document[path])

(* effective_security holds what the last layer that sets a path says of    *)
(* it, and nothing that no document sets.                                   *)
Gathered ==
  /\ layers[1] = Defaults
  /\ step \in {"load", "check"} => effective = NoFields /\ Len(layers) = 1
  /\ \A path \in DOMAIN effective : \E i \in 1..4 : sources[i] # None /\ path \in DOMAIN Doc(i)
  /\ \A path \in DOMAIN effective : \E j \in 2..Len(layers) :
       /\ path \in DOMAIN layers[j] /\ layers[j][path] = effective[path]
       /\ \A k \in (j + 1)..Len(layers) : path \notin DOMAIN layers[k]
  /\ \A j \in 2..Len(layers) :
       DOMAIN layers[j] \subseteq DOMAIN effective /\ GreatestIn(layers[j])
  /\ GreatestIn(effective)
  /\ \A i \in 1..4 : Taken(i) =>
       /\ DOMAIN Doc(i) \subseteq DOMAIN effective
       /\ \A path \in DOMAIN Doc(i) \ Security :
            (\A j \in (i + 1)..4 : Taken(j) => path \notin DOMAIN Doc(j))
              => effective[path] = Doc(i)[path]

(* So does the merge, of the layers it has seen, over the defaults.         *)
Overlaid ==
  step = "merge" /\ at # 1 =>
    /\ DOMAIN authority \subseteq DOMAIN effective
    /\ GreatestIn(authority)
    /\ \A path \in DOMAIN Defaults \ DOMAIN authority :
         path \in DOMAIN merged /\ merged[path] = Defaults[path]
    /\ \A j \in 2..(at - 1) : \A path \in DOMAIN layers[j] :
         /\ path \in DOMAIN authority
         /\ path \notin Security /\ (\A k \in (j + 1)..(at - 1) : path \notin DOMAIN layers[k])
              => authority[path] = layers[j][path]

(* The merge of the documents, but for the paths that are overridden.       *)
MergedBut(overridden) ==
  \A path \in DOMAIN Defaults \union DOMAIN effective :
    /\ path \in DOMAIN merged
    /\ path \notin overridden =>
         /\ path \notin DOMAIN effective => merged[path] = Defaults[path]
         /\ path \in DOMAIN effective \ Security => merged[path] = effective[path]
         /\ path \in DOMAIN effective \intersect Security => Greatest(path, merged[path])

EnvFields == EnvLayer(inputs.environment)

Overridden ==
  /\ step = "environment" => MergedBut({})
  /\ step = "command line" =>
       /\ MergedBut(DOMAIN EnvFields)
       /\ \A path \in DOMAIN EnvFields : path \in DOMAIN merged /\ merged[path] = EnvFields[path]
  /\ step = "validate" \/ result = "ok" =>
       /\ MergedBut(DOMAIN EnvFields \union DOMAIN inputs.cli)
       /\ \A path \in DOMAIN EnvFields \ DOMAIN inputs.cli :
            path \in DOMAIN merged /\ merged[path] = EnvFields[path]
       /\ \A path \in DOMAIN inputs.cli :
            /\ path \in DOMAIN merged
            /\ path \notin Security => merged[path] = inputs.cli[path]
            /\ path \in Security =>
                 \A value \in Schema[path] :
                   /\ \A i \in 1..4 : sources[i] # None /\ path \in DOMAIN Doc(i)
                                        => NoWider(path, value, Doc(i)[path])
                   /\ NoWider(path, value, inputs.cli[path])
                   => NoWider(path, value, merged[path])

Exact == Gathered /\ Overlaid /\ Overridden

(* The meet of two values is as wide as both of them allow.                 *)
LEMMA MeetGreatest ==
  ASSUME NEW path \in Security, NEW held, NEW asked, NEW value,
         NoWider(path, value, held), NoWider(path, value, asked)
  PROVE  NoWider(path, value, Meet(path, held, asked))
  <1>1. CASE path \in StrictBools
    <2>1. \A v, w : NoWider(path, v, w) <=> (w = TRUE => v = TRUE)
      BY <1>1, ConfigAssumption DEF NoWider
    <2>2. Meet(path, held, asked) = (TRUE \in {held, asked})
      BY <1>1, ConfigAssumption DEF Meet
    <2>3. Meet(path, held, asked) = TRUE => held = TRUE \/ asked = TRUE
      BY <2>2
    <2>4. QED
      BY <2>1, <2>3
  <1>2. CASE path \in Denials
    <2>1. \A v, w : NoWider(path, v, w) <=> (w = "deny" => v = "deny")
      BY <1>2, ConfigAssumption DEF NoWider
    <2>2. Meet(path, held, asked) = IF "deny" \in {held, asked} THEN "deny" ELSE asked
      BY <1>2, ConfigAssumption DEF Meet
    <2>3. QED
      BY <2>1, <2>2
  <1>3. CASE path \in Allowlists
    <2>1. \A v, w : NoWider(path, v, w) <=> v \subseteq w
      BY <1>3, ConfigAssumption DEF NoWider
    <2>2. Meet(path, held, asked) = asked \intersect held
      BY <1>3, ConfigAssumption DEF Meet
    <2>3. QED
      BY <2>1, <2>2
  <1>4. CASE path \in Ceilings
    <2>1. \A v, w : NoWider(path, v, w) <=> v <= w
      BY <1>4, ConfigAssumption DEF NoWider
    <2>2. Meet(path, held, asked) = IF held <= asked THEN held ELSE asked
      BY <1>4, ConfigAssumption DEF Meet
    <2>3. QED
      BY <2>1, <2>2
  <1>5. QED
    BY <1>1, <1>2, <1>3, <1>4 DEF Security

LEMMA GreatestMeet ==
  ASSUME NEW path \in Security, NEW held, NEW asked,
         Greatest(path, held), Greatest(path, asked)
  PROVE  Greatest(path, Meet(path, held, asked))
  BY MeetGreatest DEF Greatest

(* Narrowing touches security fields alone, and no further than it must.    *)
LEMMA NarrowExact ==
  ASSUME NEW held, NEW layer
  PROVE  /\ DOMAIN Narrow(held, layer) = DOMAIN layer
         /\ \A path \in DOMAIN layer \ Security : Narrow(held, layer)[path] = layer[path]
         /\ GreatestIn(held) /\ GreatestIn(layer) => GreatestIn(Narrow(held, layer))
  <1> DEFINE narrow == Narrow(held, layer)
  <1>1. /\ DOMAIN narrow = DOMAIN layer
        /\ \A path \in DOMAIN layer \ Security : narrow[path] = layer[path]
    BY DEF Narrow
  <1>2. ASSUME GreatestIn(held), GreatestIn(layer), NEW path \in Security \intersect DOMAIN layer
        PROVE  Greatest(path, narrow[path])
    <2>1. CASE path \in DOMAIN held
      <3>1. narrow[path] = Meet(path, held[path], layer[path])
        BY <1>2, <2>1 DEF Narrow
      <3>2. Greatest(path, held[path]) /\ Greatest(path, layer[path])
        BY <1>2, <2>1 DEF GreatestIn
      <3>3. QED
        BY <3>1, <3>2, GreatestMeet
    <2>2. CASE path \notin DOMAIN held
      <3>1. narrow[path] = layer[path]
        BY <1>2, <2>2 DEF Narrow
      <3>2. QED
        BY <1>2, <3>1 DEF GreatestIn
    <2>3. QED
      BY <2>1, <2>2
  <1>3. QED
    BY <1>1, <1>2 DEF GreatestIn

LEMMA OverlayGreatest ==
  ASSUME NEW base, NEW over, GreatestIn(base), GreatestIn(over)
  PROVE  GreatestIn(Overlay(base, over))
  BY DEF Overlay, GreatestIn

LEMMA DocGreatest ==
  ASSUME NEW i \in 1..4, sources[i] # None
  PROVE  GreatestIn(Doc(i))
  BY DEF GreatestIn, Greatest

LEMMA GatheredSteady ==
  ASSUME Gathered, UNCHANGED <<sources, layers, effective>>,
         step' \in {"load", "check"} => step \in {"load", "check"},
         (\A i \in 1..4 : Taken(i)' <=> Taken(i)) \/ (\A i \in 1..4 : ~Taken(i)')
  PROVE  Gathered'
  <1>1. GreatestIn(effective)' /\ \A j \in 2..Len(layers) : GreatestIn(layers[j])'
    BY DEF Gathered, GreatestIn, Greatest, Doc
  <1>2. QED
    BY <1>1 DEF Gathered, Doc

LEMMA ExactStarts == Init => Exact
  <1>1. SUFFICES ASSUME Init PROVE Exact
    OBVIOUS
  <1>2. /\ Len(layers) = 1 /\ layers[1] = Defaults
        /\ effective = NoFields /\ DOMAIN effective = {}
        /\ result = None /\ step = "load"
    BY <1>1 DEF Init, NoFields
  <1>3. \A i \in 1..4 : ~Taken(i)
    BY <1>2, ConfigAssumption DEF Taken
  <1>4. Gathered
    BY <1>2, <1>3 DEF Gathered, GreatestIn
  <1>5. Overlaid /\ Overridden
    BY <1>2, ConfigAssumption DEF Overlaid, Overridden
  <1>6. QED
    BY <1>4, <1>5 DEF Exact

LEMMA ExactEnds ==
  ASSUME Exact, NEW code, code # "ok", End(code)
  PROVE  Exact'
  <1>1. step' = "done" /\ result' = code /\ \A i \in 1..4 : ~Taken(i)'
    BY DEF End, Taken
  <1>2. Gathered'
    BY <1>1, GatheredSteady DEF End, Exact
  <1>3. Overlaid' /\ Overridden'
    BY <1>1 DEF Overlaid, Overridden
  <1>4. QED
    BY <1>2, <1>3 DEF Exact

LEMMA ExactLoads ==
  ASSUME IInv, Exact, Load
  PROVE  Exact'
  <1>1. CASE End("CONFIG_INVALID")
    BY <1>1, ExactEnds
  <1>2. CASE /\ step' = "check"
             /\ UNCHANGED <<inputs, at, layers, effective, authority, merged, result>>
    <2>1. step = "load" /\ result # "ok" /\ \A i \in 1..4 : ~Taken(i)'
      BY <1>2 DEF Load, IInv, Sources, Taken
    <2>2. /\ layers'[1] = Defaults /\ Len(layers') = 1
          /\ effective' = NoFields /\ DOMAIN effective' = {}
      BY <1>2, <2>1 DEF Exact, Gathered, NoFields
    <2>3. Gathered'
      BY <2>1, <2>2 DEF Gathered, GreatestIn
    <2>4. Overlaid' /\ Overridden'
      BY <1>2, <2>1 DEF Overlaid, Overridden
    <2>5. QED
      BY <2>3, <2>4 DEF Exact
  <1>3. QED
    BY <1>1, <1>2 DEF Load

LEMMA ExactChecks ==
  ASSUME IInv, Exact, CheckSources
  PROVE  Exact'
  <1>1. CASE End("CONFIG_ALIAS_CONFLICT")
    BY <1>1, ExactEnds
  <1>2. CASE /\ step = "check" /\ step' = "take"
             /\ UNCHANGED <<inputs, sources, at, layers, effective, authority, merged, result>>
    <2>1. at = 1 /\ result # "ok" /\ \A i \in 1..4 : ~Taken(i)'
      BY <1>2 DEF IInv, Sources, Taken
    <2>2. Gathered'
      BY <1>2, <2>1, GatheredSteady DEF Exact
    <2>3. Overlaid' /\ Overridden'
      BY <1>2, <2>1 DEF Overlaid, Overridden
    <2>4. QED
      BY <2>2, <2>3 DEF Exact
  <1>3. QED
    BY <1>1, <1>2 DEF CheckSources

LEMMA ExactSkips ==
  ASSUME IInv, Exact, SkipLayer
  PROVE  Exact'
  <1>1. /\ step = "take" /\ at \in 1..4 /\ sources[at] = None /\ result # "ok"
        /\ UNCHANGED <<inputs, sources, layers, effective, authority, merged, result>>
    BY DEF IInv, Sources, SkipLayer
  <1>2. \/ at # 4 /\ at' = at + 1 /\ step' = "take"
        \/ at = 4 /\ at' = 1 /\ step' = "merge"
    BY DEF SkipLayer, NextSource
  <1>3. \A i \in 1..4 : Taken(i)' <=> Taken(i)
    <2>1. CASE at # 4 /\ at' = at + 1 /\ step' = "take"
      BY <1>1, <2>1 DEF Taken
    <2>2. CASE at = 4 /\ at' = 1 /\ step' = "merge"
      BY <1>1, <2>2 DEF Taken
    <2>3. QED
      BY <1>2, <2>1, <2>2
  <1>4. Gathered'
    BY <1>1, <1>2, <1>3, GatheredSteady DEF Exact
  <1>5. Overlaid' /\ Overridden'
    BY <1>1, <1>2 DEF Overlaid, Overridden
  <1>6. QED
    BY <1>4, <1>5 DEF Exact

LEMMA ExactTakes ==
  ASSUME IInv, Exact, TakeLayer
  PROVE  Exact'
  <1> DEFINE layer == Doc(at)
             narrow == Narrow(effective, layer)
  <1>1. /\ step = "take" /\ at \in 1..4 /\ sources[at] # None /\ result # "ok"
        /\ layers' = Append(layers, narrow) /\ effective' = Overlay(effective, narrow)
        /\ UNCHANGED <<inputs, sources, authority, merged, result>>
    BY DEF IInv, Sources, TakeLayer, Doc
  <1>2. \/ at # 4 /\ at' = at + 1 /\ step' = "take"
        \/ at = 4 /\ at' = 1 /\ step' = "merge"
    BY DEF TakeLayer, NextSource
  <1>3. /\ Len(layers') = Len(layers) + 1 /\ Len(layers) \in Nat \ {0}
        /\ layers'[Len(layers) + 1] = narrow
        /\ \A j \in 1..Len(layers) : layers'[j] = layers[j]
    <2>1. PICK Documents : layers \in Seq(Documents)
      BY DEF IInv, Held
    <2>2. layers \in Seq(Documents \union {narrow})
      BY <2>1
    <2>3. Len(layers) >= 1
      BY DEF IInv, Held
    <2>4. QED
      BY <1>1, <2>2, <2>3
  <1>4. \A i \in 1..4 : Taken(i)' <=> i = at \/ Taken(i)
    <2>1. CASE at # 4 /\ at' = at + 1 /\ step' = "take"
      BY <1>1, <2>1 DEF Taken
    <2>2. CASE at = 4 /\ at' = 1 /\ step' = "merge"
      BY <1>1, <2>2 DEF Taken
    <2>3. QED
      BY <1>2, <2>1, <2>2
  <1>5. /\ DOMAIN narrow = DOMAIN layer
        /\ \A path \in DOMAIN layer \ Security : narrow[path] = layer[path]
        /\ GreatestIn(narrow)
    BY <1>1, NarrowExact, DocGreatest DEF Exact, Gathered
  <1>6. /\ DOMAIN effective' = DOMAIN effective \union DOMAIN narrow
        /\ \A path \in DOMAIN narrow : effective'[path] = narrow[path]
        /\ \A path \in DOMAIN effective \ DOMAIN narrow : effective'[path] = effective[path]
    BY <1>1 DEF Overlay
  <1>7. GreatestIn(effective')
    BY <1>1, <1>5, OverlayGreatest DEF Exact, Gathered
  <1> HIDE DEF layer, narrow
  <1>8. \A path \in DOMAIN effective' : \E i \in 1..4 : sources'[i] # None /\ path \in DOMAIN Doc(i)'
    <2>1. \A path \in DOMAIN narrow : path \in DOMAIN Doc(at)
      BY <1>5 DEF layer
    <2>2. QED
      BY <1>1, <1>6, <2>1 DEF Exact, Gathered, Doc
  <1>9. ASSUME NEW path \in DOMAIN effective'
        PROVE  \E j \in 2..Len(layers') :
                 /\ path \in DOMAIN layers'[j] /\ layers'[j][path] = effective'[path]
                 /\ \A k \in (j + 1)..Len(layers') : path \notin DOMAIN layers'[k]
    <2>1. CASE path \in DOMAIN narrow
      <3>1. effective'[path] = narrow[path]
        BY <1>6, <2>1
      <3>2. Len(layers) + 1 \in 2..Len(layers')
        BY <1>3
      <3>3. WITNESS Len(layers) + 1 \in 2..Len(layers')
      <3>4. QED
        BY <1>3, <2>1, <3>1
    <2>2. CASE path \notin DOMAIN narrow
      <3>1. path \in DOMAIN effective /\ effective'[path] = effective[path]
        BY <1>6, <1>9, <2>2
      <3>2. PICK j \in 2..Len(layers) :
              /\ path \in DOMAIN layers[j] /\ layers[j][path] = effective[path]
              /\ \A k \in (j + 1)..Len(layers) : path \notin DOMAIN layers[k]
        BY <3>1 DEF Exact, Gathered
      <3>3. ASSUME NEW k \in (j + 1)..Len(layers')
            PROVE  path \notin DOMAIN layers'[k]
        <4>1. k = Len(layers) + 1 \/ k \in (j + 1)..Len(layers)
          BY <1>3, <3>3
        <4>2. QED
          BY <1>3, <2>2, <3>2, <4>1
      <3>4. j \in 2..Len(layers') /\ layers'[j] = layers[j]
        BY <1>3
      <3>5. QED
        BY <3>1, <3>2, <3>3, <3>4
    <2>3. QED
      BY <2>1, <2>2
  <1>10. ASSUME NEW j \in 2..Len(layers')
        PROVE  DOMAIN layers'[j] \subseteq DOMAIN effective' /\ GreatestIn(layers'[j])
    <2>1. CASE j = Len(layers) + 1
      BY <1>3, <1>5, <1>6, <2>1
    <2>2. CASE j \in 2..Len(layers)
      BY <1>3, <1>6, <2>2 DEF Exact, Gathered
    <2>3. QED
      BY <1>3, <2>1, <2>2
  <1>11. ASSUME NEW i \in 1..4, Taken(i)'
         PROVE  /\ DOMAIN Doc(i) \subseteq DOMAIN effective'
                /\ \A path \in DOMAIN Doc(i) \ Security :
                     (\A j \in (i + 1)..4 : Taken(j)' => path \notin DOMAIN Doc(j))
                       => effective'[path] = Doc(i)[path]
    <2>1. CASE i = at
      BY <1>5, <1>6, <2>1 DEF layer
    <2>2. CASE i # at
      <3>1. Taken(i) /\ i < at
        BY <1>1, <1>4, <1>11, <2>2, ConfigAssumption DEF Taken
      <3>2. DOMAIN Doc(i) \subseteq DOMAIN effective
        BY <3>1 DEF Exact, Gathered
      <3>3. ASSUME NEW path \in DOMAIN Doc(i) \ Security,
                   \A j \in (i + 1)..4 : Taken(j)' => path \notin DOMAIN Doc(j)
            PROVE  effective'[path] = Doc(i)[path]
        <4>1. path \notin DOMAIN layer
          BY <1>1, <1>4, <3>1, <3>3 DEF layer
        <4>2. effective[path] = Doc(i)[path]
          BY <1>4, <3>1, <3>3 DEF Exact, Gathered
        <4>3. QED
          BY <1>5, <1>6, <3>2, <4>1, <4>2
      <3>4. QED
        BY <1>6, <3>2, <3>3
    <2>3. QED
      BY <2>1, <2>2
  <1>12. Gathered'
    <2>1. layers'[1] = Defaults /\ step' \notin {"load", "check"}
      BY <1>2, <1>3 DEF Exact, Gathered
    <2>2. GreatestIn(effective)'
      BY <1>1, <1>7 DEF GreatestIn, Greatest, Doc
    <2>3. \A j \in 2..Len(layers') : GreatestIn(layers'[j]) => GreatestIn(layers[j])'
      BY <1>1 DEF GreatestIn, Greatest, Doc
    <2>4. QED
      BY <1>1, <1>8, <1>9, <1>10, <1>11, <2>1, <2>2, <2>3 DEF Gathered, Doc
  <1>13. Overlaid' /\ Overridden'
    BY <1>1, <1>2 DEF Overlaid, Overridden
  <1>14. QED
    BY <1>12, <1>13 DEF Exact

LEMMA ExactMerges ==
  ASSUME IInv, Exact, MergeLayer
  PROVE  Exact'
  <1> DEFINE last == at = Len(layers) /\ step' = "environment" /\ at' = at
             more == at # Len(layers) /\ step' = "merge" /\ at' = at + 1
             layer == layers[at]
             narrow == Narrow(authority, layer)
  <1>1. /\ step = "merge" /\ at \in 1..Len(layers) /\ result # "ok" /\ at \in Nat
        /\ Len(layers) \in Nat
    <2>1. PICK Documents : layers \in Seq(Documents)
      BY DEF IInv, Held
    <2>2. QED
      BY <2>1 DEF IInv, Sources, Merging, MergeLayer
  <1>2. UNCHANGED <<inputs, sources, layers, effective, result>>
    BY DEF MergeLayer
  <1>3. last \/ more
    BY <1>1 DEF MergeLayer
  <1>4. Gathered'
    <2>1. \A i \in 1..4 : Taken(i)' <=> Taken(i)
      BY <1>1, <1>2, <1>3 DEF Taken
    <2>2. QED
      BY <1>1, <1>2, <1>3, <2>1, GatheredSteady DEF Exact
  <1>5. /\ DOMAIN authority' \subseteq DOMAIN effective
        /\ GreatestIn(authority')
        /\ \A path \in DOMAIN authority' : path \in DOMAIN merged' /\ merged'[path] = authority'[path]
        /\ \A path \in DOMAIN Defaults \ DOMAIN authority' :
             path \in DOMAIN merged' /\ merged'[path] = Defaults[path]
        /\ \A j \in 2..at : \A path \in DOMAIN layers[j] :
             /\ path \in DOMAIN authority'
             /\ path \notin Security /\ (\A k \in (j + 1)..at : path \notin DOMAIN layers[k])
                  => authority'[path] = layers[j][path]
    <2>1. CASE at = 1
      <3>1. authority' = NoFields /\ DOMAIN NoFields = {} /\ merged = NoFields
        BY <1>1, <2>1 DEF IInv, Merging, MergeLayer, NoFields
      <3>2. merged' = Overlay(NoFields, Defaults)
        BY <2>1, <3>1 DEF MergeLayer, Exact, Gathered
      <3>3. \A path \in DOMAIN Defaults : path \in DOMAIN merged' /\ merged'[path] = Defaults[path]
        BY <3>2 DEF Overlay
      <3>4. QED
        BY <2>1, <3>1, <3>3 DEF GreatestIn
    <2>2. CASE at # 1
      <3>1. merged' = Overlay(merged, narrow) /\ authority' = Overlay(authority, narrow)
        BY <2>2 DEF MergeLayer
      <3>2. at \in 2..Len(layers)
        BY <1>1, <2>2
      <3>3. /\ DOMAIN layer \subseteq DOMAIN effective /\ GreatestIn(layer)
            /\ DOMAIN authority \subseteq DOMAIN effective /\ GreatestIn(authority)
        BY <1>1, <2>2, <3>2 DEF Exact, Gathered, Overlaid
      <3>4. /\ DOMAIN narrow = DOMAIN layer
            /\ \A path \in DOMAIN layer \ Security : narrow[path] = layer[path]
            /\ GreatestIn(narrow)
        BY <3>3, NarrowExact
      <3>5. GreatestIn(authority')
        BY <3>1, <3>3, <3>4, OverlayGreatest
      <3> HIDE DEF narrow
      <3>6. /\ DOMAIN authority' = DOMAIN authority \union DOMAIN narrow
            /\ \A path \in DOMAIN narrow : authority'[path] = narrow[path]
            /\ \A path \in DOMAIN authority \ DOMAIN narrow : authority'[path] = authority[path]
        BY <3>1 DEF Overlay
      <3>7. /\ DOMAIN merged' = DOMAIN merged \union DOMAIN narrow
            /\ \A path \in DOMAIN narrow : merged'[path] = narrow[path]
            /\ \A path \in DOMAIN merged \ DOMAIN narrow : merged'[path] = merged[path]
        BY <3>1 DEF Overlay
      <3>8. \A path \in DOMAIN authority' : path \in DOMAIN merged' /\ merged'[path] = authority'[path]
        BY <1>1, <3>6, <3>7 DEF IInv, Merging
      <3>9. \A path \in DOMAIN Defaults \ DOMAIN authority' :
              path \in DOMAIN merged' /\ merged'[path] = Defaults[path]
        BY <1>1, <2>2, <3>6, <3>7 DEF Exact, Overlaid
      <3>10. ASSUME NEW j \in 2..at, NEW path \in DOMAIN layers[j]
            PROVE  /\ path \in DOMAIN authority'
                   /\ path \notin Security /\ (\A k \in (j + 1)..at : path \notin DOMAIN layers[k])
                        => authority'[path] = layers[j][path]
        <4>1. CASE j = at
          BY <3>4, <3>6, <3>10, <4>1
        <4>2. CASE j # at
          <5>1. j \in 2..(at - 1) /\ at \in (j + 1)..at
            BY <1>1, <3>10, <4>2
          <5>2. /\ path \in DOMAIN authority
                /\ path \notin Security /\ (\A k \in (j + 1)..(at - 1) : path \notin DOMAIN layers[k])
                     => authority[path] = layers[j][path]
            BY <1>1, <2>2, <3>10, <5>1 DEF Exact, Overlaid
          <5>3. (\A k \in (j + 1)..at : path \notin DOMAIN layers[k]) =>
                  path \notin DOMAIN narrow /\ \A k \in (j + 1)..(at - 1) : path \notin DOMAIN layers[k]
            BY <1>1, <3>4, <5>1
          <5>4. QED
            BY <3>6, <5>2, <5>3
        <4>3. QED
          BY <4>1, <4>2
      <3>11. QED
        BY <3>5, <3>3, <3>4, <3>6, <3>8, <3>9, <3>10
    <2>3. QED
      BY <2>1, <2>2
  <1>6. Overlaid'
    <2>1. CASE last
      BY <2>1 DEF Overlaid
    <2>2. CASE more
      <3>1. at' - 1 = at
        BY <1>1, <2>2
      <3>2. GreatestIn(authority)'
        BY <1>2, <1>5 DEF GreatestIn, Greatest, Doc
      <3>3. QED
        BY <1>2, <1>5, <3>1, <3>2 DEF Overlaid
    <2>3. QED
      BY <1>3, <2>1, <2>2
  <1>7. Overridden'
    <2>1. CASE more
      BY <1>1, <1>2, <2>1 DEF Overridden
    <2>2. CASE last
      <3>1. ASSUME NEW path \in DOMAIN effective
            PROVE  /\ path \in DOMAIN merged'
                   /\ path \notin Security => merged'[path] = effective[path]
                   /\ path \in Security => Greatest(path, merged'[path])
        <4>1. PICK j \in 2..Len(layers) :
                /\ path \in DOMAIN layers[j] /\ layers[j][path] = effective[path]
                /\ \A k \in (j + 1)..Len(layers) : path \notin DOMAIN layers[k]
          BY <3>1 DEF Exact, Gathered
        <4>2. path \in DOMAIN authority' /\ (path \notin Security => authority'[path] = effective[path])
          BY <1>5, <2>2, <4>1
        <4>3. QED
          BY <1>5, <4>2 DEF GreatestIn
      <3>2. \A path \in DOMAIN Defaults \ DOMAIN effective :
              path \in DOMAIN merged' /\ merged'[path] = Defaults[path]
        BY <1>5
      <3>3. \A path \in Security \intersect DOMAIN effective : Greatest(path, merged[path])'
        BY <1>2, <3>1 DEF Greatest, Doc
      <3>4. MergedBut({})'
        BY <1>2, <3>1, <3>2, <3>3 DEF MergedBut
      <3>5. QED
        BY <1>1, <1>2, <2>2, <3>4 DEF Overridden
    <2>3. QED
      BY <1>3, <2>1, <2>2
  <1>8. QED
    BY <1>4, <1>6, <1>7 DEF Exact

LEMMA ExactEnvironment ==
  ASSUME IInv, Exact, ApplyEnvironment
  PROVE  Exact'
  <1> DEFINE narrow == Narrow(effective, EnvFields)
  <1>1. /\ step = "environment" /\ step' = "command line" /\ result # "ok"
        /\ merged' = Overlay(merged, narrow)
        /\ UNCHANGED <<inputs, sources, at, layers, effective, authority, result>>
    BY DEF IInv, Sources, ApplyEnvironment, EnvFields
  <1>2. DOMAIN narrow = DOMAIN EnvFields /\ \A path \in DOMAIN EnvFields : narrow[path] = EnvFields[path]
    <2>1. DOMAIN EnvFields \intersect Security = {}
      BY EnvPlain DEF EnvFields
    <2>2. QED
      BY <2>1 DEF Narrow
  <1> HIDE DEF narrow
  <1>3. Gathered'
    <2>1. \A i \in 1..4 : Taken(i)' <=> Taken(i)
      BY <1>1 DEF Taken
    <2>2. QED
      BY <1>1, <2>1, GatheredSteady DEF Exact
  <1>4. /\ DOMAIN merged' = DOMAIN merged \union DOMAIN EnvFields
        /\ \A path \in DOMAIN EnvFields : merged'[path] = EnvFields[path]
        /\ \A path \in DOMAIN merged \ DOMAIN EnvFields : merged'[path] = merged[path]
    BY <1>1, <1>2 DEF Overlay
  <1>5. EnvFields' = EnvFields
    BY <1>1 DEF EnvFields
  <1>6. MergedBut({})
    BY <1>1 DEF Exact, Overridden
  <1>7. MergedBut(DOMAIN EnvFields)'
    <2>1. ASSUME NEW path \in DOMAIN Defaults \union DOMAIN effective
          PROVE  /\ path \in DOMAIN merged'
                 /\ path \notin DOMAIN EnvFields => merged'[path] = merged[path]
      BY <1>4, <1>6 DEF MergedBut
    <2>2. \A path : Greatest(path, merged[path]) /\ merged'[path] = merged[path]
                      => Greatest(path, merged[path])'
      BY <1>1 DEF Greatest, Doc
    <2>3. QED
      BY <1>1, <1>5, <1>6, <2>1, <2>2 DEF MergedBut
  <1>8. Overlaid' /\ Overridden'
    BY <1>1, <1>4, <1>5, <1>7 DEF Overlaid, Overridden
  <1>9. QED
    BY <1>3, <1>8 DEF Exact

LEMMA ExactCommandLine ==
  ASSUME IInv, Exact, ApplyCommandLine
  PROVE  Exact'
  <1> DEFINE narrow == Narrow(effective, inputs.cli)
             over == DOMAIN EnvFields \union DOMAIN inputs.cli
  <1>1. CASE End("INVALID_CONTRACT_VALUE")
    BY <1>1, ExactEnds
  <1>2. CASE ~End("INVALID_CONTRACT_VALUE")
    <2>1. /\ step = "command line" /\ step' = "validate" /\ result # "ok"
          /\ merged' = Overlay(merged, narrow)
          /\ UNCHANGED <<inputs, sources, at, layers, effective, authority, result>>
      BY <1>2 DEF IInv, Sources, ApplyCommandLine
    <2>2. /\ DOMAIN narrow = DOMAIN inputs.cli
          /\ \A path \in DOMAIN inputs.cli \ Security : narrow[path] = inputs.cli[path]
      BY NarrowExact
    <2>3. ASSUME NEW path \in DOMAIN inputs.cli \intersect Security, NEW value \in Schema[path],
                 \A i \in 1..4 : sources[i] # None /\ path \in DOMAIN Doc(i)
                                   => NoWider(path, value, Doc(i)[path]),
                 NoWider(path, value, inputs.cli[path])
          PROVE  NoWider(path, value, narrow[path])
      <3>1. CASE path \in DOMAIN effective
        <4>1. narrow[path] = Meet(path, effective[path], inputs.cli[path])
          BY <2>3, <3>1 DEF Narrow
        <4>2. NoWider(path, value, effective[path])
          BY <2>3, <3>1 DEF Exact, Gathered, GreatestIn, Greatest
        <4>3. QED
          BY <2>3, <4>1, <4>2, MeetGreatest
      <3>2. CASE path \notin DOMAIN effective
        BY <2>3, <3>2 DEF Narrow
      <3>3. QED
        BY <3>1, <3>2
    <2> HIDE DEF narrow
    <2>4. Gathered'
      <3>1. \A i \in 1..4 : Taken(i)' <=> Taken(i)
        BY <2>1 DEF Taken
      <3>2. QED
        BY <2>1, <3>1, GatheredSteady DEF Exact
    <2>5. /\ DOMAIN merged' = DOMAIN merged \union DOMAIN inputs.cli
          /\ \A path \in DOMAIN inputs.cli : merged'[path] = narrow[path]
          /\ \A path \in DOMAIN merged \ DOMAIN inputs.cli : merged'[path] = merged[path]
      BY <2>1, <2>2 DEF Overlay
    <2>6. EnvFields' = EnvFields
      BY <2>1 DEF EnvFields
    <2>7. /\ MergedBut(DOMAIN EnvFields)
          /\ \A path \in DOMAIN EnvFields : path \in DOMAIN merged /\ merged[path] = EnvFields[path]
      BY <2>1 DEF Exact, Overridden
    <2>8. MergedBut(over)'
      <3>1. ASSUME NEW path \in DOMAIN Defaults \union DOMAIN effective
            PROVE  /\ path \in DOMAIN merged'
                   /\ path \notin over => merged'[path] = merged[path]
        BY <2>5, <2>7 DEF MergedBut
      <3>2. \A path : Greatest(path, merged[path]) /\ merged'[path] = merged[path]
                        => Greatest(path, merged[path])'
        BY <2>1 DEF Greatest, Doc
      <3>3. QED
        BY <2>1, <2>6, <2>7, <3>1, <3>2 DEF MergedBut
    <2>9. Overlaid'
      BY <2>1 DEF Overlaid
    <2>10. Overridden'
      <3>1. \A path \in DOMAIN EnvFields \ DOMAIN inputs.cli :
              path \in DOMAIN merged' /\ merged'[path] = EnvFields[path]
        BY <2>5, <2>7
      <3>2. \A path \in DOMAIN inputs.cli :
              path \in DOMAIN merged' /\ (path \notin Security => merged'[path] = inputs.cli[path])
        BY <2>2, <2>5
      <3>3. \A path \in DOMAIN inputs.cli \intersect Security : \A value \in Schema[path] :
              /\ \A i \in 1..4 : sources[i] # None /\ path \in DOMAIN Doc(i)
                                   => NoWider(path, value, Doc(i)[path])
              /\ NoWider(path, value, inputs.cli[path])
              => NoWider(path, value, merged'[path])
        BY <2>3, <2>5
      <3>4. QED
        BY <2>1, <2>6, <2>8, <3>1, <3>2, <3>3 DEF Overridden, Doc
    <2>11. QED
      BY <2>4, <2>9, <2>10 DEF Exact
  <1>3. QED
    BY <1>1, <1>2

LEMMA ExactValidates ==
  ASSUME IInv, Exact, Validate
  PROVE  Exact'
  <1>1. CASE End("CONFIG_UNKNOWN_KEY") \/ End("CONFIG_INVALID")
    BY <1>1, ExactEnds
  <1>2. CASE End("ok")
    <2>1. step = "validate" /\ step' = "done" /\ result' = "ok"
      BY <1>2 DEF Validate, End
    <2>2. UNCHANGED <<inputs, sources, at, layers, effective, authority, merged>>
      BY <1>2 DEF End
    <2>3. Gathered'
      <3>1. \A i \in 1..4 : Taken(i)' <=> Taken(i)
        BY <2>1, <2>2 DEF Taken
      <3>2. QED
        BY <2>1, <2>2, <3>1, GatheredSteady DEF Exact
    <2>4. Overlaid'
      BY <2>1 DEF Overlaid
    <2>5. Overridden'
      BY <2>1, <2>2 DEF Exact, Overridden, MergedBut, Greatest, EnvFields, Doc
    <2>6. QED
      BY <2>3, <2>4, <2>5 DEF Exact
  <1>3. QED
    BY <1>1, <1>2 DEF Validate

LEMMA ExactSteps == IInv /\ Exact /\ [Next]_vars => Exact'
  <1>1. SUFFICES ASSUME IInv, Exact, [Next]_vars PROVE Exact'
    OBVIOUS
  <1>2. CASE RefuseLayer
    <2>1. End("CONFIG_UNKNOWN_KEY") \/ End("INVALID_CONTRACT_VALUE")
      BY <1>2 DEF RefuseLayer
    <2>2. QED
      BY <1>1, <2>1, ExactEnds
  <1>3. CASE UNCHANGED vars
    <2>1. \A i \in 1..4 : Taken(i)' <=> Taken(i)
      BY <1>3 DEF vars, Taken
    <2>2. Gathered'
      BY <1>1, <1>3, <2>1, GatheredSteady DEF vars, Exact
    <2>3. Overlaid'
      BY <1>1, <1>3 DEF vars, Exact, Overlaid, GreatestIn, Greatest, Doc
    <2>4. Overridden'
      BY <1>1, <1>3 DEF vars, Exact, Overridden, MergedBut, Greatest, EnvFields, Doc
    <2>5. QED
      BY <2>2, <2>3, <2>4 DEF Exact
  <1>4. QED
    BY <1>1, <1>2, <1>3, ExactLoads, ExactChecks, ExactTakes, ExactSkips, ExactMerges,
       ExactEnvironment, ExactCommandLine, ExactValidates
       DEF Next

(* Whatever the documents, their aliases, the environment and the command   *)
(* line: a resolved security field is never wider than any of them asked.   *)
THEOREM LayersOnlyNarrow == Spec => []NeverWider
  <1>1. IInv => NeverWider
    <2>1. SUFFICES ASSUME IInv, result = "ok", NEW path \in Security, NEW value \in Asked(path)
                   PROVE  NoWider(path, merged[path], value)
      BY DEF NeverWider
    <2>2. PICK document \in Supplied \union {inputs.cli} :
            path \in DOMAIN document /\ value = document[path]
      BY <2>1 DEF Asked
    <2>3. Below(merged, document)
      BY <2>1, <2>2 DEF IInv, Merged, Supplied, Found, Doc
    <2>4. QED
      BY <2>1, <2>2, <2>3 DEF Below
  <1>2. QED
    BY <1>1, Starts, Steps, PTL DEF Spec

LEMMA InvariantAlways == Spec => [](IInv /\ Exact)
  BY Starts, Steps, ExactStarts, ExactSteps, PTL DEF Spec

LEMMA AskedIs ==
  ASSUME NEW path
  PROVE  \A value : value \in Asked(path) <=>
           \/ \E i \in 1..4 : sources[i] # None /\ path \in DOMAIN Doc(i) /\ value = Doc(i)[path]
           \/ path \in DOMAIN inputs.cli /\ value = inputs.cli[path]
  <1>1. \A document : document \in Supplied <=> \E i \in 1..4 : sources[i] # None /\ document = Doc(i)
    BY DEF Supplied, Found, Doc
  <1>2. QED
    BY <1>1 DEF Asked

(* A resolved security field is as wide as all who asked for it allow, and  *)
(* the default where nobody asked, although narrowing takes place three     *)
(* times against two accumulators.                                          *)
THEOREM ResolutionExact == Spec => []EffectiveIsIntersection
  <1>1. IInv /\ Exact => EffectiveIsIntersection
    <2>1. SUFFICES ASSUME IInv, Exact, result = "ok", NEW path \in Security
                   PROVE  IF Asked(path) = {} THEN merged[path] = Defaults[path]
                          ELSE \A value \in Schema[path] :
                                 (\A asked \in Asked(path) : NoWider(path, value, asked))
                                   => NoWider(path, value, merged[path])
      BY DEF EffectiveIsIntersection
    <2>2. /\ MergedBut(DOMAIN EnvFields \union DOMAIN inputs.cli)
          /\ path \in DOMAIN Defaults /\ path \notin DOMAIN EnvFields
      BY <2>1, EnvPlain, ConfigAssumption DEF Exact, Overridden, EnvFields
    <2>3. CASE Asked(path) = {}
      <3>1. path \notin DOMAIN inputs.cli /\ \A i \in 1..4 : sources[i] # None => path \notin DOMAIN Doc(i)
        BY <2>3, AskedIs
      <3>2. path \notin DOMAIN effective
        BY <2>1, <3>1 DEF Exact, Gathered
      <3>3. QED
        BY <2>2, <2>3, <3>1, <3>2 DEF MergedBut
    <2>4. CASE Asked(path) # {}
      <3>1. SUFFICES ASSUME NEW value \in Schema[path],
                            \A asked \in Asked(path) : NoWider(path, value, asked)
                     PROVE  NoWider(path, value, merged[path])
        BY <2>4
      <3>2. \A i \in 1..4 : sources[i] # None /\ path \in DOMAIN Doc(i) => NoWider(path, value, Doc(i)[path])
        BY <3>1, AskedIs
      <3>3. CASE path \in DOMAIN inputs.cli
        <4>1. NoWider(path, value, inputs.cli[path])
          BY <3>1, <3>3, AskedIs
        <4>2. QED
          BY <2>1, <3>1, <3>2, <3>3, <4>1 DEF Exact, Overridden
      <3>4. CASE path \notin DOMAIN inputs.cli
        <4>1. PICK i \in 1..4 : sources[i] # None /\ path \in DOMAIN Doc(i)
          BY <2>4, <3>4, AskedIs
        <4>2. path \in DOMAIN effective
          BY <2>1, <4>1 DEF Exact, Gathered, Taken
        <4>3. Greatest(path, merged[path])
          BY <2>2, <3>4, <4>2 DEF MergedBut
        <4>4. QED
          BY <3>1, <3>2, <4>3 DEF Greatest
      <3>5. QED
        BY <3>3, <3>4
    <2>5. QED
      BY <2>3, <2>4
  <1>2. QED
    BY <1>1, InvariantAlways, PTL

(* Two sequences joined: the first as it is, the second after it.           *)
LEMMA Joined ==
  ASSUME NEW S, NEW s \in Seq(S), NEW t \in Seq(S)
  PROVE  /\ s \o t \in Seq(S) /\ Len(s \o t) = Len(s) + Len(t)
         /\ \A i \in 1..Len(s) : (s \o t)[i] = s[i]
         /\ \A i \in 1..Len(t) : (s \o t)[Len(s) + i] = t[i]
  <1>1. /\ s \o t \in Seq(S) /\ Len(s \o t) = Len(s) + Len(t)
        /\ \A i \in 1..(Len(s) + Len(t)) : (s \o t)[i] = IF i <= Len(s) THEN s[i] ELSE t[i - Len(s)]
    BY ConcatProperties
  <1>2. ASSUME NEW i \in 1..Len(s)
        PROVE  (s \o t)[i] = s[i]
    BY <1>1
  <1>3. ASSUME NEW i \in 1..Len(t)
        PROVE  (s \o t)[Len(s) + i] = t[i]
    <2>1. Len(s) + i \in 1..(Len(s) + Len(t)) /\ ~ Len(s) + i <= Len(s) /\ (Len(s) + i) - Len(s) = i
      OBVIOUS
    <2>2. QED
      BY <1>1, <2>1
  <1>4. QED
    BY <1>1, <1>2, <1>3

(* Precedence, layer by layer.                                              *)
LEMMA PrecedenceIs ==
  /\ Precedence[1] = Defaults
  /\ \A i \in 1..4 : Precedence[i + 1] = IF sources[i] = None THEN NoFields ELSE Doc(i)
  /\ Precedence[6] = EnvFields /\ Precedence[7] = inputs.cli
  <1> DEFINE document(i) == IF sources[i] = None THEN NoFields ELSE Migrate(sources[i])
             documents == [i \in 1..4 |-> document(i)]
             Any == {Defaults, EnvFields, inputs.cli} \union { document(i) : i \in 1..4 }
  <1>1. documents \in [1..4 -> Any]
    OBVIOUS
  <1>2. documents \in Seq(Any) /\ Len(documents) = 4
    BY <1>1
  <1>3. \A i \in 1..4 : documents[i] = IF sources[i] = None THEN NoFields ELSE Doc(i)
    BY DEF Doc
  <1>4. Precedence = <<Defaults>> \o documents \o <<EnvFields, inputs.cli>>
    BY DEF Precedence, EnvFields
  <1> DEFINE lowest == <<Defaults>>
             first == lowest \o documents
             last == <<EnvFields, inputs.cli>>
  <1>5. lowest \in Seq(Any) /\ last \in Seq(Any) /\ Len(lowest) = 1 /\ Len(last) = 2
    OBVIOUS
  <1>6. lowest[1] = Defaults /\ last[1] = EnvFields /\ last[2] = inputs.cli
    OBVIOUS
  <1>7. Precedence = first \o last
    BY <1>4
  <1> HIDE DEF documents, Any, lowest, last
  <1>8. /\ first \in Seq(Any) /\ Len(first) = Len(lowest) + Len(documents)
        /\ \A i \in 1..Len(lowest) : first[i] = lowest[i]
        /\ \A i \in 1..Len(documents) : first[Len(lowest) + i] = documents[i]
    <2>1. lowest \in Seq(Any) /\ documents \in Seq(Any)
      BY <1>2, <1>5
    <2>2. QED
      BY ONLY <2>1, Joined
  <1> HIDE DEF first
  <1>9. /\ \A i \in 1..Len(first) : Precedence[i] = first[i]
        /\ \A i \in 1..Len(last) : Precedence[Len(first) + i] = last[i]
    <2>1. first \in Seq(Any) /\ last \in Seq(Any)
      BY <1>5, <1>8
    <2>2. QED
      BY ONLY <1>7, <2>1, Joined
  <1>10. \A i \in 1..4 : Precedence[i + 1] = documents[i]
    BY <1>2, <1>5, <1>8, <1>9
  <1>11. Precedence[1] = Defaults /\ Precedence[6] = EnvFields /\ Precedence[7] = inputs.cli
    BY <1>2, <1>5, <1>6, <1>8, <1>9
  <1>12. QED
    BY <1>3, <1>10, <1>11

(* Layer i is the highest that sets the path.                               *)
Highest(i, path) ==
  /\ path \in DOMAIN Precedence[i]
  /\ \A j \in (i + 1)..7 : path \notin DOMAIN Precedence[j]

LEMMA SomeHighest ==
  ASSUME NEW i \in 1..7, NEW path \in DOMAIN Precedence[i]
  PROVE  \E j \in 1..7 : Highest(j, path)
  <1> DEFINE A(j) == path \in DOMAIN Precedence[j]
  <1>1. A(1) \/ A(2) \/ A(3) \/ A(4) \/ A(5) \/ A(6) \/ A(7)
    OBVIOUS
  <1>2. \E j \in 1..7 : A(j) /\ \A k \in (j + 1)..7 : ~ A(k)
    <2> HIDE DEF A
    <2>1. CASE A(7)
      BY <2>1
    <2>2. CASE A(6) /\ ~ A(7)
      BY <2>2
    <2>3. CASE A(5) /\ ~ A(6) /\ ~ A(7)
      BY <2>3
    <2>4. CASE A(4) /\ ~ A(5) /\ ~ A(6) /\ ~ A(7)
      BY <2>4
    <2>5. CASE A(3) /\ ~ A(4) /\ ~ A(5) /\ ~ A(6) /\ ~ A(7)
      BY <2>5
    <2>6. CASE A(2) /\ ~ A(3) /\ ~ A(4) /\ ~ A(5) /\ ~ A(6) /\ ~ A(7)
      BY <2>6
    <2>7. CASE A(1) /\ ~ A(2) /\ ~ A(3) /\ ~ A(4) /\ ~ A(5) /\ ~ A(6) /\ ~ A(7)
      BY <2>7
    <2>8. QED
      BY <1>1, <2>1, <2>2, <2>3, <2>4, <2>5, <2>6, <2>7
  <1>3. QED
    BY <1>2 DEF Highest

LEMMA HighestWins ==
  ASSUME IInv, Exact, result = "ok",
         NEW i \in 1..7, NEW path \in DOMAIN Precedence[i] \ Security
  PROVE  /\ path \in DOMAIN merged
         /\ Highest(i, path) => merged[path] = Precedence[i][path]
  <1>1. path \in DOMAIN Precedence[i]
    OBVIOUS
  <1>2. /\ MergedBut(DOMAIN EnvFields \union DOMAIN inputs.cli)
        /\ \A field \in DOMAIN EnvFields \ DOMAIN inputs.cli :
             field \in DOMAIN merged /\ merged[field] = EnvFields[field]
        /\ \A field \in DOMAIN inputs.cli :
             field \in DOMAIN merged /\ (field \notin Security => merged[field] = inputs.cli[field])
    BY <1>1 DEF Exact, Overridden
  <1>3. CASE i = 7
    BY <1>2, <1>3, PrecedenceIs DEF Highest
  <1>4. CASE i = 6
    BY <1>2, <1>4, PrecedenceIs DEF Highest
  <1>5. CASE i = 1
    <2>1. path \in DOMAIN Defaults
      BY <1>5, PrecedenceIs
    <2>2. ASSUME \A j \in 2..7 : path \notin DOMAIN Precedence[j]
          PROVE  merged[path] = Defaults[path]
      <3>1. \A k \in 1..4 : sources[k] # None => path \notin DOMAIN Doc(k)
        <4>1. \A k \in 1..4 : path \notin DOMAIN Precedence[k + 1]
          BY <2>2
        <4>2. QED
          BY <4>1, PrecedenceIs
      <3>2. path \notin DOMAIN effective
        BY <1>1, <3>1 DEF Exact, Gathered
      <3>3. path \notin DOMAIN EnvFields /\ path \notin DOMAIN inputs.cli
        BY <2>2, PrecedenceIs
      <3>4. QED
        BY <1>2, <2>1, <3>2, <3>3 DEF MergedBut
    <2>3. QED
      BY <1>2, <1>5, <2>1, <2>2, PrecedenceIs DEF MergedBut, Highest
  <1>6. CASE i \in 2..5
    <2>1. PICK k \in 1..4 : i = k + 1
      BY <1>6
    <2>2. sources[k] # None /\ path \in DOMAIN Doc(k) /\ Precedence[i] = Doc(k)
      BY <1>1, <2>1, PrecedenceIs DEF NoFields
    <2>3. /\ \A j \in 1..4 : Taken(j) <=> sources[j] # None
          /\ path \in DOMAIN effective
      BY <1>1, <2>2 DEF Exact, Gathered, Taken
    <2>4. ASSUME \A j \in (i + 1)..7 : path \notin DOMAIN Precedence[j], path \notin Security
          PROVE  merged[path] = Doc(k)[path]
      <3>1. \A j \in (k + 1)..4 : Taken(j) => path \notin DOMAIN Doc(j)
        <4>1. \A j \in (k + 1)..4 : path \notin DOMAIN Precedence[j + 1] /\ j \in 1..4
          BY <2>1, <2>4
        <4>2. QED
          BY <2>3, <4>1, PrecedenceIs
      <3>2. effective[path] = Doc(k)[path]
        BY <1>1, <2>2, <2>3, <2>4, <3>1 DEF Exact, Gathered
      <3>3. path \notin DOMAIN EnvFields /\ path \notin DOMAIN inputs.cli
        BY <1>6, <2>4, PrecedenceIs
      <3>4. QED
        BY <1>2, <2>3, <2>4, <3>2, <3>3 DEF MergedBut
    <2>5. QED
      BY <1>2, <2>2, <2>3, <2>4 DEF MergedBut, Highest
  <1>7. QED
    BY <1>3, <1>4, <1>5, <1>6

(* An ordinary field has the value of the highest layer that sets it, no    *)
(* field that some layer sets is lost, and what is left open about a        *)
(* disputed adapter is only which layer it is of.                           *)
THEOREM LastWins == Spec => []OrdinaryIsLast
  <1>1. IInv /\ Exact => OrdinaryIsLast
    <2>1. SUFFICES ASSUME IInv, Exact, result = "ok",
                          NEW i \in 1..7, NEW path \in DOMAIN Precedence[i] \ Security
                   PROVE  /\ path \in DOMAIN merged
                          /\ \E j \in 1..7 :
                               path \in DOMAIN Precedence[j] /\ merged[path] = Precedence[j][path]
                          /\ (\A j \in (i + 1)..7 : path \notin DOMAIN Precedence[j])
                               => merged[path] = Precedence[i][path]
      BY DEF OrdinaryIsLast
    <2>2. PICK j \in 1..7 : Highest(j, path)
      BY <2>1, SomeHighest
    <2>3. merged[path] = Precedence[j][path] /\ path \in DOMAIN Precedence[j]
      BY <2>1, <2>2, HighestWins DEF Highest
    <2>4. QED
      BY <2>1, <2>3, HighestWins DEF Highest
  <1>2. QED
    BY <1>1, InvariantAlways, PTL
=============================================================================
