--------------------------- MODULE EvidenceProofs ---------------------------
(***************************************************************************)
(* Evidence: where it is kept, and what is concluded from it.              *)
(* ContentStore, for any writers and paths: objects are whole, what put    *)
(* synced survives, and the store implements ObjectStore.  One inductive   *)
(* invariant serves all three: what may be found after a power loss is     *)
(* never partial, it includes what is there now, and only synced bytes are *)
(* given a name.                                                           *)
(* Verification, for any claims, checks, criteria and waivers: a criterion *)
(* counts only on evidence about the candidate or on references, whatever  *)
(* candidate they were recorded for; an edit adds nothing to that; and a   *)
(* candidate is accepted only on results about the tree that landed.       *)
(***************************************************************************)
EXTENDS ContentStore, Verification, FiniteSetTheorems, TLAPS

FileKinds == {"none", "whole", "partial", "rotten"}
Labels == {"idle", "look", "compare", "write", "sync", "replace", "sync directory", "answer"}

Typed ==
  /\ object \in [Paths -> FileKinds]
  /\ kept \in [Paths -> SUBSET FileKinds]
  /\ pc \in [Writers -> Labels]
  /\ path \in [Writers -> Paths]
  /\ temp \in [Writers -> {"none", "written", "synced"}]
  /\ answer \in [Writers -> {"none", "stored", "corrupt", "raised"}]
  /\ synced \subseteq Paths

Findable ==
  \A p \in Paths :
    /\ object[p] \in kept[p] /\ "partial" \notin kept[p]
    /\ object[p] = "none" => kept[p] = {"none"}
    /\ p \in synced => "none" \notin kept[p]

Ready(w) ==
  /\ pc[w] = "replace" => temp[w] = "synced"
  /\ pc[w] \in {"sync directory", "compare"} =>
       path[w] \in PutPaths /\ object[path[w]] # "none"
  /\ pc[w] = "answer" => path[w] \in OutputPaths /\ object[path[w]] # "none"

Prepared == \A w \in Writers : Ready(w)

IInv == Typed /\ Findable /\ Prepared

-----------------------------------------------------------------------------

LEMMA InitIInv == Init => IInv
  BY DEF Init, IInv, Typed, Findable, Prepared, Ready, FileKinds, Labels

LEMMA CallsKeepIInv ==
  ASSUME IInv, NEW w \in Writers, Step(w)
  PROVE  IInv'
<1> USE DEF IInv, Typed, Findable, Prepared, Ready, FileKinds, Labels, GoTo, End
<1>1. ASSUME NEW p \in Paths, Begin(w, p) PROVE IInv'
  BY <1>1 DEF Begin
<1>2. CASE Look(w)
  BY <1>2 DEF Look, Paths
<1>3. CASE Write(w)
  BY <1>3 DEF Write
<1>4. CASE SyncFile(w)
  BY <1>4 DEF SyncFile
<1>5. CASE Replace(w)
  <2>1. temp[w] = "synced" /\ path[w] \in Paths
    BY <1>5 DEF Replace
  <2>2. /\ kept' = [kept EXCEPT ![path[w]] = @ \union {"whole"}]
        /\ object' = [object EXCEPT ![path[w]] = "whole"]
    BY <1>5, <2>1 DEF Replace
  <2>3. /\ UNCHANGED <<path, answer, synced>>
        /\ temp' = [temp EXCEPT ![w] = "none"]
        /\ pc' = [pc EXCEPT ![w] = IF path[w] \in PutPaths THEN "sync directory" ELSE "answer"]
    BY <1>5 DEF Replace
  <2>4. Typed'
    <3>1. kept' \in [Paths -> SUBSET FileKinds]
      BY <2>2
    <3>2. object' \in [Paths -> FileKinds]
      BY <2>2
    <3>3. pc' \in [Writers -> Labels]
      BY <2>3
    <3>4. temp' \in [Writers -> {"none", "written", "synced"}]
      BY <2>3
    <3> QED  BY <2>3, <3>1, <3>2, <3>3, <3>4
  <2>5. Findable'
    BY <2>1, <2>2, <2>3
  <2>6. /\ object'[path[w]] = "whole"
        /\ \A p \in Paths : object'[p] = "none" => object[p] = "none"
    BY <2>1, <2>2
  <2>7. \A v \in Writers \ {w} :
          pc'[v] = pc[v] /\ temp'[v] = temp[v] /\ path'[v] = path[v] /\ path[v] \in Paths
    BY <2>3
  <2>8. pc'[w] = IF path[w] \in PutPaths THEN "sync directory" ELSE "answer"
    BY <2>3
  <2>9. Prepared'
    <3> SUFFICES ASSUME NEW v \in Writers PROVE Ready(v)'
      OBVIOUS
    <3>0. Ready(v)
      OBVIOUS
    <3> HIDE DEF IInv, Typed, Findable
    <3>1. CASE v = w
      <4>1. path'[w] = path[w]
        BY <2>3
      <4>2. path[w] \in PutPaths \/ path[w] \in OutputPaths
        BY <2>1 DEF Paths
      <4> QED  BY <2>6, <2>8, <3>1, <4>1, <4>2
    <3>2. CASE v # w
      BY <2>6, <2>7, <3>0, <3>2
    <3> QED  BY <3>1, <3>2
  <2> QED  BY <2>4, <2>5, <2>9
<1>6. CASE SyncDirectory(w)
  <2>1. CASE UNCHANGED <<kept, synced>>
    BY <1>6, <2>1 DEF SyncDirectory
  <2>2. CASE /\ kept' = [kept EXCEPT ![path[w]] = @ \ {"none"}]
             /\ synced' = synced \union {path[w]}
    <3>1. path[w] \in Paths /\ object[path[w]] # "none"
      BY <1>6 DEF SyncDirectory
    <3>2. Typed' /\ Prepared'
      BY <1>6, <2>2, <3>1 DEF SyncDirectory
    <3>3. Findable'
      BY <1>6, <2>2, <3>1 DEF SyncDirectory
    <3> QED  BY <3>2, <3>3
  <2> QED  BY <1>6, <2>1, <2>2 DEF SyncDirectory
<1>7. CASE Compare(w)
  BY <1>7 DEF Compare
<1>8. CASE Answer(w)
  BY <1>8 DEF Answer
<1>9. CASE Fail(w)
  BY <1>9 DEF Fail
<1>10. CASE Die(w)
  BY <1>10 DEF Die
<1> QED
  BY <1>1, <1>2, <1>3, <1>4, <1>5, <1>6, <1>7, <1>8, <1>9, <1>10 DEF Step

LEMMA NextIInv == IInv /\ [Next]_vars => IInv'
<1> SUFFICES ASSUME IInv, [Next]_vars PROVE IInv'
  OBVIOUS
<1>1. ASSUME NEW w \in Writers, Step(w) PROVE IInv'
  BY <1>1, CallsKeepIInv
<1>2. ASSUME NEW p \in Paths, Rot(p) PROVE IInv'
  BY <1>2 DEF Rot, IInv, Typed, Findable, Prepared, Ready, FileKinds
<1>3. CASE PowerLoss
  <2>1. /\ \A p \in Paths : object'[p] \in kept[p] /\ kept'[p] = {object'[p]}
        /\ \A w \in Writers : pc'[w] = "idle"
        /\ synced' = synced
    BY <1>3 DEF PowerLoss
  <2>2. Typed'
    BY <1>3 DEF PowerLoss, IInv, Typed, FileKinds, Labels
  <2>3. Findable'
    BY <2>1 DEF IInv, Findable
  <2>4. Prepared'
    BY <2>1 DEF Prepared, Ready
  <2> QED  BY <2>2, <2>3, <2>4 DEF IInv
<1>4. CASE UNCHANGED vars
  BY <1>4 DEF vars, IInv, Typed, Findable, Prepared, Ready
<1> QED  BY <1>1, <1>2, <1>3, <1>4 DEF Next

LEMMA Inductive == Spec => []IInv
  BY InitIInv, NextIInv, PTL DEF Spec

\* No put, death or power loss leaves part of an object at its digest path
\* (put, lines 157-161: the bytes are synced before they get their name).
THEOREM Wholeness == Spec => []ObjectsWhole
<1>1. IInv => ObjectsWhole
  BY DEF IInv, Typed, Findable, ObjectsWhole
<1> QED  BY <1>1, Inductive, PTL

\* What put synced in a directory that lasts outlives every power loss
\* (put, lines 162-171).
THEOREM Survival == Spec => []InstalledSurvives
<1>1. IInv => InstalledSurvives
  BY DEF IInv, Typed, Findable, InstalledSurvives
<1> QED  BY <1>1, Inductive, PTL

-----------------------------------------------------------------------------
(* The refinement, one step at a time.                                      *)

LEMMA InitStore == Init => Store!Init
  BY DEF Init, Store!Init, Paths, Store!Paths

LEMMA CallsImplement ==
  ASSUME IInv, NEW w \in Writers, Step(w)
  PROVE  Store!Next \/ UNCHANGED Store!vars
<1> USE DEF IInv, Typed, GoTo, Store!Paths, Labels
<1> DEFINE pend == [v \in Writers |-> IF pc[v] = "idle" THEN "nothing" ELSE path[v]]
<1>0. /\ pend[w] = IF pc[w] = "idle" THEN "nothing" ELSE path[w]
      /\ path[w] \in Paths /\ Store!Paths = Paths
  BY DEF Paths
<1>1. ASSUME NEW p \in Paths, Begin(w, p) PROVE Store!Ask(w, p)
  BY <1>1, <1>0 DEF Begin, Store!Ask
<1>2. ASSUME Look(w) \/ Write(w) \/ SyncFile(w) PROVE UNCHANGED Store!vars
  <2>1. /\ UNCHANGED <<object, synced, answer, path>>
        /\ \A v \in Writers : pc'[v] = "idle" <=> pc[v] = "idle"
    BY <1>2 DEF Look, Write, SyncFile
  <2> QED  BY <2>1 DEF Store!vars
<1>3. CASE Replace(w)
  <2>1. /\ UNCHANGED <<synced, answer, path>> /\ pc[w] # "idle"
        /\ \A v \in Writers : pc'[v] = "idle" <=> pc[v] = "idle"
        /\ object' = [object EXCEPT ![path[w]] = "whole"]
    BY <1>3 DEF Replace
  <2> QED  BY <1>0, <2>1 DEF Store!Install, Store!Next
<1>4. CASE SyncDirectory(w)
  <2>1. /\ UNCHANGED <<object, answer, path>> /\ pc[w] # "idle"
        /\ \A v \in Writers : pc'[v] = "idle" <=> pc[v] = "idle"
        /\ synced' = synced \/ synced' = synced \union {path[w]}
        /\ path[w] \in PutPaths /\ object[path[w]] # "none"
    BY <1>4 DEF SyncDirectory, Prepared, Ready
  <2> QED  BY <1>0, <2>1 DEF Store!MakeLasting, Store!vars, Store!Next
<1>5. ASSUME NEW code \in {"stored", "corrupt", "raised"}, End(w, code), pc[w] # "idle",
             UNCHANGED <<object, path, synced>>,
             code = "stored" => /\ object[path[w]] # "none"
                                /\ path[w] \in PutPaths => object[path[w]] = "whole",
             code = "corrupt" => path[w] \in PutPaths /\ object[path[w]] = "rotten"
      PROVE  Store!Reply(w, code)
  BY <1>0, <1>5 DEF End, Store!Reply
<1>6. CASE Compare(w)
  <2>1. /\ path[w] \in PutPaths
        /\ pc[w] # "idle" /\ UNCHANGED <<object, path, synced>>
        /\ End(w, IF object[path[w]] = "whole" THEN "stored" ELSE "corrupt")
    BY <1>6 DEF Compare, Prepared, Ready, Whole
  <2>2. object[path[w]] \in {"whole", "rotten"}
    BY <1>0, <1>6 DEF Compare, Prepared, Ready, Findable, FileKinds
  <2>3. Store!Reply(w, "stored") \/ Store!Reply(w, "corrupt")
    BY <1>5, <2>1, <2>2
  <2> QED  BY <2>3 DEF Store!Next
<1>7. CASE Answer(w)
  <2>1. path[w] \notin PutPaths /\ object[path[w]] # "none"
    BY <1>7, ContentStoreAssumption DEF Answer, Prepared, Ready
  <2>2. Store!Reply(w, "stored")
    BY <1>5, <1>7, <2>1 DEF Answer
  <2> QED  BY <2>2 DEF Store!Next
<1>8. CASE Fail(w)
  <2>1. Store!Reply(w, "raised")
    BY <1>5, <1>8 DEF Fail
  <2> QED  BY <2>1 DEF Store!Next
<1>9. CASE Die(w)
  <2>1. Store!Forget(w)
    BY <1>9 DEF Die, Store!Forget
  <2> QED  BY <2>1 DEF Store!Next
<1> QED
  BY <1>1, <1>2, <1>3, <1>4, <1>6, <1>7, <1>8, <1>9, <1>0 DEF Step, Store!Next

LEMMA NextStore == IInv /\ IInv' /\ [Next]_vars => [Store!Next]_(Store!vars)
<1> SUFFICES ASSUME IInv, IInv', [Next]_vars PROVE Store!Next \/ UNCHANGED Store!vars
  OBVIOUS
<1>1. ASSUME NEW w \in Writers, Step(w) PROVE Store!Next \/ UNCHANGED Store!vars
  BY <1>1, CallsImplement
<1>2. ASSUME NEW p \in Paths, Rot(p) PROVE Store!Next
  <2>1. Store!Damage(p)
    BY <1>2 DEF Rot, Store!Damage
  <2> QED  BY <2>1 DEF Store!Next, Store!Paths, Paths
<1>3. CASE PowerLoss
  <2>1. object' \in [Paths -> {"none", "whole", "rotten"}]
    BY <1>3 DEF PowerLoss, IInv, Typed, Findable, FileKinds
  <2>2. \A p \in Paths : /\ object[p] = "none" => object'[p] = "none"
                         /\ p \in synced => object'[p] # "none"
    BY <1>3 DEF PowerLoss, IInv, Findable
  <2>3. Store!Loss
    BY <1>3, <2>1, <2>2 DEF PowerLoss, Store!Loss, Store!Paths, Paths
  <2> QED  BY <2>3 DEF Store!Next
<1>4. CASE UNCHANGED vars
  BY <1>4 DEF vars, Store!vars
<1> QED  BY <1>1, <1>2, <1>3, <1>4 DEF Next

\* put and _output together are an ObjectStore: an object appears at once,
\* put vouches only for bytes it has read back, nothing synced is lost.
THEOREM Refinement == Spec => ImplementsStore
  BY InitStore, NextStore, Inductive, PTL DEF Spec, ImplementsStore, Store!Spec

-----------------------------------------------------------------------------
(* Verification: what the evaluators say of a claim and of a criterion, and *)
(* what is recorded of the tree that landed.                                *)

\* A waiver that covers a claim excuses it: both readings of its scope, its
\* candidate, its expiry and its issuer agree.
LEMMA WaivesExcuses ==
  ASSUME VerificationAssumption, waivers \subseteq Waivers, now \in Nat, NEW claim
  PROVE  (\E w \in waivers : Waives(w, claim)) <=> Excused(claim)
  <1>1. ASSUME NEW w \in waivers
        PROVE  (w.expires = None \/ w.expires > now) <=> (w.expires # None => now < w.expires)
    BY <1>1 DEF VerificationAssumption
  <1>2. QED
    BY <1>1 DEF Waives, Excused

\* Evidence for a claim that evaluate_claim takes: of this candidate, or a
\* reference of an older one.
Backed(claim) == Proven(claim) \/ OutdatedlyProven(claim)

\* A claim is excused where it is waived, backed where it is established, and
\* what refutes it is counted unless it is waived.
LEMMA ClaimStates ==
  ASSUME VerificationAssumption, waivers \subseteq Waivers, now \in Nat, NEW claim
  PROVE  /\ EvaluateClaim(claim) = "WAIVED" => Excused(claim)
         /\ EvaluateClaim(claim) = "ESTABLISHED" => Backed(claim)
         /\ Refuted(claim) => Excused(claim) \/ EvaluateClaim(claim) = "DISPROVEN"
  <1> DEFINE referring == { k \in Checks : results[k] # NoResult /\ claim \in CheckSpec[k].claims }
             current == { k \in referring : ResultIsCurrent(k) }
             byCheck == "CHECK_RESULT" \in RequiredKinds[claim]
             counted == IF byCheck THEN current ELSE {}
             matched == \/ \E k \in counted : results[k].status = "PASS"
                        \/ \E e \in evidence : e.claim = claim /\ e.kind \in RequiredKinds[claim]
             inconclusive == \/ referring # current
                             \/ \E k \in counted : results[k].status \notin {"PASS", "FAIL"}
             waived == \E w \in waivers : Waives(w, claim)
             failed == \E k \in counted : results[k].status = "FAIL"
  <1>1. EvaluateClaim(claim) =
          IF waived THEN "WAIVED"
          ELSE IF failed THEN "DISPROVEN"
          ELSE IF matched /\ byCheck THEN "ESTABLISHED"
          ELSE IF inconclusive \/ ~ matched THEN "INCONCLUSIVE" ELSE "ESTABLISHED"
    BY DEF EvaluateClaim
  <1>2. waived <=> Excused(claim)
    BY WaivesExcuses
  <1>3. \A k, status : Speaks(k, claim, status) /\ k \in Checks
          <=> k \in counted /\ results[k].status = status
    BY DEF Speaks, ResultIsCurrent
  <1>4. matched <=> Backed(claim)
    BY <1>3 DEF Proven, OutdatedlyProven, Backed, Referring
  <1>5. failed <=> Refuted(claim)
    BY <1>3 DEF Refuted
  <1> HIDE DEF waived, failed, matched, inconclusive, byCheck
  <1>6. QED
    BY <1>1, <1>2, <1>4, <1>5

\* Two disjoint parts of a finite set that together are as many as it is.
LEMMA PartsCover ==
  ASSUME NEW S, IsFiniteSet(S), NEW T \in SUBSET S, NEW U \in SUBSET S, T \intersect U = {}
  PROVE  /\ Cardinality(T) \in Nat /\ Cardinality(U) \in Nat /\ Cardinality(S) \in Nat
         /\ Cardinality(T \union U) = Cardinality(T) + Cardinality(U)
         /\ Cardinality(T) + Cardinality(U) = Cardinality(S) => T \union U = S
  <1>1. IsFiniteSet(T) /\ IsFiniteSet(U)
    BY FS_Subset
  <1>2. Cardinality(T) \in Nat /\ Cardinality(U) \in Nat /\ Cardinality(S) \in Nat
    BY <1>1, FS_CardinalityType
  <1>3. Cardinality(T \union U) = Cardinality(T) + Cardinality(U)
    BY <1>1, <1>2, FS_Union, FS_EmptySet
  <1>4. T \union U \in SUBSET S
    OBVIOUS
  <1>5. QED
    BY <1>2, <1>3, <1>4, FS_Subset

\* A criterion that counts is evidenced in its mode.
LEMMA CountedIsEvidenced ==
  ASSUME VerificationAssumption, waivers \subseteq Waivers, now \in Nat,
         NEW k \in Criteria, EvaluateCriterion(k) \in {"SATISFIED", "WAIVED"}
  PROVE  LET req == Requirement[k] IN
         /\ \A c \in req.claims : Refuted(c) => Excused(c)
         /\ CASE req.mode = "ALL" -> \A c \in req.claims : Backed(c) \/ Excused(c)
              [] req.mode = "ANY" -> \/ \E c \in req.claims : Backed(c)
                                    \/ (req.allow_waiver /\ \A c \in req.claims : Excused(c))
              [] req.mode = "THRESHOLD" ->
                   Cardinality({ c \in req.claims : Backed(c) \/ (req.allow_waiver /\ Excused(c)) })
                     >= req.threshold
  <1> DEFINE req == Requirement[k]
             In(state) == { c \in req.claims : EvaluateClaim(c) = state }
             established == In("ESTABLISHED")
             waived == In("WAIVED")
             enough == { c \in req.claims : Backed(c) \/ (req.allow_waiver /\ Excused(c)) }
  <1>1. /\ IsFiniteSet(req.claims) /\ req.mode \in {"ALL", "ANY", "THRESHOLD"}
        /\ req.allow_waiver \in BOOLEAN /\ (req.mode = "THRESHOLD" => req.threshold \in Nat)
    BY DEF VerificationAssumption
  <1>2. /\ In("DISPROVEN") = {}
        /\ req.mode = "ALL" => Cardinality(established) + Cardinality(waived) = Cardinality(req.claims)
        /\ req.mode = "ANY" =>
             \/ Cardinality(established) > 0
             \/ req.allow_waiver /\ Cardinality(waived) = Cardinality(req.claims)
        /\ req.mode = "THRESHOLD" =>
             Cardinality(established) + (IF req.allow_waiver THEN Cardinality(waived) ELSE 0) >= req.threshold
    BY <1>1 DEF EvaluateCriterion
  <1>3. \A c \in req.claims :
          /\ c \in waived => Excused(c)
          /\ c \in established => Backed(c)
          /\ Refuted(c) => Excused(c) \/ c \in In("DISPROVEN")
    BY ClaimStates
  <1>4. established \in SUBSET req.claims /\ waived \in SUBSET req.claims /\ established \intersect waived = {}
    OBVIOUS
  <1> HIDE DEF req, established, waived
  <1>5. /\ Cardinality(established) \in Nat /\ Cardinality(waived) \in Nat /\ Cardinality(req.claims) \in Nat
        /\ Cardinality(established \union waived) = Cardinality(established) + Cardinality(waived)
        /\ Cardinality(established) + Cardinality(waived) = Cardinality(req.claims)
             => established \union waived = req.claims
    BY <1>1, <1>4, PartsCover
  <1>6. \A c \in req.claims : Refuted(c) => Excused(c)
    BY <1>2, <1>3
  <1>7. req.mode = "ALL" => \A c \in req.claims : Backed(c) \/ Excused(c)
    BY <1>2, <1>3, <1>5
  <1>8. ASSUME req.mode = "ANY"
        PROVE  \/ \E c \in req.claims : Backed(c)
               \/ req.allow_waiver /\ \A c \in req.claims : Excused(c)
    <2>1. CASE Cardinality(established) > 0
      <3>1. IsFiniteSet(established)
        BY <1>1, <1>4, FS_Subset
      <3>2. established # {}
        BY <1>5, <2>1, <3>1, FS_EmptySet
      <3>3. QED
        BY <1>3, <1>4, <3>2
    <2>2. CASE req.allow_waiver /\ Cardinality(waived) = Cardinality(req.claims)
      <3>1. waived = req.claims
        BY <1>1, <1>4, <2>2, FS_Subset
      <3>2. QED
        BY <1>3, <2>2, <3>1
    <2>3. QED
      BY <1>2, <1>8, <2>1, <2>2
  <1>9. ASSUME req.mode = "THRESHOLD"
        PROVE  Cardinality(enough) >= req.threshold
    <2> DEFINE counted == IF req.allow_waiver THEN established \union waived ELSE established
    <2>1. counted \in SUBSET enough /\ enough \in SUBSET req.claims
      BY <1>3, <1>4
    <2>2. Cardinality(counted) = Cardinality(established) + (IF req.allow_waiver THEN Cardinality(waived) ELSE 0)
      BY <1>1, <1>5
    <2> HIDE DEF counted, enough
    <2>3. IsFiniteSet(enough)
      BY <1>1, <2>1, FS_Subset
    <2>4. Cardinality(counted) <= Cardinality(enough) /\ Cardinality(enough) \in Nat
      BY <2>1, <2>3, FS_Subset, FS_CardinalityType
    <2>5. Cardinality(counted) >= req.threshold /\ Cardinality(counted) \in Nat
      BY <1>1, <1>2, <1>5, <1>9, <2>2
    <2>6. req.threshold \in Nat
      BY <1>1, <1>9
    <2>7. QED
      BY <2>4, <2>5, <2>6
  <1>10. QED
    BY <1>1, <1>6, <1>7, <1>8, <1>9 DEF req

\* Granted waivers are those that may be granted, a result is about no later
\* candidate, and a post-integration result is recorded once a tree has landed,
\* of that tree.
EvidenceInv ==
  /\ waivers \subseteq Waivers /\ now \in Nat
  /\ candidate \in Nat /\ DOMAIN results = Checks
  /\ \A k \in Checks : results[k] = NoResult \/ results[k].candidate \in 0..candidate
  /\ DOMAIN post = Checks
  /\ \A k \in Checks : post[k] = NoResult \/ (landed # None /\ post[k].tree = landed)

LEMMA EvidenceStarts == EvidenceInit => EvidenceInv
  BY DEF EvidenceInit, EvidenceInv

\* A result about the landed tree is recorded: a reused one is current, and the
\* candidate is what landed.
LEMMA LandedVerifies ==
  ASSUME EvidenceInv, NEW k \in Checks, VerifyLanded(k)
  PROVE  EvidenceInv'
  <1>1. /\ landed # None /\ landed' = landed /\ waivers' = waivers /\ now' = now
        /\ candidate' = candidate /\ results' = results
    BY DEF VerifyLanded, gathered
  <1>2. ASSUME NEW outcome, outcome.tree = landed, post' = [post EXCEPT ![k] = outcome]
        PROVE  EvidenceInv'
    BY <1>1, <1>2 DEF EvidenceInv
  <1>3. CASE /\ PostIntegrationReuseAllowed(k)
             /\ results[k] # NoResult /\ ResultIsCurrent(k)
             /\ post' = [post EXCEPT ![k] = [status |-> results[k].status, tree |-> results[k].candidate]]
    <2> DEFINE reused == [status |-> results[k].status, tree |-> results[k].candidate]
    <2>1. reused.tree = landed
      BY <1>3 DEF PostIntegrationReuseAllowed, ResultIsCurrent
    <2>2. post' = [post EXCEPT ![k] = reused]
      BY <1>3
    <2> HIDE DEF reused
    <2>3. QED
      BY <1>2, <2>1, <2>2
  <1>4. ASSUME NEW status, post' = [post EXCEPT ![k] = [status |-> status, tree |-> landed]]
        PROVE  EvidenceInv'
    <2> DEFINE checked == [status |-> status, tree |-> landed]
    <2>1. checked.tree = landed /\ post' = [post EXCEPT ![k] = checked]
      BY <1>4
    <2> HIDE DEF checked
    <2>2. QED
      BY <1>2, <2>1
  <1>5. QED
    BY <1>3, <1>4 DEF VerifyLanded

LEMMA EvidenceSteps == EvidenceInv /\ [EvidenceNext]_evidenceVars => EvidenceInv'
  <1> SUFFICES ASSUME EvidenceInv, [EvidenceNext]_evidenceVars
               PROVE  EvidenceInv'
    OBVIOUS
  <1>1. CASE EditCandidate
    BY <1>1 DEF EditCandidate, EvidenceInv, gathered, integration
  <1>2. CASE Gather
    <2>1. CASE Tick
      BY <2>1 DEF Tick, EvidenceInv, integration
    <2>2. CASE PersistManifest
      BY <2>2 DEF PersistManifest, EvidenceInv, integration
    <2>3. CASE ReviewStatus("PASS")
      BY <2>3 DEF ReviewStatus, EvidenceInv, integration
    <2>4. ASSUME NEW e \in EvidenceRefs, RecordEvidence(e)
          PROVE  EvidenceInv'
      BY <2>4 DEF RecordEvidence, EvidenceInv, integration
    <2>5. ASSUME NEW w \in Waivers, GrantWaiver(w)
          PROVE  EvidenceInv'
      BY <2>5 DEF GrantWaiver, EvidenceInv, integration
    <2>6. ASSUME NEW form \in ReviewForms, Review(form[1], form[2])
          PROVE  EvidenceInv'
      BY <2>6 DEF Review, EvidenceInv, integration
    <2>7. QED
      BY <1>2, <2>1, <2>2, <2>3, <2>4, <2>5, <2>6 DEF Gather
  <1>3. ASSUME NEW value \in Configs, Configure(value)
        PROVE  EvidenceInv'
    BY <1>3 DEF Configure, EvidenceInv, gathered, integration
  <1>4. ASSUME NEW k \in Checks, RunCheck(k)
        PROVE  EvidenceInv'
    <2>1. PICK status \in Yields(k) :
            results' = [results EXCEPT ![k] =
              [status |-> status, candidate |-> candidate, config |-> config]]
      BY <1>4 DEF RunCheck
    <2> DEFINE result == [status |-> status, candidate |-> candidate, config |-> config]
    <2>2. results' = [results EXCEPT ![k] = result] /\ result.candidate = candidate
      BY <2>1
    <2> HIDE DEF result
    <2>3. QED
      BY <1>4, <2>2 DEF RunCheck, EvidenceInv, gathered, integration
  <1>5. ASSUME NEW k \in Checks, VerifyLanded(k)
        PROVE  EvidenceInv'
    BY <1>5, LandedVerifies
  <1>6. ASSUME NEW landing \in {candidate, MaxCandidate + 1}, Integrate(landing)
        PROVE  EvidenceInv'
    <2>1. \A k \in Checks : post[k] = NoResult
      BY <1>6 DEF Integrate, EvidenceInv
    <2>2. QED
      BY <1>6, <2>1 DEF Integrate, EvidenceInv, gathered
  <1>7. CASE UNCHANGED evidenceVars
    BY <1>7 DEF evidenceVars, EvidenceInv
  <1>8. QED
    BY <1>1, <1>2, <1>3, <1>4, <1>5, <1>6, <1>7 DEF EvidenceNext

LEMMA EvidenceAlways == EvidenceSpec => []EvidenceInv
  BY EvidenceStarts, EvidenceSteps, PTL DEF EvidenceSpec

\* A criterion counts towards READY_FOR_USER only on current check results and
\* waivers and on references, those of older candidates included, for any claims,
\* checks, requirements and waivers and after any history.
THEOREM CountsOnEvidence == EvidenceSpec => []SatisfiedIsEvidenced
  <1>1. EvidenceInv => SatisfiedIsEvidenced
    BY CountedIsEvidenced, VerificationAssumption DEF EvidenceInv, SatisfiedIsEvidenced, Backed
  <1>2. QED
    BY <1>1, EvidenceAlways, PTL

-----------------------------------------------------------------------------
(* What an edit does to claims and criteria.                                 *)

\* After an edit every result is stale: what is established then rests on
\* references, and was established before unless it was refuted or excused.
LEMMA EditedClaims ==
  ASSUME VerificationAssumption, EvidenceInv, EditCandidate, NEW claim
  PROVE  /\ EvaluateClaim(claim)' = "WAIVED" => Excused(claim)'
         /\ EvaluateClaim(claim)' # "DISPROVEN"
         /\ EvaluateClaim(claim)' = "ESTABLISHED" =>
              /\ Referring(claim) # {}
              /\ Refuted(claim) \/ Excused(claim) \/ EvaluateClaim(claim) = "ESTABLISHED"
         /\ EvaluateClaim(claim) = "DISPROVEN" => Refuted(claim)
         /\ EvaluateClaim(claim) = "WAIVED" => Excused(claim)
  <1> DEFINE referring == { k \in Checks : results[k] # NoResult /\ claim \in CheckSpec[k].claims }
             current == { k \in referring : ResultIsCurrent(k) }
             byCheck == "CHECK_RESULT" \in RequiredKinds[claim]
             counted == IF byCheck THEN current ELSE {}
             referenced == \E e \in evidence : e.claim = claim /\ e.kind \in RequiredKinds[claim]
             passed == \E k \in counted : results[k].status = "PASS"
             unclear == \E k \in counted : results[k].status \notin {"PASS", "FAIL"}
             failed == \E k \in counted : results[k].status = "FAIL"
             waived == \E w \in waivers : Waives(w, claim)
  <1>1. EvaluateClaim(claim) =
          IF waived THEN "WAIVED"
          ELSE IF failed THEN "DISPROVEN"
          ELSE IF (passed \/ referenced) /\ byCheck THEN "ESTABLISHED"
          ELSE IF (referring # current \/ unclear) \/ ~ (passed \/ referenced)
               THEN "INCONCLUSIVE" ELSE "ESTABLISHED"
    BY DEF EvaluateClaim
  <1>2. /\ evidence' = evidence /\ results' = results /\ waivers' = waivers /\ now' = now
        /\ candidate' = candidate + 1
    BY DEF EditCandidate, gathered
  <1>3. \A k \in referring : ~ ResultIsCurrent(k)'
    BY <1>2 DEF EvidenceInv, ResultIsCurrent
  <1>4. EvaluateClaim(claim)' =
          IF waived' THEN "WAIVED"
          ELSE IF referenced /\ byCheck THEN "ESTABLISHED"
          ELSE IF referring # {} \/ ~ referenced THEN "INCONCLUSIVE" ELSE "ESTABLISHED"
    <2>1. /\ referring' = referring /\ (referenced' <=> referenced) /\ (byCheck' <=> byCheck)
      BY <1>2
    <2>2. current' = {} /\ counted' = {}
      BY <1>2, <1>3
    <2>3. ~ failed' /\ ~ passed' /\ ~ unclear'
      BY <2>2
    <2>4. EvaluateClaim(claim)' =
          IF waived' THEN "WAIVED"
          ELSE IF failed' THEN "DISPROVEN"
          ELSE IF (passed' \/ referenced') /\ byCheck' THEN "ESTABLISHED"
          ELSE IF (referring' # current' \/ unclear') \/ ~ (passed' \/ referenced')
               THEN "INCONCLUSIVE" ELSE "ESTABLISHED"
      BY DEF EvaluateClaim
    <2> HIDE DEF referring, current, byCheck, counted, referenced, passed, unclear, failed, waived
    <2>5. QED
      BY <2>1, <2>2, <2>3, <2>4
  <1>5. waived <=> Excused(claim)
    BY WaivesExcuses DEF EvidenceInv
  <1>6. waived' => Excused(claim)'
    <2>1. \A w \in waivers : (w.expires = None \/ w.expires > now) => (w.expires # None => now < w.expires)
      BY DEF VerificationAssumption, EvidenceInv
    <2>2. QED
      BY <1>2, <2>1 DEF Waives, Excused
  <1>7. failed <=> Refuted(claim)
    BY DEF Refuted, Speaks, ResultIsCurrent
  <1>8. referenced <=> Referring(claim) # {}
    BY DEF Referring
  <1>9. referring = {} => current = {} /\ ~ unclear
    OBVIOUS
  <1> HIDE DEF referring, current, byCheck, counted, referenced, passed, unclear, failed, waived
  <1>10. QED
    BY <1>1, <1>4, <1>5, <1>6, <1>7, <1>8, <1>9

\* A criterion none of whose claims is waived or disproven counts by how many of
\* them are established.
Enough(req, established) ==
  CASE req.mode = "ALL" -> established = req.claims
    [] req.mode = "ANY" -> established # {}
    [] req.mode = "THRESHOLD" -> Cardinality(established) >= req.threshold

LEMMA CountsByEstablished ==
  ASSUME VerificationAssumption, NEW k \in Criteria,
         NEW established \in SUBSET Requirement[k].claims
  PROVE  LET req == Requirement[k]
             all == Cardinality(req.claims)
             count == Cardinality(established) IN
         /\ req.mode = "ALL" => (count + 0 = all <=> Enough(req, established))
         /\ req.mode = "ANY" =>
              /\ count > 0 <=> Enough(req, established)
              /\ 0 # all
         /\ req.mode = "THRESHOLD" =>
              /\ count + 0 >= req.threshold <=> Enough(req, established)
         /\ \A more \in SUBSET req.claims :
              established \subseteq more /\ Enough(req, established) => Enough(req, more)
         /\ Enough(req, established) => established # {}
  <1> DEFINE req == Requirement[k]
  <1>1. /\ IsFiniteSet(req.claims) /\ req.claims # {} /\ req.mode \in {"ALL", "ANY", "THRESHOLD"}
        /\ req.mode = "THRESHOLD" => req.threshold \in Nat \ {0}
    BY DEF VerificationAssumption
  <1>2. IsFiniteSet(established) /\ Cardinality(established) \in Nat /\ Cardinality(req.claims) \in Nat
    BY <1>1, FS_Subset, FS_CardinalityType
  <1>3. (Cardinality(established) = 0 <=> established = {}) /\ Cardinality(req.claims) # 0
    BY <1>1, <1>2, FS_EmptySet
  <1>4. Cardinality(established) = Cardinality(req.claims) <=> established = req.claims
    BY <1>1, FS_Subset
  <1>5. ASSUME NEW more \in SUBSET req.claims, established \subseteq more
        PROVE  Cardinality(more) \in Nat /\ Cardinality(established) <= Cardinality(more)
    <2>1. IsFiniteSet(more)
      BY <1>1, FS_Subset
    <2>2. QED
      BY <1>5, <2>1, FS_Subset, FS_CardinalityType
  <1> HIDE DEF req
  <1>6. ASSUME req.mode = "ALL"
        PROVE  Enough(req, established) <=> Cardinality(established) + 0 = Cardinality(req.claims)
    BY <1>2, <1>4, <1>6 DEF Enough
  <1>7. ASSUME req.mode = "ANY"
        PROVE  Enough(req, established) <=> Cardinality(established) > 0
    BY <1>2, <1>3, <1>7 DEF Enough
  <1>8. ASSUME req.mode = "THRESHOLD"
        PROVE  /\ Enough(req, established) <=> Cardinality(established) + 0 >= req.threshold
               /\ req.threshold \in Nat \ {0}
    BY <1>1, <1>2, <1>8 DEF Enough
  <1>9. Enough(req, established) => established # {}
    <2>1. CASE req.mode = "ALL"
      BY <1>1, <2>1 DEF Enough
    <2>2. CASE req.mode = "ANY"
      BY <2>2 DEF Enough
    <2>3. CASE req.mode = "THRESHOLD"
      BY <1>2, <1>3, <1>8, <2>3
    <2>4. QED
      BY <1>1, <2>1, <2>2, <2>3
  <1>10. ASSUME NEW more \in SUBSET req.claims, established \subseteq more, Enough(req, established)
         PROVE  Enough(req, more)
    <2>1. CASE req.mode = "ALL"
      <3>1. established = req.claims
        BY <1>10, <2>1 DEF Enough
      <3>2. more = req.claims
        BY <1>10, <3>1
      <3>3. QED
        BY <2>1, <3>2 DEF Enough
    <2>2. CASE req.mode = "ANY"
      BY <1>10, <2>2 DEF Enough
    <2>3. CASE req.mode = "THRESHOLD"
      <3>1. Cardinality(established) >= req.threshold
        BY <1>10, <2>3 DEF Enough
      <3>2. Cardinality(more) >= req.threshold
        BY <1>2, <1>5, <1>8, <1>10, <2>3, <3>1
      <3>3. QED
        BY <2>3, <3>2 DEF Enough
    <2>4. QED
      BY <1>1, <2>1, <2>2, <2>3
  <1>11. QED
    BY <1>3, <1>6, <1>7, <1>8, <1>9, <1>10 DEF req

\* With no claim waived or disproven, a criterion counts when enough claims are
\* established.
Counts(k) == EvaluateCriterion(k) \in {"SATISFIED", "WAIVED"}
Established(k) == { c \in Requirement[k].claims : EvaluateClaim(c) = "ESTABLISHED" }
Plain(k) == \A c \in Requirement[k].claims : EvaluateClaim(c) \notin {"WAIVED", "DISPROVEN"}

LEMMA CountsWhenEnough ==
  ASSUME VerificationAssumption
  PROVE  \A k \in Criteria : Plain(k) => (Counts(k) <=> Enough(Requirement[k], Established(k)))
  <1> SUFFICES ASSUME NEW k \in Criteria, Plain(k)
               PROVE  Counts(k) <=> Enough(Requirement[k], Established(k))
    OBVIOUS
  <1> DEFINE req == Requirement[k]
             In(state) == { c \in req.claims : EvaluateClaim(c) = state }
             established == In("ESTABLISHED")
  <1>1. In("DISPROVEN") = {} /\ In("WAIVED") = {}
    BY DEF Plain
  <1>2. Cardinality(In("WAIVED")) = 0
    BY <1>1, FS_EmptySet
  <1>3. EvaluateCriterion(k) =
          CASE req.mode = "ALL" ->
                 IF Cardinality(established) + 0 = Cardinality(req.claims) THEN "SATISFIED" ELSE "INCONCLUSIVE"
            [] req.mode = "ANY" ->
                 IF Cardinality(established) > 0 THEN "SATISFIED"
                 ELSE IF req.allow_waiver /\ 0 = Cardinality(req.claims) THEN "WAIVED" ELSE "INCONCLUSIVE"
            [] req.mode = "THRESHOLD" ->
                 IF Cardinality(established) + (IF req.allow_waiver THEN 0 ELSE 0) >= req.threshold
                 THEN "SATISFIED" ELSE "INCONCLUSIVE"
    BY <1>1, <1>2 DEF EvaluateCriterion
  <1>4. established \in SUBSET req.claims
    OBVIOUS
  <1>5. req.mode \in {"ALL", "ANY", "THRESHOLD"}
    BY DEF VerificationAssumption
  <1> HIDE DEF established
  <1>6. /\ req.mode = "ALL" => (Cardinality(established) + 0 = Cardinality(req.claims) <=> Enough(req, established))
        /\ req.mode = "ANY" => (Cardinality(established) > 0 <=> Enough(req, established)) /\ 0 # Cardinality(req.claims)
        /\ req.mode = "THRESHOLD" => (Cardinality(established) + 0 >= req.threshold <=> Enough(req, established))
    BY <1>4, CountsByEstablished
  <1> HIDE DEF req, In
  <1>7. EvaluateCriterion(k) \in {"SATISFIED", "WAIVED"} <=> Enough(req, established)
    BY <1>3, <1>5, <1>6
  <1>8. QED
    BY <1>7 DEF req, established, In, Counts, Established

\* An edit lets a criterion count anew only as EditOpensNothing says: with no
\* waiver in force after it, all that is established is referenced; and if nothing
\* was refuted or excused before it, all of that was established then.
THEOREM EditsOpenNothing == EvidenceSpec => EditOpensNothing
  <1>1. ASSUME EvidenceInv, EditCandidate, NEW k \in Criteria, Counts(k)',
               Plain(k) => (Counts(k) <=> Enough(Requirement[k], Established(k))),
               (Plain(k) => (Counts(k) <=> Enough(Requirement[k], Established(k))))'
        PROVE  \/ Counts(k)
               \/ \E c \in Requirement[k].claims : Excused(c)'
               \/ /\ \E c \in Requirement[k].claims : Referring(c) # {}
                  /\ \E c \in Requirement[k].claims : Refuted(c) \/ Excused(c)
    <2> SUFFICES ASSUME \A c \in Requirement[k].claims : ~ Excused(c)'
                 PROVE  \/ Counts(k)
                        \/ /\ \E c \in Requirement[k].claims : Referring(c) # {}
                           /\ \E c \in Requirement[k].claims : Refuted(c) \/ Excused(c)
      OBVIOUS
    <2>1. \A c \in Requirement[k].claims :
            /\ EvaluateClaim(c)' \notin {"WAIVED", "DISPROVEN"}
            /\ EvaluateClaim(c)' = "ESTABLISHED" =>
                 /\ Referring(c) # {}
                 /\ Refuted(c) \/ Excused(c) \/ EvaluateClaim(c) = "ESTABLISHED"
            /\ EvaluateClaim(c) \in {"WAIVED", "DISPROVEN"} => Refuted(c) \/ Excused(c)
      <3> TAKE c \in Requirement[k].claims
      <3>1. /\ EvaluateClaim(c)' = "WAIVED" => Excused(c)'
            /\ EvaluateClaim(c)' # "DISPROVEN"
            /\ EvaluateClaim(c)' = "ESTABLISHED" =>
                 /\ Referring(c) # {}
                 /\ Refuted(c) \/ Excused(c) \/ EvaluateClaim(c) = "ESTABLISHED"
            /\ EvaluateClaim(c) = "DISPROVEN" => Refuted(c)
            /\ EvaluateClaim(c) = "WAIVED" => Excused(c)
        BY <1>1, VerificationAssumption, EditedClaims
      <3>2. ~ Excused(c)'
        OBVIOUS
      <3>3. QED
        BY <3>1, <3>2
    <2>2. Plain(k)' /\ Enough(Requirement[k], Established(k)')
      BY <1>1, <2>1 DEF Plain, Enough
    <2>3. Established(k)' \in SUBSET Requirement[k].claims /\ Established(k) \in SUBSET Requirement[k].claims
      BY DEF Established
    <2>4. PICK c \in Established(k)' : TRUE
      BY <2>2, <2>3, VerificationAssumption, CountsByEstablished
    <2>5. c \in Requirement[k].claims /\ Referring(c) # {}
      BY <2>1 DEF Established
    <2>6. CASE \E d \in Requirement[k].claims : Refuted(d) \/ Excused(d)
      BY <2>5, <2>6
    <2>7. CASE \A d \in Requirement[k].claims : ~ Refuted(d) /\ ~ Excused(d)
      <3>1. Established(k)' \subseteq Established(k)
        BY <2>1, <2>7 DEF Established
      <3>2. Plain(k)
        BY <2>1, <2>7 DEF Plain
      <3>3. Enough(Requirement[k], Established(k))
        BY <2>2, <2>3, <3>1, VerificationAssumption, CountsByEstablished
      <3>4. QED
        BY <1>1, <3>2, <3>3
    <2>8. QED
      BY <2>6, <2>7
  <1> DEFINE Counting == \A k \in Criteria : Plain(k) => (Counts(k) <=> Enough(Requirement[k], Established(k)))
             Edited == candidate' # candidate =>
               \A k \in Criteria : Counts(k)' =>
                 \/ Counts(k)
                 \/ \E c \in Requirement[k].claims : Excused(c)'
                 \/ /\ \E c \in Requirement[k].claims : Referring(c) # {}
                    /\ \E c \in Requirement[k].claims : Refuted(c) \/ Excused(c)
  <1>2. Counting
    BY VerificationAssumption, CountsWhenEnough
  <1>3. EvidenceInv /\ Counting /\ Counting' /\ [EvidenceNext]_evidenceVars => Edited
    <2> SUFFICES ASSUME EvidenceInv, Counting, Counting', EvidenceNext, candidate' # candidate
                 PROVE  Edited
      BY DEF evidenceVars
    <2>1. EditCandidate
      BY DEF EvidenceNext, Gather, Tick, PersistManifest, ReviewStatus, RecordEvidence, GrantWaiver,
             Review, Configure, RunCheck, VerifyLanded, Integrate
    <2>2. QED
      BY <1>1, <2>1
  <1>4. Edited => [ candidate' # candidate =>
      \A k \in Criteria :
        EvaluateCriterion(k)' \in {"SATISFIED", "WAIVED"} =>
          \/ EvaluateCriterion(k) \in {"SATISFIED", "WAIVED"}
          \/ \E c \in Requirement[k].claims : Excused(c)'
          \/ /\ \E c \in Requirement[k].claims : Referring(c) # {}
             /\ \E c \in Requirement[k].claims : Refuted(c) \/ Excused(c)
    ]_evidenceVars
    BY DEF Counts
  <1>5. QED
    BY <1>2, <1>3, <1>4, EvidenceAlways, PTL DEF EvidenceSpec, EditOpensNothing

\* What is accepted was verified on the tree that landed.
THEOREM AcceptedOnLanded == EvidenceSpec => []AcceptedWhereLanded
  <1>1. EvidenceInv => AcceptedWhereLanded
    BY DEF EvidenceInv, AcceptedWhereLanded, EvaluateAccepted, NoResult
  <1>2. QED
    BY <1>1, EvidenceAlways, PTL
=============================================================================
