----------------------------- MODULE RepoPaths -----------------------------
(***************************************************************************)
(* Names of files under the governed root, and what                        *)
(* _resource_normalization.py makes of them.  A name is a sequence of      *)
(* components; a place is a name without links and "..", and one that      *)
(* begins with ".." lies outside the root.  `there' is the set of the      *)
(* places where a file or a directory is.                                  *)
(***************************************************************************)
EXTENDS Naturals, Sequences
LOCAL INSTANCE SequencesExt
LOCAL INSTANCE FiniteSetsExt

CONSTANTS Links,   \* place of a link -> the place it leads to, all links followed
          Refused  \* the answer when normalize_repo_path raises

Inside(place) == place = <<>> \/ Head(place) # ".."
Prefix(name, n) == SubSeq(name, 1, n)
Suffix(name, n) == SubSeq(name, n + 1, Len(name))

\* Path.resolve: component by component, through every link.
Resolve(name) ==
  FoldLeft(LAMBDA at, part :
             LET next == Append(at, part)
             IN IF next \in DOMAIN Links THEN Links[next] ELSE next,
           <<>>, name)

\* Path.exists, with and without its last link.
Exists(name, there) == Resolve(name) \in there
LinkOrExists(name, there) ==
  LET last == Append(Resolve(Front(name)), Last(name))
  IN last \in DOMAIN Links \/ last \in there

\* Steps 3 and 4: ".." takes back the component before it, whatever that is; a
\* name with nothing left to take back leaves the root.
Collapse(raw) ==
  FoldLeft(LAMBDA parts, part :
             IF part = ".." /\ parts # <<>> /\ Inside(parts)
             THEN Front(parts) ELSE Append(parts, part),
           <<>>, raw)

\* Mutant: the canonical name is the collapsed one, links and all.
NormalizeByText(raw, there) ==
  IF Collapse(raw) = <<>> \/ ~Inside(Resolve(Collapse(raw))) THEN Refused ELSE Collapse(raw)

\* Steps 5 and 6: what exists is resolved; what is to be created keeps the part
\* that does not exist behind its nearest existing ancestor, resolved.  A link
\* that leads nowhere is refused at the end of a name, and stands in it elsewhere.
Canonical(name, there) ==
  LET anchor == Max({n \in 0..(Len(name) - 1) : Exists(Prefix(name, n), there)}) IN
  IF LinkOrExists(name, there)
  THEN IF Exists(name, there) THEN Resolve(name) ELSE Refused
  ELSE Resolve(Prefix(name, anchor)) \o Suffix(name, anchor)

NormalizeRepoPath(raw, there) ==
  LET name == Collapse(raw) IN
  IF name = <<>> \/ ~Inside(name) \/ Canonical(name, there) = Refused
     \/ ~Inside(Canonical(name, there))
  THEN Refused ELSE Canonical(name, there)

\* The directories a place lies in.
Parents(place) == { Prefix(place, n) : n \in 0..(Len(place) - 1) }
=============================================================================
