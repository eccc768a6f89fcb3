SPECIFICATION Spec
CONSTANTS
  Writers = {w1, w2}
  PutPaths = {p, q}
  OutputPaths = {a}
  Rooted = {p}
SYMMETRY Symmetry
INVARIANTS ObjectsWhole InstalledSurvives
PROPERTIES ImplementsStore
