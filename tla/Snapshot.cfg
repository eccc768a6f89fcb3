SPECIFICATION Spec
CONSTANTS
  Paths = {p, q}
  Contents = {e, b}
  Empty = e
  MaxEdits = 2
SYMMETRY Symmetry
INVARIANTS NothingDropped VerifiedIsSource ReplayReproduces
CHECK_DEADLOCK FALSE
