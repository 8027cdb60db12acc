SPECIFICATION Spec
CONSTANTS
  Pods = {p1}
  Keys = {k1}
  Requests = {r1, r2}
  MaxEntries = 2
  OneAtATime = TRUE
  CallsFail = TRUE
  PodsRestart = FALSE
SYMMETRY Symmetry
INVARIANT
  ChargedAtMostOnce
