SPECIFICATION Spec
CONSTANTS
  Pods = {p1, p2}
  Keys = {k1, k2}
  Requests = {r1, r2, r3}
  MaxEntries = 1
  OneAtATime = FALSE
  CallsFail = TRUE
  PodsRestart = TRUE
SYMMETRY Symmetry
INVARIANTS
  TypeOK
  InFlightIsExact
  RepliesAreTrue
  DoubleChargeHasACause
PROPERTIES
  GracefulExitDropsNothing
  ContractSpec
