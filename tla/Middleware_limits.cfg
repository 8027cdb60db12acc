SPECIFICATION Spec
CONSTANTS
  Clients = {c1, c2, c3}
  Requests = {r1, r2}
  Capacity = 2
  MaxEntries = 2
  MaxBack = 2
  MaxAhead = 1
  MaxEvictions = 1
SYMMETRY Symmetric
INVARIANTS
  TypeOK
  AdmissionBound
  RefusalIsDue
  AnsweredIsAudited
