SPECIFICATION Spec
CONSTANTS
  Nodes = {n1, n2}
  Attrs = {1, 2}
  Values = {0, 1}
  Initial = 0
  Requests = {r1, r2}
  MaxWrites = 3
SYMMETRY NodeSymmetry
INVARIANTS
  TypeOK
  Settled
  ReportedIsConfirmed
