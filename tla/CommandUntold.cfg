SPECIFICATION Spec
CONSTANTS
  c1 = c1
  c2 = c2
  c3 = c3
  Commands = {c1, c2, c3}
  MaxRetry = 1
INVARIANTS
  ToldWhenOver
