SPECIFICATION Spec
CONSTANTS
  Recipe = {g1}
  Shipped = g1
  Worker = {w1}
  MaxScripts = 1
  MaxStarts = 1
INVARIANT ServesAsTuned
