SPECIFICATION Spec
CONSTANTS
  Recipe = {g1, g2}
  Shipped = g1
  Worker = {w1, w2}
  MaxScripts = 4
  MaxStarts = 3
SYMMETRY Symmetry
INVARIANTS ReleaseTypeOK BlindEvaluation RerunRepairs
