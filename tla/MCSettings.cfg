CONSTANTS
  Apps = {a1, a2}
  Rows = {r1, r2}
  NoApp = NoApp
SYMMETRY Symmetry
SPECIFICATION Spec
INVARIANT ChoiceIsKept
