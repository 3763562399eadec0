CONSTANTS
  Vars = {v1, v2, v3}
  Cells = {a1, a2, a3, a4}
  MaxElements = 2
SPECIFICATION Spec
INVARIANT OwnedOnce
PROPERTY ImplementsValueSemantics
SYMMETRY Symmetry
