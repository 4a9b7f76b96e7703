SPECIFICATION MCSpec
CONSTANTS
  Goroutines = {g1, g2}
  Blocks = {b1, b2, b3, b4}
  Contents = {good, bad}
  JSON = {good}
SYMMETRY Symmetry
INVARIANTS
  ValuesAreIsolated
  JSONStaysValid
  IInv
PROPERTY
  ValuesNeverChange
  ImplementsValues
