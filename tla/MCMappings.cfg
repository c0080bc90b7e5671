SPECIFICATION Spec
CONSTANTS
  Pages = 5
  Value = {0, 1}
INVARIANTS WellFormed
PROPERTY Refinement
