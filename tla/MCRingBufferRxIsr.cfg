SPECIFICATION Spec
CONSTANTS
  Size = 3
  Byte = {0, 1, 2}
  Nul = 0
  IsrOps <- RxIsr
INVARIANT CountMatchesOffsets
