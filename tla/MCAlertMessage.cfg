CONSTANTS
  Inputs <- MCInputs
  NumBytes = {0, 1, 2, 3, 5, 6, 9, 10, 11, 12, 13, 14, 15, 16, 17, 18, 19, 20, 21, 22, 23, 24, 25, 26, 27, 28, 29, 30}
  MaxRequirements = 2
  None = None
SPECIFICATION Spec
INVARIANTS TypeOK StaysInBounds AcceptedIsTheMessage EncodedIsAccepted
