CONSTANTS
  NumBlocks = 3
  Nobody = Nobody
SPECIFICATION Spec
INVARIANT ObjectsKeepTheirContent
