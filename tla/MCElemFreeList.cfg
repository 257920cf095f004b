CONSTANTS
  PageSize = 2
  MaxPages = 3
  MaxBucket = 2
SPECIFICATION Spec
INVARIANT ListsAgree
PROPERTIES HintHonoured SlotSpec
