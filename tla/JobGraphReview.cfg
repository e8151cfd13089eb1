SPECIFICATION FairSpec
CONSTANTS
  Node <- ReviewNodes
  Gate = {"gate"}
  Async = {"shot", "redo"}
  MaxAttempts <- ReviewAttempts
  Plans <- PlansReview
  Patches <- PatchesReview
INVARIANTS
  RunningHasDeadline
PROPERTIES
  EveryJobEnds
