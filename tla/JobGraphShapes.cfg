SPECIFICATION Spec
CONSTANTS
  Node <- ShapesNodes
  Gate = {"gate"}
  Async = {"b"}
  MaxAttempts <- ShapesAttempts
  Plans <- PlansShapes
  Patches <- PatchesShapes
INVARIANTS
  TypeOK
  DependenciesFirst
  NoDoomedPending
  EndedTogether
  HoldFollowsJob
  SuccessIsComplete
  AbortReasonKept
PROPERTIES
  NodesLive
  ContractSpec
