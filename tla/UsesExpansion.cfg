CONSTANTS
  Type = {"t", "u", "v", "w"}
  Prop = {"type", "mandatory"}
  Refinable <- RefinableKinds
  None = None
  Sources <- Modules
  FoundIn <- NodesFound
  Extended <- ExtendFound
  Copyable <- CanCopy
SPECIFICATION Spec
CHECK_DEADLOCK FALSE
INVARIANTS TypeOK ChainDistinct ResultCorrect VerdictCorrect GroupingTypesRegistered
PROPERTY Terminates
