SPECIFICATION Spec
CONSTANTS
  Module <- MCModule
  Ident <- MCIdent
  Prefix <- MCPrefix
  NoPrefix <- MCNoPrefix
  PrefixTarget <- MCPrefixTarget
  BaseSets <- MCBaseSets
  Queries <- MCQueries
CHECK_DEADLOCK FALSE
INVARIANTS
  TypeOK
  AnswerExact
  EnumExact
PROPERTY
  Implements
