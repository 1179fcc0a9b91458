SPECIFICATION Spec
CONSTANTS
  Stmt <- MCStmt
  Name <- MCName
  Roots <- ChoiceRoots
  Gated <- MCGated
  Documents <- MCDocuments
  Again <- MCAgain
  Default <- MCDefault
  When <- MCWhen
  Must <- MCMust
  TypeFails <- MCTypeFails
INVARIANTS
  TypeOK
  StateFollowsControl
  ActiveCaseHasData
  VerdictCorrect
  UnknownFieldsExact
PROPERTY
  Terminates
