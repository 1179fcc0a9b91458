SPECIFICATION MCSpec
CONSTANTS
  Module <- MCModule
  Feature <- MCFeature
  Declared <- MCDeclared
  Imports <- MCImports
  Expr <- MCExpr
  Eval <- EvaluateIfFeature
  Root = "m"
  Schema <- MCSchema
  Instances <- MCInstances
  Fitting <- MCFitting
CHECK_DEADLOCK FALSE
INVARIANTS
  TypeOK
  ResultConsistent
  GreatestConsistent
  ConditionsRight
  InferredExact
PROPERTY
  Terminates
