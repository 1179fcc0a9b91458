SPECIFICATION Spec
CONSTANTS
  Sources <- AllSources
  Extensions <- Imported
INVARIANTS
  TypeOK
  BracesMatch
  ParsedExact
PROPERTY
  Terminates
