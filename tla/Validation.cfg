SPECIFICATION Spec
CONSTANTS
  Numerals <- MCNumerals
  Before <- MCBefore
  Derived <- MCDerived
  Typedefs <- MCTypedefs
  Matches <- MCMatches
  Words <- MCWords
  Octets <- MCOctets
  Fraction <- MCFraction
  Spelled <- MCSpelled
  IdentityOf <- MCIdentityOf
  Sources <- MCSources
INVARIANTS ParsedRight CacheSound VerdictExact
