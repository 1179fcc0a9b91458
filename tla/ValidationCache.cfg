SPECIFICATION Spec
CONSTANTS
  Numerals <- MCNumerals
  Before <- MCBefore
  Derived <- MCDerived
  Typedefs <- MCTypedefs
  Matches <- MCMatches
  Words <- MCWords
  Octets <- MCOctets
  Fraction <- MCFraction
  Spelled <- MCSpelled
  IdentityOf <- MCIdentityOf
  Sources <- CacheSources
INVARIANT VerdictExact
