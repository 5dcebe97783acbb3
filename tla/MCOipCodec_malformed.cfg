SPECIFICATION Spec
CONSTANTS
  Names <- MCNames
  Requests <- MCMalformed
  Results <- MCResults
  Specs <- MCSpecs
  NonFinite <- MCNonFinite
  Half32 <- MCHalf32
  Half64 <- MCHalf64
  NoRequest = NoRequest
INVARIANTS MalformedIsZero
