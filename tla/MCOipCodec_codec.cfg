SPECIFICATION Spec
CONSTANTS
  Names <- MCNames
  Requests <- MCRequests
  Results <- MCResults
  Specs <- MCSpecs
  NonFinite <- MCNonFinite
  Half32 <- MCHalf32
  Half64 <- MCHalf64
  NoRequest = NoRequest
INVARIANTS TypeOK DecodedAsMeant TypedFits EchoDecodes
