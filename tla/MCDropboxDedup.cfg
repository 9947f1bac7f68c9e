SPECIFICATION Spec
CONSTANTS
  Body = {b1, b2}
  Name <- MCName
  User <- TwoUsers
  SharedName = "Shared_with_me"
  StartsWith <- MCStartsWith
  Numbered <- MCNumbered
  InputPath <- DrivePaths
  NameLength <- LengthOfTwo
  MaxNumber = 1
  MaxFilecount = 3
SYMMETRY BodySymmetry
INVARIANTS
  TypeOK
  Dedup
  StoreAgrees
  OwnersRight
  NumberFresh
PROPERTIES
  StoreImmutable
  ImplementsDrive
