SPECIFICATION Spec
CONSTANTS
  Body = {b1}
  Name <- MCName
  User <- TwoUsers
  SharedName = "Shared_with_me"
  StartsWith <- MCStartsWith
  Numbered <- MCNumbered
  InputPath <- TreePaths
  NameLength <- LengthOfTwo
  MaxNumber = 2
  MaxFilecount = 3
INVARIANTS
  TreeOK
  SharedDirClean
PROPERTIES
  HomesKept
