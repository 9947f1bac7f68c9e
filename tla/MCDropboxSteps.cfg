SPECIFICATION StepSpec
CONSTANTS
  Body = {b1, b2}
  Name <- MCName
  User <- ThreeUsers
  SharedName = "Shared_with_me"
  StartsWith <- MCStartsWith
  Numbered <- MCNumbered
  InputPath <- SharingPaths
  NameLength <- LengthOfThree
  MaxNumber = 1
  MaxFilecount = 3
SYMMETRY BodySymmetry
INVARIANTS
  LinksKeepContent
  OneOwnerOff
  OneVersion
PROPERTIES
  ImplementsHandlers
