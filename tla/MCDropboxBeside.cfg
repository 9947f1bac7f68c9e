SPECIFICATION Spec
CONSTANTS
  Body = {b1}
  Name <- MCName
  User <- MoreUsers
  SharedName = "Shared_with_me"
  StartsWith <- MCStartsWith
  Numbered <- MCNumbered
  InputPath <- BesidePaths
  NameLength <- LengthOfMore
  MaxNumber = 1
  MaxFilecount = 3
PROPERTIES
  HomesKept
  ImplementsDrive
