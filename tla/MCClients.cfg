SPECIFICATION ClientSpec
CONSTANTS
  Body = {b1}
  Name <- MCName
  User <- AllUsers
  SharedName = "Shared_with_me"
  StartsWith <- MCStartsWith
  Numbered <- MCNumbered
  InputPath = {}
  NameLength <- LengthOfAll
  MaxNumber = 0
  MaxFilecount = 3
  Client = {c1, c2}
  NoClient = NoClient
  Typed <- BesideTyped
  MaxDepth = 3
  MaxToken = 2
SYMMETRY ClientSymmetry
PROPERTIES
  OnlySessionsChange
  StaleForGood
INVARIANTS
  SessionSound
  HomeBound
