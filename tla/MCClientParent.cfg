SPECIFICATION ClientSpec
CONSTANTS
  Body = {b1}
  Name <- MCName
  User <- OneUser
  SharedName = "Shared_with_me"
  StartsWith <- MCStartsWith
  Numbered <- MCNumbered
  InputPath = {}
  NameLength <- LengthOfOne
  MaxNumber = 0
  MaxFilecount = 2
  Client = {c1}
  NoClient = NoClient
  Typed <- OneTyped
  MaxDepth = 2
  MaxToken = 1
PROPERTIES
  ParentOfRootIsRoot
