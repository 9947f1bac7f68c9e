SPECIFICATION Spec
CONSTANTS
  Body = {b1}
  Name <- MCName
  User <- LikeUsers
  SharedName = "Shared_with_me"
  StartsWith <- MCStartsWith
  Numbered <- MCNumbered
  NameLength <- LengthOfLike
  MaxNumber = 1
  MaxFilecount = 3
  InputPath <- LikePaths
PROPERTIES
  Sandboxed
