SPECIFICATION KillSpec
CONSTANTS
  Body = {b1}
  Name <- MCName
  User <- TwoUsers
  SharedName = "Shared_with_me"
  StartsWith <- MCStartsWith
  Numbered <- MCNumbered
  InputPath <- DedupPaths
  NameLength <- LengthOfTwo
  MaxNumber = 1
  MaxFilecount = 3
INVARIANTS
  UsersHaveHomes
