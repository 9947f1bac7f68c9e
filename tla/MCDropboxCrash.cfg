SPECIFICATION CrashSpec
CONSTANTS
  Body = {b1, b2}
  Name <- MCName
  User <- TwoUsers
  SharedName = "Shared_with_me"
  StartsWith <- MCStartsWith
  Numbered <- MCNumbered
  NameLength <- LengthOfTwo
  MaxNumber = 1
  MaxFilecount = 3
  InputPath <- DedupPaths
INVARIANTS
  UniqueNames
