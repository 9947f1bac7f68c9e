\* Types in circles: what is registered, what is refused, and an end to the search.
CONSTANTS
  t = t
  u = u
  w = w
  Upload = Upload
  List = List
  Type = {t, u, w}
  MaxParts = 2
  Name = {Upload, List}
  Func <- Methods
SPECIFICATION Spec
\* A panic, a failure to listen and a server that serves end the start-up.
CHECK_DEADLOCK FALSE
INVARIANTS OnlyTransportable OnlyMisfitsRefused
PROPERTY ChecksEnd
