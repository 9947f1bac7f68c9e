SPECIFICATION Spec
CONSTANTS
  Client = {c1, c2}
  Method = {known, unknown}
  Registered = {known}
  Tag = {t1}
  Array = {a1, a2}
  Nobody = Nobody
  Main = Main
  Error = Error
INVARIANTS
  ReplyIsOwn
