SPECIFICATION Spec
CONSTANTS
  Commands = {c1}
  NoRequest = NoRequest
  Tenants = {"t1", "t2"}
  Subjects = {"mod", "boss", "root"}
  Actions = {"ban", "mute"}
  Destructive = {"ban"}
  Tokens <- SixTokens
  Lists <- ThreeLists
  Threshold = 1
INVARIANTS
  TypeOK
  BulkIsVouched
  TenantsApart
  NamesAreTrue
CHECK_DEADLOCK FALSE
