SPECIFICATION Spec
CONSTANTS
  a = a
  b = b
  a1 = a1
  a2 = a2
  b1 = b1
  Uids = {a, b}
  Tokens = {a1, a2, b1}
  UidOf <- MCUidOf
  Listeners = {}
  Calls = {}
  None = None
  Fresh = Fresh
  Unused = Unused
  MaxQueue = 1
  MaxWait = 1
  MaxTimers = 1
  MaxTasks = 2
SYMMETRY Symmetry
INVARIANTS
  TypeOK
  FlagIsTrue
  RefreshGoesOn
