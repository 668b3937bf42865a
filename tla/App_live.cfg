SPECIFICATION FairAppSpec
CONSTANTS
  a = a
  b = b
  a1 = a1
  a2 = a2
  b1 = b1
  Uids = {a, b}
  Tokens = {a1, a2, b1}
  UidOf <- MCUidOf
  Listeners = {l1, l2}
  Flows = {f1}
  Calls <- AppCalls
  InitDocs = {"user"}
  None = None
  Fresh = Fresh
  Unused = Unused
  MaxQueue = 8
  MaxEvents = 4
  MaxFaults = 0
CHECK_DEADLOCK FALSE
PROPERTIES
  Settles
  SignUpEntersApp
  ImplementsFIRAuth
INVARIANTS
  AppTypeOK
