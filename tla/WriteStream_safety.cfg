SPECIFICATION Spec
CONSTANTS
  a = a
  Uids = {a}
  Tokens = {a}
  UidOf <- MCUidOf
  Listeners = {}
  Calls <- TokenCalls
  None = None
  Fresh = Fresh
  Unused = Unused
  Failed = Failed
  Unasked = Unasked
  MaxQueue = 2
  MaxEvents = 1
  MaxPipeline = 3
  MaxWrites = 3
  MaxFaults = 1
CHECK_DEADLOCK FALSE
INVARIANTS
  SentAsOwner
  TokenFitsUser
  TypeOK
  NoWriteLost
  AckedSurvives
  CallbackIsOwn
  NoAssertFails
PROPERTIES
  KeepsOrder
