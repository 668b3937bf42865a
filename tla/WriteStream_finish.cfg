SPECIFICATION FairSpec
CONSTANTS
  a = a
  Uids = {a}
  Tokens = {a}
  UidOf <- MCUidOf
  Listeners = {}
  Calls <- TokenCalls
  None = None
  Fresh = Fresh
  Unused = Unused
  Failed = Failed
  Unasked = Unasked
  MaxQueue = 2
  MaxEvents = 1
  MaxPipeline = 1
  MaxWrites = 2
  MaxFaults = 1
CHECK_DEADLOCK FALSE
PROPERTIES
  WritesFinish
