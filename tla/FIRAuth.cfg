SPECIFICATION FairAuthSpec
CONSTANTS
  Uids = {a, b}
  Tokens = {a1, a2, b1}
  a = a
  b = b
  a1 = a1
  a2 = a2
  b1 = b1
  UidOf <- MCUidOf
  Calls <- MCCalls
  None = None
  Fresh = Fresh
  Unused = Unused
  Listeners = {l1, l2}
  MaxQueue = 5
PROPERTIES
  KeepsPromise
INVARIANTS
  AuthTypeOK
  NoLostAuthChange
  AnnouncedIsCurrent
  LastPostIsCurrent
  SignedInIsPersisted
