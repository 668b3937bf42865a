SPECIFICATION AppSpec
CONSTANTS
  a = a
  b = b
  a1 = a1
  a2 = a2
  b1 = b1
  Uids = {a, b}
  Tokens = {a1, b1}
  UidOf <- OneTokenEach
  Listeners = {l1, l2}
  Flows = {f1, f2}
  Calls <- AppCalls
  InitDocs = {"user", "undecodable"}
  None = None
  Fresh = Fresh
  Unused = Unused
  MaxQueue = 8
  MaxEvents = 2
  MaxFaults = 1
CHECK_DEADLOCK FALSE
SYMMETRY Symmetry
INVARIANTS
  FirestoreFollowsAuth
PROPERTIES
  SignInSpinsOnlyByFetch
  SignUpSpinsOnlyBySignOut
  OrphanOnlyByFault
  StrandedOnlyByFetch
  WrongUserOnlyByFetch
