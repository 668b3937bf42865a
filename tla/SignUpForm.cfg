SPECIFICATION Spec
CONSTANTS
  Values <- MCValues
  MaxRequests = 2
INVARIANTS
  RequestsAreValid
  SignUpImpliesSignIn
  OneMessage
