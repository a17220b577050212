SPECIFICATION Spec
CONSTANTS
  c1 = c1
  c2 = c2
  c3 = c3
  home = home
  work = work
  lab = lab
  NoCall = NoCall
  NoAccount = NoAccount
  Calls <- McCalls
  RecoveryCalls = {c3}
  Accounts <- McAccounts
  DefaultAccount = home
  MethodOf <- McMethodOf
  AccountOf <- McAccountOf
INVARIANTS
  TypeOK
  SingleFlightUnlessStale
  AuthInv
  CountMatchesFlows
  AuthenticatedIsEarned
  WaitIsTruthful
  RetriesOnceWithToken
PROPERTY FlowTargetsResolvedAccount
