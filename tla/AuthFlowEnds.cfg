SPECIFICATION SilentClientSpec
CONSTANTS
  c1 = c1
  c2 = c2
  c3 = c3
  home = home
  work = work
  lab = lab
  NoCall = NoCall
  NoAccount = NoAccount
  Calls <- McTwoCalls
  RecoveryCalls = {c3}
  Accounts <- McAccounts
  DefaultAccount = home
  MethodOf <- McMethodOf
  AccountOf <- McTwoAccountOf
PROPERTY EveryFlowEnds
