SPECIFICATION FairSpec
CONSTANTS
  c1 = c1
  c2 = c2
  c3 = c3
  home = home
  work = work
  lab = lab
  NoCall = NoCall
  NoAccount = NoAccount
  Calls <- McCalls
  RecoveryCalls = {c3}
  Accounts <- McOneAccount
  DefaultAccount = home
  MethodOf <- McOneMethodOf
  AccountOf <- McOneAccountOf
PROPERTY ContractKept
