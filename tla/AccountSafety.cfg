SPECIFICATION Spec
CONSTANTS
  c1 = c1
  c2 = c2
  c3 = c3
  default = default
  work = work
  home = home
  ann = ann
  bob = bob
  NoCall = NoCall
  NoUser = NoUser
  DefaultLabel = default
  Calls <- McThreeCalls
  Labels <- McLabels
  Users = {ann, bob}
  MaxCrashes = 1
SYMMETRY McSymmetry
INVARIANTS
  TypeOK
  FileMirrorsRegistry
  OneConfigPerLabel
  EmailNamesOwner
  TokensGoWithAccount
  StoreInv
