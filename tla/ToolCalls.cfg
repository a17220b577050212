SPECIFICATION Spec
CONSTANTS
  Fold <- McFold
  WellKnown <- McWellKnown
  PageSize <- McPageSize
  ProvenanceTag = TRUE
  DefaultList = 4
  MaxList = 4
  LookupPage = 5
  DefaultFolders = 5
  MaxFolders = 5
  DefaultDepth = 3
  MaxDepth = 3
  DefaultThread = 4
  MaxAttachment = 5
  MaxBatch = 4
  Offset <- McOffset
  DefaultZone = "CET"
  Now = 100
  SearchPageSize = 3
  MailEnabled = TRUE
  MailManageEnabled = TRUE
  Calls <- McCalls
  Boxes <- McBoxes
  Registries <- McRegistries
  MaxRetries = 1
  MaxTrouble = 2
INVARIANTS
  TypeOK
  HintsHold
  RepeatsAreHarmless
  EachWriteOnce
  FailureMeansUntouched
  RightAccount
  RightTarget
  DraftsOnly
  
  EventLength
  MovesAccounted
  
  
  FoldersAccounted
  AuditMatches
  RequestsAreFew
