SPECIFICATION Spec
CONSTANTS
  None = None
  MaxAddresses = 1
  MaxNames = 2
  MinTtl = 1
  MaxTtl = 2
  Keys <- TwoKeys
  AddressOf <- ByNumber
  FiveTupleOf <- ByNumber
  NetnsOf <- NoNetns
  OverTls <- AlsoOverTls
  MaxRecords = 5
  MaxLabels = 3
  MaxJumps = 3
  MaxCnameDepth = 2
  BucketSecs = 2
  Setups <- AllSetups
  Codebase = {"ours"}
  Benign = {}
INVARIANTS RecordsAreOfOneConnection AttachedOrNothing NamesAreWhatWasSaid
PROPERTY EveryConnectionIsRecordedOnce
CHECK_DEADLOCK FALSE
