SPECIFICATION Spec
CONSTANTS
  Platform <- JavaPlatform
  PackageName <- PackageNames
  FieldKeys <- Fields
  Ordinary <- OwnModules
  Order <- Paths
  Setups <- Runs
  NoLimit = NoLimit
  MaxBody = 3
INVARIANTS EveryCallIsReported ConfirmedIsTheirs PassMeansLooked
PROPERTIES EditsStayLocal
CHECK_DEADLOCK FALSE
