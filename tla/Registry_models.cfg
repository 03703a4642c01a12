\* Three models: two loaders at once, or two models to probe in turn with one
\* that is loaded between them.
CONSTANTS
  None = None
  Ids = {"one", "two", "three"}
  Settings <- MCSettings
  Files <- MCFiles
SPECIFICATION RegistrySpec
CHECK_DEADLOCK FALSE
INVARIANTS
  RegistryTypeOK
  ReadyHasWorker
  LastIsPublished
  LoadingIsBacked
PROPERTIES
  LoadsSettle
  ProbeFollows
