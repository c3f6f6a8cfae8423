\* The whole life of the process, with two changes of the file and two signals.
SPECIFICATION RunnerFairSpec
CONSTANTS
  Contents <- MCContents
  Loadable <- MCLoadable
  NoContent = NoContent
  Saves = {"inPlace"}
  MaxChanges = 2
  MaxManual = 0
  NoValue = NoValue
  Missing = Missing
  Scalar = Scalar
  Refused = Refused
  Addresses <- MCAddresses
  Networks <- MCNetworks
  Arguments <- MCArguments
  MaxSignals = 2
  LogFormats <- MCLogFormats
  VendorIdentifiers <- MCVendorIdentifiers
  PortAddresses <- MCPortAddresses
INVARIANTS
  RunnerTypeOK
  NothingLeftOpen
  AllowAllOnlyUnconfigured
  ReporterAliveWhileServing
  OneLateReload
  EndsOnlyWhenTold
  SavedConfigLoadsAgain
PROPERTY
  SignalEndsProcess
CHECK_DEADLOCK FALSE
