\* Reloads by the file observer and manual ones on the loop, at the same time.
SPECIFICATION Spec
CONSTANTS
  NoAddr = NoAddr
  NoNet = NoNet
  NoDev = NoDev
  NoType = NoType
  NoWindow = NoWindow
  NoEngine = NoEngine
  NoEntry = NoEntry
  NoVerdict = NoVerdict
  NoConfig = NoConfig
  Nobody = Nobody
  a1 = a1
  a2 = a2
  Configs <- MCTwoConfigs
  Buildable <- MCBuildable
  Packets <- MCPackets
  Instants <- MCInstants
  RustAvailable = TRUE
  Tasks = {t1, t2}
  Reloaders = {observer, manual}
  OnLoop = {manual}
  MaxUpdates = 3
SYMMETRY TaskSymmetry
INVARIANTS
  TypeOK
  CoherentWhenQuiet
  UndisturbedDecision
  FailsOnlyDuringReload
  StaleOnlyFromOverlap
  CountedAsTreated
