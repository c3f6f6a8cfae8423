\* Reloads by the file observer, without the native extension.
SPECIFICATION FairSpec
CONSTANTS
  NoAddr = NoAddr
  NoNet = NoNet
  NoDev = NoDev
  NoType = NoType
  NoWindow = NoWindow
  NoEngine = NoEngine
  NoEntry = NoEntry
  NoVerdict = NoVerdict
  NoConfig = NoConfig
  Nobody = Nobody
  a1 = a1
  a2 = a2
  Configs <- MCConfigs
  Buildable <- MCBuildable
  Packets <- MCPackets
  Instants <- MCInstants
  RustAvailable = FALSE
  Tasks = {t1, t2}
  Reloaders = {observer}
  OnLoop = {}
  MaxUpdates = 1
INVARIANTS
  UndisturbedDecision
PROPERTY
  StalenessEnds
