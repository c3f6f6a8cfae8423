\* May a reload by the observer thread leave a stale cut-through entry behind?
SPECIFICATION Spec
CONSTANTS
  NoAddr = NoAddr
  NoNet = NoNet
  NoDev = NoDev
  NoType = NoType
  NoWindow = NoWindow
  NoEngine = NoEngine
  NoEntry = NoEntry
  NoVerdict = NoVerdict
  NoConfig = NoConfig
  Nobody = Nobody
  a1 = a1
  a2 = a2
  Configs <- MCConfigs
  Buildable <- MCBuildable
  Packets <- MCPackets
  Instants <- MCInstants
  RustAvailable = TRUE
  Tasks = {t1, t2}
  Reloaders = {observer}
  OnLoop = {}
  MaxUpdates = 1
INVARIANT
  CacheFreshWhenQuiet
