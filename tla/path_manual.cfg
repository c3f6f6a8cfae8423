\* Manual reloads, which run on the event loop.
SPECIFICATION FairSpec
CONSTANTS
  NoAddr = NoAddr
  NoNet = NoNet
  NoDev = NoDev
  NoType = NoType
  NoWindow = NoWindow
  NoEngine = NoEngine
  NoEntry = NoEntry
  NoVerdict = NoVerdict
  NoConfig = NoConfig
  Nobody = Nobody
  a1 = a1
  a2 = a2
  Configs <- MCConfigs
  Buildable <- MCBuildable
  Packets <- MCPackets
  Instants <- MCInstants
  RustAvailable = TRUE
  Tasks = {t1, t2}
  Reloaders = {manual}
  OnLoop = {manual}
  MaxUpdates = 3
INVARIANTS
  DecisionIsAtomic
  NoTaskFails
  CacheFreshWhenQuiet
  NoMixtureRemains
PROPERTY
  ImplementsPolicy
