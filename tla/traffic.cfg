\* Two packets, a table of foreign devices that changes twice, a clock, a
\* reporter and a scraping thread.
SPECIFICATION FairSpec
CONSTANTS
  b0 = b0
  p1 = p1
  f1 = f1
  f2 = f2
  d1 = d1
  d2 = d2
  Tasks = {t1, t2}
  BDT <- MCBDT
  BbmdAddress = b0
  LocalBroadcast = LocalBroadcast
  ForeignDevices = {f1, f2}
  InitialFDT <- MCInitialFDT
  MaxTableChanges = 2
  NoTarget = NoTarget
  Devices = {d1, d2}
  NoDevice = NoDevice
  Timeout = 1
  Packets <- MCPackets
  NoPacket = NoPacket
INVARIANTS
  TypeOK
  ForwardReachesEveryone
  ForwardsCountedWhenSent
  GaugeCoversTheRecorded
  CountersAgreeAtRest
  ScrapeLagsByOne
PROPERTY
  SilentDevicesForgotten
