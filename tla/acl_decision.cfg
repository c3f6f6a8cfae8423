\* Every bounded configuration, packet and clock reading.
SPECIFICATION Spec
CONSTANTS
  NoAddr = NoAddr
  NoNet = NoNet
  NoDev = NoDev
  NoType = NoType
  NoWindow = NoWindow
  NoPacket = NoPacket
  a1 = a1
  a2 = a2
  d1 = d1
  bcast = bcast
  whois = whois
  Marks = 8
  Configs <- MCConfigs
  Packets <- MCPackets
  Instants <- MCInstants
INVARIANTS
  FirstMatchIsTheScan
  EnginesAgree
  SleepingRulesDoNotAct
  WindowIsAnArc
  CutThroughIsSafeWithoutRefusals
\* One packet is checked per behaviour.
CHECK_DEADLOCK FALSE
