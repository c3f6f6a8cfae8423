--------------------------- MODULE TrafficProofs ---------------------------
(***************************************************************************)
(* Proofs about Traffic for any packets, tasks, devices and tables.        *)
(***************************************************************************)
EXTENDS Traffic, FiniteSetTheorems, SequenceTheorems, WellFoundedInduction, TLAPS

USE DEF vars, metricsVars, promVars, trackerVars, callVars, scrapeVars, taskVars

\* What happens to the collector, whoever does it.
CollectorNext ==
  \/ \E a \in Actions, d \in Devices \cup {NoDevice} : CallRecordPacket(a, d)
  \/ RecordStep \/ GetSnapshot \/ ScrapePackets \/ ScrapeBvll \/ Tick

\* A step of the whole is one of the collector or leaves the collector alone.
LEMMA StepsOfTheCollector ==
  ASSUME [Next]_vars
  PROVE  [CollectorNext]_metricsVars
<1> USE DEF CollectorNext
<1>1. ASSUME NEW t \in Tasks, NEW p \in Packets, Receive(t, p) PROVE CollectorNext
  BY <1>1, PacketsAssumption DEF Receive, ActionOf, Actions, DeviceOf
<1>2. CASE Record \/ Report \/ Scrape \/ Clock
  BY <1>2 DEF Record, Report, Scrape, Clock
<1>3. ASSUME NEW t \in Tasks, AfterRecord(t) \/ ForwardSent(t) \/ ForwardFails(t) \/ Deliver(t)
      PROVE  UNCHANGED metricsVars
  BY <1>3 DEF AfterRecord, ForwardSent, ForwardFails, Deliver
<1>4. CASE TableChange
  BY <1>4 DEF TableChange
<1>5. CASE UNCHANGED vars
  BY <1>5
<1> QED
  BY <1>1, <1>2, <1>3, <1>4, <1>5 DEF Next

-----------------------------------------------------------------------------
(* A scrape lacks at most one packet.                                      *)

\* The counters differ by the packet that is between them, and what a scrape
\* has read is never ahead of its counter.
LagInv ==
  /\ packetsTotal \in [Actions -> Nat] /\ bvllTotal \in [Actions -> Nat]
  /\ scraped \in [packets : [Actions -> Nat], bvll : [Actions -> Nat]]
  /\ scraping \in BOOLEAN
  /\ recorded.action \in Actions
  /\ \A a \in Actions :
       packetsTotal[a] = bvllTotal[a] + (IF rpc = "bvll" /\ recorded.action = a THEN 1 ELSE 0)
  /\ scraping => \A a \in Actions : scraped.packets[a] <= packetsTotal[a]
  /\ ScrapeLagsByOne

LEMMA LagInvStep ==
  ASSUME LagInv, [CollectorNext]_metricsVars
  PROVE  LagInv'
<1> USE DEF LagInv, ScrapeLagsByOne
<1>1. ASSUME NEW a \in Actions, NEW d \in Devices \cup {NoDevice}, CallRecordPacket(a, d)
      PROVE  LagInv'
  BY <1>1 DEF CallRecordPacket
<1>2. CASE IncPackets
  <2>1. packetsTotal' \in [Actions -> Nat]
    BY <1>2 DEF IncPackets
  <2>2. \A a \in Actions : packetsTotal'[a] = packetsTotal[a] + (IF recorded.action = a THEN 1 ELSE 0)
    BY <1>2 DEF IncPackets
  <2> QED
    BY <1>2, <2>1, <2>2 DEF IncPackets
<1>3. CASE IncBvll
  <2>1. bvllTotal' \in [Actions -> Nat]
    BY <1>3 DEF IncBvll
  <2>2. \A a \in Actions : bvllTotal'[a] = bvllTotal[a] + (IF recorded.action = a THEN 1 ELSE 0)
    BY <1>3 DEF IncBvll
  <2> QED
    BY <1>3, <2>1, <2>2 DEF IncBvll
<1>4. CASE UpdateDevice \/ SetGauge \/ IncLegacy
  BY <1>4 DEF UpdateDevice, SetGauge, IncLegacy
<1>5. CASE GetSnapshot \/ Tick
  BY <1>5 DEF GetSnapshot, Tick
<1>6. CASE ScrapePackets
  BY <1>6 DEF ScrapePackets
<1>7. CASE ScrapeBvll
  <2>1. \A a \in Actions : scraped.packets[a] <= bvllTotal[a] + 1
    BY <1>7 DEF ScrapeBvll
  <2>2. scraped'.packets = scraped.packets /\ scraped'.bvll = bvllTotal
    BY <1>7 DEF ScrapeBvll
  <2> QED
    BY <1>7, <2>1, <2>2 DEF ScrapeBvll
<1>8. CASE UNCHANGED metricsVars
  BY <1>8
<1> QED
  BY <1>1, <1>2, <1>3, <1>4, <1>5, <1>6, <1>7, <1>8 DEF CollectorNext, RecordStep

\* A scrape that falls between two increments lacks one packet at most.
THEOREM ScrapesLagByOne == Spec => []ScrapeLagsByOne
<1>1. Init => LagInv
  <2> SUFFICES ASSUME Init PROVE LagInv
    OBVIOUS
  <2> DEFINE Zero == [a \in Actions |-> 0]
  <2>1. Zero \in [Actions -> Nat] /\ \A a \in Actions : Zero[a] = 0
    OBVIOUS
  <2>2. /\ packetsTotal = Zero /\ bvllTotal = Zero
        /\ scraped = [packets |-> Zero, bvll |-> Zero] /\ scraping = FALSE
        /\ rpc = "none" /\ recorded.action \in Actions
    BY DEF Init, MetricsInit, Actions
  <2> HIDE DEF Zero
  <2>3. scraped \in [packets : [Actions -> Nat], bvll : [Actions -> Nat]]
    BY <2>1, <2>2
  <2>4. ScrapeLagsByOne
    BY <2>1, <2>2 DEF ScrapeLagsByOne
  <2>5. packetsTotal \in [Actions -> Nat] /\ bvllTotal \in [Actions -> Nat]
    BY <2>1, <2>2
  <2>6. \A a \in Actions : packetsTotal[a] = 0 /\ bvllTotal[a] = 0
    BY <2>1, <2>2
  <2>7. rpc = "none" /\ scraping \in BOOLEAN /\ ~scraping /\ recorded.action \in Actions
    BY <2>2
  <2> QED
    BY <2>3, <2>4, <2>5, <2>6, <2>7 DEF LagInv
<1>2. LagInv /\ [Next]_vars => LagInv'
  BY StepsOfTheCollector, LagInvStep
<1>3. LagInv => ScrapeLagsByOne
  BY DEF LagInv
<1> QED
  BY <1>1, <1>2, <1>3, PTL DEF Spec

-----------------------------------------------------------------------------
(* The gauge never shows fewer devices than were recorded.                 *)

Recent == {d \in Devices : age[d] < Timeout}

\* Every device recorded within the timeout is in the table.
GaugeInv ==
  /\ age \in [Devices -> 0..Timeout]
  /\ activeDevices \in Nat
  /\ tracked \subseteq Devices
  /\ recorded.device \in Devices \cup {NoDevice}
  /\ rpc \in {"device", "gauge"} => recorded.device \in Devices
  /\ Recent \subseteq tracked
  /\ GaugeCoversTheRecorded

LEMMA RecentIsFinite == ASSUME GaugeInv PROVE IsFiniteSet(Recent) /\ Cardinality(Recent) \in Nat
  BY DevicesAssumption, FS_Subset, FS_CardinalityType DEF Recent

LEMMA GaugeInvStep ==
  ASSUME GaugeInv, [CollectorNext]_metricsVars
  PROVE  GaugeInv'
<1> USE TimeoutAssumption, NoDeviceAssumption DEF GaugeInv, GaugeCoversTheRecorded, Recent
<1>1. ASSUME NEW a \in Actions, NEW d \in Devices \cup {NoDevice}, CallRecordPacket(a, d)
      PROVE  GaugeInv'
  BY <1>1 DEF CallRecordPacket
<1>2. CASE IncPackets \/ IncLegacy
  BY <1>2 DEF IncPackets, IncLegacy
<1>3. CASE IncBvll
  BY <1>3 DEF IncBvll
<1>4. CASE UpdateDevice
  BY <1>4 DEF UpdateDevice
<1>5. CASE SetGauge
  <2>1. ActiveCount = Cardinality(Recent)
    BY DEF ActiveCount
  <2>2. activeDevices' \in Nat /\ Cardinality(Recent) <= activeDevices'
    BY <1>5, <2>1, RecentIsFinite DEF SetGauge
  <2>3. age' = age /\ tracked' = tracked /\ recorded' = recorded /\ rpc' = "legacy"
    BY <1>5 DEF SetGauge
  <2>4. Recent' = Recent
    BY <2>3
  <2>5. GaugeCoversTheRecorded'
    BY <2>2, <2>4
  <2>6. age' \in [Devices -> 0..Timeout] /\ tracked' \subseteq Devices /\ Recent' \subseteq tracked'
    BY <2>3, <2>4
  <2>7. recorded.device' \in Devices \cup {NoDevice} /\ rpc' \notin {"device", "gauge"}
    BY <2>3
  <2> QED
    BY <2>2, <2>5, <2>6, <2>7
<1>6. CASE GetSnapshot
  BY <1>6 DEF GetSnapshot, Cleanup
<1>7. CASE ScrapePackets \/ ScrapeBvll
  BY <1>7 DEF ScrapePackets, ScrapeBvll
<1>8. CASE Tick
  <2>1. age' \in [Devices -> 0..Timeout] /\ Recent' \subseteq Recent
    BY <1>8 DEF Tick
  <2>2. Cardinality(Recent') <= Cardinality(Recent) /\ Cardinality(Recent') \in Nat
    BY <2>1, RecentIsFinite, FS_Subset, FS_CardinalityType
  <2> QED
    BY <1>8, <2>1, <2>2, RecentIsFinite DEF Tick
<1>9. CASE UNCHANGED metricsVars
  BY <1>9
<1> QED
  BY <1>1, <1>2, <1>3, <1>4, <1>5, <1>6, <1>7, <1>8, <1>9 DEF CollectorNext, RecordStep

\* Silence and cleaning up never make the gauge show fewer devices than the
\* collector recorded a packet of within the timeout.
THEOREM GaugeCoversRecorded == Spec => []GaugeCoversTheRecorded
<1>1. ASSUME Init PROVE GaugeInv
  <2>1. Recent = {} /\ age \in [Devices -> 0..Timeout]
    BY <1>1, TimeoutAssumption DEF Init, MetricsInit, Recent
  <2>2. tracked = {} /\ activeDevices = 0 /\ rpc = "none" /\ recorded.device = NoDevice
    BY <1>1 DEF Init, MetricsInit
  <2>3. Cardinality(Recent) <= activeDevices
    BY <2>1, <2>2, FS_EmptySet
  <2>4. GaugeCoversTheRecorded
    BY <2>3 DEF GaugeCoversTheRecorded, Recent
  <2> QED
    BY <2>1, <2>2, <2>4 DEF GaugeInv
<1>2. GaugeInv /\ [Next]_vars => GaugeInv'
  BY StepsOfTheCollector, GaugeInvStep
<1>3. GaugeInv => GaugeCoversTheRecorded
  BY DEF GaugeInv
<1> QED
  BY <1>1, <1>2, <1>3, PTL DEF Spec

-----------------------------------------------------------------------------
(* Types.                                                                  *)

\* Min() of a set of indices is its least element.
LEMMA MinIsLeast ==
  ASSUME NEW S \in SUBSET Nat, S # {}
  PROVE  Min(S) \in S /\ \A n \in S : Min(S) <= n
<1>1. PICK m \in S : \A n \in S : ~(<<n, m>> \in OpToRel(<, Nat))
  BY NatLessThanWellFounded, WFMin
<1>2. \A n \in S : ~(n < m)
  BY <1>1 DEF OpToRel
<1>3. \A n \in S : m <= n
  BY <1>2
<1> QED
  BY <1>3 DEF Min

IsLeast(k, S) == k \in S /\ \A n \in S : k <= n

\* The index of the second loop when entry i of a table is done.
Index(table, i) == IF table = "devices" THEN i ELSE 0

PeersDone(p, table, i) == table = "peers" => PeersAfter(p, i) = {}

GoesToPeer(p, table, i, pl) ==
  /\ table = "peers"
  /\ \E k : IsLeast(k, PeersAfter(p, i)) /\ pl = [table |-> "peers", at |-> k]

GoesToDevice(p, table, i, pl) ==
  /\ PeersDone(p, table, i)
  /\ \E k : IsLeast(k, DevicesAfter(p, Index(table, i))) /\ pl = [table |-> "devices", at |-> k]

Leaves(p, table, i, pl) ==
  PeersDone(p, table, i) /\ DevicesAfter(p, Index(table, i)) = {} /\ pl = Outside

\* The loops go to the next entry of the first table, to the next one of the
\* second, or end.
LEMMA WhereTheLoopsGo ==
  ASSUME bbmdFDT \in Seq(ForeignDevices), NEW p, NEW table, NEW i,
         NEW pl, pl = Following(p, table, i)
  PROVE  GoesToPeer(p, table, i, pl) \/ GoesToDevice(p, table, i, pl) \/ Leaves(p, table, i, pl)
<1> USE DEF PeersDone
<1>1. PeersAfter(p, i) \in SUBSET Nat /\ DevicesAfter(p, Index(table, i)) \in SUBSET Nat
  BY TablesAssumption DEF PeersAfter, DevicesAfter
<1>2. CASE table = "peers" /\ PeersAfter(p, i) # {}
  BY <1>1, <1>2, MinIsLeast DEF Following, IsLeast, GoesToPeer
<1>3. CASE ~(table = "peers" /\ PeersAfter(p, i) # {}) /\ DevicesAfter(p, Index(table, i)) # {}
  BY <1>1, <1>3, MinIsLeast DEF Following, IsLeast, GoesToDevice, Index
<1>4. CASE ~(table = "peers" /\ PeersAfter(p, i) # {}) /\ DevicesAfter(p, Index(table, i)) = {}
  BY <1>4 DEF Following, Leaves, Index
<1> QED
  BY <1>2, <1>3, <1>4

Places == [table : {"peers", "devices"}, at : Nat \ {0}]

\* The entry a loop goes to is one of its table, and its send has a target.
LEMMA TypeOfFollowing ==
  ASSUME bbmdFDT \in Seq(ForeignDevices), NEW p, NEW table, NEW i,
         NEW pl, pl = Following(p, table, i)
  PROVE  /\ pl \in {Outside} \cup Places
         /\ DestinationAt(pl) \in Destinations \cup {NoTarget}
         /\ DestinationAt(pl) = NoTarget <=> pl = Outside
<1>1. ASSUME NEW k, IsLeast(k, PeersAfter(p, i)), pl = [table |-> "peers", at |-> k]
      PROVE  pl \in Places /\ DestinationAt(pl) \in Destinations /\ pl # Outside
  <2>1. k \in DOMAIN BDT /\ k \in Nat \ {0}
    BY <1>1, TablesAssumption DEF IsLeast, PeersAfter
  <2>2. BDT[k] \in Range(BDT)
    BY <2>1 DEF Range
  <2>3. pl # Outside /\ pl \in Places
    BY <1>1, <2>1 DEF Outside, Places
  <2>4. DestinationAt(pl) = IF BDT[k] = BbmdAddress THEN LocalBroadcast ELSE BDT[k]
    BY <1>1, <2>3 DEF DestinationAt
  <2> QED
    BY <2>2, <2>3, <2>4 DEF Destinations, Peers
<1>2. ASSUME NEW k, IsLeast(k, DevicesAfter(p, Index(table, i))), pl = [table |-> "devices", at |-> k]
      PROVE  pl \in Places /\ DestinationAt(pl) \in Destinations /\ pl # Outside
  <2>1. k \in DOMAIN bbmdFDT /\ k \in Nat \ {0} /\ bbmdFDT[k] \in ForeignDevices
    BY <1>2 DEF IsLeast, DevicesAfter
  <2>2. pl # Outside /\ pl \in Places
    BY <1>2, <2>1 DEF Outside, Places
  <2>3. DestinationAt(pl) = bbmdFDT[k]
    BY <1>2, <2>2 DEF DestinationAt
  <2> QED
    BY <2>1, <2>2, <2>3 DEF Destinations
<1>3. DestinationAt(Outside) = NoTarget
  BY DEF DestinationAt, Outside
<1> QED
  BY <1>1, <1>2, <1>3, WhereTheLoopsGo, AddressesAssumption DEF GoesToPeer, GoesToDevice, Leaves

\* Deleting an entry keeps the other entries, in order.
LEMMA RemoveAtProperties ==
  ASSUME NEW S, NEW s \in Seq(S), NEW k \in DOMAIN s
  PROVE  /\ RemoveAt(s, k) \in Seq(S)
         /\ Len(RemoveAt(s, k)) = Len(s) - 1
         /\ \A i \in 1..(Len(s) - 1) : RemoveAt(s, k)[i] = s[IF i < k THEN i ELSE i + 1]
<1> DEFINE before == SubSeq(s, 1, k - 1)
           after == SubSeq(s, k + 1, Len(s))
<1>1. k \in 1..Len(s) /\ Len(s) \in Nat
  BY LenProperties
<1>2. before \in Seq(S) /\ Len(before) = k - 1 /\ \A i \in 1..(k - 1) : before[i] = s[i]
  BY <1>1, SubSeqProperties
<1>3. /\ after \in Seq(S) /\ Len(after) = Len(s) - k
      /\ \A i \in 1..(Len(s) - k) : after[i] = s[i + k]
  BY <1>1, SubSeqProperties
<1> HIDE DEF before, after
<1>4. /\ before \o after \in Seq(S)
      /\ Len(before \o after) = Len(before) + Len(after)
      /\ \A i \in 1..(Len(before) + Len(after)) :
           (before \o after)[i] = IF i <= Len(before) THEN before[i] ELSE after[i - Len(before)]
  BY <1>2, <1>3, ConcatProperties
<1>5. \A i \in 1..(Len(s) - 1) : (before \o after)[i] = s[IF i < k THEN i ELSE i + 1]
  <2>1. Len(before) + Len(after) = Len(s) - 1
    BY <1>1, <1>2, <1>3
  <2>2. \A i \in 1..(Len(s) - 1) :
          (before \o after)[i] = IF i <= k - 1 THEN before[i] ELSE after[i - (k - 1)]
    BY <1>2, <1>4, <2>1
  <2>3. \A i \in 1..(Len(s) - 1) : i < k => (before \o after)[i] = s[i]
    BY <1>1, <1>2, <2>2
  <2>4. \A i \in 1..(Len(s) - 1) : ~(i < k) => (before \o after)[i] = s[i + 1]
    <3> SUFFICES ASSUME NEW i \in 1..(Len(s) - 1), ~(i < k) PROVE (before \o after)[i] = s[i + 1]
      OBVIOUS
    <3>1. i - (k - 1) \in 1..(Len(s) - k) /\ (i - (k - 1)) + k = i + 1
      BY <1>1
    <3>2. after[i - (k - 1)] = s[i + 1]
      BY <1>3, <3>1
    <3>3. ~(i <= k - 1)
      BY <1>1
    <3>4. (before \o after)[i] = after[i - (k - 1)]
      BY <2>2, <3>3
    <3> QED
      BY <3>2, <3>4
  <2> QED
    BY <2>3, <2>4
<1>6. RemoveAt(s, k) = before \o after
  BY DEF RemoveAt, before, after
<1>7. Len(before) + Len(after) = Len(s) - 1
  BY <1>1, <1>2, <1>3
<1> QED
  BY <1>4, <1>5, <1>6, <1>7

TypeInv ==
  /\ TypeOK
  /\ \A t \in Tasks :
       /\ pc[t] # "idle" => packet[t] \in Packets
       /\ pc[t] = "forwarding" => IsCutThrough(packet[t])
       /\ pc[t] = "delivering" => packet[t].allowed

LEMMA TypeInvInit == Init => TypeInv
<1> SUFFICES ASSUME Init PROVE TypeInv
  OBVIOUS
<1> USE DEF Init
<1>1. MetricsTypeOK
  <2> DEFINE Zero == [a \in Actions |-> 0]
  <2>1. Zero \in [Actions -> Nat]
    OBVIOUS
  <2>2. packetsTotal = Zero /\ bvllTotal = Zero /\ scraped = [packets |-> Zero, bvll |-> Zero]
    BY DEF MetricsInit
  <2> HIDE DEF Zero
  <2>3. scraped \in [packets : [Actions -> Nat], bvll : [Actions -> Nat]]
    BY <2>1, <2>2
  <2>4. packetCounts \in [Actions \cup {"total"} -> Nat] /\ age \in [Devices -> 0..Timeout]
    BY TimeoutAssumption DEF MetricsInit
  <2>5. /\ tracked = {} /\ activeDevices = 0 /\ rpc = "none" /\ scraping = FALSE
        /\ recorded \in [action : Actions, device : Devices \cup {NoDevice}]
    BY DEF MetricsInit, Actions
  <2> QED
    BY <2>1, <2>2, <2>3, <2>4, <2>5 DEF MetricsTypeOK
<1>2. ForwardTypeOK
  BY TablesAssumption DEF ForwardInit, ForwardTypeOK
<1> QED
  BY <1>1, <1>2 DEF TypeInv, TypeOK, ForwardInit

\* A step of the collector keeps the types of its variables.
LEMMA MetricsTypes ==
  ASSUME MetricsTypeOK, [CollectorNext]_metricsVars
  PROVE  MetricsTypeOK'
<1> USE DEF MetricsTypeOK
<1>1. ASSUME NEW a \in Actions, NEW d \in Devices \cup {NoDevice}, CallRecordPacket(a, d)
      PROVE  MetricsTypeOK'
  BY <1>1 DEF CallRecordPacket
<1>2. CASE IncPackets
  BY <1>2 DEF IncPackets
<1>3. CASE IncBvll
  BY <1>3 DEF IncBvll
<1>4. CASE UpdateDevice
  BY <1>4, TimeoutAssumption DEF UpdateDevice
<1>5. CASE SetGauge
  <2>1. {d \in tracked : age[d] < Timeout} \in SUBSET Devices
    OBVIOUS
  <2>2. ActiveCount \in Nat
    BY <2>1, DevicesAssumption, FS_Subset, FS_CardinalityType DEF ActiveCount
  <2> QED
    BY <1>5, <2>2 DEF SetGauge
<1>6. CASE IncLegacy
  BY <1>6 DEF IncLegacy
<1>7. CASE GetSnapshot
  BY <1>7 DEF GetSnapshot, Cleanup
<1>8. CASE ScrapePackets \/ ScrapeBvll
  <2> DEFINE Zero == [a \in Actions |-> 0]
  <2>1. Zero \in [Actions -> Nat]
    OBVIOUS
  <2>2. \/ scraped' = [packets |-> packetsTotal, bvll |-> Zero]
        \/ scraped' = [scraped EXCEPT !.bvll = bvllTotal]
    BY <1>8 DEF ScrapePackets, ScrapeBvll
  <2> HIDE DEF Zero
  <2>3. scraped' \in [packets : [Actions -> Nat], bvll : [Actions -> Nat]]
    BY <2>1, <2>2
  <2>4. scraping' \in BOOLEAN /\ UNCHANGED <<promVars, packetCounts, trackerVars, callVars>>
    BY <1>8 DEF ScrapePackets, ScrapeBvll
  <2> QED
    BY <2>3, <2>4
<1>9. CASE Tick
  BY <1>9, TimeoutAssumption DEF Tick
<1>10. CASE UNCHANGED metricsVars
  BY <1>10
<1> QED
  BY <1>1, <1>2, <1>3, <1>4, <1>5, <1>6, <1>7, <1>8, <1>9, <1>10 DEF CollectorNext, RecordStep

\* Setting a task's place, whatever it is, keeps the types of the forward.
LEMMA TypeOfGoTo ==
  ASSUME ForwardTypeOK, NEW t \in Tasks, NEW pl, GoTo(t, pl),
         pl \in {Outside} \cup Places,
         DestinationAt(pl) \in Destinations \cup {NoTarget},
         DestinationAt(pl) = NoTarget <=> pl = Outside
  PROVE  /\ place' \in [Tasks -> {Outside} \cup Places]
         /\ target' \in [Tasks -> Destinations \cup {NoTarget}]
         /\ \A u \in Tasks : target'[u] = NoTarget <=> place'[u] = Outside
         /\ place'[t] = pl /\ target'[t] = DestinationAt(pl)
         /\ \A u \in Tasks \ {t} : place'[u] = place[u] /\ target'[u] = target[u]
BY DEF ForwardTypeOK, GoTo, Places

\* The steps of the forward keep the types of its variables.
LEMMA ForwardTypes ==
  ASSUME ForwardTypeOK
  PROVE  /\ \A t \in Tasks : \A p : BeginForward(t, p) => ForwardTypeOK'
         /\ \A t \in Tasks : \A p : SendReturns(t, p) => ForwardTypeOK'
         /\ \A t \in Tasks : SendFails(t) => ForwardTypeOK'
         /\ \A d \in ForeignDevices : RegisterDevice(d) => ForwardTypeOK'
         /\ \A k \in DOMAIN bbmdFDT : RemoveDevice(k) => ForwardTypeOK'
         /\ UNCHANGED forwardVars => ForwardTypeOK'
<1>1. ASSUME NEW t \in Tasks, NEW p, BeginForward(t, p) PROVE ForwardTypeOK'
  <2> DEFINE pl == Following(p, "peers", 0)
  <2>1. bbmdFDT \in Seq(ForeignDevices) /\ GoTo(t, pl)
    BY <1>1 DEF ForwardTypeOK, BeginForward
  <2> HIDE DEF pl
  <2>2. /\ pl \in {Outside} \cup Places
        /\ DestinationAt(pl) \in Destinations \cup {NoTarget}
        /\ DestinationAt(pl) = NoTarget <=> pl = Outside
    BY <2>1, TypeOfFollowing DEF pl
  <2>3. Range(bbmdFDT) \subseteq ForeignDevices
    BY <2>1 DEF Range
  <2>4. steady' \in [Tasks -> SUBSET ForeignDevices]
    BY <1>1, <2>3 DEF ForwardTypeOK, BeginForward
  <2>5. UNCHANGED <<bbmdFDT, tableChanges, sent, removals>>
    BY <1>1 DEF BeginForward
  <2>6. joined' \in [Tasks -> [ForeignDevices -> Nat]]
    BY <1>1 DEF ForwardTypeOK, BeginForward
  <2> QED
    BY <2>1, <2>2, <2>4, <2>5, <2>6, TypeOfGoTo DEF ForwardTypeOK, Places
<1>2. ASSUME NEW t \in Tasks, NEW p, SendReturns(t, p) PROVE ForwardTypeOK'
  <2> DEFINE pl == Following(p, place[t].table, place[t].at)
  <2>1. bbmdFDT \in Seq(ForeignDevices) /\ GoTo(t, pl)
    BY <1>2 DEF ForwardTypeOK, SendReturns
  <2> HIDE DEF pl
  <2>2. /\ pl \in {Outside} \cup Places
        /\ DestinationAt(pl) \in Destinations \cup {NoTarget}
        /\ DestinationAt(pl) = NoTarget <=> pl = Outside
    BY <2>1, TypeOfFollowing DEF pl
  <2>3. target[t] \in Destinations
    BY <1>2 DEF ForwardTypeOK, SendReturns
  <2>4. sent' \in [Tasks -> [Destinations -> Nat]]
    BY <1>2, <2>3 DEF ForwardTypeOK, SendReturns
  <2>5. UNCHANGED <<bbmdFDT, tableChanges, joined, steady, removals>>
    BY <1>2 DEF SendReturns
  <2> QED
    BY <2>1, <2>2, <2>4, <2>5, TypeOfGoTo DEF ForwardTypeOK, Places
<1>3. ASSUME NEW t \in Tasks, SendFails(t) PROVE ForwardTypeOK'
  <2>1. GoTo(t, Outside) /\ UNCHANGED <<bbmdFDT, tableChanges, sent, joined, steady, removals>>
    BY <1>3 DEF SendFails
  <2>2. DestinationAt(Outside) = NoTarget
    BY DEF DestinationAt, Outside
  <2> QED
    BY <2>1, <2>2, TypeOfGoTo DEF ForwardTypeOK, Places
<1>4. ASSUME NEW d \in ForeignDevices, RegisterDevice(d) PROVE ForwardTypeOK'
  <2>1. bbmdFDT' \in Seq(ForeignDevices) /\ tableChanges' \in Nat
    BY <1>4, AppendProperties DEF ForwardTypeOK, RegisterDevice
  <2>2. joined' \in [Tasks -> [ForeignDevices -> Nat]]
    BY <1>4 DEF ForwardTypeOK, RegisterDevice
  <2> QED
    BY <1>4, <2>1, <2>2 DEF ForwardTypeOK, RegisterDevice
<1>5. ASSUME NEW k \in DOMAIN bbmdFDT, RemoveDevice(k) PROVE ForwardTypeOK'
  <2>1. bbmdFDT' \in Seq(ForeignDevices) /\ tableChanges' \in Nat
    BY <1>5, RemoveAtProperties DEF ForwardTypeOK, RemoveDevice
  <2>2. steady' \in [Tasks -> SUBSET ForeignDevices] /\ removals' \in [Tasks -> Nat]
    BY <1>5 DEF ForwardTypeOK, RemoveDevice
  <2> QED
    BY <1>5, <2>1, <2>2 DEF ForwardTypeOK, RemoveDevice
<1>6. UNCHANGED forwardVars => ForwardTypeOK'
  BY DEF ForwardTypeOK, forwardVars
<1> QED
  BY <1>1, <1>2, <1>3, <1>4, <1>5, <1>6

\* The types, what the loop guarantees of a task's packet, and of its place.
LEMMA TypeInvStep == ASSUME TypeInv, [Next]_vars PROVE TypeInv'
<1> USE DEF TypeInv, TypeOK
<1>1. MetricsTypeOK'
  BY StepsOfTheCollector, MetricsTypes
<1>2. ASSUME NEW t \in Tasks, NEW p \in Packets, Receive(t, p) PROVE TypeInv'
  <2>1. ForwardTypeOK' /\ UNCHANGED <<forwardVars, forwardsTotal, delivered>>
    BY <1>2, ForwardTypes DEF Receive
  <2>2. /\ pc' = [pc EXCEPT ![t] = "recording"] /\ packet' = [packet EXCEPT ![t] = p]
        /\ pc[t] = "idle"
    BY <1>2 DEF Receive
  <2> QED
    BY <1>1, <2>1, <2>2 DEF forwardVars
<1>3. ASSUME NEW t \in Tasks, AfterRecord(t) PROVE TypeInv'
  <2>1. /\ pc[t] = "recording" /\ UNCHANGED <<packet, forwardsTotal, delivered>>
        /\ packet[t].allowed \in BOOLEAN
    BY <1>3, PacketsAssumption DEF AfterRecord
  <2>2. CASE IsCutThrough(packet[t])
    <3>1. BeginForward(t, packet[t]) /\ ForwardTypeOK'
      BY <1>3, <2>2, ForwardTypes DEF AfterRecord
    <3>2. pc' = [pc EXCEPT ![t] = IF place'[t] = Outside THEN "delivering" ELSE "forwarding"]
      BY <1>3, <2>2 DEF AfterRecord
    <3>3. packet[t].allowed
      BY <2>1, <2>2, PacketsAssumption DEF IsCutThrough
    <3>4. \A u \in Tasks \ {t} : place'[u] = place[u]
      BY <3>1 DEF BeginForward, GoTo, ForwardTypeOK
    <3> QED
      BY <1>1, <2>1, <2>2, <3>1, <3>2, <3>3, <3>4
  <2>3. CASE ~IsCutThrough(packet[t])
    <3>1. UNCHANGED forwardVars /\ ForwardTypeOK'
      BY <1>3, <2>3, ForwardTypes DEF AfterRecord
    <3>2. pc' = [pc EXCEPT ![t] = IF packet[t].allowed THEN "delivering" ELSE "done"]
      BY <1>3, <2>3 DEF AfterRecord
    <3> QED
      BY <1>1, <2>1, <3>1, <3>2 DEF forwardVars
  <2> QED
    BY <2>2, <2>3
<1>4. ASSUME NEW t \in Tasks, ForwardSent(t) PROVE TypeInv'
  <2>1. /\ pc[t] = "forwarding" /\ UNCHANGED <<packet, delivered>> /\ SendReturns(t, packet[t])
        /\ pc' = [pc EXCEPT ![t] = IF place'[t] = Outside THEN "delivering" ELSE "forwarding"]
    BY <1>4 DEF ForwardSent
  <2>2. ForwardTypeOK' /\ \A u \in Tasks \ {t} : place'[u] = place[u]
    BY <2>1, ForwardTypes DEF SendReturns, GoTo, ForwardTypeOK
  <2>3. packet[t] \in Packets /\ IsCutThrough(packet[t]) /\ packet[t].allowed
    BY <2>1, PacketsAssumption DEF IsCutThrough
  <2>4. forwardsTotal' \in [Peers -> Nat]
    BY <1>4 DEF ForwardSent
  <2> QED
    BY <1>1, <2>1, <2>2, <2>3, <2>4
<1>5. ASSUME NEW t \in Tasks, ForwardFails(t) PROVE TypeInv'
  <2>1. /\ pc[t] = "forwarding" /\ UNCHANGED <<packet, forwardsTotal, delivered>> /\ SendFails(t)
        /\ pc' = [pc EXCEPT ![t] = "failed"]
    BY <1>5 DEF ForwardFails
  <2>2. ForwardTypeOK' /\ \A u \in Tasks : place'[u] = IF u = t THEN Outside ELSE place[u]
    BY <2>1, ForwardTypes DEF SendFails, GoTo, ForwardTypeOK
  <2> QED
    BY <1>1, <2>1, <2>2
<1>6. ASSUME NEW t \in Tasks, Deliver(t) PROVE TypeInv'
  <2>1. /\ pc[t] = "delivering" /\ UNCHANGED <<forwardVars, packet, forwardsTotal>>
        /\ pc' = [pc EXCEPT ![t] = "done"] /\ delivered' = delivered \cup {t}
    BY <1>6 DEF Deliver
  <2>2. ForwardTypeOK'
    BY <2>1, ForwardTypes
  <2> QED
    BY <1>1, <2>1, <2>2 DEF forwardVars
<1>7. CASE Record \/ Report \/ Scrape \/ Clock \/ UNCHANGED vars
  <2>1. UNCHANGED <<forwardVars, taskVars>>
    BY <1>7 DEF Record, Report, Scrape, Clock
  <2>2. ForwardTypeOK'
    BY <2>1, ForwardTypes
  <2> QED
    BY <1>1, <2>1, <2>2 DEF forwardVars
<1>8. CASE TableChange
  <2>1. UNCHANGED taskVars /\ ForwardTypeOK'
    BY <1>8, ForwardTypes DEF TableChange
  <2>2. UNCHANGED place
    BY <1>8 DEF TableChange, RegisterDevice, RemoveDevice
  <2> QED
    BY <1>1, <2>1, <2>2
<1> QED
  BY <1>2, <1>3, <1>4, <1>5, <1>6, <1>7, <1>8 DEF Next

\* Every variable keeps its type, a packet is delivered when its task is done
\* and it was allowed, and only a forwarding task is in a loop.
THEOREM TypeCorrect == Spec => []TypeOK
<1>1. TypeInv => TypeOK
  BY DEF TypeInv
<1> QED
  BY <1>1, TypeInvInit, TypeInvStep, PTL DEF Spec

-----------------------------------------------------------------------------
(* The counters agree when the loop is free.                               *)

\* The tasks whose packet is to be counted under an action.
Counted(a) == {t \in Tasks : pc[t] # "idle" /\ ActionOf(packet[t]) = a}

\* One for the packet in the middle of record_packet(), if it has still to be
\* added to the counter that the given steps come before.
Pending(a, steps) == IF rpc \in steps /\ recorded.action = a THEN 1 ELSE 0

CountersInv ==
  /\ TypeInv
  /\ \A a \in Actions :
       /\ IsFiniteSet(Counted(a))
       /\ packetsTotal[a] + Pending(a, {"packets"}) = Cardinality(Counted(a))
       /\ bvllTotal[a] + Pending(a, {"packets", "bvll"}) = Cardinality(Counted(a))
       /\ packetCounts[a] + Pending(a, {"packets", "bvll", "device", "gauge", "legacy"})
            = Cardinality(Counted(a))
  /\ packetCounts["total"] = packetCounts["allow"] + packetCounts["deny"]
  /\ rpc # "none" => \E t \in Tasks : pc[t] = "recording"

\* A packet is counted from the step that takes it.
LEMMA CountedByReceive ==
  ASSUME CountersInv, NEW t \in Tasks, NEW p \in Packets, Receive(t, p), NEW a \in Actions
  PROVE  /\ IsFiniteSet(Counted(a)')
         /\ Cardinality(Counted(a)') = Cardinality(Counted(a)) + (IF ActionOf(p) = a THEN 1 ELSE 0)
<1>1. /\ pc[t] = "idle" /\ pc' = [pc EXCEPT ![t] = "recording"] /\ packet' = [packet EXCEPT ![t] = p]
      /\ pc \in [Tasks -> {"idle", "recording", "forwarding", "failed", "delivering", "done"}]
      /\ packet \in [Tasks -> Packets \cup {NoPacket}]
  BY DEF CountersInv, TypeInv, TypeOK, Receive
<1>2. t \notin Counted(a) /\ IsFiniteSet(Counted(a)) /\ Cardinality(Counted(a)) \in Nat
  BY <1>1, FS_CardinalityType DEF Counted, CountersInv
<1>3. Counted(a)' = IF ActionOf(p) = a THEN Counted(a) \cup {t} ELSE Counted(a)
  BY <1>1 DEF Counted, ActionOf
<1>4. /\ IsFiniteSet(Counted(a) \cup {t})
      /\ Cardinality(Counted(a) \cup {t}) = Cardinality(Counted(a)) + 1
  BY <1>2, FS_AddElement
<1>5. CASE ActionOf(p) = a
  <2>1. Counted(a)' = Counted(a) \cup {t}
    BY <1>3, <1>5
  <2> QED  BY <1>4, <1>5, <2>1
<1>6. CASE ActionOf(p) # a
  <2>1. Counted(a)' = Counted(a)
    BY <1>3, <1>6
  <2> QED  BY <1>2, <1>6, <2>1
<1> QED
  BY <1>5, <1>6

\* No other step changes whose packet is counted.
LEMMA CountedByOthers ==
  ASSUME CountersInv, NEW t \in Tasks, NEW a \in Actions,
         AfterRecord(t) \/ ForwardSent(t) \/ ForwardFails(t) \/ Deliver(t)
  PROVE  Counted(a)' = Counted(a)
<1>1. pc \in [Tasks -> {"idle", "recording", "forwarding", "failed", "delivering", "done"}]
  BY DEF CountersInv, TypeInv, TypeOK
<1>2. packet' = packet /\ pc[t] # "idle"
  BY DEF AfterRecord, ForwardSent, ForwardFails, Deliver
<1>3. PICK s \in {"forwarding", "failed", "delivering", "done"} : pc' = [pc EXCEPT ![t] = s]
  BY DEF AfterRecord, ForwardSent, ForwardFails, Deliver
<1>4. \A u \in Tasks : pc'[u] # "idle" <=> pc[u] # "idle"
  BY <1>1, <1>2, <1>3
<1> QED
  BY <1>2, <1>4 DEF Counted

LEMMA CountersInvStep == ASSUME CountersInv, [Next]_vars PROVE CountersInv'
<1> DEFINE Sums ==
      /\ \A a \in Actions :
           /\ IsFiniteSet(Counted(a))
           /\ packetsTotal[a] + Pending(a, {"packets"}) = Cardinality(Counted(a))
           /\ bvllTotal[a] + Pending(a, {"packets", "bvll"}) = Cardinality(Counted(a))
           /\ packetCounts[a] + Pending(a, {"packets", "bvll", "device", "gauge", "legacy"})
                = Cardinality(Counted(a))
      /\ packetCounts["total"] = packetCounts["allow"] + packetCounts["deny"]
<1>1. TypeInv /\ TypeInv' /\ MetricsTypeOK
  BY TypeInvStep DEF CountersInv, TypeInv, TypeOK
<1>2. ASSUME NEW a \in Actions
      PROVE  /\ Cardinality(Counted(a)) \in Nat
             /\ packetsTotal[a] \in Nat /\ bvllTotal[a] \in Nat /\ packetCounts[a] \in Nat
  BY <1>1, FS_CardinalityType DEF CountersInv, MetricsTypeOK
<1>3. ASSUME NEW t \in Tasks, NEW p \in Packets, Receive(t, p) PROVE CountersInv'
  <2>1. /\ rpc = "none" /\ rpc' = "packets" /\ recorded'.action = ActionOf(p)
        /\ UNCHANGED <<promVars, packetCounts>> /\ pc'[t] = "recording"
    BY <1>1, <1>3 DEF Receive, CallRecordPacket, TypeInv, TypeOK
  <2>2. ASSUME NEW a \in Actions
        PROVE  /\ IsFiniteSet(Counted(a)')
               /\ packetsTotal[a] + (IF ActionOf(p) = a THEN 1 ELSE 0) = Cardinality(Counted(a)')
               /\ bvllTotal[a] + (IF ActionOf(p) = a THEN 1 ELSE 0) = Cardinality(Counted(a)')
               /\ packetCounts[a] + (IF ActionOf(p) = a THEN 1 ELSE 0) = Cardinality(Counted(a)')
    <3>1. /\ packetsTotal[a] = Cardinality(Counted(a)) /\ bvllTotal[a] = Cardinality(Counted(a))
          /\ packetCounts[a] = Cardinality(Counted(a))
      BY <1>1, <1>2, <2>1 DEF CountersInv, Pending, MetricsTypeOK
    <3> QED
      BY <1>3, <3>1, CountedByReceive
  <2>3. Sums'
    BY <2>1, <2>2 DEF Pending, CountersInv
  <2> QED
    BY <1>1, <2>1, <2>3 DEF CountersInv
<1>4. ASSUME NEW t \in Tasks, AfterRecord(t) \/ ForwardSent(t) \/ ForwardFails(t) \/ Deliver(t)
      PROVE  CountersInv'
  <2>1. UNCHANGED metricsVars /\ rpc = "none"
    BY <1>4 DEF AfterRecord, ForwardSent, ForwardFails, Deliver, LoopFree, CountersInv
  <2>2. \A a \in Actions : Counted(a)' = Counted(a)
    BY <1>4, CountedByOthers
  <2> QED
    BY <1>1, <2>1, <2>2 DEF CountersInv, Pending
<1>5. CASE Record
  <2>1. UNCHANGED taskVars /\ \A a \in Actions : Counted(a)' = Counted(a)
    BY <1>5 DEF Record, Counted
  <2>2. recorded' = recorded /\ rpc # "none" /\ recorded.action \in Actions
    BY <1>1, <1>5 DEF Record, RecordStep, IncPackets, IncBvll, UpdateDevice, SetGauge, IncLegacy, MetricsTypeOK
  <2>3. CASE IncPackets
    <3>1. /\ rpc = "packets" /\ rpc' = "bvll" /\ UNCHANGED <<bvllTotal, packetCounts>>
          /\ \A a \in Actions : packetsTotal'[a] = packetsTotal[a] + (IF recorded.action = a THEN 1 ELSE 0)
      BY <1>1, <2>3 DEF IncPackets, MetricsTypeOK
    <3> QED
      BY <1>1, <1>2, <2>1, <2>2, <3>1 DEF CountersInv, Pending
  <2>4. CASE IncBvll
    <3>1. /\ rpc = "bvll" /\ rpc' \in {"device", "legacy"} /\ UNCHANGED <<packetsTotal, packetCounts>>
          /\ \A a \in Actions : bvllTotal'[a] = bvllTotal[a] + (IF recorded.action = a THEN 1 ELSE 0)
      BY <1>1, <2>4 DEF IncBvll, MetricsTypeOK
    <3> QED
      BY <1>1, <1>2, <2>1, <2>2, <3>1 DEF CountersInv, Pending
  <2>5. CASE UpdateDevice \/ SetGauge
    <3>1. /\ rpc \in {"device", "gauge"} /\ rpc' \in {"gauge", "legacy"}
          /\ UNCHANGED <<packetsTotal, bvllTotal, packetCounts>>
      BY <2>5 DEF UpdateDevice, SetGauge
    <3> QED
      BY <1>1, <1>2, <2>1, <2>2, <3>1 DEF CountersInv, Pending
  <2>6. CASE IncLegacy
    <3>1. /\ rpc = "legacy" /\ rpc' = "none" /\ UNCHANGED <<packetsTotal, bvllTotal>>
          /\ \A a \in Actions : packetCounts'[a] = packetCounts[a] + (IF recorded.action = a THEN 1 ELSE 0)
          /\ packetCounts'["total"] = packetCounts["total"] + 1
      BY <1>1, <2>2, <2>6 DEF IncLegacy, MetricsTypeOK, Actions
    <3>2. packetCounts'["total"] = packetCounts'["allow"] + packetCounts'["deny"]
      BY <1>1, <2>2, <3>1 DEF CountersInv, Actions, MetricsTypeOK
    <3> QED
      BY <1>1, <1>2, <2>1, <2>2, <3>1, <3>2 DEF CountersInv, Pending
  <2> QED
    BY <1>5, <2>3, <2>4, <2>5, <2>6 DEF Record, RecordStep
<1>6. CASE Report \/ Scrape \/ Clock \/ TableChange \/ UNCHANGED vars
  <2>1. UNCHANGED <<promVars, packetCounts, callVars, taskVars>>
    BY <1>6 DEF Report, Scrape, Clock, TableChange, GetSnapshot, ScrapePackets, ScrapeBvll, Tick
  <2>2. \A a \in Actions : Counted(a)' = Counted(a)
    BY <2>1 DEF Counted
  <2> QED
    BY <1>1, <2>1, <2>2 DEF CountersInv, Pending
<1> QED
  BY <1>3, <1>4, <1>5, <1>6 DEF Next

\* Whenever the loop is free the counters agree with each other and with how
\* the packets were treated.
THEOREM CountersAgree == Spec => []CountersAgreeAtRest
<1>1. ASSUME Init PROVE CountersInv
  <2>1. TypeInv
    BY <1>1, TypeInvInit
  <2>2. \A a \in Actions : Counted(a) = {}
    BY <1>1 DEF Init, Counted
  <2>3. /\ rpc = "none" /\ \A a \in Actions : packetsTotal[a] = 0 /\ bvllTotal[a] = 0 /\ packetCounts[a] = 0
        /\ packetCounts["total"] = 0 /\ packetCounts["allow"] = 0 /\ packetCounts["deny"] = 0
    BY <1>1 DEF Init, MetricsInit, Actions
  <2> QED
    BY <2>1, <2>2, <2>3, FS_EmptySet DEF CountersInv, Pending
<1>2. CountersInv => CountersAgreeAtRest
  <2> SUFFICES ASSUME CountersInv, LoopFree PROVE CountersAgreeAtRest
    BY DEF CountersAgreeAtRest
  <2>1. rpc = "none" /\ MetricsTypeOK
    BY DEF LoopFree, CountersInv, TypeInv, TypeOK
  <2>2. \A a \in Actions : /\ packetsTotal[a] = Cardinality(Counted(a)) /\ bvllTotal[a] = Cardinality(Counted(a))
                           /\ packetCounts[a] = Cardinality(Counted(a))
    BY <2>1 DEF CountersInv, Pending, MetricsTypeOK
  <2> QED
    BY <2>2 DEF CountersAgreeAtRest, Counted, CountersInv
<1> QED
  BY <1>1, <1>2, CountersInvStep, PTL DEF Spec

-----------------------------------------------------------------------------
(* The forwards are counted when they are sent.                            *)

ForwardCountInv ==
  /\ TypeInv
  /\ \A p \in Peers : IsFiniteSet(SendsTo(p))
  /\ ForwardsCountedWhenSent

\* A send that returns is one more of its destination, and of no other.
LEMMA OneMoreSend ==
  ASSUME ForwardCountInv, NEW t \in Tasks, SendReturns(t, packet[t]), NEW p \in Peers
  PROVE  /\ IsFiniteSet(SendsTo(p)')
         /\ Cardinality(SendsTo(p)')
              = Cardinality(SendsTo(p)) + (IF target[t] = p THEN 1 ELSE 0)
<1> DEFINE n == sent[t][p] + 1
<1>1. p \in Destinations /\ sent \in [Tasks -> [Destinations -> Nat]] /\ sent[t][p] \in Nat
  BY DEF ForwardCountInv, TypeInv, TypeOK, ForwardTypeOK, Destinations
<1>2. sent' = [sent EXCEPT ![t][target[t]] = @ + 1]
  BY DEF SendReturns
<1>3. CASE target[t] # p
  <2>1. \A u \in Tasks : sent'[u][p] = sent[u][p]
    BY <1>1, <1>2, <1>3
  <2>2. SendsTo(p)' = SendsTo(p)
    BY <2>1 DEF SendsTo
  <2> QED
    BY <1>1, <1>3, <2>2, FS_CardinalityType DEF ForwardCountInv
<1>4. CASE target[t] = p
  <2>1. \A u \in Tasks : sent'[u][p] = IF u = t THEN n ELSE sent[u][p]
    BY <1>1, <1>2, <1>4
  <2>2. 1..n = (1..sent[t][p]) \cup {n} /\ n \notin 1..sent[t][p]
    BY <1>1
  <2>3. SendsTo(p)' = UNION {{u} \X (1..sent'[u][p]) : u \in Tasks}
    BY DEF SendsTo
  <2> HIDE DEF n
  <2>4. SendsTo(p)' = SendsTo(p) \cup {<<t, n>>} /\ <<t, n>> \notin SendsTo(p)
    <3>1. \A x : x \in SendsTo(p) <=> \E u \in Tasks : \E i \in 1..sent[u][p] : x = <<u, i>>
      BY DEF SendsTo
    <3>2. \A x : x \in SendsTo(p)' <=> \E u \in Tasks : \E i \in 1..sent'[u][p] : x = <<u, i>>
      BY <2>3
    <3>3. ASSUME NEW x PROVE x \in SendsTo(p)' <=> x \in SendsTo(p) \/ x = <<t, n>>
      BY <2>1, <2>2, <3>1, <3>2
    <3>4. <<t, n>> \notin SendsTo(p)
      BY <2>2, <3>1
    <3> QED
      BY <3>3, <3>4
  <2> QED
    BY <1>4, <2>4, FS_AddElement DEF ForwardCountInv
<1> QED
  BY <1>3, <1>4

LEMMA ForwardCountInvStep == ASSUME ForwardCountInv, [Next]_vars PROVE ForwardCountInv'
<1> USE DEF ForwardCountInv, ForwardsCountedWhenSent
<1>1. TypeInv' /\ forwardsTotal \in [Peers -> Nat]
  BY TypeInvStep DEF TypeInv, TypeOK
<1>2. ASSUME NEW t \in Tasks, ForwardSent(t) PROVE ForwardCountInv'
  <2>1. SendReturns(t, packet[t])
    BY <1>2 DEF ForwardSent
  <2>2. ASSUME NEW p \in Peers
        PROVE  /\ forwardsTotal'[p] = Cardinality(SendsTo(p)) + (IF target[t] = p THEN 1 ELSE 0)
               /\ Cardinality(SendsTo(p)) \in Nat
    BY <1>1, <1>2 DEF ForwardSent
  <2> QED
    BY <1>1, <2>1, <2>2, OneMoreSend
<1>3. ASSUME UNCHANGED <<sent, forwardsTotal>> PROVE ForwardCountInv'
  BY <1>1, <1>3 DEF SendsTo
<1>4. ASSUME NEW t \in Tasks, AfterRecord(t) \/ ForwardFails(t) \/ Deliver(t)
      PROVE  UNCHANGED <<sent, forwardsTotal>>
  BY <1>4 DEF AfterRecord, BeginForward, ForwardFails, SendFails, Deliver, forwardVars
<1>5. ASSUME NEW t \in Tasks, NEW p \in Packets, Receive(t, p) PROVE UNCHANGED <<sent, forwardsTotal>>
  BY <1>5 DEF Receive, forwardVars
<1>6. CASE Record \/ Report \/ Scrape \/ Clock \/ TableChange \/ UNCHANGED vars
  BY <1>6, <1>3 DEF Record, Report, Scrape, Clock, TableChange, RegisterDevice, RemoveDevice, forwardVars
<1> QED
  BY <1>2, <1>3, <1>4, <1>5, <1>6 DEF Next

\* The forward counter of a peer is the number of packets sent to it.
THEOREM ForwardsAreCountedWhenSent == Spec => []ForwardsCountedWhenSent
<1>1. ASSUME Init PROVE ForwardCountInv
  <2>1. TypeInv
    BY <1>1, TypeInvInit
  <2>2. \A p \in Peers : SendsTo(p) = {} /\ forwardsTotal[p] = 0
    <3>1. \A t \in Tasks, p \in Peers : sent[t][p] = 0
      BY <1>1 DEF Init, ForwardInit, Destinations
    <3> QED
      BY <1>1, <3>1 DEF Init, SendsTo
  <2> QED
    BY <2>1, <2>2, FS_EmptySet DEF ForwardCountInv, ForwardsCountedWhenSent
<1>2. ForwardCountInv => ForwardsCountedWhenSent
  BY DEF ForwardCountInv
<1> QED
  BY <1>1, <1>2, ForwardCountInvStep, PTL DEF Spec

=============================================================================
