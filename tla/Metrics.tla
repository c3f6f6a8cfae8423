------------------------------ MODULE Metrics ------------------------------
(***************************************************************************)
(* The metrics collector (models/metrics.py).                              *)
(*                                                                         *)
(* record_packet() runs on the event loop, one call at a time, but the     *)
(* threads that serve or export the registry read a counter between any    *)
(* two of its increments.  Counters are kept by action; their labels of    *)
(* rule, message type and device are left out, and so is the counter of    *)
(* bytes, which goes with that of packets.                                 *)
(***************************************************************************)
EXTENDS Naturals, FiniteSets

CONSTANTS
  Devices,  \* BACnet device instances
  NoDevice, \* a packet whose source device is not known
  Timeout   \* DeviceTracker.timeout_seconds, in ticks of the clock

ASSUME TimeoutAssumption == Timeout \in Nat \ {0}
ASSUME DevicesAssumption == IsFiniteSet(Devices)
ASSUME NoDeviceAssumption == NoDevice \notin Devices

Actions == {"allow", "deny"}

VARIABLES
  packetsTotal, bvllTotal, \* the Prometheus counters, by action
  packetCounts,            \* _packet_counts: by action, and "total"
  tracked,                 \* the devices in device_tracker.devices
  age,                     \* ticks since a device was last seen, Timeout for long
  activeDevices,           \* the gauge
  rpc, recorded,           \* record_packet() and its arguments
  scraping, scraped        \* a scrape of the registry and what it has read

promVars    == <<packetsTotal, bvllTotal>>
trackerVars == <<tracked, age, activeDevices>>
callVars    == <<rpc, recorded>>
scrapeVars  == <<scraping, scraped>>
metricsVars == <<promVars, packetCounts, trackerVars, callVars, scrapeVars>>

MetricsInit ==
  /\ packetsTotal = [a \in Actions |-> 0] /\ bvllTotal = [a \in Actions |-> 0]
  /\ packetCounts = [a \in Actions \cup {"total"} |-> 0]
  /\ tracked = {} /\ age = [d \in Devices |-> Timeout] /\ activeDevices = 0
  /\ rpc = "none" /\ recorded = [action |-> "allow", device |-> NoDevice]
  /\ scraping = FALSE /\ scraped = [packets |-> packetsTotal, bvll |-> bvllTotal]

-----------------------------------------------------------------------------
(* record_packet().                                                        *)

CallRecordPacket(action, device) ==
  /\ rpc = "none"
  /\ rpc' = "packets"
  /\ recorded' = [action |-> action, device |-> device]
  /\ UNCHANGED <<promVars, packetCounts, trackerVars, scrapeVars>>

IncPackets ==
  /\ rpc = "packets"
  /\ rpc' = "bvll"
  /\ packetsTotal' = [packetsTotal EXCEPT ![recorded.action] = @ + 1]
  /\ UNCHANGED <<bvllTotal, packetCounts, trackerVars, recorded, scrapeVars>>

\* Mutant: a refused packet is not counted by its type.
IncBvllAllowed ==
  /\ rpc = "bvll"
  /\ rpc' = IF recorded.device = NoDevice THEN "legacy" ELSE "device"
  /\ bvllTotal' = IF recorded.action = "allow" THEN [bvllTotal EXCEPT !["allow"] = @ + 1] ELSE bvllTotal
  /\ UNCHANGED <<packetsTotal, packetCounts, trackerVars, recorded, scrapeVars>>

IncBvll ==
  /\ rpc = "bvll"
  /\ rpc' = IF recorded.device = NoDevice THEN "legacy" ELSE "device"
  /\ bvllTotal' = [bvllTotal EXCEPT ![recorded.action] = @ + 1]
  /\ UNCHANGED <<packetsTotal, packetCounts, trackerVars, recorded, scrapeVars>>

\* DeviceTracker.update_device()
UpdateDevice ==
  /\ rpc = "device"
  /\ rpc' = "gauge"
  /\ tracked' = tracked \cup {recorded.device}
  /\ age' = [age EXCEPT ![recorded.device] = 0]
  /\ UNCHANGED <<activeDevices, promVars, packetCounts, recorded, scrapeVars>>

\* DeviceTracker.get_active_count()
ActiveCount == Cardinality({d \in tracked : age[d] < Timeout})

SetGauge ==
  /\ rpc = "gauge"
  /\ rpc' = "legacy"
  /\ activeDevices' = ActiveCount
  /\ UNCHANGED <<tracked, age, promVars, packetCounts, recorded, scrapeVars>>

\* Mutant: the total is counted with the rule names, of allowed packets only.
IncLegacyAllowed ==
  /\ rpc = "legacy"
  /\ rpc' = "none"
  /\ packetCounts' = [packetCounts EXCEPT ![recorded.action] = @ + 1,
                        !["total"] = @ + (IF recorded.action = "allow" THEN 1 ELSE 0)]
  /\ UNCHANGED <<promVars, trackerVars, recorded, scrapeVars>>

IncLegacy ==
  /\ rpc = "legacy"
  /\ rpc' = "none"
  /\ packetCounts' = [packetCounts EXCEPT ![recorded.action] = @ + 1, !["total"] = @ + 1]
  /\ UNCHANGED <<promVars, trackerVars, recorded, scrapeVars>>

RecordStep == IncPackets \/ IncBvll \/ UpdateDevice \/ SetGauge \/ IncLegacy

-----------------------------------------------------------------------------
(* What else happens to the collector.                                     *)

\* Mutant: cleanup() keeps the stale devices and drops the active ones.
CleanupInverted == {d \in tracked : age[d] >= Timeout}

\* Mutant: cleanup() drops nothing.
CleanupForgotten == tracked

\* DeviceTracker.cleanup()
Cleanup == {d \in tracked : age[d] < Timeout}

\* The reporter calls get_snapshot() on the event loop, and logs the counts.
GetSnapshot ==
  /\ tracked' = Cleanup
  /\ UNCHANGED <<age, activeDevices, promVars, packetCounts, callVars, scrapeVars>>

\* A thread reads the registry, by scrape or export, one counter after another.
ScrapePackets ==
  /\ ~scraping
  /\ scraping' = TRUE
  /\ scraped' = [packets |-> packetsTotal, bvll |-> [a \in Actions |-> 0]]
  /\ UNCHANGED <<promVars, packetCounts, trackerVars, callVars>>

ScrapeBvll ==
  /\ scraping
  /\ scraping' = FALSE
  /\ scraped' = [scraped EXCEPT !.bvll = bvllTotal]
  /\ UNCHANGED <<promVars, packetCounts, trackerVars, callVars>>

Tick ==
  /\ age' = [d \in Devices |-> IF age[d] < Timeout THEN age[d] + 1 ELSE Timeout]
  /\ UNCHANGED <<tracked, activeDevices, promVars, packetCounts, callVars, scrapeVars>>

-----------------------------------------------------------------------------

MetricsTypeOK ==
  /\ packetsTotal \in [Actions -> Nat] /\ bvllTotal \in [Actions -> Nat]
  /\ packetCounts \in [Actions \cup {"total"} -> Nat]
  /\ tracked \subseteq Devices
  /\ age \in [Devices -> 0..Timeout]
  /\ activeDevices \in Nat
  /\ rpc \in {"none", "packets", "bvll", "device", "gauge", "legacy"}
  /\ recorded \in [action : Actions, device : Devices \cup {NoDevice}]
  /\ rpc \in {"device", "gauge"} => recorded.device \in Devices
  /\ scraping \in BOOLEAN
  /\ scraped \in [packets : [Actions -> Nat], bvll : [Actions -> Nat]]

=============================================================================
