------------------------------ MODULE Traffic ------------------------------
(***************************************************************************)
(* Packets on their way through the device, after the decision of AclBbmd: *)
(* counted by Metrics, forwarded by BroadcastForward, delivered locally;   *)
(* with the reporter, the threads that read the metrics, and the foreign   *)
(* devices that come and go.                                               *)
(*                                                                         *)
(* A packet is [kind, source, device, allowed, native].  An "original" or  *)
(* "distribute" broadcast is cut through, a "checked" packet went through  *)
(* the check, of the native engine or of the Python one.  Its device is    *)
(* the instance it comes from, if it shows one.                            *)
(***************************************************************************)
EXTENDS Metrics, BroadcastForward

CONSTANTS Packets, NoPacket

\* A broadcast is cut through as an allowed packet.
ASSUME PacketsAssumption ==
  \A p \in Packets :
    /\ p.device \in Devices \cup {NoDevice}
    /\ p.allowed \in BOOLEAN
    /\ p.native \in BOOLEAN
    /\ p.kind # "checked" => p.allowed

VARIABLES
  pc, packet,    \* confirmation() of a task
  forwardsTotal, \* record_bbmd_forward(): the counter, by peer
  delivered      \* the tasks whose packet the local network layer got

taskVars == <<pc, packet, forwardsTotal, delivered>>
vars == <<metricsVars, forwardVars, taskVars>>

Init ==
  /\ MetricsInit
  /\ ForwardInit
  /\ pc = [t \in Tasks |-> "idle"] /\ packet = [t \in Tasks |-> NoPacket]
  /\ forwardsTotal = [p \in Peers |-> 0]
  /\ delivered = {}

IsCutThrough(p) == p.kind # "checked"

ActionOf(p) == IF p.allowed THEN "allow" ELSE "deny"

\* The device a packet is recorded with: a cut-through packet is not inspected,
\* and what the native engine returns does not name it.
DeviceOf(p) == IF IsCutThrough(p) \/ p.native THEN NoDevice ELSE p.device

\* From the call of record_packet() to its next await a task keeps the loop.
LoopFree == \A t \in Tasks : pc[t] # "recording"

-----------------------------------------------------------------------------
(* confirmation(), from where it counts the packet.                        *)

Receive(t, p) ==
  /\ LoopFree
  /\ pc[t] = "idle"
  /\ pc' = [pc EXCEPT ![t] = "recording"]
  /\ packet' = [packet EXCEPT ![t] = p]
  /\ CallRecordPacket(ActionOf(p), DeviceOf(p))
  /\ UNCHANGED <<forwardVars, forwardsTotal, delivered>>

Record == RecordStep /\ UNCHANGED <<forwardVars, taskVars>>

\* Mutant: a cut-through packet is delivered before the forward.
AfterRecordEarly(t) ==
  /\ pc[t] = "recording"
  /\ rpc = "none"
  /\ IF IsCutThrough(packet[t]) THEN BeginForward(t, packet[t]) ELSE UNCHANGED forwardVars
  /\ pc' = [pc EXCEPT ![t] = IF packet[t].allowed THEN "delivering" ELSE "done"]
  /\ UNCHANGED <<metricsVars, packet, forwardsTotal, delivered>>

\* Counted: a checked packet is handed on or dropped, a broadcast forwarded.
AfterRecord(t) ==
  /\ pc[t] = "recording"
  /\ rpc = "none"
  /\ IF IsCutThrough(packet[t])
     THEN /\ BeginForward(t, packet[t])
          /\ pc' = [pc EXCEPT ![t] = IF place'[t] = Outside THEN "delivering" ELSE "forwarding"]
     ELSE /\ UNCHANGED forwardVars
          /\ pc' = [pc EXCEPT ![t] = IF packet[t].allowed THEN "delivering" ELSE "done"]
  /\ UNCHANGED <<metricsVars, packet, forwardsTotal, delivered>>

\* Mutant: the send is counted although it raised.
CountFailedToo(t) ==
  /\ pc[t] = "forwarding"
  /\ LoopFree
  /\ SendFails(t)
  /\ pc' = [pc EXCEPT ![t] = "failed"]
  /\ forwardsTotal' = IF target[t] \in Peers THEN [forwardsTotal EXCEPT ![target[t]] = @ + 1]
                      ELSE forwardsTotal
  /\ UNCHANGED <<metricsVars, packet, delivered>>

\* A send that raises ends the task: nothing is delivered.
ForwardFails(t) ==
  /\ pc[t] = "forwarding"
  /\ LoopFree
  /\ SendFails(t)
  /\ pc' = [pc EXCEPT ![t] = "failed"]
  /\ UNCHANGED <<metricsVars, packet, forwardsTotal, delivered>>

\* A send to a peer is counted when it has returned, one to a device is not.
ForwardSent(t) ==
  /\ pc[t] = "forwarding"
  /\ LoopFree
  /\ SendReturns(t, packet[t])
  /\ pc' = [pc EXCEPT ![t] = IF place'[t] = Outside THEN "delivering" ELSE "forwarding"]
  /\ forwardsTotal' = IF target[t] \in Peers THEN [forwardsTotal EXCEPT ![target[t]] = @ + 1]
                      ELSE forwardsTotal
  /\ UNCHANGED <<metricsVars, packet, delivered>>

\* self.response(), or the inherited confirmation() for a checked packet.
Deliver(t) ==
  /\ pc[t] = "delivering"
  /\ LoopFree
  /\ pc' = [pc EXCEPT ![t] = "done"]
  /\ delivered' = delivered \cup {t}
  /\ UNCHANGED <<metricsVars, forwardVars, packet, forwardsTotal>>

-----------------------------------------------------------------------------
(* The others.                                                             *)

Report == LoopFree /\ GetSnapshot /\ UNCHANGED <<forwardVars, taskVars>>

Scrape == (ScrapePackets \/ ScrapeBvll) /\ UNCHANGED <<forwardVars, taskVars>>

Clock == Tick /\ UNCHANGED <<forwardVars, taskVars>>

TableChange ==
  /\ LoopFree
  /\ \/ \E d \in ForeignDevices : RegisterDevice(d)
     \/ \E k \in DOMAIN bbmdFDT : RemoveDevice(k)
  /\ UNCHANGED <<metricsVars, taskVars>>

Next ==
  \/ \E t \in Tasks, p \in Packets : Receive(t, p)
  \/ Record
  \/ \E t \in Tasks : AfterRecord(t) \/ ForwardSent(t) \/ ForwardFails(t) \/ Deliver(t)
  \/ Report \/ Scrape \/ Clock \/ TableChange

Spec == Init /\ [][Next]_vars

\* The loop goes on with a task that keeps it, and gets to the reporter.
Fairness ==
  /\ WF_vars(Record) /\ \A t \in Tasks : WF_vars(AfterRecord(t))
  /\ SF_vars(Report)

FairSpec == Spec /\ Fairness

-----------------------------------------------------------------------------
(* Properties.                                                             *)

TypeOK ==
  /\ MetricsTypeOK
  /\ ForwardTypeOK
  /\ pc \in [Tasks -> {"idle", "recording", "forwarding", "failed", "delivering", "done"}]
  /\ packet \in [Tasks -> Packets \cup {NoPacket}]
  /\ forwardsTotal \in [Peers -> Nat]
  /\ delivered = {t \in Tasks : pc[t] = "done" /\ packet[t].allowed}
  /\ \A t \in Tasks : place[t] # Outside => pc[t] = "forwarding"

\* A broadcast that is delivered locally after its forward has been sent to
\* every peer once, the one it came from included, and to a foreign device at
\* most once for each entry the device had since the forward began: one that
\* leaves and registers again may get it twice.  A device registered all the
\* time is passed over only when an entry was removed meanwhile, one device for
\* one removal.  What a foreign device distributes never goes back to it
\* (bbmd.py:295-308, 331-375).
ForwardReachesEveryone ==
  \A t \in Tasks :
    (pc[t] \in {"delivering", "done"} /\ IsCutThrough(packet[t])) =>
      /\ \A p \in Peers : sent[t][p] = 1
      /\ \A d \in ForeignDevices : sent[t][d] <= joined[t][d]
      /\ Cardinality({d \in steady[t] : sent[t][d] = 0}) <= removals[t]
      /\ packet[t].kind = "distribute" /\ packet[t].source \in ForeignDevices =>
           sent[t][packet[t].source] = 0

\* The sends of all tasks to a peer, numbered within a task.
SendsTo(p) == UNION {{t} \X (1..sent[t][p]) : t \in Tasks}

\* The forward counter of a peer is the number of packets sent to it, failed
\* and unfinished forwards included (bbmd.py:345-348, 366-369).
ForwardsCountedWhenSent == \A p \in Peers : forwardsTotal[p] = Cardinality(SendsTo(p))

\* The gauge never shows fewer devices than the collector has recorded a packet
\* of within the timeout: silence makes it too high until the next such packet,
\* and cleaning the table up never makes it too low (metrics.py:223-237,
\* 358-360, 402).  A device all of whose packets are cut through or judged by
\* the native engine is never recorded (DeviceOf), and the gauge does not
\* promise to show it.
GaugeCoversTheRecorded ==
  rpc # "gauge" => Cardinality({d \in Devices : age[d] < Timeout}) <= activeDevices

\* Whenever the loop is free, all counters agree with each other and with how
\* the packets were treated (metrics.py:334-370, bbmd.py:166-199, 285-293).
CountersAgreeAtRest ==
  LoopFree =>
    /\ \A a \in Actions :
         /\ packetsTotal[a] = Cardinality({t \in Tasks : pc[t] # "idle" /\ ActionOf(packet[t]) = a})
         /\ bvllTotal[a] = packetsTotal[a] /\ packetCounts[a] = packetsTotal[a]
    /\ packetCounts["total"] = packetCounts["allow"] + packetCounts["deny"]

\* A scrape that falls between the increments of one packet lacks that packet
\* in the counters it reads later, and never more than that one, whatever it
\* misses in between (metrics.py:288-316, 334-338, 415-417).
ScrapeLagsByOne ==
  ~scraping => \A a \in Actions : scraped.packets[a] <= scraped.bvll[a] + 1

\* A device that falls silent for good leaves the table: the reporter's
\* snapshots clean it (metrics.py:229-237, 402; __main__.py:168-174).
SilentDevicesForgotten ==
  \A d \in Devices : <>[](age[d] = Timeout) => <>[](d \notin tracked)

=============================================================================
