---------------------------- MODULE ForwardProofs ----------------------------
(***************************************************************************)
(* The proof that a forwarded broadcast reaches everyone, for any tables   *)
(* and any packets.                                                        *)
(***************************************************************************)
EXTENDS TrafficProofs

USE DEF vars, metricsVars, promVars, trackerVars, callVars, scrapeVars, taskVars

-----------------------------------------------------------------------------
(* The invariant.                                                          *)

AtPeers(t) == place[t].table = "peers"

\* The last entry of the FDT a task has come to, 0 in the first loop.
Passed(t) == IF place[t].table = "devices" THEN place[t].at ELSE 0

\* The registered devices up to entry j of the FDT that were not sent to.
Unsent(t, j) == {d \in steady[t] : sent[t][d] = 0 /\ \E k \in DOMAIN bbmdFDT : k <= j /\ bbmdFDT[k] = d}

\* The devices a task has passed over: their entries have moved before the
\* index of the loop.
Missed(t) == Unsent(t, Passed(t)) \ {target[t]}

\* The devices whose turn it is not yet were not sent to, those passed over
\* are as many as the entries deleted.
DevicesInv(t) ==
  /\ steady[t] \subseteq Range(bbmdFDT)
  /\ \A d \in steady[t] : sent[t][d] <= 1 /\ (target[t] = d => sent[t][d] = 0)
  /\ \A k \in DOMAIN bbmdFDT :
       k > Passed(t) /\ bbmdFDT[k] \in steady[t] => sent[t][bbmdFDT[k]] = 0 /\ bbmdFDT[k] # target[t]
  /\ Cardinality(Missed(t)) <= removals[t]
  /\ ~AtPeers(t) => target[t] \in ForeignDevices

\* The peers before the index of the loop were sent to, once.
PeersInv(t) ==
  /\ AtPeers(t) =>
       /\ place[t].at \in DOMAIN BDT
       /\ target[t] = IF BDT[place[t].at] = BbmdAddress THEN LocalBroadcast ELSE BDT[place[t].at]
  /\ \A k \in DOMAIN BDT :
       BDT[k] \in Peers => sent[t][BDT[k]] = IF AtPeers(t) /\ k >= place[t].at THEN 0 ELSE 1

\* A distributed broadcast is not sent to where it came from.
SourceInv(t) ==
  LET source == packet[t].source IN
  packet[t].kind = "distribute" =>
    /\ source \notin steady[t]
    /\ source \in ForeignDevices => sent[t][source] = 0 /\ target[t] # source

\* The send a task awaits, and the one it will get to, as things are.
Awaits(t, d) == IF target[t] = d THEN 1 ELSE 0
Waits(t, d, j) == IF \E k \in DOMAIN bbmdFDT : k > j /\ bbmdFDT[k] = d THEN 1 ELSE 0

\* The sends to a device, made and to come, are no more than its entries.
OnceInv(t) ==
  \A d \in ForeignDevices : sent[t][d] + Awaits(t, d) + Waits(t, d, Passed(t)) <= joined[t][d]

\* What ForwardReachesEveryone says of a task that has left the loops.
Reached(t) ==
  /\ \A p \in Peers : sent[t][p] = 1
  /\ Cardinality({d \in steady[t] : sent[t][d] = 0}) <= removals[t]
  /\ packet[t].kind = "distribute" /\ packet[t].source \in ForeignDevices =>
       sent[t][packet[t].source] = 0

NotTooOften(t) == \A d \in ForeignDevices : sent[t][d] <= joined[t][d]

TaskInv(t) ==
  /\ IsFiniteSet(steady[t])
  /\ pc[t] \in {"idle", "recording"} => removals[t] = 0 /\ \A d \in Destinations : sent[t][d] = 0
  /\ pc[t] = "forwarding" => place[t] # Outside /\ DevicesInv(t) /\ PeersInv(t) /\ SourceInv(t) /\ OnceInv(t)
  /\ pc[t] \in {"delivering", "done"} /\ IsCutThrough(packet[t]) => Reached(t) /\ NotTooOften(t)

ForwardInv == TypeInv /\ IsInjective(bbmdFDT) /\ \A t \in Tasks : TaskInv(t)

-----------------------------------------------------------------------------
(* A task goes on to its next entry.                                       *)

\* Everyone up to entry i of a table was sent to or passed over.
DoneUpTo(t, table, i) ==
  /\ steady[t] \subseteq Range(bbmdFDT) /\ steady[t] \subseteq ForeignDevices /\ IsFiniteSet(steady[t])
  /\ removals[t] \in Nat
  /\ \A d \in steady[t] : sent[t][d] \in 0..1
  /\ \A k \in DOMAIN BDT : BDT[k] \in Peers => sent[t][BDT[k]] = IF table = "peers" /\ k > i THEN 0 ELSE 1
  /\ \A k \in DOMAIN bbmdFDT :
       k > Index(table, i) /\ bbmdFDT[k] \in steady[t] => sent[t][bbmdFDT[k]] = 0
  /\ Cardinality(Unsent(t, Index(table, i))) <= removals[t]
  /\ packet[t].kind = "distribute" =>
       /\ packet[t].source \notin steady[t]
       /\ packet[t].source \in ForeignDevices => sent[t][packet[t].source] = 0

\* On to a peer: no device has been come to.
LEMMA ArriveAtPeer ==
  ASSUME NEW t, NEW i \in Nat, NEW k, DoneUpTo(t, "peers", i), IsLeast(k, PeersAfter(packet[t], i)),
         place[t] = [table |-> "peers", at |-> k], target[t] = DestinationAt(place[t])
  PROVE  DevicesInv(t) /\ PeersInv(t) /\ SourceInv(t)
<1> USE DEF DoneUpTo, Index
<1>1. place[t].table = "peers" /\ place[t].at = k /\ AtPeers(t) /\ Passed(t) = 0
  BY DEF AtPeers, Passed
<1>2. k \in DOMAIN BDT /\ k > i /\ \A m \in PeersAfter(packet[t], i) : k <= m
  BY DEF IsLeast, PeersAfter
<1>3. DOMAIN BDT \subseteq Nat \ {0}
  BY TablesAssumption
<1>4. target[t] = IF BDT[k] = BbmdAddress THEN LocalBroadcast ELSE BDT[k]
  BY <1>1 DEF DestinationAt, Outside
<1>5. target[t] \notin ForeignDevices
  BY <1>2, <1>4, AddressesAssumption DEF Peers, Range
<1>6. PeersInv(t)
  <2>1. ASSUME NEW m \in DOMAIN BDT, BDT[m] \in Peers PROVE m >= k <=> m > i
    <3>1. BDT[m] # BbmdAddress
      BY <2>1 DEF Peers
    <3>2. m > i => m \in PeersAfter(packet[t], i)
      BY <3>1 DEF PeersAfter
    <3> QED
      BY <1>2, <1>3, <3>2
  <2> QED
    BY <1>1, <1>2, <1>4, <2>1 DEF PeersInv
<1>7. SourceInv(t)
  BY <1>5 DEF SourceInv
<1>8. Missed(t) \subseteq Unsent(t, 0) /\ IsFiniteSet(Unsent(t, 0))
  BY <1>1, FS_Subset DEF Missed, Unsent
<1>9. DevicesInv(t)
  <2>1. Cardinality(Missed(t)) <= removals[t]
    BY <1>8, FS_Subset, FS_CardinalityType
  <2> QED
    BY <1>1, <1>5, <2>1 DEF DevicesInv
<1> QED
  BY <1>6, <1>7, <1>9

\* On to a device: no peer is left, and no device has been jumped over that the
\* broadcast is for.
LEMMA ArriveAtDevice ==
  ASSUME ForwardTypeOK, IsInjective(bbmdFDT), NEW t, NEW table, NEW i \in Nat, NEW k,
         DoneUpTo(t, table, i),
         PeersDone(packet[t], table, i),
         IsLeast(k, DevicesAfter(packet[t], Index(table, i))),
         place[t] = [table |-> "devices", at |-> k], target[t] = DestinationAt(place[t])
  PROVE  DevicesInv(t) /\ PeersInv(t) /\ SourceInv(t)
<1> USE DEF DoneUpTo
<1>1. place[t].table = "devices" /\ place[t].at = k /\ ~AtPeers(t) /\ Passed(t) = k
  BY DEF AtPeers, Passed
<1>2. /\ k \in DOMAIN bbmdFDT /\ k > Index(table, i)
      /\ packet[t].kind = "distribute" => bbmdFDT[k] # packet[t].source
      /\ \A m \in DevicesAfter(packet[t], Index(table, i)) : k <= m
  BY DEF IsLeast, DevicesAfter
<1>3. Index(table, i) \in Nat /\ DOMAIN bbmdFDT \subseteq Nat \ {0}
  BY DEF Index, ForwardTypeOK
<1>4. target[t] = bbmdFDT[k] /\ target[t] \in ForeignDevices
  <2>1. target[t] = bbmdFDT[k]
    BY <1>1 DEF DestinationAt, Outside
  <2> QED
    BY <1>2, <2>1 DEF ForwardTypeOK
<1>5. PeersInv(t)
  <2>1. ASSUME NEW m \in DOMAIN BDT, BDT[m] \in Peers PROVE ~(table = "peers" /\ m > i)
    BY <2>1 DEF PeersAfter, Peers, PeersDone
  <2> QED
    BY <1>1, <2>1 DEF PeersInv
<1>6. SourceInv(t)
  BY <1>2, <1>4 DEF SourceInv
<1>7. ASSUME NEW m \in DOMAIN bbmdFDT, bbmdFDT[m] \in steady[t]
      PROVE  m > Index(table, i) => k <= m
  BY <1>2, <1>7 DEF DevicesAfter
<1>8. Missed(t) \subseteq Unsent(t, Index(table, i)) /\ IsFiniteSet(Unsent(t, Index(table, i)))
  <2>0. IsFiniteSet(Unsent(t, Index(table, i)))
    BY FS_Subset DEF Unsent
  <2> SUFFICES ASSUME NEW d \in Missed(t) PROVE \E m \in DOMAIN bbmdFDT : m <= Index(table, i) /\ bbmdFDT[m] = d
    BY <2>0 DEF Missed, Unsent
  <2>1. PICK m \in DOMAIN bbmdFDT : m <= k /\ bbmdFDT[m] = d
    BY <1>1 DEF Missed, Unsent
  <2>2. m # k /\ d \in steady[t]
    BY <1>4, <2>1 DEF Missed, Unsent
  <2>3. m <= Index(table, i)
    BY <1>2, <1>3, <1>7, <2>1, <2>2
  <2> QED
    BY <2>1, <2>3
<1>9. DevicesInv(t)
  <2>1. Cardinality(Missed(t)) <= removals[t]
    BY <1>8, FS_Subset, FS_CardinalityType
  <2>2. \A m \in DOMAIN bbmdFDT : m > k => bbmdFDT[m] # bbmdFDT[k]
    BY <1>2, <1>3 DEF IsInjective
  <2>3. \A m \in DOMAIN bbmdFDT : m > k => m > Index(table, i)
    BY <1>2, <1>3
  <2> QED
    BY <1>1, <1>2, <1>4, <2>1, <2>2, <2>3 DEF DevicesInv
<1> QED
  BY <1>5, <1>6, <1>9

\* Out of the loops: nobody is left.
LEMMA LeaveTheLoops ==
  ASSUME ForwardTypeOK, NEW t, NEW table, NEW i \in Nat, DoneUpTo(t, table, i),
         PeersDone(packet[t], table, i),
         DevicesAfter(packet[t], Index(table, i)) = {}
  PROVE  Reached(t)
<1> USE DEF DoneUpTo
<1>1. Index(table, i) \in Nat /\ DOMAIN bbmdFDT \subseteq Nat \ {0} /\ DOMAIN BDT \subseteq Nat \ {0}
  BY TablesAssumption DEF Index, ForwardTypeOK
<1>2. ASSUME NEW p \in Peers PROVE sent[t][p] = 1
  <2>1. PICK m \in DOMAIN BDT : BDT[m] = p
    BY DEF Peers, Range
  <2>2. ~(table = "peers" /\ m > i)
    BY <2>1 DEF PeersAfter, Peers, PeersDone
  <2> QED
    BY <2>1, <2>2
<1>3. /\ {d \in steady[t] : sent[t][d] = 0} \subseteq Unsent(t, Index(table, i))
      /\ IsFiniteSet(Unsent(t, Index(table, i)))
  <2>0. IsFiniteSet(Unsent(t, Index(table, i)))
    BY FS_Subset DEF Unsent
  <2> SUFFICES ASSUME NEW d \in steady[t] PROVE \E m \in DOMAIN bbmdFDT : m <= Index(table, i) /\ bbmdFDT[m] = d
    BY <2>0 DEF Unsent
  <2>1. PICK m \in DOMAIN bbmdFDT : bbmdFDT[m] = d
    BY DEF Range
  <2>2. ~(m > Index(table, i))
    BY <2>1 DEF DevicesAfter
  <2> QED
    BY <1>1, <2>1, <2>2
<1>4. Cardinality({d \in steady[t] : sent[t][d] = 0}) <= removals[t]
  BY <1>3, FS_Subset, FS_CardinalityType
<1> QED
  BY <1>2, <1>4 DEF Reached

\* Wherever the loops go from an entry that is done, the invariant holds there.
GoesOn ==
  \A t : \A table : \A i \in Nat :
    ( /\ ForwardTypeOK /\ IsInjective(bbmdFDT) /\ DoneUpTo(t, table, i)
      /\ place[t] = Following(packet[t], table, i) /\ target[t] = DestinationAt(place[t]) )
    => IF place[t] = Outside THEN Reached(t) ELSE DevicesInv(t) /\ PeersInv(t) /\ SourceInv(t)

LEMMA GoingOn == GoesOn
<1> SUFFICES ASSUME ForwardTypeOK, IsInjective(bbmdFDT), NEW t, NEW table, NEW i \in Nat,
                    DoneUpTo(t, table, i),
                    place[t] = Following(packet[t], table, i), target[t] = DestinationAt(place[t])
             PROVE  IF place[t] = Outside THEN Reached(t) ELSE DevicesInv(t) /\ PeersInv(t) /\ SourceInv(t)
  BY DEF GoesOn
<1>1. bbmdFDT \in Seq(ForeignDevices)
  BY DEF ForwardTypeOK
<1>2. CASE GoesToPeer(packet[t], table, i, place[t])
  BY <1>2, ArriveAtPeer DEF Outside, GoesToPeer
<1>3. CASE GoesToDevice(packet[t], table, i, place[t])
  BY <1>3, ArriveAtDevice DEF Outside, GoesToDevice
<1>4. CASE Leaves(packet[t], table, i, place[t])
  BY <1>4, LeaveTheLoops DEF Leaves
<1> QED
  BY <1>1, <1>2, <1>3, <1>4, WhereTheLoopsGo

\* A device a task comes to was waiting, and waits no longer.
ComesOnce ==
  \A t : \A table : \A i \in Nat :
    ( /\ ForwardTypeOK /\ IsInjective(bbmdFDT)
      /\ place[t] = Following(packet[t], table, i) /\ target[t] = DestinationAt(place[t]) )
    => \A d \in ForeignDevices :
         Awaits(t, d) + (IF place[t] = Outside THEN 0 ELSE Waits(t, d, Passed(t)))
           <= Waits(t, d, Index(table, i))

LEMMA ComingOnce == ComesOnce
<1> SUFFICES ASSUME ForwardTypeOK, IsInjective(bbmdFDT), NEW t, NEW table, NEW i \in Nat,
                    place[t] = Following(packet[t], table, i), target[t] = DestinationAt(place[t]),
                    NEW d \in ForeignDevices
             PROVE  Awaits(t, d) + (IF place[t] = Outside THEN 0 ELSE Waits(t, d, Passed(t)))
                      <= Waits(t, d, Index(table, i))
  BY DEF ComesOnce
<1>1. bbmdFDT \in Seq(ForeignDevices) /\ DOMAIN bbmdFDT \subseteq Nat \ {0}
  BY DEF ForwardTypeOK
<1>2. CASE GoesToPeer(packet[t], table, i, place[t])
  <2>1. PICK k \in DOMAIN BDT : place[t] = [table |-> "peers", at |-> k]
    BY <1>2 DEF GoesToPeer, IsLeast, PeersAfter
  <2>2. target[t] = IF BDT[k] = BbmdAddress THEN LocalBroadcast ELSE BDT[k]
    BY <2>1 DEF DestinationAt, Outside
  <2>3. Awaits(t, d) = 0
    BY <2>2, AddressesAssumption DEF Awaits, Peers, Range
  <2>4. Passed(t) = 0 /\ Index(table, i) = 0
    BY <1>2, <2>1 DEF Passed, Index, GoesToPeer
  <2> QED
    BY <2>3, <2>4 DEF Waits
<1>3. CASE GoesToDevice(packet[t], table, i, place[t])
  <2>1. PICK k : /\ k \in DOMAIN bbmdFDT /\ k > Index(table, i)
                 /\ place[t] = [table |-> "devices", at |-> k]
    BY <1>3 DEF GoesToDevice, IsLeast, DevicesAfter
  <2>2. target[t] = bbmdFDT[k] /\ Passed(t) = k
    BY <2>1 DEF DestinationAt, Outside, Passed
  <2>3. Index(table, i) \in Nat
    BY DEF Index
  <2>4. CASE d = bbmdFDT[k]
    <3>1. Waits(t, d, k) = 0
      BY <1>1, <2>1, <2>4 DEF Waits, IsInjective
    <3>2. Waits(t, d, Index(table, i)) = 1
      BY <2>1, <2>4 DEF Waits
    <3> QED
      BY <2>2, <3>1, <3>2 DEF Awaits
  <2>5. CASE d # bbmdFDT[k]
    <3>1. Waits(t, d, k) <= Waits(t, d, Index(table, i))
      BY <1>1, <2>1, <2>3 DEF Waits
    <3>2. Awaits(t, d) = 0 /\ Waits(t, d, k) \in Nat /\ Waits(t, d, Index(table, i)) \in Nat
      BY <2>2, <2>5 DEF Awaits, Waits
    <3> QED
      BY <2>2, <3>1, <3>2
  <2> QED
    BY <2>4, <2>5
<1>4. CASE Leaves(packet[t], table, i, place[t])
  <2>1. place[t] = Outside /\ target[t] = NoTarget
    <3>1. place[t] = Outside
      BY <1>4 DEF Leaves
    <3> QED
      BY <3>1 DEF DestinationAt, Outside
  <2>2. Awaits(t, d) = 0
    BY <2>1, AddressesAssumption DEF Awaits, Destinations
  <2> QED
    BY <2>1, <2>2 DEF Waits
<1> QED
  BY <1>1, <1>2, <1>3, <1>4, WhereTheLoopsGo

-----------------------------------------------------------------------------
(* The steps of a forwarding task.                                         *)

\* A send that returns: the entry is done, and the loops go on.
LEMMA SendReturnsInv ==
  ASSUME ForwardInv, NEW t \in Tasks, ForwardSent(t)
  PROVE  TaskInv(t)'
<1>1. /\ pc[t] = "forwarding" /\ SendReturns(t, packet[t]) /\ UNCHANGED packet
      /\ pc' = [pc EXCEPT ![t] = IF place'[t] = Outside THEN "delivering" ELSE "forwarding"]
  BY DEF ForwardSent
<1>2. /\ place[t] # Outside /\ DevicesInv(t) /\ PeersInv(t) /\ SourceInv(t) /\ OnceInv(t)
      /\ IsFiniteSet(steady[t])
      /\ ForwardTypeOK /\ ForwardTypeOK' /\ IsInjective(bbmdFDT)
      /\ pc \in [Tasks -> {"idle", "recording", "forwarding", "failed", "delivering", "done"}]
  BY <1>1, ForwardTypes DEF ForwardInv, TaskInv, TypeInv, TypeOK
<1> PICK table \in {"peers", "devices"}, i \in Nat \ {0} : table = place[t].table /\ i = place[t].at
  BY <1>2 DEF ForwardTypeOK
<1>3. /\ UNCHANGED <<bbmdFDT, joined, steady, removals>>
      /\ sent' = [sent EXCEPT ![t][target[t]] = @ + 1]
      /\ place'[t] = Following(packet[t], table, i) /\ target'[t] = DestinationAt(place'[t])
  BY <1>1, <1>2 DEF SendReturns, GoTo, ForwardTypeOK
<1>4. /\ target[t] \in Destinations /\ steady[t] \subseteq ForeignDevices /\ removals[t] \in Nat
      /\ sent[t] \in [Destinations -> Nat]
  BY <1>2 DEF ForwardTypeOK
<1>5. \A d \in Destinations : sent'[t][d] = IF d = target[t] THEN sent[t][d] + 1 ELSE sent[t][d]
  BY <1>2, <1>3, <1>4 DEF ForwardTypeOK
<1>6. DoneUpTo(t, table, i)'
  <2>1. \A d \in steady[t] : sent'[t][d] \in 0..1
    BY <1>2, <1>4, <1>5 DEF DevicesInv, Destinations
  <2>2. ASSUME NEW k \in DOMAIN BDT, BDT[k] \in Peers
        PROVE  sent'[t][BDT[k]] = IF table = "peers" /\ k > i THEN 0 ELSE 1
    <3>1. BDT[k] \in Destinations /\ k \in Nat /\ BDT[k] # BbmdAddress /\ BDT[k] # LocalBroadcast
      BY <2>2, TablesAssumption, AddressesAssumption DEF Destinations, Peers
    <3>2. CASE table = "peers"
      <4>1. i \in DOMAIN BDT /\ target[t] = IF BDT[i] = BbmdAddress THEN LocalBroadcast ELSE BDT[i]
        BY <1>2, <3>2 DEF PeersInv, AtPeers
      <4>2. sent[t][BDT[k]] = IF k >= i THEN 0 ELSE 1
        BY <1>2, <2>2, <3>2 DEF PeersInv, AtPeers
      <4>3. BDT[k] = target[t] <=> k = i
        BY <3>1, <4>1, TablesAssumption DEF IsInjective
      <4> QED
        BY <1>4, <1>5, <3>1, <3>2, <4>2, <4>3
    <3>3. CASE table = "devices"
      <4>1. target[t] \in ForeignDevices /\ sent[t][BDT[k]] = 1
        BY <1>2, <2>2, <3>3 DEF PeersInv, DevicesInv, AtPeers
      <4> QED
        BY <1>5, <2>2, <3>1, <3>3, <4>1, AddressesAssumption
    <3> QED
      BY <1>4, <3>2, <3>3
  <2>3. Index(table, i) = Passed(t)
    BY <1>4 DEF Index, Passed
  <2>4. ASSUME NEW k \in DOMAIN bbmdFDT, k > Index(table, i), bbmdFDT[k] \in steady[t]
        PROVE  sent'[t][bbmdFDT[k]] = 0
    BY <1>2, <1>4, <1>5, <2>3, <2>4 DEF DevicesInv, Destinations
  <2>5. Unsent(t, Index(table, i))' \subseteq Missed(t)
    <3> SUFFICES ASSUME NEW d \in steady[t], sent'[t][d] = 0
                 PROVE  sent[t][d] = 0 /\ d # target[t]
      BY <1>3, <2>3 DEF Missed, Unsent
    <3> QED
      BY <1>4, <1>5 DEF Destinations
  <2>6. IsFiniteSet(Missed(t)) /\ Cardinality(Missed(t)) \in Nat /\ Cardinality(Missed(t)) <= removals[t]
    BY <1>2, FS_Subset, FS_CardinalityType DEF Missed, Unsent, DevicesInv
  <2>7. Cardinality(Unsent(t, Index(table, i))') <= removals[t]
    BY <1>4, <2>5, <2>6, FS_Subset, FS_CardinalityType
  <2>8. packet[t].kind = "distribute" /\ packet[t].source \in ForeignDevices =>
          sent'[t][packet[t].source] = 0
    BY <1>2, <1>5 DEF SourceInv, Destinations
  <2>9. steady[t] \subseteq Range(bbmdFDT) /\ (packet[t].kind = "distribute" => packet[t].source \notin steady[t])
    BY <1>2 DEF DevicesInv, SourceInv
  <2> QED
    BY <1>1, <1>2, <1>3, <1>4, <2>1, <2>2, <2>4, <2>7, <2>8, <2>9 DEF DoneUpTo
<1>7. IF place'[t] = Outside THEN Reached(t)' ELSE (DevicesInv(t) /\ PeersInv(t) /\ SourceInv(t))'
  <2>1. GoesOn'
    BY GoingOn, PTL
  <2>2. /\ IsInjective(bbmdFDT)' /\ place'[t] = Following(packet[t], table, i)'
        /\ target'[t] = DestinationAt(place[t])'
    BY <1>1, <1>2, <1>3 DEF Following, DestinationAt, DevicesAfter, PeersAfter
  <2> QED
    BY <1>2, <1>6, <2>1, <2>2 DEF GoesOn
<1>8. IF place'[t] = Outside THEN NotTooOften(t)' ELSE OnceInv(t)'
  <2> SUFFICES ASSUME NEW d \in ForeignDevices
               PROVE  IF place'[t] = Outside THEN sent'[t][d] <= joined'[t][d]
                      ELSE sent'[t][d] + Awaits(t, d)' + Waits(t, d, Passed(t))' <= joined'[t][d]
    BY DEF OnceInv, NotTooOften
  <2>1. ComesOnce'
    BY ComingOnce, PTL
  <2>2. /\ IsInjective(bbmdFDT)' /\ place'[t] = Following(packet[t], table, i)'
        /\ target'[t] = DestinationAt(place[t])'
    BY <1>1, <1>2, <1>3 DEF Following, DestinationAt, DevicesAfter, PeersAfter
  <2>3. Awaits(t, d)' + (IF place'[t] = Outside THEN 0 ELSE Waits(t, d, Passed(t))')
          <= Waits(t, d, Index(table, i))'
    BY <1>2, <2>1, <2>2 DEF ComesOnce
  <2>4. Waits(t, d, Index(table, i))' = Waits(t, d, Passed(t))
    BY <1>3, <1>4 DEF Waits, Index, Passed
  <2>5. sent'[t][d] = sent[t][d] + Awaits(t, d)
    BY <1>4, <1>5 DEF Awaits, Destinations
  <2>6. sent[t][d] + Awaits(t, d) + Waits(t, d, Passed(t)) <= joined[t][d]
    BY <1>2 DEF OnceInv
  <2>7. /\ sent[t][d] \in Nat /\ joined[t][d] \in Nat /\ joined'[t][d] = joined[t][d]
        /\ Awaits(t, d) \in Nat /\ Awaits(t, d)' \in Nat
        /\ Waits(t, d, Passed(t)) \in Nat /\ Waits(t, d, Passed(t))' \in Nat
    BY <1>2, <1>3, <1>4 DEF Awaits, Waits, Destinations, ForwardTypeOK
  <2> QED
    BY <2>3, <2>4, <2>5, <2>6, <2>7
<1> QED
  BY <1>1, <1>2, <1>3, <1>7, <1>8 DEF TaskInv

\* The entries of a table are finitely many.
LEMMA FiniteRange ==
  ASSUME NEW S, NEW s \in Seq(S)
  PROVE  IsFiniteSet(Range(s))
<1>1. Len(s) \in Nat /\ s \in [1..Len(s) -> S]
  BY LenProperties
<1>2. s \in Surjection(1..Len(s), Range(s))
  BY <1>1 DEF Surjection, Range
<1> QED
  BY <1>1, <1>2, FS_Interval, FS_Surjection

\* The broadcast begins: nobody was sent to, and all that are registered are
\* waiting.
LEMMA BeginForwardInv ==
  ASSUME ForwardInv, NEW t \in Tasks, AfterRecord(t)
  PROVE  TaskInv(t)'
<1>1. /\ pc[t] = "recording" /\ UNCHANGED packet
      /\ pc \in [Tasks -> {"idle", "recording", "forwarding", "failed", "delivering", "done"}]
      /\ ForwardTypeOK /\ IsFiniteSet(steady[t]) /\ removals[t] = 0
      /\ \A d \in Destinations : sent[t][d] = 0
  BY DEF AfterRecord, ForwardInv, TypeInv, TypeOK, TaskInv
<1>2. CASE ~IsCutThrough(packet[t])
  <2>1. UNCHANGED forwardVars /\ pc'[t] \in {"delivering", "done"}
    BY <1>1, <1>2 DEF AfterRecord
  <2> QED
    BY <1>1, <1>2, <2>1 DEF TaskInv, forwardVars, IsCutThrough
<1>3. CASE IsCutThrough(packet[t])
  <2>1. /\ BeginForward(t, packet[t])
        /\ pc' = [pc EXCEPT ![t] = IF place'[t] = Outside THEN "delivering" ELSE "forwarding"]
    BY <1>3 DEF AfterRecord
  <2>2. /\ UNCHANGED <<bbmdFDT, sent, removals>>
        /\ joined'[t] = [d \in ForeignDevices |-> IF d \in Range(bbmdFDT) THEN 1 ELSE 0]
        /\ place'[t] = Following(packet[t], "peers", 0) /\ target'[t] = DestinationAt(place'[t])
        /\ steady'[t] = {d \in Range(bbmdFDT) : packet[t].kind = "distribute" => d # packet[t].source}
    BY <1>1, <2>1 DEF BeginForward, GoTo, ForwardTypeOK
  <2>3. ForwardTypeOK' /\ IsInjective(bbmdFDT)
    BY <1>1, <2>1, ForwardTypes DEF ForwardInv
  <2>4. /\ Range(bbmdFDT) \subseteq ForeignDevices /\ IsFiniteSet(Range(bbmdFDT))
        /\ DOMAIN bbmdFDT \subseteq Nat \ {0} /\ DOMAIN BDT \subseteq Nat \ {0}
    <3>1. bbmdFDT \in Seq(ForeignDevices)
      BY <1>1 DEF ForwardTypeOK
    <3>2. Range(bbmdFDT) \subseteq ForeignDevices
      BY <3>1 DEF Range
    <3> QED
      BY <3>1, <3>2, FiniteRange, TablesAssumption
  <2>5. DoneUpTo(t, "peers", 0)'
    <3>1. steady'[t] \subseteq Range(bbmdFDT) /\ IsFiniteSet(steady'[t])
      BY <2>2, <2>4, FS_Subset
    <3>2. \A d \in Destinations : sent'[t][d] = 0
      BY <1>1, <2>2
    <3>3. Unsent(t, Index("peers", 0))' = {}
      BY <2>2, <2>4 DEF Unsent, Index
    <3>4. Cardinality(Unsent(t, Index("peers", 0))') <= removals'[t]
      BY <1>1, <2>2, <3>3, FS_EmptySet
    <3>5. \A k \in DOMAIN BDT : k > 0
      BY <2>4
    <3> QED
      BY <1>1, <2>2, <2>4, <3>1, <3>2, <3>4, <3>5 DEF DoneUpTo, Destinations
  <2>6. IF place'[t] = Outside THEN Reached(t)' ELSE (DevicesInv(t) /\ PeersInv(t) /\ SourceInv(t))'
    <3>1. GoesOn'
      BY GoingOn, PTL
    <3>2. /\ IsInjective(bbmdFDT)' /\ place'[t] = Following(packet[t], "peers", 0)'
          /\ target'[t] = DestinationAt(place[t])'
      BY <1>1, <2>2, <2>3 DEF Following, DestinationAt, DevicesAfter, PeersAfter
    <3> QED
      BY <2>3, <2>5, <3>1, <3>2 DEF GoesOn
  <2>7. IsFiniteSet(steady'[t])
    BY <2>2, <2>4, FS_Subset
  <2>8. IF place'[t] = Outside THEN NotTooOften(t)' ELSE OnceInv(t)'
    <3> SUFFICES ASSUME NEW d \in ForeignDevices
                 PROVE  IF place'[t] = Outside THEN sent'[t][d] <= joined'[t][d]
                        ELSE sent'[t][d] + Awaits(t, d)' + Waits(t, d, Passed(t))' <= joined'[t][d]
      BY DEF OnceInv, NotTooOften
    <3>1. ComesOnce'
      BY ComingOnce, PTL
    <3>2. /\ IsInjective(bbmdFDT)' /\ place'[t] = Following(packet[t], "peers", 0)'
          /\ target'[t] = DestinationAt(place[t])'
      BY <1>1, <2>2, <2>3 DEF Following, DestinationAt, DevicesAfter, PeersAfter
    <3>3. Awaits(t, d)' + (IF place'[t] = Outside THEN 0 ELSE Waits(t, d, Passed(t))')
            <= Waits(t, d, Index("peers", 0))'
      BY <2>3, <3>1, <3>2 DEF ComesOnce
    <3>4. Waits(t, d, Index("peers", 0))' <= joined'[t][d]
      BY <2>2 DEF Waits, Index, Range
    <3>5. sent'[t][d] = 0
      BY <1>1, <2>2 DEF Destinations
    <3>6. /\ joined'[t][d] \in Nat /\ Waits(t, d, Index("peers", 0))' \in Nat
          /\ Awaits(t, d)' \in Nat /\ Waits(t, d, Passed(t))' \in Nat
      BY <2>2 DEF Awaits, Waits
    <3> QED
      BY <3>3, <3>4, <3>5, <3>6
  <2> QED
    BY <1>1, <2>1, <2>6, <2>7, <2>8 DEF TaskInv
<1> QED
  BY <1>2, <1>3

\* What a task does leaves the others alone.
LEMMA OtherTasks ==
  ASSUME NEW u, TaskInv(u), UNCHANGED bbmdFDT,
         UNCHANGED <<pc[u], packet[u], place[u], target[u], sent[u], joined[u], steady[u], removals[u]>>
  PROVE  TaskInv(u)'
BY DEF TaskInv, DevicesInv, PeersInv, SourceInv, OnceInv, NotTooOften, Awaits, Waits,
       Missed, Unsent, Passed, AtPeers, Reached, IsCutThrough

LEMMA TaskSteps ==
  ASSUME ForwardInv, NEW t \in Tasks,
         (\E p \in Packets : Receive(t, p)) \/ AfterRecord(t) \/ ForwardSent(t) \/ ForwardFails(t) \/ Deliver(t)
  PROVE  IsInjective(bbmdFDT)' /\ \A u \in Tasks : TaskInv(u)'
<1>1. /\ ForwardTypeOK /\ packet \in [Tasks -> Packets \cup {NoPacket}]
      /\ pc \in [Tasks -> {"idle", "recording", "forwarding", "failed", "delivering", "done"}]
  BY DEF ForwardInv, TypeInv, TypeOK
<1>2. CASE \E p \in Packets : Receive(t, p)
  <2>1. /\ UNCHANGED forwardVars /\ pc[t] = "idle" /\ pc' = [pc EXCEPT ![t] = "recording"]
        /\ \E p \in Packets : packet' = [packet EXCEPT ![t] = p]
    BY <1>2 DEF Receive
  <2>2. TaskInv(t)'
    BY <1>1, <2>1 DEF TaskInv, ForwardInv, forwardVars
  <2>3. \A u \in Tasks \ {t} : TaskInv(u)'
    BY <1>1, <2>1, OtherTasks DEF ForwardInv, forwardVars
  <2> QED
    BY <2>1, <2>2, <2>3 DEF ForwardInv, forwardVars
<1>3. CASE AfterRecord(t)
  <2>1. /\ UNCHANGED <<bbmdFDT, packet>>
        /\ \A u \in Tasks \ {t} : UNCHANGED <<pc[u], place[u], target[u], sent[u], joined[u], steady[u], removals[u]>>
    BY <1>1, <1>3 DEF AfterRecord, BeginForward, GoTo, ForwardTypeOK, forwardVars
  <2> QED
    BY <1>3, <2>1, OtherTasks, BeginForwardInv DEF ForwardInv
<1>4. CASE ForwardSent(t)
  <2>1. /\ UNCHANGED <<bbmdFDT, packet>>
        /\ \A u \in Tasks \ {t} : UNCHANGED <<pc[u], place[u], target[u], sent[u], joined[u], steady[u], removals[u]>>
    BY <1>1, <1>4 DEF ForwardSent, SendReturns, GoTo, ForwardTypeOK
  <2> QED
    BY <1>4, <2>1, OtherTasks, SendReturnsInv DEF ForwardInv
<1>5. CASE ForwardFails(t)
  <2>1. /\ UNCHANGED <<bbmdFDT, packet, steady>> /\ pc'[t] = "failed"
        /\ \A u \in Tasks \ {t} : UNCHANGED <<pc[u], place[u], target[u], sent[u], joined[u], steady[u], removals[u]>>
    BY <1>1, <1>5 DEF ForwardFails, SendFails, GoTo, ForwardTypeOK
  <2>2. TaskInv(t)'
    BY <2>1 DEF ForwardInv, TaskInv
  <2> QED
    BY <2>1, <2>2, OtherTasks DEF ForwardInv
<1>6. CASE Deliver(t)
  <2>1. UNCHANGED <<forwardVars, packet>> /\ pc[t] = "delivering" /\ pc' = [pc EXCEPT ![t] = "done"]
    BY <1>6 DEF Deliver
  <2>2. TaskInv(t)'
    BY <1>1, <2>1 DEF ForwardInv, TaskInv, Reached, NotTooOften, IsCutThrough, forwardVars
  <2> QED
    BY <1>1, <2>1, <2>2, OtherTasks DEF ForwardInv, forwardVars
<1> QED
  BY <1>2, <1>3, <1>4, <1>5, <1>6

-----------------------------------------------------------------------------
(* The table changes under the loops.                                      *)

\* A device that registers is at the end, and waited for by nobody.
LEMMA RegisterInv ==
  ASSUME ForwardInv, NEW d \in ForeignDevices, RegisterDevice(d), UNCHANGED taskVars
  PROVE  IsInjective(bbmdFDT)' /\ \A t \in Tasks : TaskInv(t)'
<1>1. /\ bbmdFDT \in Seq(ForeignDevices) /\ IsInjective(bbmdFDT) /\ d \notin Range(bbmdFDT)
      /\ bbmdFDT' = Append(bbmdFDT, d)
      /\ UNCHANGED <<place, target, sent, steady, removals>>
      /\ \A t \in Tasks, e \in ForeignDevices : sent[t][e] \in Nat /\ joined[t][e] \in Nat
      /\ \A t \in Tasks, e \in ForeignDevices :
           joined'[t][e] = IF place[t] # Outside /\ e = d THEN joined[t][e] + 1 ELSE joined[t][e]
  BY DEF ForwardInv, TypeInv, TypeOK, ForwardTypeOK, RegisterDevice, Destinations
<1>2. /\ Len(bbmdFDT) \in Nat /\ DOMAIN bbmdFDT = 1..Len(bbmdFDT)
      /\ DOMAIN bbmdFDT' = 1..(Len(bbmdFDT) + 1)
      /\ \A k \in 1..Len(bbmdFDT) : bbmdFDT'[k] = bbmdFDT[k]
      /\ bbmdFDT'[Len(bbmdFDT) + 1] = d
  BY <1>1, AppendProperties, LenProperties
<1>3. \A k \in DOMAIN bbmdFDT' : k \in DOMAIN bbmdFDT \/ bbmdFDT'[k] = d
  BY <1>2
<1>4. IsInjective(bbmdFDT)'
  <2>1. \A k \in DOMAIN bbmdFDT : bbmdFDT[k] # d
    BY <1>1 DEF Range
  <2>2. \A j, k \in DOMAIN bbmdFDT : bbmdFDT'[j] = bbmdFDT'[k] => j = k
    BY <1>1, <1>2 DEF IsInjective
  <2>3. \A k \in DOMAIN bbmdFDT' : k \in DOMAIN bbmdFDT \/ k = Len(bbmdFDT) + 1
    BY <1>2
  <2> QED
    BY <1>2, <2>1, <2>2, <2>3 DEF IsInjective
<1>5. ASSUME NEW t \in Tasks PROVE TaskInv(t)'
  <2>1. CASE pc[t] # "forwarding"
    <3>1. NotTooOften(t) => NotTooOften(t)'
      BY <1>1 DEF NotTooOften
    <3> QED
      BY <1>1, <2>1, <3>1 DEF ForwardInv, TaskInv, Reached, IsCutThrough
  <2>2. CASE pc[t] = "forwarding"
    <3>1. /\ place[t] # Outside /\ DevicesInv(t) /\ PeersInv(t) /\ SourceInv(t) /\ OnceInv(t)
          /\ IsFiniteSet(steady[t])
      BY <2>2 DEF ForwardInv, TaskInv
    <3>2. d \notin steady[t]
      BY <1>1, <3>1 DEF DevicesInv
    <3>3. Passed(t)' = Passed(t) /\ AtPeers(t)' = AtPeers(t)
      BY <1>1 DEF Passed, AtPeers
    <3>4. Missed(t)' = Missed(t)
      <4>1. \A e \in steady[t] : (\E k \in DOMAIN bbmdFDT' : k <= Passed(t) /\ bbmdFDT'[k] = e)
                           <=> (\E k \in DOMAIN bbmdFDT : k <= Passed(t) /\ bbmdFDT[k] = e)
        BY <1>2, <1>3, <3>2
      <4> QED
        BY <1>1, <3>3, <4>1 DEF Missed, Unsent
    <3>5. Range(bbmdFDT) \subseteq Range(bbmdFDT')
      BY <1>2 DEF Range
    <3>6. DevicesInv(t)'
      BY <1>1, <1>2, <1>3, <3>1, <3>2, <3>3, <3>4, <3>5 DEF DevicesInv
    <3>7. PeersInv(t)' /\ SourceInv(t)'
      BY <1>1, <3>1, <3>3 DEF PeersInv, SourceInv
    <3>8. OnceInv(t)'
      <4> SUFFICES ASSUME NEW e \in ForeignDevices
                   PROVE  sent[t][e] + Awaits(t, e)' + Waits(t, e, Passed(t))' <= joined'[t][e]
        BY <1>1 DEF OnceInv
      <4>1. sent[t][e] + Awaits(t, e) + Waits(t, e, Passed(t)) <= joined[t][e]
        BY <3>1 DEF OnceInv
      <4>2. Awaits(t, e)' = Awaits(t, e)
        BY <1>1 DEF Awaits
      <4>3. e # d => Waits(t, e, Passed(t))' = Waits(t, e, Passed(t))
        BY <1>2, <1>3, <3>3 DEF Waits
      <4>4. Awaits(t, e) \in Nat /\ Waits(t, e, Passed(t)) \in 0..1 /\ Waits(t, e, Passed(t))' \in 0..1
        BY DEF Awaits, Waits
      <4> QED
        BY <1>1, <3>1, <4>1, <4>2, <4>3, <4>4
    <3> QED
      BY <1>1, <2>2, <3>1, <3>6, <3>7, <3>8 DEF TaskInv
  <2> QED
    BY <2>1, <2>2
<1> QED
  BY <1>4, <1>5

\* A device that leaves moves at most one other before the index of a loop.
LEMMA RemoveInv ==
  ASSUME ForwardInv, NEW r \in DOMAIN bbmdFDT, RemoveDevice(r), UNCHANGED taskVars
  PROVE  IsInjective(bbmdFDT)' /\ \A t \in Tasks : TaskInv(t)'
<1> DEFINE Old(m) == IF m < r THEN m ELSE m + 1
<1>1. /\ bbmdFDT \in Seq(ForeignDevices) /\ IsInjective(bbmdFDT)
      /\ bbmdFDT' = RemoveAt(bbmdFDT, r)
      /\ UNCHANGED <<place, target, sent, joined>>
      /\ \A t \in Tasks, e \in ForeignDevices : sent[t][e] \in Nat /\ joined[t][e] \in Nat
      /\ \A t \in Tasks : place[t] # Outside =>
           steady'[t] = steady[t] \ {bbmdFDT[r]} /\ removals'[t] = removals[t] + 1
      /\ \A t \in Tasks : place[t] = Outside => steady'[t] = steady[t] /\ removals'[t] = removals[t]
  BY DEF ForwardInv, TypeInv, TypeOK, ForwardTypeOK, RemoveDevice, Destinations
<1>2. /\ Len(bbmdFDT) \in Nat /\ DOMAIN bbmdFDT = 1..Len(bbmdFDT)
      /\ DOMAIN bbmdFDT' = 1..(Len(bbmdFDT) - 1)
      /\ \A m \in 1..(Len(bbmdFDT) - 1) : bbmdFDT'[m] = bbmdFDT[Old(m)]
  <2>1. Len(bbmdFDT) \in Nat /\ DOMAIN bbmdFDT = 1..Len(bbmdFDT)
    BY <1>1, LenProperties
  <2>2. /\ bbmdFDT' \in Seq(ForeignDevices) /\ Len(bbmdFDT') = Len(bbmdFDT) - 1
        /\ \A m \in 1..(Len(bbmdFDT) - 1) : bbmdFDT'[m] = bbmdFDT[Old(m)]
    BY <1>1, RemoveAtProperties
  <2>3. DOMAIN bbmdFDT' = 1..(Len(bbmdFDT) - 1)
    BY <2>2, LenProperties
  <2> QED
    BY <2>1, <2>2, <2>3
<1>3. \A m \in DOMAIN bbmdFDT' :
        /\ bbmdFDT'[m] = bbmdFDT[Old(m)] /\ Old(m) \in DOMAIN bbmdFDT \ {r}
        /\ m <= Old(m) /\ (Old(m) = m \/ Old(m) = m + 1)
  BY <1>2
<1>4. \A j, m \in DOMAIN bbmdFDT' : Old(j) = Old(m) => j = m
  BY <1>2
<1>5. \A j \in DOMAIN bbmdFDT \ {r} : \E m \in DOMAIN bbmdFDT' : j = Old(m)
  <2> SUFFICES ASSUME NEW j \in DOMAIN bbmdFDT \ {r} PROVE \E m \in DOMAIN bbmdFDT' : j = Old(m)
    OBVIOUS
  <2>1. CASE j < r
    BY <1>2, <2>1
  <2>2. CASE ~(j < r)
    <3>1. j - 1 \in DOMAIN bbmdFDT' /\ j = Old(j - 1)
      BY <1>2, <2>2
    <3> QED
      BY <3>1
  <2> QED
    BY <2>1, <2>2
<1> HIDE DEF Old
<1>6. IsInjective(bbmdFDT)'
  BY <1>1, <1>3, <1>4 DEF IsInjective
<1>7. ASSUME NEW t \in Tasks PROVE TaskInv(t)'
  <2>1. /\ place[t] # Outside <=> pc[t] = "forwarding"
        /\ IsFiniteSet(steady[t]) /\ removals[t] \in Nat /\ UNCHANGED <<pc, packet>>
        /\ place[t] \in {Outside} \cup [table : {"peers", "devices"}, at : Nat \ {0}]
    BY DEF ForwardInv, TaskInv, TypeInv, TypeOK, ForwardTypeOK
  <2>2. CASE pc[t] # "forwarding"
    BY <1>1, <2>1, <2>2 DEF ForwardInv, TaskInv, Reached, NotTooOften, IsCutThrough
  <2>3. CASE pc[t] = "forwarding"
    <3>1. /\ DevicesInv(t) /\ PeersInv(t) /\ SourceInv(t) /\ OnceInv(t)
          /\ steady'[t] = steady[t] \ {bbmdFDT[r]} /\ removals'[t] = removals[t] + 1
      BY <1>1, <2>1, <2>3 DEF ForwardInv, TaskInv
    <3>2. Passed(t)' = Passed(t) /\ AtPeers(t)' = AtPeers(t) /\ Passed(t) \in Nat
      BY <1>1, <2>1, <2>3 DEF Passed, AtPeers
    <3>3. Missed(t)' \subseteq Missed(t) \cup {bbmdFDT[Passed(t) + 1]}
      <4> SUFFICES ASSUME NEW d \in Missed(t)', d # bbmdFDT[Passed(t) + 1]
                   PROVE  \E j \in DOMAIN bbmdFDT : j <= Passed(t) /\ bbmdFDT[j] = d
        BY <1>1, <3>1 DEF Missed, Unsent
      <4>1. PICK m \in DOMAIN bbmdFDT' : m <= Passed(t) /\ bbmdFDT'[m] = d
        BY <3>2 DEF Missed, Unsent
      <4>2. Old(m) \in DOMAIN bbmdFDT /\ bbmdFDT[Old(m)] = d /\ (Old(m) = m \/ Old(m) = m + 1)
        BY <1>3, <4>1
      <4>3. Old(m) # Passed(t) + 1
        BY <4>2
      <4> QED
        BY <1>2, <3>2, <4>1, <4>2, <4>3
    <3>4. IsFiniteSet(Missed(t)) /\ Cardinality(Missed(t)) \in Nat /\ Cardinality(Missed(t)) <= removals[t]
      BY <2>1, <3>1, FS_Subset, FS_CardinalityType DEF Missed, Unsent, DevicesInv
    <3>5. Cardinality(Missed(t)') <= removals'[t]
      <4> PICK next : next = bbmdFDT[Passed(t) + 1]
        OBVIOUS
      <4> DEFINE More == Missed(t) \cup {next}
      <4>1. IsFiniteSet(More) /\ Cardinality(More) \in Nat /\ Cardinality(More) <= Cardinality(Missed(t)) + 1
        <5>1. IsFiniteSet(More)
              /\ Cardinality(More) = IF next \in Missed(t) THEN Cardinality(Missed(t)) ELSE Cardinality(Missed(t)) + 1
          BY <3>4, FS_AddElement
        <5> QED
          BY <3>4, <5>1
      <4>2. Cardinality(Missed(t)') <= Cardinality(More) /\ Cardinality(Missed(t)') \in Nat
        BY <3>3, <4>1, FS_Subset, FS_CardinalityType
      <4> QED
        BY <2>1, <3>1, <3>4, <4>1, <4>2
    <3>6. steady'[t] \subseteq Range(bbmdFDT')
      <4> SUFFICES ASSUME NEW d \in steady[t], d # bbmdFDT[r] PROVE d \in Range(bbmdFDT')
        BY <3>1
      <4>1. PICK j \in DOMAIN bbmdFDT : bbmdFDT[j] = d
        BY <3>1 DEF DevicesInv, Range
      <4>2. PICK m \in DOMAIN bbmdFDT' : j = Old(m)
        BY <1>5, <4>1
      <4> QED
        BY <1>3, <4>1, <4>2 DEF Range
    <3>7. ASSUME NEW m \in DOMAIN bbmdFDT', m > Passed(t), bbmdFDT'[m] \in steady'[t]
          PROVE  sent[t][bbmdFDT'[m]] = 0 /\ bbmdFDT'[m] # target[t]
      <4>1. Old(m) \in DOMAIN bbmdFDT /\ Old(m) > Passed(t) /\ bbmdFDT'[m] = bbmdFDT[Old(m)]
        BY <1>2, <1>3, <3>2, <3>7
      <4> QED
        BY <3>1, <3>7, <4>1 DEF DevicesInv
    <3>8. DevicesInv(t)'
      BY <1>1, <3>1, <3>2, <3>5, <3>6, <3>7 DEF DevicesInv
    <3>9. PeersInv(t)' /\ SourceInv(t)'
      BY <1>1, <2>1, <3>1, <3>2 DEF PeersInv, SourceInv
    <3>10. IsFiniteSet(steady'[t])
      BY <2>1, <3>1, FS_Subset
    <3>11. OnceInv(t)'
      <4> SUFFICES ASSUME NEW e \in ForeignDevices
                   PROVE  sent[t][e] + Awaits(t, e)' + Waits(t, e, Passed(t))' <= joined[t][e]
        BY <1>1 DEF OnceInv
      <4>1. sent[t][e] + Awaits(t, e) + Waits(t, e, Passed(t)) <= joined[t][e]
        BY <3>1 DEF OnceInv
      <4>2. Awaits(t, e)' = Awaits(t, e)
        BY <1>1 DEF Awaits
      <4>3. ASSUME NEW m \in DOMAIN bbmdFDT', m > Passed(t), bbmdFDT'[m] = e
            PROVE  \E j \in DOMAIN bbmdFDT : j > Passed(t) /\ bbmdFDT[j] = e
        BY <1>2, <1>3, <3>2, <4>3
      <4>4. Waits(t, e, Passed(t))' <= Waits(t, e, Passed(t))
        BY <3>2, <4>3 DEF Waits
      <4>5. Awaits(t, e) \in Nat /\ Waits(t, e, Passed(t)) \in Nat /\ Waits(t, e, Passed(t))' \in Nat
        BY DEF Awaits, Waits
      <4> QED
        BY <1>1, <4>1, <4>2, <4>4, <4>5
    <3> QED
      BY <1>1, <2>1, <2>3, <3>8, <3>9, <3>10, <3>11 DEF TaskInv
  <2> QED
    BY <2>2, <2>3
<1> QED
  BY <1>6, <1>7

-----------------------------------------------------------------------------

LEMMA ForwardInvStep == ASSUME ForwardInv, [Next]_vars PROVE ForwardInv'
<1>1. TypeInv'
  BY TypeInvStep DEF ForwardInv
<1>2. CASE \E t \in Tasks : \/ \E p \in Packets : Receive(t, p)
                           \/ AfterRecord(t) \/ ForwardSent(t) \/ ForwardFails(t) \/ Deliver(t)
  BY <1>1, <1>2, TaskSteps DEF ForwardInv
<1>3. CASE TableChange
  <2>1. UNCHANGED taskVars
    BY <1>3 DEF TableChange
  <2> QED
    BY <1>1, <1>3, <2>1, RegisterInv, RemoveInv DEF ForwardInv, TableChange
<1>4. CASE Record \/ Report \/ Scrape \/ Clock \/ UNCHANGED vars
  <2>1. UNCHANGED <<forwardVars, taskVars>>
    BY <1>4 DEF Record, Report, Scrape, Clock
  <2>2. \A t \in Tasks : TaskInv(t)'
    BY <2>1, OtherTasks DEF ForwardInv, forwardVars
  <2> QED
    BY <1>1, <2>1, <2>2 DEF ForwardInv, forwardVars
<1> QED
  BY <1>2, <1>3, <1>4 DEF Next

\* A broadcast that is delivered locally after its forward has reached every
\* peer once, a foreign device at most once for each entry it had meanwhile, and
\* every device registered all the time, but for one for each entry deleted;
\* one that a foreign device distributes has not gone back to it.
THEOREM ForwardsReachEveryone == Spec => []ForwardReachesEveryone
<1>1. ASSUME Init PROVE ForwardInv
  <2>1. TypeInv /\ IsInjective(bbmdFDT)
    BY <1>1, TypeInvInit, TablesAssumption DEF Init, ForwardInit
  <2>2. ASSUME NEW t \in Tasks PROVE TaskInv(t)
    <3>1. /\ pc[t] = "idle" /\ steady[t] = {} /\ removals[t] = 0
          /\ \A d \in Destinations : sent[t][d] = 0
      BY <1>1 DEF Init, ForwardInit
    <3> QED
      BY <3>1, FS_EmptySet DEF TaskInv
  <2> QED
    BY <2>1, <2>2 DEF ForwardInv
<1>2. ForwardInv => ForwardReachesEveryone
  BY DEF ForwardInv, TaskInv, Reached, NotTooOften, ForwardReachesEveryone
<1> QED
  BY <1>1, <1>2, ForwardInvStep, PTL DEF Spec

=============================================================================
