-------------------------- MODULE BroadcastForward --------------------------
(***************************************************************************)
(* _forward_broadcast() of bbmd.py: a broadcast that is cut through is     *)
(* sent to the peers of the broadcast distribution table (BDT), then to    *)
(* the foreign devices of the FDT, one awaited send after another.         *)
(*                                                                         *)
(* The FDT belongs to bacpypes3.  While a send is awaited a device may     *)
(* register (it is appended) or leave (its entry is deleted in place); a   *)
(* Python loop over the list goes on at the next index.                    *)
(***************************************************************************)
EXTENDS Naturals, Sequences, FiniteSetsExt, SequencesExt

CONSTANTS
  Tasks,
  BDT,             \* the peers, in order; the BBMD may list itself
  BbmdAddress,     \* its own entry
  LocalBroadcast,
  ForeignDevices,  \* who may be in the FDT
  InitialFDT,
  MaxTableChanges, \* bound on registrations and removals
  NoTarget

VARIABLES
  bbmdFDT,
  place,    \* of a task: [table, at], the loop and index it has come to
  target,   \* of a task: the destination of the send it awaits
  tableChanges,
  sent,     \* history: how often a task's packet was sent to an address
  joined,   \* history: how often a device has had an entry since it began
  steady,   \* history: the foreign devices registered ever since it began
  removals  \* history: the entries deleted since it began

forwardVars == <<bbmdFDT, place, target, tableChanges, sent, joined, steady, removals>>

Peers == Range(BDT) \ {BbmdAddress}

Destinations == Peers \cup ForeignDevices \cup {LocalBroadcast}

\* A table holds an address once: add_peer() and register_foreign_device()
\* look for it first.
ASSUME TablesAssumption ==
  /\ BDT \in Seq(Range(BDT)) /\ IsInjective(BDT)
  /\ InitialFDT \in Seq(ForeignDevices) /\ IsInjective(InitialFDT)

\* A BBMD is nobody's foreign device, and no station has a broadcast address.
ASSUME AddressesAssumption ==
  /\ Peers \cap ForeignDevices = {}
  /\ LocalBroadcast \notin Peers \cup ForeignDevices
  /\ NoTarget \notin Destinations

Outside == [table |-> "none", at |-> 0]

ForwardInit ==
  /\ bbmdFDT = InitialFDT
  /\ place = [t \in Tasks |-> Outside]
  /\ target = [t \in Tasks |-> NoTarget]
  /\ tableChanges = 0
  /\ sent = [t \in Tasks |-> [d \in Destinations |-> 0]]
  /\ joined = [t \in Tasks |-> [d \in ForeignDevices |-> 0]]
  /\ steady = [t \in Tasks |-> {}]
  /\ removals = [t \in Tasks |-> 0]

-----------------------------------------------------------------------------
(* The entries after index i that packet p goes to: an original broadcast  *)
(* not to the BBMD itself, a distributed one not back to its source.       *)

PeersAfter(p, i) ==
  {k \in DOMAIN BDT : k > i /\ (p.kind = "original" => BDT[k] # BbmdAddress)}

DevicesAfter(p, i) ==
  {k \in DOMAIN bbmdFDT : k > i /\ (p.kind = "distribute" => bbmdFDT[k] # p.source)}

\* Mutant: the second loop goes on with the index of the first.
FollowingKeepsIndex(p, table, i) ==
  IF table = "peers" /\ PeersAfter(p, i) # {}
  THEN [table |-> "peers", at |-> Min(PeersAfter(p, i))]
  ELSE IF DevicesAfter(p, i) # {} THEN [table |-> "devices", at |-> Min(DevicesAfter(p, i))]
  ELSE Outside

\* Where the loops go from entry i of a table.
Following(p, table, i) ==
  LET j == IF table = "devices" THEN i ELSE 0 IN
  IF table = "peers" /\ PeersAfter(p, i) # {}
  THEN [table |-> "peers", at |-> Min(PeersAfter(p, i))]
  ELSE IF DevicesAfter(p, j) # {} THEN [table |-> "devices", at |-> Min(DevicesAfter(p, j))]
  ELSE Outside

\* A distributed broadcast reaches the local network by the BBMD's own entry.
DestinationAt(pl) ==
  CASE pl = Outside -> NoTarget
    [] pl.table = "devices" -> bbmdFDT[pl.at]
    [] OTHER -> IF BDT[pl.at] = BbmdAddress THEN LocalBroadcast ELSE BDT[pl.at]

GoTo(t, pl) ==
  /\ place' = [place EXCEPT ![t] = pl]
  /\ target' = [target EXCEPT ![t] = DestinationAt(pl)]

-----------------------------------------------------------------------------

BeginForward(t, p) ==
  /\ GoTo(t, Following(p, "peers", 0))
  /\ joined' = [joined EXCEPT ![t] = [d \in ForeignDevices |-> IF d \in Range(bbmdFDT) THEN 1 ELSE 0]]
  /\ steady' = [steady EXCEPT ![t] = {d \in Range(bbmdFDT) : p.kind = "distribute" => d # p.source}]
  /\ UNCHANGED <<bbmdFDT, tableChanges, sent, removals>>

\* request() has returned: on to the next entry.
SendReturns(t, p) ==
  /\ place[t] # Outside
  /\ sent' = [sent EXCEPT ![t][target[t]] = @ + 1]
  /\ GoTo(t, Following(p, place[t].table, place[t].at))
  /\ UNCHANGED <<bbmdFDT, tableChanges, joined, steady, removals>>

\* request() has raised: the exception leaves both loops.
SendFails(t) ==
  /\ place[t] # Outside
  /\ GoTo(t, Outside)
  /\ UNCHANGED <<bbmdFDT, tableChanges, sent, joined, steady, removals>>

RegisterDevice(d) ==
  /\ tableChanges < MaxTableChanges
  /\ d \notin Range(bbmdFDT)
  /\ bbmdFDT' = Append(bbmdFDT, d)
  /\ tableChanges' = tableChanges + 1
  /\ joined' = [t \in Tasks |-> IF place[t] = Outside THEN joined[t] ELSE [joined[t] EXCEPT ![d] = @ + 1]]
  /\ UNCHANGED <<place, target, sent, steady, removals>>

RemoveDevice(k) ==
  /\ tableChanges < MaxTableChanges
  /\ bbmdFDT' = RemoveAt(bbmdFDT, k)
  /\ tableChanges' = tableChanges + 1
  /\ steady' = [t \in Tasks |-> IF place[t] = Outside THEN steady[t] ELSE steady[t] \ {bbmdFDT[k]}]
  /\ removals' = [t \in Tasks |-> IF place[t] = Outside THEN removals[t] ELSE removals[t] + 1]
  /\ UNCHANGED <<place, target, sent, joined>>

ForwardTypeOK ==
  /\ bbmdFDT \in Seq(ForeignDevices)
  /\ place \in [Tasks -> {Outside} \cup [table : {"peers", "devices"}, at : Nat \ {0}]]
  /\ target \in [Tasks -> Destinations \cup {NoTarget}]
  /\ \A t \in Tasks : target[t] = NoTarget <=> place[t] = Outside
  /\ tableChanges \in Nat
  /\ sent \in [Tasks -> [Destinations -> Nat]]
  /\ joined \in [Tasks -> [ForeignDevices -> Nat]]
  /\ steady \in [Tasks -> SUBSET ForeignDevices]
  /\ removals \in [Tasks -> Nat]

=============================================================================
