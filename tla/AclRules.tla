------------------------------ MODULE AclRules ------------------------------
(***************************************************************************)
(* The rule language of the ACL and the decisions taken with it: pure      *)
(* operators, no state.  Python side: models/acl.py and acl_engine.py.     *)
(* Native side: rust/src/engine.rs and lib.rs.                             *)
(*                                                                         *)
(* A network is the set of the addresses it contains, a device or message  *)
(* type an element of a small set.  The texts TimeRange's pattern admits    *)
(* are compared as strings: they are numbered in that order, and a text is *)
(* its number, its mark.  Most marks are on no clock (24:00, 09:75), but a *)
(* window may begin or end at one.  A clock reading is a record            *)
(* [day, mark].  An absent (None) field holds one of the No... values.     *)
(*                                                                         *)
(*   rule    [name, action, priority, srcNet, srcDev, dstNet, dstDev,      *)
(*            types, window, enabled]                                      *)
(*   config  [rules: Seq(rule), defaultAction, cutThrough,                 *)
(*            cutThroughNets]                                              *)
(*   packet  [src, dst, bvll, detected, srcDev, dstDev]; bvll is the type  *)
(*           the BVLL layer passes, detected the one inspection finds      *)
(*   verdict [allowed, rule]                                               *)
(***************************************************************************)
EXTENDS Integers, Sequences

CONSTANTS NoAddr,     \* no unicast destination: a broadcast
          NoNet, NoDev, NoType, NoWindow

\* The name both engines report when no rule decided.
DefaultName == "default"

-----------------------------------------------------------------------------
(* Matching one rule against one packet.                                   *)

\* RuleAction.LOG and DENY both refuse the packet.
IsAllow(action) == action \in {"allow", "allow_log"}

MatchesSource(r, addr, dev) ==
  /\ r.srcNet # NoNet => addr \in r.srcNet
  /\ r.srcDev # NoDev => dev = r.srcDev

\* A broadcast matches before the device filter is looked at.
MatchesDestination(r, addr, dev) ==
  \/ addr = NoAddr
  \/ /\ r.dstNet # NoNet => addr \in r.dstNet
     /\ r.dstDev # NoDev => dev = r.dstDev

MatchesMessageType(r, type) == "all" \in r.types \/ type \in r.types

\* The native engine still checks the device filter on a broadcast ...
RsMatchesDest(r, addr, dev) ==
  /\ (addr # NoAddr /\ r.dstNet # NoNet) => addr \in r.dstNet
  /\ r.dstDev # NoDev => dev = r.dstDev

\* ... and reads an empty list of types as "all types".
RsMatchesMessageType(r, type) == r.types = {} \/ MatchesMessageType(r, type)

\* A type handed down by the BVLL layer overrides the one inspection finds.
MessageType(p) == IF p.bvll # NoType THEN p.bvll ELSE p.detected

Matches(r, p) ==
  /\ MatchesSource(r, p.src, p.srcDev)
  /\ MatchesDestination(r, p.dst, p.dstDev)
  /\ MatchesMessageType(r, MessageType(p))

RsMatches(r, p) ==
  /\ MatchesSource(r, p.src, p.srcDev)
  /\ RsMatchesDest(r, p.dst, p.dstDev)
  /\ RsMatchesMessageType(r, MessageType(p))

-----------------------------------------------------------------------------
(* The first matching rule: both engines drop disabled rules, sort the     *)
(* rest by priority with a stable sort and scan.                           *)

EnabledRules(c) == {i \in DOMAIN c.rules : c.rules[i].enabled}

\* Mutant: a sort that reverses the rules of equal priority.
SortsBeforeUnstable(c, i, j) ==
  \/ c.rules[i].priority < c.rules[j].priority
  \/ c.rules[i].priority = c.rules[j].priority /\ i > j

SortsBefore(c, i, j) ==
  \/ c.rules[i].priority < c.rules[j].priority
  \/ c.rules[i].priority = c.rules[j].priority /\ i < j

FirstOf(c, S) == CHOOSE i \in S : \A j \in S \ {i} : SortsBefore(c, i, j)

MatchingRules(c, p) == {i \in EnabledRules(c) : Matches(c.rules[i], p)}

RsMatchingRules(c, p) == {i \in EnabledRules(c) : RsMatches(c.rules[i], p)}

\* The index of the rule that decides, 0 for None.
FindMatchingRule(c, p) ==
  IF MatchingRules(c, p) = {} THEN 0 ELSE FirstOf(c, MatchingRules(c, p))

RsFindMatchingRule(c, p) ==
  IF RsMatchingRules(c, p) = {} THEN 0 ELSE FirstOf(c, RsMatchingRules(c, p))

-----------------------------------------------------------------------------
(* Time windows.                                                           *)

\* Mutant: a window ends before the mark of its end.
CheckTimeRangeEndExcluded(w, t) ==
  /\ w.days # {} => t.day \in w.days
  /\ \/ w.start <= t.mark /\ t.mark < w.end
     \/ w.start > w.end /\ (t.mark >= w.start \/ t.mark < w.end)

CheckTimeRange(w, t) ==
  /\ w.days # {} => t.day \in w.days
  /\ \/ w.start <= t.mark /\ t.mark <= w.end
     \/ w.start > w.end /\ (t.mark >= w.start \/ t.mark <= w.end)

\* rule.time_range and not self._check_time_range(rule.time_range)
OutsideWindow(r, t) == r.window # NoWindow /\ ~CheckTimeRange(r.window, t)

-----------------------------------------------------------------------------
(* The decision on a packet.                                               *)

DefaultVerdict(c) == [allowed |-> IsAllow(c.defaultAction), rule |-> DefaultName]

RuleVerdict(r) == [allowed |-> IsAllow(r.action), rule |-> r.name]

\* What the native engine returns, before any time check.
RsVerdict(c, p) ==
  IF RsFindMatchingRule(c, p) = 0
  THEN DefaultVerdict(c)
  ELSE RuleVerdict(c.rules[RsFindMatchingRule(c, p)])

\* Mutant: the first rule of a name is kept instead of the last.
RuleNamedFirst(c, n) ==
  IF \E i \in DOMAIN c.rules : c.rules[i].name = n
  THEN CHOOSE i \in DOMAIN c.rules :
         /\ c.rules[i].name = n
         /\ \A j \in DOMAIN c.rules : c.rules[j].name = n => i <= j
  ELSE 0

\* {r.name: r for r in config.rules}: the last rule of a name, disabled or not.
RuleNamed(c, n) ==
  IF \E i \in DOMAIN c.rules : c.rules[i].name = n
  THEN CHOOSE i \in DOMAIN c.rules :
         /\ c.rules[i].name = n
         /\ \A j \in DOMAIN c.rules : c.rules[j].name = n => j <= i
  ELSE 0

\* The time check after a native match, through the table of `names`.
NamedRuleIsOutside(names, n, t) ==
  /\ n # DefaultName
  /\ RuleNamed(names, n) # 0
  /\ OutsideWindow(names.rules[RuleNamed(names, n)], t)

\* Mutant: the native path without its time check.
RsCheckPacketUntimed(c, p, t) == RsVerdict(c, p)

\* check_packet() with a native engine, its name table and its configuration
\* all built from c.
RsCheckPacket(c, p, t) ==
  IF NamedRuleIsOutside(c, RsVerdict(c, p).rule, t)
  THEN DefaultVerdict(c)
  ELSE RsVerdict(c, p)

\* Mutant: the fallback without its time check.
PyCheckPacketUntimed(c, p, t) ==
  LET i == FindMatchingRule(c, p) IN
  IF i # 0 THEN RuleVerdict(c.rules[i]) ELSE DefaultVerdict(c)

\* check_packet() without a native engine.
PyCheckPacket(c, p, t) ==
  LET i == FindMatchingRule(c, p) IN
  IF i # 0 /\ ~OutsideWindow(c.rules[i], t)
  THEN RuleVerdict(c.rules[i])
  ELSE DefaultVerdict(c)

-----------------------------------------------------------------------------
(* Cut-through eligibility of a source address.                            *)

InCutThroughNetwork(c, addr) == \E net \in c.cutThroughNets : addr \in net

\* Mutant: a rule restricted to a destination passes for an allow-all rule.
IsAllowAllForAnyDest(r, addr) ==
  /\ IsAllow(r.action)
  /\ MatchesSource(r, addr, NoDev)
  /\ "all" \in r.types

\* An allow-all rule for the source, wherever it stands in the order.
IsAllowAllFor(r, addr) ==
  /\ IsAllow(r.action)
  /\ MatchesSource(r, addr, NoDev)
  /\ "all" \in r.types
  /\ r.dstNet = NoNet /\ r.dstDev = NoDev

IsCutThroughEligible(c, addr) ==
  /\ c.cutThrough
  /\ \/ InCutThroughNetwork(c, addr)
     \/ \E i \in EnabledRules(c) : IsAllowAllFor(c.rules[i], addr)

=============================================================================
