---------------------------- MODULE AclDecision ----------------------------
(***************************************************************************)
(* One packet checked against one configuration at one clock reading, by   *)
(* either engine, and the cut-through question about its source: the       *)
(* properties of AclRules' operators over every bounded configuration.     *)
(***************************************************************************)
EXTENDS AclRules, SequencesExt

CONSTANTS Configs,   \* the configurations a file can hold
          Packets,   \* the packets that can arrive
          Instants,  \* the clock readings
          Marks,     \* how many texts are times of day to the validator
          NoPacket

\* Rules are a list, and a priority is at least 0 (models/acl.py:61-63).
ASSUME ConfigsAssumption ==
  \A c \in Configs :
    /\ Len(c.rules) \in Nat /\ DOMAIN c.rules = 1..Len(c.rules)
    /\ \A i \in DOMAIN c.rules : c.rules[i].priority \in Nat

\* The validator admits a window by its texts (models/acl.py:49-50), and what a
\* clock shows is such a text.
ASSUME MarksAssumption ==
  /\ Marks \in Nat \ {0}
  /\ \A now \in Instants : now.mark \in 0..(Marks - 1)
  /\ \A c \in Configs : \A i \in DOMAIN c.rules :
       LET w == c.rules[i].window IN
       w # NoWindow => w.start \in 0..(Marks - 1) /\ w.end \in 0..(Marks - 1)

VARIABLES config, packet, instant

vars == <<config, packet, instant>>

Init ==
  /\ config \in Configs
  /\ packet = NoPacket
  /\ instant \in Instants

\* check_packet() is called once with the packet.
Receive ==
  /\ packet = NoPacket
  /\ packet' \in Packets
  /\ UNCHANGED <<config, instant>>

Next == Receive

Spec == Init /\ [][Next]_vars

-----------------------------------------------------------------------------
(* The reference definitions.                                              *)

\* Where rule i goes: in front of the first rule of a larger priority, and so
\* behind the rules of its own.
Place(c, sorted, i) ==
  LET behind == {k \in DOMAIN sorted : c.rules[sorted[k]].priority > c.rules[i].priority}
  IN  IF behind = {} THEN Len(sorted) + 1 ELSE Min(behind)

\* Rule i on top of the rules before it, if it is enabled.
Insert(c, sorted, i) ==
  IF c.rules[i].enabled THEN InsertAt(sorted, Place(c, sorted, i), i) ELSE sorted

\* The enabled rules among the first n, sorted, for every n.
SortedUpTo(c) ==
  LET upTo[n \in 0..Len(c.rules)] == IF n = 0 THEN <<>> ELSE Insert(c, upTo[n-1], n)
  IN  upTo

GetSortedRules(c) == SortedUpTo(c)[Len(c.rules)]

\* The scan over the sorted rules that both engines run.
ScanRules(c, p, Match(_, _)) ==
  LET sorted == GetSortedRules(c)
      hits == {n \in DOMAIN sorted : Match(c.rules[sorted[n]], p)}
  IN  IF hits = {} THEN 0 ELSE sorted[Min(hits)]

\* Marks from a to b, forwards and from the last on to the first.
Ahead(a, b) == (b - a) % Marks

\* The rules for p that are active at t, if a rule is active in its window
\* (README.md:13; models/acl.py:86, "Time range when rule is active").
ActiveRules(c, p, t) == {i \in MatchingRules(c, p) : ~OutsideWindow(c.rules[i], t)}

\* The verdict they come to, by priority, among themselves.
ActiveVerdict(c, p, t) ==
  IF ActiveRules(c, p, t) = {} THEN DefaultVerdict(c)
  ELSE RuleVerdict(c.rules[FirstOf(c, ActiveRules(c, p, t))])

\* The first match for p sleeps at t and has a rule behind it that is active.
SleeperHidesRule(c, p, t) ==
  /\ ActiveRules(c, p, t) # {}
  /\ FindMatchingRule(c, p) \notin ActiveRules(c, p, t)

-----------------------------------------------------------------------------
(* What must hold of a configuration for the two engines to be the same.   *)

DistinctNames(c) ==
  \A i, j \in DOMAIN c.rules : c.rules[i].name = c.rules[j].name => i = j

NoRuleNamedDefault(c) == \A i \in DOMAIN c.rules : c.rules[i].name # DefaultName

EveryRuleListsTypes(c) == \A i \in DOMAIN c.rules : c.rules[i].types # {}

NoDestDevice(c) == \A i \in DOMAIN c.rules : c.rules[i].dstDev = NoDev

Comparable(c, p) ==
  /\ DistinctNames(c)
  /\ NoRuleNamedDefault(c)
  /\ EveryRuleListsTypes(c)
  /\ p.dst = NoAddr => NoDestDevice(c)

\* No rule that could refuse p, and no rule with a clock.
NothingRefuses(c, p) ==
  \A i \in EnabledRules(c) :
    /\ c.rules[i].window = NoWindow
    /\ Matches(c.rules[i], p) => IsAllow(c.rules[i].action)

-----------------------------------------------------------------------------
(* Properties.                                                             *)

\* Choosing the rule that sorts before every other match is what sorting by
\* priority and scanning computes (models/acl.py:166-186, engine.rs:111-134).
FirstMatchIsTheScan ==
  packet # NoPacket =>
    /\ FindMatchingRule(config, packet) = ScanRules(config, packet, Matches)
    /\ RsFindMatchingRule(config, packet) = ScanRules(config, packet, RsMatches)

\* The native engine with its name-keyed time check decides as the Python
\* fallback does, on configurations whose rule names are distinct and not
\* "default", whose rules list their types, and that filter no destination
\* device of a broadcast (acl_engine.py:208-257).
EnginesAgree ==
  (packet # NoPacket /\ Comparable(config, packet)) =>
    RsCheckPacket(config, packet, instant) = PyCheckPacket(config, packet, instant)

\* Rules that sleep do not act: the fallback, and on comparable configurations
\* the native engine too, decides as the rules active at that instant do among
\* themselves (README.md:13, models/acl.py:86) - except where a sleeping rule
\* hides one that is active.  There the code takes the default action
\* (acl_engine.py:229-232 and 249-257), which no document says.
SleepingRulesDoNotAct ==
  (packet # NoPacket /\ ~SleeperHidesRule(config, packet, instant)) =>
    /\ PyCheckPacket(config, packet, instant) = ActiveVerdict(config, packet, instant)
    /\ Comparable(config, packet) =>
         RsCheckPacket(config, packet, instant) = ActiveVerdict(config, packet, instant)

\* The two engines agree on every configuration (engine.rs:139, "This matches
\* the Python ACLEngine.check_packet() semantics").
EnginesAlwaysAgree ==
  packet # NoPacket =>
    RsCheckPacket(config, packet, instant) = PyCheckPacket(config, packet, instant)

\* On each of its days (the day of the reading, also after midnight) a window is
\* the run of marks from start to end, both included; where the end comes before
\* the start it runs over the last mark on to the first (acl_engine.py:259-278).
\* A window up to 24:00 ends at a mark no clock shows and does not reach 00:00.
WindowIsAnArc ==
  \A i \in DOMAIN config.rules :
    LET w == config.rules[i].window IN
    w # NoWindow =>
      (CheckTimeRange(w, instant)
         <=> /\ w.days = {} \/ instant.day \in w.days
             /\ Ahead(w.start, instant.mark) <= Ahead(w.start, w.end))

\* Cut-through skips the check: where it rests on an allow-all rule and no
\* rule could refuse the packet or sleeps, the check would allow it as well
\* (models/acl.py:205-214, bbmd.py:280-308).
CutThroughIsSafeWithoutRefusals ==
  ( /\ packet # NoPacket
    /\ NothingRefuses(config, packet)
    /\ ~InCutThroughNetwork(config, packet.src)
    /\ IsCutThroughEligible(config, packet.src) )
  => PyCheckPacket(config, packet, instant).allowed

\* A source outside the cut-through networks is cut through only when the
\* check allows its packets: rules are evaluated by priority and only within
\* their window (README "Priority-based rule evaluation", acl_rules.yaml:99).
CutThroughRespectsTheRules ==
  ( /\ packet # NoPacket
    /\ ~InCutThroughNetwork(config, packet.src)
    /\ IsCutThroughEligible(config, packet.src) )
  => PyCheckPacket(config, packet, instant).allowed

=============================================================================
