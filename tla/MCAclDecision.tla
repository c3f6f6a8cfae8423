--------------------------- MODULE MCAclDecision ---------------------------
(***************************************************************************)
(* Bounded inputs for AclDecision: two addresses, one device, two message  *)
(* types, eight marks of which the clock shows the first six, and          *)
(* configurations of at most two rules.                                    *)
(***************************************************************************)
EXTENDS AclDecision

CONSTANTS a1, a2, d1, bcast, whois

\* Every mark on the clock, and one of them on another day.
MCInstants == {[day |-> "sun", mark |-> k] : k \in 0..5} \cup {[day |-> "mon", mark |-> 2]}

\* Within a day, overnight, up to a mark no clock shows, and one mark on one day.
MCWindows == { [start |-> 1, end |-> 3, days |-> {}],
               [start |-> 4, end |-> 0, days |-> {}],
               [start |-> 3, end |-> 7, days |-> {}],
               [start |-> 2, end |-> 2, days |-> {"sun"}] }

PlainRule ==
  [ name |-> "r1", action |-> "allow", priority |-> 1, srcNet |-> NoNet,
    srcDev |-> NoDev, dstNet |-> NoNet, dstDev |-> NoDev, types |-> {"all"},
    window |-> NoWindow, enabled |-> TRUE ]

\* One field of a plain rule changed at a time ...
Variants(r) ==
  {r} \cup {[r EXCEPT !.srcNet = {a1}], [r EXCEPT !.srcDev = d1],
            [r EXCEPT !.dstNet = {a2}], [r EXCEPT !.dstDev = d1],
            [r EXCEPT !.types = {bcast}], [r EXCEPT !.types = {}],
            [r EXCEPT !.enabled = FALSE]}
      \cup {[r EXCEPT !.window = w] : w \in MCWindows}

\* ... under every action, priority and name.
MCRules ==
  UNION { Variants([PlainRule EXCEPT !.action = a, !.priority = pr, !.name = n]) :
            a \in {"allow", "deny"}, pr \in {0, 1}, n \in {"r1", "r2", "default"} }

\* The second rule keeps one of two names: the first ranges over all three.
LastRules == {r \in MCRules : r.name # "default"}

RuleLists == {<<>>} \cup {<<r>> : r \in MCRules}
             \cup {<<r, s>> : r \in {x \in MCRules : x.priority = 1}, s \in LastRules}

MCConfigs ==
  { [rules |-> rs, defaultAction |-> "deny", cutThrough |-> TRUE, cutThroughNets |-> {}] :
      rs \in RuleLists }
  \cup
  { [rules |-> rs, defaultAction |-> "allow_log", cutThrough |-> ct, cutThroughNets |-> {{a2}}] :
      rs \in {<<>>} \cup {<<r>> : r \in MCRules}, ct \in BOOLEAN }

MCPackets ==
  { [src |-> a1, dst |-> NoAddr, bvll |-> bcast, detected |-> whois, srcDev |-> NoDev, dstDev |-> NoDev],
    [src |-> a1, dst |-> a2, bvll |-> NoType, detected |-> whois, srcDev |-> d1, dstDev |-> d1],
    [src |-> a2, dst |-> NoAddr, bvll |-> bcast, detected |-> whois, srcDev |-> d1, dstDev |-> NoDev],
    [src |-> a2, dst |-> a1, bvll |-> whois, detected |-> bcast, srcDev |-> NoDev, dstDev |-> NoDev] }

=============================================================================
