----------------------------- MODULE AclPolicy -----------------------------
(***************************************************************************)
(* What the ACL-enabled BBMD promises: there is one policy in force, a     *)
(* reload replaces it in one step, and every packet is judged in one step  *)
(* by the policy in force at that step.  The caches, the native engine and *)
(* the steps of a reload do not show.                                      *)
(***************************************************************************)
EXTENDS AclRules

CONSTANTS Configs, Tasks, Packets, Instants, NoVerdict,
          Decide(_, _, _)  \* the verdict of a configuration on a packet

VARIABLES policy,   \* the configuration in force
          incoming, \* the packet each task handles
          judged    \* the verdict on it, once there is one

vars == <<policy, incoming, judged>>

CutThroughVerdict == [allowed |-> TRUE, rule |-> "cut_through"]

\* The BVLL types bbmd.py:280 may cut through.
IsBroadcast(p) == p.bvll \in {"original_broadcast", "distribute_broadcast"}

Judgement(c, p, now) ==
  IF IsBroadcast(p) /\ IsCutThroughEligible(c, p.src)
  THEN CutThroughVerdict
  ELSE Decide(c, p, now)

Init ==
  /\ policy \in Configs
  /\ incoming \in [Tasks -> Packets]
  /\ judged = [t \in Tasks |-> NoVerdict]

Install ==
  /\ policy' \in Configs
  /\ UNCHANGED <<incoming, judged>>

Judge(t) ==
  /\ judged[t] = NoVerdict
  /\ \E now \in Instants :
       judged' = [judged EXCEPT ![t] = Judgement(policy, incoming[t], now)]
  /\ UNCHANGED <<policy, incoming>>

Next == Install \/ \E t \in Tasks : Judge(t)

Spec == Init /\ [][Next]_vars

=============================================================================
