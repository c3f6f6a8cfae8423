-------------------------- MODULE AclPolicyProofs --------------------------
(***************************************************************************)
(* The proof that, with every reload on the event loop, the packet path of *)
(* AclBbmd implements the atomic policy of AclPolicy.                      *)
(***************************************************************************)
EXTENDS AclBbmdReloadProofs

USE DEF UGo, Go, Count, configVars, reloadVars, taskVars, sharedByTasks

-----------------------------------------------------------------------------
(* What the path knows of a packet.                                        *)

\* A packet handed to the engine is one cut-through does not concern.
PathInv ==
  \A t \in Tasks :
    /\ pc[t] \in {"lookup", "read", "compute", "store"} => IsBroadcast(packet[t])
    /\ pc[t] \in {"engine", "match", "timeCheck", "pyMatch", "default"} =>
         ~(IsBroadcast(packet[t]) /\ Eligible(t))

\* What a decision under way knows when no reload overlaps it.
LEMMA DecidesInQuiet ==
  ASSUME ReloadInv, DecisionInv, CalmInv, CacheInv, NEW t \in Tasks, Deciding(t)
  PROVE  /\ Quiet /\ seen[t] = {installed} /\ engineConfig = installed
         /\ \A a \in Addrs : Fresh(a)
         /\ pc[t] = "store" => eligible[t] = Eligible(t)
  BY DEF ReloadInv, CoherentWhenQuiet, DecisionInv, DecisionProgress, CalmInv, TurnsInv,
         CacheInv, StaleOnlyFromOverlap, Settled

LEMMA PathInvariant ==
  ASSUME ReloadsOnLoop
  PROVE  Spec => []PathInv
<1> USE DEF PathInv, Eligible, TypeInv, TypeOK
<1>1. Init => PathInv
  BY DEF Init
<1>2. TypeInv /\ ReloadInv /\ DecisionInv /\ CalmInv /\ CacheInv /\ PathInv /\ [Next]_vars
        => PathInv'
  <2> SUFFICES ASSUME TypeInv, ReloadInv, DecisionInv, CalmInv, CacheInv, PathInv, [Next]_vars
               PROVE  PathInv'
    OBVIOUS
  <2>1. ASSUME NEW r \in Reloaders, NEW c \in Configs, UpdateApp(r, c) PROVE PathInv'
    BY <2>1 DEF UpdateApp
  <2>2. ASSUME NEW r \in Reloaders, ReloadStep(r) PROVE PathInv'
    <3>1. UNCHANGED <<pc, packet>> /\ ~Quiet
      BY <2>2 DEF ReloadStep, UpdateLayer, UpdateEngine, ReadNames, SetNames, BuildRust, SetRust,
                  ClearCache, Quiet
    <3>2. \A t \in Tasks : ~Deciding(t)
      BY <3>1, DecidesInQuiet
    <3> QED
      BY <3>1, <3>2 DEF Deciding, DecidingStages
  <2>3. CASE CleanupCache
    BY <2>3 DEF CleanupCache
  <2>4. ASSUME NEW t \in Tasks, Start(t) PROVE PathInv'
    BY <2>4 DEF Start
  <2>5. ASSUME NEW t \in Tasks, TaskStep(t) PROVE PathInv'
    <3>1. UNCHANGED <<configVars, reloadVars, packet>>
      BY <2>5, TasksLeaveConfigs
      DEF TaskStep, CacheLookup, CacheHit, CacheKeyError, ComputeEligible, CacheStore,
          CutThrough, DeliverLocally, EngineTest, RustMatch, RustGone, TimeCheck,
                PyMatch, TakeDefault, Record, Complete
    <3>2. CASE CacheHit(t)
      <4>1. packet[t].src \in Addrs
        BY DEF Addrs
      <4>2. Fresh(packet[t].src)
        BY <3>2, <4>1, DecidesInQuiet DEF CacheHit, Deciding, DecidingStages
      <4> QED
        BY <3>1, <3>2, <4>1, <4>2 DEF CacheHit, Fresh
    <3>3. CASE CacheStore(t)
      <4>1. eligible[t] = Eligible(t)
        BY <3>3, DecidesInQuiet DEF CacheStore, Deciding, DecidingStages
      <4> QED
        BY <3>1, <3>3, <4>1 DEF CacheStore
    <3>4. CASE CacheLookup(t) \/ CacheKeyError(t) \/ ComputeEligible(t) \/ CutThrough(t)
                 \/ DeliverLocally(t)
      BY <3>1, <3>4 DEF CacheLookup, CacheKeyError, ComputeEligible, CutThrough, DeliverLocally
    <3>5. CASE EngineTest(t) \/ RustMatch(t) \/ RustGone(t) \/ TimeCheck(t) \/ PyMatch(t)
                 \/ TakeDefault(t) \/ Record(t) \/ Complete(t)
      <4> USE <3>1
      <4>1. CASE EngineTest(t) \/ RustMatch(t) \/ RustGone(t)
        BY <4>1 DEF EngineTest, RustMatch, RustGone
      <4>2. CASE TimeCheck(t) \/ PyMatch(t) \/ TakeDefault(t)
        BY <4>2 DEF TimeCheck, PyMatch, TakeDefault
      <4>3. CASE Record(t) \/ Complete(t)
        BY <4>3 DEF Record, Complete
      <4> QED
        BY <3>5, <4>1, <4>2, <4>3
    <3> QED
      BY <2>5, <3>2, <3>3, <3>4, <3>5 DEF TaskStep
  <2>6. CASE UNCHANGED vars
    BY <2>6 DEF vars
  <2> QED
    BY <2>1, <2>2, <2>3, <2>4, <2>5, <2>6 DEF Next
<1> QED
  BY <1>1, <1>2, TypeInvariant, TurnsOnLoop, ReloadInvariant, DecisionInvariant, CalmInvariant,
     CacheInvariant, PTL DEF Spec

-----------------------------------------------------------------------------
(* The mapping.                                                            *)

\* The judgement the mapping shows for a task.
Shown(t) ==
  IF pc[t] \in JudgedStages THEN verdict[t]
  ELSE IF pc[t] \in CutThroughStages THEN [allowed |-> TRUE, rule |-> "cut_through"]
  ELSE NoVerdict

LEMMA SamePolicy ==
  ASSUME NEW c, NEW p, NEW now
  PROVE  Policy!Judgement(c, p, now) =
           IF IsBroadcast(p) /\ IsCutThroughEligible(c, p.src)
           THEN [allowed |-> TRUE, rule |-> "cut_through"] ELSE Decide(c, p, now)
<1>1. Policy!IsCutThroughEligible(c, p.src) <=> IsCutThroughEligible(c, p.src)
  BY DEF Policy!IsCutThroughEligible, IsCutThroughEligible, InCutThroughNetwork,
         Policy!InCutThroughNetwork, IsAllowAllFor, Policy!IsAllowAllFor, EnabledRules,
         Policy!EnabledRules, IsAllow, Policy!IsAllow, MatchesSource, Policy!MatchesSource
<1> QED
  BY <1>1 DEF Policy!Judgement, Policy!IsBroadcast, IsBroadcast, Policy!CutThroughVerdict

LEMMA InitMaps == Init => Policy!Init
  BY DEF Init, Policy!Init, TaskStages, JudgedStages, CutThroughStages, DeniedStages

\* A step that keeps policy, packets and judgements is a stutter ...
LEMMA StutterMaps ==
  ASSUME UNCHANGED <<engineConfig, packet>>, \A t \in Tasks : Shown(t)' = Shown(t)
  PROVE  UNCHANGED Policy!vars
  BY DEF Policy!vars, Shown

\* ... and one that gives a single task its judgement is Judge.
LEMMA JudgeMaps ==
  ASSUME NEW t \in Tasks, NEW now \in Instants,
         UNCHANGED <<engineConfig, packet>>,
         Shown(t) = NoVerdict,
         Shown(t)' = Policy!Judgement(engineConfig, packet[t], now),
         \A u \in Tasks \ {t} : Shown(u)' = Shown(u)
  PROVE  Policy!Judge(t)
  BY DEF Policy!Judge, Shown

\* A task whose judgement is not shown yet has reached neither outcome.
Undecided == DecidingStages \cup {"waiting", "failed"}

LEMMA NotShownYet ==
  ASSUME NEW t \in Tasks, pc[t] \in Undecided
  PROVE  Shown(t) = NoVerdict
BY DEF Undecided, DecidingStages, Shown, JudgedStages, CutThroughStages, DeniedStages

\* The step of one task is a stutter or the judgement of its packet.
LEMMA TaskStepMaps ==
  ASSUME TypeInv, ReloadInv, DecisionInv, CalmInv, CacheInv, PathInv,
         TypeInv', DecisionInv', CalmInv',
         NEW t \in Tasks, Start(t) \/ TaskStep(t)
  PROVE  Policy!Judge(t) \/ UNCHANGED Policy!vars
<1> USE DEF TypeInv, TypeOK
<1>1. UNCHANGED <<engineConfig, installed, packet>>
  BY TasksLeaveConfigs DEF Start, TaskStep, CacheLookup, CacheHit, CacheKeyError, ComputeEligible,
     CacheStore, CutThrough, DeliverLocally, EngineTest, RustMatch, RustGone, TimeCheck,
     PyMatch, TakeDefault, Record, Complete
<1>2. \A u \in Tasks \ {t} : Shown(u)' = Shown(u)
  BY OthersUnmoved DEF DecisionInv, Shown
<1>3. ASSUME Shown(t)' = Shown(t) PROVE UNCHANGED Policy!vars
  BY <1>1, <1>2, <1>3, StutterMaps
<1>4. ASSUME pc[t] \in Undecided, pc'[t] \in Undecided PROVE UNCHANGED Policy!vars
  <2>1. Shown(t)' = NoVerdict
    BY <1>4 DEF Undecided, DecidingStages, Shown, JudgedStages, CutThroughStages, DeniedStages
  <2> QED
    BY <1>3, <1>4, <2>1, NotShownYet
<1>5. ASSUME Deciding(t), pc'[t] = "cutThrough", Eligible(t), IsBroadcast(packet[t])
      PROVE  Policy!Judge(t)
  <2>1. PICK now \in Instants : TRUE
    BY InputsAssumption
  <2>2. Shown(t)' = [allowed |-> TRUE, rule |-> "cut_through"]
    BY <1>5 DEF Shown, JudgedStages, CutThroughStages, DeniedStages
  <2>3. Policy!Judgement(engineConfig, packet[t], now) = [allowed |-> TRUE, rule |-> "cut_through"]
    BY <1>5, SamePolicy, DecidesInQuiet DEF Eligible
  <2>4. Shown(t) = NoVerdict
    BY <1>5, NotShownYet DEF Undecided, Deciding
  <2> QED
    BY <1>1, <1>2, <2>2, <2>3, <2>4, JudgeMaps
<1>6. ASSUME pc[t] \in {"match", "timeCheck", "pyMatch", "default"}, pc'[t] = "record",
             UNCHANGED seen
      PROVE  Policy!Judge(t)
  <2>1. Deciding(t)
    BY <1>6 DEF Deciding, DecidingStages
  <2>2. verdict'[t] = Decide(installed, packet[t], clock'[t])
    BY <1>1, <1>6, <2>1, DecidesInQuiet DEF DecisionInv, DecisionProgress, CalmInv
  <2>3. Policy!Judgement(engineConfig, packet[t], clock'[t])
          = Decide(installed, packet[t], clock'[t])
    BY <1>6, <2>1, DecidesInQuiet, SamePolicy DEF PathInv, Eligible
  <2>4. Shown(t) = NoVerdict /\ Shown(t)' = verdict'[t]
    BY <1>6, <2>1, NotShownYet DEF Undecided, Deciding, Shown, JudgedStages
  <2>5. clock'[t] \in Instants
    OBVIOUS
  <2> QED
    BY <1>1, <1>2, <2>2, <2>3, <2>4, <2>5, JudgeMaps
<1>7. CASE Start(t)
  BY <1>4, <1>7 DEF Start, Undecided, DecidingStages
<1>8. CASE CacheLookup(t) \/ CacheKeyError(t) \/ ComputeEligible(t) \/ EngineTest(t) \/ RustGone(t)
  BY <1>4, <1>8 DEF CacheLookup, CacheKeyError, ComputeEligible, EngineTest, RustGone, Undecided,
                    DecidingStages
<1>9. CASE CacheHit(t)
  <2>1. Deciding(t) /\ IsBroadcast(packet[t]) /\ pc[t] \in Undecided
    BY <1>9 DEF CacheHit, Deciding, DecidingStages, PathInv, Undecided
  <2>2. cache[packet[t].src] = Eligible(t)
    BY <1>9, <2>1, DecidesInQuiet DEF CacheHit, Fresh, Eligible, Addrs
  <2>3. CASE Eligible(t)
    BY <1>5, <1>9, <2>1, <2>2, <2>3 DEF CacheHit
  <2>4. CASE ~Eligible(t)
    <3>1. pc'[t] \in Undecided
      BY <1>9, <2>2, <2>4 DEF CacheHit, Undecided, DecidingStages
    <3> QED
      BY <1>4, <2>1, <3>1
  <2> QED
    BY <2>3, <2>4
<1>10. CASE CacheStore(t)
  <2>1. Deciding(t) /\ IsBroadcast(packet[t]) /\ pc[t] \in Undecided
    BY <1>10 DEF CacheStore, Deciding, DecidingStages, PathInv, Undecided
  <2>2. eligible[t] = Eligible(t)
    BY <1>10, <2>1, DecidesInQuiet DEF CacheStore
  <2>3. CASE Eligible(t)
    BY <1>5, <1>10, <2>1, <2>2, <2>3 DEF CacheStore
  <2>4. CASE ~Eligible(t)
    <3>1. pc'[t] \in Undecided
      BY <1>10, <2>2, <2>4 DEF CacheStore, Undecided, DecidingStages
    <3> QED
      BY <1>4, <2>1, <3>1
  <2> QED
    BY <2>3, <2>4
<1>11. CASE RustMatch(t)
  <2>1. pc[t] = "match" /\ pc'[t] \in {"record", "timeCheck"} /\ UNCHANGED seen
    BY <1>11 DEF RustMatch
  <2> QED
    BY <1>4, <1>6, <2>1 DEF Undecided, DecidingStages
<1>12. CASE TimeCheck(t)
  <2>1. pc[t] = "timeCheck" /\ pc'[t] \in {"record", "default"} /\ UNCHANGED seen
    BY <1>12 DEF TimeCheck
  <2> QED
    BY <1>4, <1>6, <2>1 DEF Undecided, DecidingStages
<1>13. CASE PyMatch(t)
  <2>1. pc[t] = "pyMatch" /\ pc'[t] \in {"record", "default"} /\ UNCHANGED seen
    BY <1>13 DEF PyMatch
  <2> QED
    BY <1>4, <1>6, <2>1 DEF Undecided, DecidingStages
<1>14. CASE TakeDefault(t)
  BY <1>6, <1>14 DEF TakeDefault
<1>15. CASE CutThrough(t) \/ DeliverLocally(t) \/ Record(t) \/ Complete(t)
  <2>1. Shown(t)' = Shown(t)
    BY <1>15 DEF CutThrough, DeliverLocally, Record, Complete, Shown, JudgedStages,
                 CutThroughStages, DeniedStages
  <2> QED
    BY <1>3, <2>1
<1> QED
  BY <1>7, <1>8, <1>9, <1>10, <1>11, <1>12, <1>13, <1>14, <1>15 DEF TaskStep

\* With reloads on the loop the packet path implements the atomic policy: each
\* packet is judged in one step by the one configuration in force.
THEOREM PathImplementsPolicy ==
  ASSUME ReloadsOnLoop
  PROVE  Spec => ImplementsPolicy
<1>1. TypeInv /\ ReloadInv /\ DecisionInv /\ CalmInv /\ CacheInv /\ PathInv
        /\ TypeInv' /\ DecisionInv' /\ CalmInv' /\ [Next]_vars
        => [Policy!Next]_(Policy!vars)
  <2> SUFFICES ASSUME TypeInv, ReloadInv, DecisionInv, CalmInv, CacheInv, PathInv,
                      TypeInv', DecisionInv', CalmInv', [Next]_vars
               PROVE  Policy!Next \/ UNCHANGED Policy!vars
    OBVIOUS
  <2>1. ASSUME NEW r \in Reloaders, UpdateEngine(r) PROVE Policy!Next
    BY <2>1 DEF UpdateEngine, Policy!Next, Policy!Install, TypeInv, TypeOK
  <2>2. ASSUME UNCHANGED <<engineConfig, packet, pc, verdict>> PROVE UNCHANGED Policy!vars
    BY <2>2, StutterMaps DEF Shown
  <2>3. ASSUME NEW r \in Reloaders, ReloadStep(r), ~UpdateEngine(r) PROVE UNCHANGED Policy!vars
    BY <2>2, <2>3 DEF ReloadStep, UpdateLayer, ReadNames, SetNames, BuildRust, SetRust, ClearCache
  <2>4. ASSUME NEW r \in Reloaders, NEW c \in Configs, UpdateApp(r, c) PROVE UNCHANGED Policy!vars
    BY <2>2, <2>4 DEF UpdateApp
  <2>5. CASE CleanupCache
    BY <2>2, <2>5 DEF CleanupCache
  <2>6. CASE UNCHANGED vars
    BY <2>2, <2>6 DEF vars
  <2>7. ASSUME NEW t \in Tasks, Start(t) \/ TaskStep(t) PROVE Policy!Next \/ UNCHANGED Policy!vars
    BY <2>7, TaskStepMaps DEF Policy!Next
  <2> QED
    BY <2>1, <2>3, <2>4, <2>5, <2>6, <2>7 DEF Next
<1> QED
  BY <1>1, InitMaps, TypeInvariant, TurnsOnLoop, ReloadInvariant, DecisionInvariant, CalmInvariant,
     CacheInvariant, PathInvariant, PTL DEF Spec, ImplementsPolicy, Policy!Spec

=============================================================================
