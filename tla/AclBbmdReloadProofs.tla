------------------------ MODULE AclBbmdReloadProofs ------------------------
(***************************************************************************)
(* Proofs about AclBbmd: what the cache keeps across reloads, and what     *)
(* holds when every reload runs on the event loop.                         *)
(***************************************************************************)
EXTENDS AclBbmdProofs

USE DEF UGo, Go, Count, configVars, reloadVars, taskVars, sharedByTasks

-----------------------------------------------------------------------------
(* Stale entries come from overlaps only.                                  *)

Eligible(t) == IsCutThroughEligible(installed, packet[t].src)

\* A task that has not begun is undisturbed; what an undisturbed task is about
\* to store is the answer of the configuration installed, if there is one.
CacheInv ==
  /\ StaleOnlyFromOverlap
  /\ \A t \in Tasks : pc[t] = "waiting" => ~disturbed[t]
  /\ \A t \in Tasks : pc[t] = "store" /\ ~disturbed[t] /\ installed # NoConfig =>
                     eligible[t] = Eligible(t)

LEMMA CacheInvariant == Spec => []CacheInv
<1> USE DEF TypeInv, TypeOK, CacheInv, StaleOnlyFromOverlap, Fresh, Eligible, Settled
<1>1. Init => CacheInv
  BY DEF Init, EmptyCache
<1>2. TypeInv /\ ReloadInv /\ DecisionInv /\ CacheInv /\ [Next]_vars => CacheInv'
  <2> SUFFICES ASSUME TypeInv, ReloadInv, DecisionInv, CacheInv, [Next]_vars PROVE CacheInv'
    OBVIOUS
  <2>1. ASSUME NEW r \in Reloaders, NEW c \in Configs, UpdateApp(r, c) PROVE CacheInv'
    <3>1. ~Quiet' /\ UNCHANGED <<pc, packet, eligible, installed>>
      BY <2>1 DEF UpdateApp, Quiet
    <3>2. \A t \in Tasks : disturbed'[t] = (disturbed[t] \/ Deciding(t))
      BY <2>1 DEF UpdateApp
    <3> QED
      BY <3>1, <3>2 DEF Deciding, DecidingStages
  <2>2. ASSUME NEW r \in Reloaders, ReloadStep(r), ~ClearCache(r) PROVE CacheInv'
    <3>1. ~Quiet' /\ UNCHANGED <<taskVars, installed>>
      BY <2>2 DEF ReloadStep, UpdateLayer, UpdateEngine, ReadNames, SetNames, BuildRust, SetRust,
                  Quiet
    <3> QED
      BY <3>1
  <2>3. ASSUME NEW r \in Reloaders, ClearCache(r) PROVE CacheInv'
    <3>1. UNCHANGED taskVars /\ ~Quiet /\ cache' = EmptyCache
      BY <2>3 DEF ClearCache, Quiet
    <3>2. \A t \in Tasks : pc[t] = "store" => disturbed[t]
      BY <3>1 DEF DecisionInv, DecisionProgress, Deciding, DecidingStages
    <3> QED
      BY <3>1, <3>2 DEF EmptyCache
  <2>4. CASE CleanupCache
    BY <2>4 DEF CleanupCache, EmptyCache, Quiet
  <2>5. ASSUME NEW t \in Tasks, Start(t) PROVE CacheInv'
    <3>1. UNCHANGED <<cache, upc, installed, packet, eligible>> /\ ~disturbed[t]
      BY <2>5 DEF Start
    <3>2. /\ disturbed' = [disturbed EXCEPT ![t] = ~Quiet]
          /\ pc'[t] # "store" /\ pc'[t] # "waiting"
          /\ \A u \in Tasks \ {t} : pc'[u] = pc[u]
      BY <2>5 DEF Start
    <3>3. Quiet' = Quiet
      BY <3>1 DEF Quiet
    <3> QED
      BY <3>1, <3>2, <3>3
  <2>6. ASSUME NEW t \in Tasks, TaskStep(t) PROVE CacheInv'
    <3>1. UNCHANGED <<configVars, reloadVars>> /\ Quiet' = Quiet
      BY <2>6, TasksLeaveConfigs DEF Quiet
    <3>2. UNCHANGED <<packet, disturbed>>
      BY <2>6 DEF TaskStep, CacheLookup, CacheHit, CacheKeyError, ComputeEligible, CacheStore,
                  CutThrough, DeliverLocally, EngineTest, RustMatch, RustGone, TimeCheck,
                  PyMatch, TakeDefault, Record, Complete
    <3>3. CASE CacheStore(t)
      <4>1. cache' = [cache EXCEPT ![packet[t].src] = eligible[t]]
            /\ pc[t] = "store" /\ pc'[t] \notin {"store", "waiting"}
            /\ \A u \in Tasks \ {t} : pc'[u] = pc[u] /\ eligible'[u] = eligible[u]
        BY <3>3 DEF CacheStore
      <4>2. packet[t].src \in Addrs
        BY DEF Addrs
      <4> QED
        BY <3>1, <3>2, <4>1, <4>2
    <3>4. CASE ComputeEligible(t)
      <4>1. /\ UNCHANGED cache /\ pc[t] = "compute"
            /\ pc'[t] = "store" /\ eligible'[t] = IsCutThroughEligible(engineConfig, packet[t].src)
            /\ \A u \in Tasks \ {t} : pc'[u] = pc[u] /\ eligible'[u] = eligible[u]
        BY <3>4 DEF ComputeEligible
      <4>2. ~disturbed[t] /\ installed # NoConfig => engineConfig = installed
        BY <4>1 DEF DecisionInv, DecisionProgress, Deciding, DecidingStages, ReloadInv,
                    CoherentWhenQuiet
      <4> QED
        BY <3>1, <3>2, <4>1, <4>2
    <3>5. CASE ~CacheStore(t) /\ ~ComputeEligible(t)
      <4>1. /\ UNCHANGED <<cache, eligible>>
            /\ pc'[t] \notin {"store", "waiting"}
            /\ \A u \in Tasks \ {t} : pc'[u] = pc[u]
        BY <2>6, <3>5 DEF TaskStep, CacheLookup, CacheHit, CacheKeyError,
                  CutThrough, DeliverLocally, EngineTest, RustMatch, RustGone, TimeCheck,
                  PyMatch, TakeDefault, Record, Complete
      <4> QED
        BY <3>1, <3>2, <4>1
    <3> QED
      BY <3>3, <3>4, <3>5
  <2>7. CASE UNCHANGED vars
    BY <2>7 DEF vars, Quiet
  <2> QED
    BY <2>1, <2>2, <2>3, <2>4, <2>5, <2>6, <2>7 DEF Next
<1> QED
  BY <1>1, <1>2, TypeInvariant, ReloadInvariant, DecisionInvariant, PTL DEF Spec

\* An entry is stale after a reload which ran alone only if a reload overlapped the
\* decision on some packet of that source.
THEOREM StaleNeedsOverlap == Spec => []StaleOnlyFromOverlap
<1>1. CacheInv => StaleOnlyFromOverlap
  BY DEF CacheInv
<1> QED
  BY <1>1, CacheInvariant, PTL

-----------------------------------------------------------------------------
(* Reloads on the loop.                                                    *)

\* Every reload is a coroutine that keeps the loop.
ReloadsOnLoop == Reloaders = OnLoop

LEMMA TurnsOnLoop == ReloadsOnLoop => ReloadsTakeTurns
  BY DEF ReloadsOnLoop, ReloadsTakeTurns

\* Reloads run alone, none overlaps a decision, and a decision has its
\* configuration.
CalmInv ==
  /\ TurnsInv
  /\ \A t \in Tasks : ~disturbed[t] /\ (pc[t] \in RunningStages => seen[t] # {})

LEMMA CalmInvariant ==
  ASSUME ReloadsOnLoop
  PROVE  Spec => []CalmInv
<1> USE OwnersAssumption DEF CalmInv, TypeInv, TypeOK, RunningStages, DecidingStages, Deciding
<1>1. Init /\ TurnsInv => CalmInv
  BY DEF Init
<1>2. TypeInv /\ LoopInv /\ TurnsInv' /\ CalmInv /\ [Next]_vars => CalmInv'
  <2> SUFFICES ASSUME TypeInv, LoopInv, TurnsInv', CalmInv, [Next]_vars PROVE CalmInv'
    OBVIOUS
  <2>1. ASSUME NEW r \in Reloaders, NEW c \in Configs, UpdateApp(r, c) PROVE CalmInv'
    <3>1. loop = Nobody
      BY <2>1, ReloadsOnLoop DEF UpdateApp, ReloadsOnLoop
    <3>2. \A t \in Tasks : pc[t] \notin RunningStages
      BY <3>1 DEF LoopInv
    <3> QED
      BY <2>1, <3>2 DEF UpdateApp
  <2>2. ASSUME NEW r \in Reloaders, ReloadStep(r) PROVE CalmInv'
    BY <2>2 DEF ReloadStep, UpdateLayer, UpdateEngine, ReadNames, SetNames, BuildRust, SetRust,
                ClearCache
  <2>3. CASE CleanupCache
    BY <2>3 DEF CleanupCache
  <2>4. ASSUME NEW t \in Tasks, Start(t) PROVE CalmInv'
    <3>1. Quiet
      BY <2>4, ReloadsOnLoop DEF Start, Quiet, LoopInv, ReloadsOnLoop
    <3>2. InForce # {}
      BY DEF InForce, TurnsInv
    <3> QED
      BY <2>4, <3>1, <3>2 DEF Start
  <2>5. ASSUME NEW t \in Tasks, TaskStep(t) PROVE CalmInv'
    <3>1. UNCHANGED disturbed
      BY <2>5 DEF TaskStep, CacheLookup, CacheHit, CacheKeyError, ComputeEligible, CacheStore,
                  CutThrough, DeliverLocally, EngineTest, RustMatch, RustGone, TimeCheck,
                  PyMatch, TakeDefault, Record, Complete
    <3>2. CASE CacheLookup(t) \/ CacheHit(t) \/ ComputeEligible(t) \/ CacheStore(t)
      BY <3>1, <3>2 DEF CacheLookup, CacheHit, ComputeEligible, CacheStore
    <3>3. CASE EngineTest(t) \/ RustMatch(t) \/ TimeCheck(t) \/ PyMatch(t) \/ TakeDefault(t)
      BY <3>1, <3>3 DEF EngineTest, RustMatch, TimeCheck, PyMatch, TakeDefault
    <3>4. CASE CacheKeyError(t) \/ RustGone(t) \/ CutThrough(t) \/ Record(t)
      BY <3>1, <3>4 DEF CacheKeyError, RustGone, CutThrough, Record
    <3>5. CASE DeliverLocally(t) \/ Complete(t)
      BY <3>1, <3>5 DEF DeliverLocally, Complete
    <3> QED
      BY <2>5, <3>2, <3>3, <3>4, <3>5 DEF TaskStep
  <2>6. CASE UNCHANGED vars
    BY <2>6 DEF vars
  <2> QED
    BY <2>1, <2>2, <2>3, <2>4, <2>5, <2>6 DEF Next
<1> QED
  BY <1>1, <1>2, TypeInvariant, LoopInvariant, TurnsOnLoop, TurnsInvariant, PTL DEF Spec

\* With reloads on the loop no task ends with an exception.
THEOREM NoTaskEverFails ==
  ASSUME ReloadsOnLoop
  PROVE  Spec => []NoTaskFails
<1>1. CalmInv /\ FailsOnlyDuringReload => NoTaskFails
  BY DEF CalmInv, FailsOnlyDuringReload, NoTaskFails
<1> QED
  BY <1>1, CalmInvariant, TurnsOnLoop, FailuresNeedReload, PTL

\* With reloads on the loop every verdict is that of one configuration.
THEOREM DecisionsAreAtomic ==
  ASSUME ReloadsOnLoop
  PROVE  Spec => []DecisionIsAtomic
<1>1. CalmInv /\ UndisturbedDecision => DecisionIsAtomic
  BY DEF CalmInv, RunningStages, UndisturbedDecision, DecisionIsAtomic
<1> QED
  BY <1>1, CalmInvariant, TurnsOnLoop, UndisturbedAlways, PTL

\* With reloads on the loop no cached eligibility survives its configuration.
THEOREM CacheIsFresh ==
  ASSUME ReloadsOnLoop
  PROVE  Spec => []CacheFreshWhenQuiet
<1>1. CalmInv /\ StaleOnlyFromOverlap => CacheFreshWhenQuiet
  BY DEF CalmInv, StaleOnlyFromOverlap, CacheFreshWhenQuiet
<1> QED
  BY <1>1, CalmInvariant, TurnsOnLoop, StaleNeedsOverlap, PTL

=============================================================================
