--------------------------- MODULE AclBbmdProofs ---------------------------
(***************************************************************************)
(* Proofs about AclBbmd for every set of configurations, packets and       *)
(* tasks and any number of reloads.                                        *)
(***************************************************************************)
EXTENDS AclBbmd, TLAPS, FiniteSetTheorems

USE DEF UGo, Go, Count, configVars, reloadVars, taskVars, sharedByTasks

-----------------------------------------------------------------------------
(* Type correctness.                                                       *)

\* What ReadNames hands to SetNames is a configuration, never a missing engine.
NamesBuilt == \A r \in Reloaders : upc[r] = "setNames" => ubuilt[r] \in Configs

TypeInv == TypeOK /\ NamesBuilt

\* The type invariant with what makes it inductive.
LEMMA TypeInvariant == Spec => []TypeInv
<1>1. Init => TypeInv
  BY InputsAssumption DEF Init, TypeInv, TypeOK, NamesBuilt, Build, EmptyCache, ReloadStages, TaskStages, Counters
<1>2. TypeInv /\ [Next]_vars => TypeInv'
  <2> SUFFICES ASSUME TypeInv, [Next]_vars PROVE TypeInv'
    OBVIOUS
  <2> USE DEF TypeInv, TypeOK, NamesBuilt, ReloadStages, TaskStages, DecidingStages, AllowedStages, DeniedStages
  <2>1. ASSUME NEW r \in Reloaders, NEW c \in Configs, UpdateApp(r, c) PROVE TypeInv'
    <3>1. /\ loop' \in Tasks \cup Reloaders \cup {Nobody}
          /\ upc' \in [Reloaders -> ReloadStages]
          /\ unew' \in [Reloaders -> Configs]
          /\ updates' \in Nat
      BY <2>1 DEF UpdateApp
    <3>2. seen' \in [Tasks -> SUBSET Configs] /\ disturbed' \in [Tasks -> BOOLEAN]
      BY <2>1 DEF UpdateApp
    <3> QED
      BY <2>1, <3>1, <3>2 DEF UpdateApp
  <2>2. ASSUME NEW r \in Reloaders, UpdateLayer(r) PROVE TypeInv'
    BY <2>2 DEF UpdateLayer
  <2>3. ASSUME NEW r \in Reloaders, UpdateEngine(r) PROVE TypeInv'
    BY <2>3 DEF UpdateEngine
  <2>4. ASSUME NEW r \in Reloaders, ReadNames(r) PROVE TypeInv'
    BY <2>4 DEF ReadNames
  <2>5. ASSUME NEW r \in Reloaders, SetNames(r) PROVE TypeInv'
    BY <2>5 DEF SetNames
  <2>6. ASSUME NEW r \in Reloaders, BuildRust(r) PROVE TypeInv'
    <3>1. Build(engineConfig) \in Configs \cup {NoEngine}
      BY DEF Build
    <3> QED
      BY <2>6, <3>1 DEF BuildRust
  <2>7. ASSUME NEW r \in Reloaders, SetRust(r) PROVE TypeInv'
    BY <2>7 DEF SetRust
  <2>8. ASSUME NEW r \in Reloaders, ClearCache(r) PROVE TypeInv'
    BY <2>8 DEF ClearCache, EmptyCache
  <2>9. CASE CleanupCache
    BY <2>9 DEF CleanupCache, EmptyCache
  <2>10. ASSUME NEW t \in Tasks, Start(t) PROVE TypeInv'
    BY <2>10 DEF Start, InForce
  <2>11. ASSUME NEW t \in Tasks, CacheLookup(t) PROVE TypeInv'
    BY <2>11 DEF CacheLookup
  <2>12. ASSUME NEW t \in Tasks, CacheHit(t) PROVE TypeInv'
    BY <2>12 DEF CacheHit
  <2>13. ASSUME NEW t \in Tasks, CacheKeyError(t) PROVE TypeInv'
    BY <2>13 DEF CacheKeyError
  <2>14. ASSUME NEW t \in Tasks, ComputeEligible(t) PROVE TypeInv'
    <3>1. IsCutThroughEligible(engineConfig, packet[t].src) \in BOOLEAN
      BY DEF IsCutThroughEligible
    <3> QED
      BY <2>14, <3>1 DEF ComputeEligible
  <2>15. ASSUME NEW t \in Tasks, CacheStore(t) PROVE TypeInv'
    BY <2>15 DEF CacheStore
  <2>16. ASSUME NEW t \in Tasks, CutThrough(t) PROVE TypeInv'
    BY <2>16 DEF CutThrough, Counters
  <2>17. ASSUME NEW t \in Tasks, DeliverLocally(t) PROVE TypeInv'
    BY <2>17 DEF DeliverLocally
  <2>18. ASSUME NEW t \in Tasks, EngineTest(t) PROVE TypeInv'
    BY <2>18 DEF EngineTest
  <2>19. ASSUME NEW t \in Tasks, RustMatch(t) PROVE TypeInv'
    BY <2>19 DEF RustMatch
  <2>20. ASSUME NEW t \in Tasks, RustGone(t) PROVE TypeInv'
    BY <2>20 DEF RustGone
  <2>21. ASSUME NEW t \in Tasks, TimeCheck(t) PROVE TypeInv'
    BY <2>21 DEF TimeCheck
  <2>22. ASSUME NEW t \in Tasks, PyMatch(t) PROVE TypeInv'
    BY <2>22 DEF PyMatch
  <2>23. ASSUME NEW t \in Tasks, TakeDefault(t) PROVE TypeInv'
    BY <2>23 DEF TakeDefault
  <2>24. ASSUME NEW t \in Tasks, Record(t) PROVE TypeInv'
    BY <2>24 DEF Record, Counters
  <2>25. ASSUME NEW t \in Tasks, Complete(t) PROVE TypeInv'
    BY <2>25 DEF Complete
  <2>26. CASE UNCHANGED vars
    BY <2>26 DEF vars
  <2> QED
    BY <2>1, <2>2, <2>3, <2>4, <2>5, <2>6, <2>7, <2>8, <2>9, <2>10, <2>11, <2>12, <2>13,
       <2>14, <2>15, <2>16, <2>17, <2>18, <2>19, <2>20, <2>21, <2>22, <2>23, <2>24, <2>25,
       <2>26
       DEF Next, ReloadStep, TaskStep
<1> QED
  BY <1>1, <1>2, PTL DEF Spec

\* Every variable keeps its type, whatever the reloaders and tasks do.
THEOREM TypeCorrect == Spec => []TypeOK
<1>1. TypeInv => TypeOK
  BY DEF TypeInv
<1> QED
  BY <1>1, TypeInvariant, PTL

-----------------------------------------------------------------------------
(* The loop has one owner between two awaits.                              *)

RunningStages == DecidingStages \cup {"cutThrough", "record"}

LoopInv ==
  /\ \A t \in Tasks : pc[t] \in RunningStages => loop = t
  /\ \A r \in OnLoop : upc[r] # "idle" => loop = r

\* Tasks and the cleanup touch nothing a reload writes, except the cache.
LEMMA TasksLeaveConfigs ==
  ASSUME NEW t \in Tasks, Start(t) \/ TaskStep(t)
  PROVE  UNCHANGED <<configVars, reloadVars>>
BY DEF Start, TaskStep, CacheLookup, CacheHit, CacheKeyError, ComputeEligible, CacheStore,
       CutThrough, DeliverLocally, EngineTest, RustMatch, RustGone, TimeCheck, PyMatch,
       TakeDefault, Record, Complete

LEMMA LoopInvariant == Spec => []LoopInv
<1> USE OnLoopAssumption, OwnersAssumption
<1> USE DEF LoopInv, RunningStages, DecidingStages, TypeInv, TypeOK
<1>1. Init => LoopInv
  BY DEF Init
<1>2. TypeInv /\ LoopInv /\ [Next]_vars => LoopInv'
  <2> SUFFICES ASSUME TypeInv, LoopInv, [Next]_vars PROVE LoopInv'
    OBVIOUS
  <2>1. ASSUME NEW r \in Reloaders, NEW c \in Configs, UpdateApp(r, c) PROVE LoopInv'
    BY <2>1 DEF UpdateApp
  <2>2. ASSUME NEW r \in Reloaders, ReloadStep(r), ~ClearCache(r) PROVE LoopInv'
    BY <2>2 DEF ReloadStep, UpdateLayer, UpdateEngine, ReadNames, SetNames, BuildRust, SetRust
  <2>3. ASSUME NEW r \in Reloaders, ClearCache(r) PROVE LoopInv'
    BY <2>3 DEF ClearCache
  <2>4. CASE CleanupCache
    BY <2>4 DEF CleanupCache
  <2>5. ASSUME NEW t \in Tasks, Start(t) PROVE LoopInv'
    BY <2>5 DEF Start
  <2>6. ASSUME NEW t \in Tasks, TaskStep(t) PROVE LoopInv'
    <3>1. UNCHANGED upc
      BY <2>6, TasksLeaveConfigs
    <3>2. CASE CacheLookup(t) \/ CacheHit(t) \/ ComputeEligible(t) \/ CacheStore(t)
      BY <3>1, <3>2 DEF CacheLookup, CacheHit, ComputeEligible, CacheStore
    <3>3. CASE EngineTest(t) \/ RustMatch(t) \/ TimeCheck(t) \/ PyMatch(t) \/ TakeDefault(t)
      BY <3>1, <3>3 DEF EngineTest, RustMatch, TimeCheck, PyMatch, TakeDefault
    <3>4. CASE CacheKeyError(t) \/ RustGone(t)
      BY <3>1, <3>4 DEF CacheKeyError, RustGone
    <3>5. CASE CutThrough(t) \/ Record(t)
      BY <3>1, <3>5 DEF CutThrough, Record
    <3>6. CASE DeliverLocally(t) \/ Complete(t)
      BY <3>1, <3>6 DEF DeliverLocally, Complete
    <3> QED
      BY <2>6, <3>2, <3>3, <3>4, <3>5, <3>6 DEF TaskStep
  <2>7. CASE UNCHANGED vars
    BY <2>7 DEF vars
  <2> QED
    BY <2>1, <2>2, <2>3, <2>4, <2>5, <2>6, <2>7 DEF Next
<1> QED
  BY <1>1, <1>2, TypeInvariant, PTL DEF Spec

-----------------------------------------------------------------------------
(* A reload leaves the copies of the configuration the same.               *)

\* While a reload is the lone one, no other is active.
LoneInv ==
  lone # Nobody => upc[lone] # "idle" /\ \A r \in Reloaders \ {lone} : upc[r] = "idle"

\* How far the reload r has come in replacing the copies.
ReloadProgress(r) ==
  /\ upc[r] # "idle" => appConfig = unew[r]
  /\ upc[r] \notin {"idle", "layer"} => layerConfig = unew[r]
  /\ upc[r] \notin {"idle", "layer", "engine"} => engineConfig = unew[r]
  /\ upc[r] = "setNames" => ubuilt[r] = unew[r]
  /\ upc[r] \in {"build", "setRust", "clear"} => rulesByName = unew[r]
  /\ upc[r] = "setRust" => ubuilt[r] = Build(unew[r])
  /\ upc[r] = "clear" => rustEngine = Build(unew[r])

\* Without the native extension there is no native engine.
NoNativeEngine ==
  ~RustAvailable =>
    rustEngine = NoEngine /\ \A r \in Reloaders : upc[r] = "setRust" => ubuilt[r] = NoEngine

ReloadInv ==
  /\ CoherentWhenQuiet
  /\ NoNativeEngine
  /\ LoneInv
  /\ lone # Nobody => ReloadProgress(lone)

LEMMA ReloadInvariant == Spec => []ReloadInv
<1> USE OwnersAssumption
<1>1. Init => ReloadInv
  BY DEF Init, ReloadInv, CoherentWhenQuiet, NoNativeEngine, LoneInv, Build
<1>2. TypeInv /\ ReloadInv /\ [Next]_vars => ReloadInv'
  <2> SUFFICES ASSUME TypeInv, ReloadInv, [Next]_vars PROVE ReloadInv'
    OBVIOUS
  <2> USE DEF TypeInv, TypeOK, ReloadInv, ReloadProgress, CoherentWhenQuiet, NoNativeEngine,
              LoneInv, Quiet, Settled
  <2>1. ASSUME NEW r \in Reloaders, NEW c \in Configs, UpdateApp(r, c) PROVE ReloadInv'
    BY <2>1 DEF UpdateApp, Build
  <2>2. ASSUME NEW r \in Reloaders, UpdateLayer(r) PROVE ReloadInv'
    BY <2>2 DEF UpdateLayer, Build
  <2>3. ASSUME NEW r \in Reloaders, UpdateEngine(r) PROVE ReloadInv'
    BY <2>3 DEF UpdateEngine, Build
  <2>4. ASSUME NEW r \in Reloaders, ReadNames(r) PROVE ReloadInv'
    BY <2>4 DEF ReadNames, Build
  <2>5. ASSUME NEW r \in Reloaders, SetNames(r) PROVE ReloadInv'
    BY <2>5 DEF SetNames, Build
  <2>6. ASSUME NEW r \in Reloaders, BuildRust(r) PROVE ReloadInv'
    BY <2>6 DEF BuildRust, Build
  <2>7. ASSUME NEW r \in Reloaders, SetRust(r) PROVE ReloadInv'
    BY <2>7 DEF SetRust, Build
  <2>8. ASSUME NEW r \in Reloaders, ClearCache(r) PROVE ReloadInv'
    BY <2>8 DEF ClearCache, Build
  <2>9. CASE CleanupCache
    BY <2>9 DEF CleanupCache, Build
  <2>10. ASSUME NEW t \in Tasks, Start(t) \/ TaskStep(t) PROVE ReloadInv'
    BY <2>10, TasksLeaveConfigs DEF Build
  <2>11. CASE UNCHANGED vars
    BY <2>11 DEF vars, Build
  <2> QED
    BY <2>1, <2>2, <2>3, <2>4, <2>5, <2>6, <2>7, <2>8, <2>9, <2>10, <2>11 DEF Next, ReloadStep
<1> QED
  BY <1>1, <1>2, TypeInvariant, PTL DEF Spec

\* Whoever reloads and however reloads overlap: after a reload that ran alone all
\* copies of the configuration agree, and the native engine is the one built from
\* them.
THEOREM CoherentAlways == Spec => []CoherentWhenQuiet
<1>1. ReloadInv => CoherentWhenQuiet
  BY DEF ReloadInv
<1> QED
  BY <1>1, ReloadInvariant, PTL

\* Reloads never overlap: there is one reloader, the observer, or all of them
\* are coroutines that keep the loop.
ReloadsTakeTurns == (\A r, s \in Reloaders : r = s) \/ Reloaders = OnLoop

OneAtATime == \A r, s \in Reloaders : upc[r] # "idle" /\ upc[s] # "idle" => r = s

\* Every reload runs alone.
TurnsInv ==
  installed # NoConfig /\ \A r \in Reloaders : upc[r] # "idle" => lone = r

LEMMA TurnsInvariant ==
  ASSUME ReloadsTakeTurns
  PROVE  Spec => []TurnsInv
<1> USE NullsAssumption DEF TurnsInv, TypeInv, TypeOK
<1>1. Init => TurnsInv
  BY DEF Init
<1>2. LoopInv => OneAtATime
  BY ReloadsTakeTurns DEF ReloadsTakeTurns, OneAtATime, LoopInv
<1>3. TypeInv /\ OneAtATime' /\ TurnsInv /\ [Next]_vars => TurnsInv'
  <2> SUFFICES ASSUME TypeInv, OneAtATime', TurnsInv, [Next]_vars PROVE TurnsInv'
    OBVIOUS
  <2>1. ASSUME NEW r \in Reloaders, NEW c \in Configs, UpdateApp(r, c) PROVE TurnsInv'
    <3>1. Quiet
      BY <2>1 DEF UpdateApp, OneAtATime, Quiet
    <3> QED
      BY <2>1, <3>1 DEF UpdateApp, Quiet
  <2>2. ASSUME NEW r \in Reloaders, ReloadStep(r), ~ClearCache(r) PROVE TurnsInv'
    BY <2>2 DEF ReloadStep, UpdateLayer, UpdateEngine, ReadNames, SetNames, BuildRust, SetRust
  <2>3. ASSUME NEW r \in Reloaders, ClearCache(r) PROVE TurnsInv'
    BY <2>3 DEF ClearCache
  <2>4. CASE CleanupCache
    BY <2>4 DEF CleanupCache
  <2>5. ASSUME NEW t \in Tasks, Start(t) \/ TaskStep(t) PROVE TurnsInv'
    BY <2>5, TasksLeaveConfigs
  <2>6. CASE UNCHANGED vars
    BY <2>6 DEF vars
  <2> QED
    BY <2>1, <2>2, <2>3, <2>4, <2>5, <2>6 DEF Next
<1> QED
  BY <1>1, <1>2, <1>3, TypeInvariant, LoopInvariant, PTL DEF Spec

\* If reloads take turns, every one of them runs alone, and so all copies agree
\* whenever none is active: only an overlap can leave a mixture.
THEOREM CoherentBetweenTurns ==
  ASSUME ReloadsTakeTurns
  PROVE  Spec => []NoMixtureRemains
<1>1. TurnsInv /\ CoherentWhenQuiet => NoMixtureRemains
  BY DEF TurnsInv, Settled, CoherentWhenQuiet, NoMixtureRemains
<1> QED
  BY <1>1, TurnsInvariant, CoherentAlways, PTL

-----------------------------------------------------------------------------
(* Decisions that no reload overlaps.                                      *)

\* What an undisturbed task knows at each step of its decision: no reload is
\* active, and unless reloads overlapped before it, what it has read came from
\* the configuration installed.
DecisionProgress(t) ==
  /\ Deciding(t) => Quiet /\ seen[t] = {installed} \ {NoConfig}
  /\ pc[t] = "read" => cache[packet[t].src] # NoEntry
  /\ pc[t] \in {"match", "timeCheck"} => rustEngine # NoEngine
  /\ pc[t] = "pyMatch" => rustEngine = NoEngine
  /\ pc[t] = "timeCheck" =>
       \A c \in seen[t] : verdict[t] = RsVerdict(c, packet[t]) /\ verdict[t].rule # DefaultName
  /\ pc[t] = "default" =>
       \A c \in seen[t] : Decide(c, packet[t], clock[t]) = DefaultVerdict(c)
  /\ pc[t] = "record" => \A c \in seen[t] : verdict[t] = Decide(c, packet[t], clock[t])
  /\ pc[t] # "failed"

DecisionInv ==
  /\ verdict = [t \in Tasks |-> verdict[t]]
  /\ \A t \in Tasks : ~disturbed[t] => DecisionProgress(t)

\* A task's step leaves the other tasks alone, and drops no cache entry.
LEMMA OthersUnmoved ==
  ASSUME TypeInv, verdict = [u \in Tasks |-> verdict[u]],
         NEW t \in Tasks, Start(t) \/ TaskStep(t),
         NEW u \in Tasks, u # t
  PROVE  /\ pc'[u] = pc[u] /\ packet'[u] = packet[u]
         /\ verdict'[u] = verdict[u] /\ clock'[u] = clock[u]
         /\ seen'[u] = seen[u] /\ disturbed'[u] = disturbed[u]
         /\ cache[packet[u].src] # NoEntry => cache'[packet[u].src] # NoEntry
<1> USE DEF TypeInv, TypeOK
<1>1. CASE Start(t)
  BY <1>1 DEF Start
<1>2. CASE CacheLookup(t) \/ CacheHit(t) \/ CacheKeyError(t) \/ ComputeEligible(t)
  BY <1>2 DEF CacheLookup, CacheHit, CacheKeyError, ComputeEligible
<1>3. CASE CacheStore(t)
  <2>1. eligible[t] # NoEntry
    BY NullsAssumption
  <2> QED
    BY <1>3, <2>1 DEF CacheStore, Addrs
<1>4. CASE CutThrough(t) \/ DeliverLocally(t) \/ Complete(t) \/ Record(t)
  BY <1>4 DEF CutThrough, DeliverLocally, Complete, Record
<1>5. CASE EngineTest(t) \/ RustMatch(t) \/ RustGone(t)
  BY <1>5 DEF EngineTest, RustMatch, RustGone
<1>6. CASE TimeCheck(t) \/ PyMatch(t) \/ TakeDefault(t)
  BY <1>6 DEF TimeCheck, PyMatch, TakeDefault
<1> QED
  BY <1>1, <1>2, <1>3, <1>4, <1>5, <1>6 DEF TaskStep

LEMMA TasksKeepVerdictFunction ==
  ASSUME NEW t \in Tasks, Start(t) \/ TaskStep(t), verdict = [u \in Tasks |-> verdict[u]]
  PROVE  verdict' = [u \in Tasks |-> verdict'[u]]
BY DEF Start, TaskStep, CacheLookup, CacheHit, CacheKeyError, ComputeEligible, CacheStore,
       CutThrough, DeliverLocally, EngineTest, RustMatch, RustGone, TimeCheck, PyMatch,
       TakeDefault, Record, Complete

\* What an undisturbed task has seen is what every copy holds.
LEMMA SeenIsInForce ==
  ASSUME ReloadInv, NEW t, Deciding(t), DecisionProgress(t), NEW c \in seen[t]
  PROVE  c = installed /\ engineConfig = c /\ rulesByName = c /\ rustEngine = Build(c)
BY DEF DecisionProgress, ReloadInv, CoherentWhenQuiet, Settled

LEMMA DecisionInvariant == Spec => []DecisionInv
<1> USE DEF TypeInv, TypeOK, Deciding, DecidingStages
<1>1. Init => DecisionInv
  BY DEF Init, DecisionInv, DecisionProgress
<1>2. TypeInv /\ LoopInv /\ ReloadInv /\ DecisionInv /\ [Next]_vars => DecisionInv'
  <2> SUFFICES ASSUME TypeInv, LoopInv, ReloadInv, DecisionInv, [Next]_vars
               PROVE  DecisionInv'
    OBVIOUS
  <2> USE DEF DecisionInv
  <2>1. ASSUME NEW r \in Reloaders, NEW c \in Configs, UpdateApp(r, c) PROVE DecisionInv'
    <3> SUFFICES ASSUME NEW t \in Tasks, ~disturbed'[t] PROVE DecisionProgress(t)'
      BY <2>1 DEF UpdateApp
    <3>1. ~disturbed[t] /\ ~Deciding(t) /\ seen'[t] = seen[t]
      BY <2>1 DEF UpdateApp
    <3> QED
      BY <2>1, <3>1 DEF UpdateApp, DecisionProgress
  <2>2. ASSUME NEW r \in Reloaders, ReloadStep(r) PROVE DecisionInv'
    <3>1. UNCHANGED taskVars /\ upc[r] # "idle"
      BY <2>2 DEF ReloadStep, UpdateLayer, UpdateEngine, ReadNames, SetNames, BuildRust, SetRust,
                  ClearCache
    <3> SUFFICES ASSUME NEW t \in Tasks, ~disturbed[t] PROVE DecisionProgress(t)'
      BY <3>1
    <3>2. ~Deciding(t)
      BY <3>1 DEF DecisionProgress, Quiet
    <3> QED
      BY <3>1, <3>2 DEF DecisionProgress
  <2>3. CASE CleanupCache
    <3> SUFFICES ASSUME NEW t \in Tasks, ~disturbed[t] PROVE DecisionProgress(t)'
      BY <2>3 DEF CleanupCache
    <3>1. pc[t] # "read"
      BY <2>3, OwnersAssumption DEF CleanupCache, LoopInv, RunningStages
    <3> QED
      BY <2>3, <3>1 DEF CleanupCache, DecisionProgress, Quiet
  <2>4. ASSUME NEW t \in Tasks, Start(t) \/ TaskStep(t) PROVE DecisionInv'
    <3>1. verdict' = [u \in Tasks |-> verdict'[u]]
      BY <2>4, TasksKeepVerdictFunction
    <3>2. UNCHANGED <<configVars, reloadVars>>
      BY <2>4, TasksLeaveConfigs
    <3>3. ASSUME NEW u \in Tasks, u # t, ~disturbed'[u] PROVE DecisionProgress(u)'
      BY <2>4, <3>2, <3>3, OthersUnmoved DEF DecisionProgress, Quiet
    <3>4. ASSUME ~disturbed'[t] PROVE DecisionProgress(t)'
      <4> USE <3>2, <3>4
      <4>1. CASE Start(t)
        BY <4>1 DEF Start, DecisionProgress, Quiet, InForce
      <4>0. ASSUME TaskStep(t) PROVE ~disturbed[t] /\ DecisionProgress(t)
        BY <4>0 DEF TaskStep, CacheLookup, CacheHit, CacheKeyError, ComputeEligible, CacheStore,
                    CutThrough, DeliverLocally, EngineTest, RustMatch, RustGone, TimeCheck,
                    PyMatch, TakeDefault, Record, Complete
      <4>2. CASE CacheLookup(t) \/ CacheHit(t) \/ ComputeEligible(t)
        BY <4>0, <4>2 DEF CacheLookup, CacheHit, ComputeEligible, DecisionProgress, Quiet, TaskStep
      <4>3. CASE CacheStore(t)
        BY <4>0, <4>3 DEF CacheStore, DecisionProgress, Quiet, TaskStep
      <4>4. CASE CutThrough(t) \/ DeliverLocally(t) \/ Record(t) \/ Complete(t)
        BY <4>0, <4>4 DEF CutThrough, DeliverLocally, Record, Complete, DecisionProgress, Quiet,
                          TaskStep
      <4>5. CASE EngineTest(t)
        BY <4>0, <4>5 DEF EngineTest, DecisionProgress, Quiet, TaskStep
      <4>6. CASE CacheKeyError(t) \/ RustGone(t)
        BY <4>0, <4>6 DEF CacheKeyError, RustGone, DecisionProgress, TaskStep
      <4>7. CASE RustMatch(t)
        <5> DEFINE v == RsVerdict(rustEngine, packet[t])
        <5>1. /\ pc[t] = "match" /\ rustEngine # NoEngine
              /\ DecisionProgress(t) /\ ~disturbed[t] /\ Deciding(t)
          BY <4>0, <4>7 DEF RustMatch, TaskStep
        <5>2. Quiet' /\ seen[t] = {installed} \ {NoConfig} /\ seen'[t] = seen[t]
          BY <4>7, <5>1 DEF RustMatch, DecisionProgress, Quiet
        <5>3. /\ verdict'[t] = v /\ pc'[t] = (IF v.rule = DefaultName THEN "record" ELSE "timeCheck")
              /\ packet'[t] = packet[t] /\ clock'[t] = clock[t]
          BY <4>7 DEF RustMatch
        <5>4. ASSUME NEW c \in seen[t]
              PROVE  v = RsVerdict(c, packet[t])
                     /\ (v.rule = DefaultName => Decide(c, packet[t], clock[t]) = v)
          <6>1. rustEngine = c /\ Build(c) # NoEngine
            BY <5>1, SeenIsInForce DEF Build
          <6> QED
            BY <6>1 DEF Decide, RsCheckPacket, NamedRuleIsOutside
        <5> HIDE DEF v
        <5>5. CASE v.rule = DefaultName
          BY <5>2, <5>3, <5>4, <5>5 DEF DecisionProgress
        <5>6. CASE v.rule # DefaultName
          BY <5>1, <5>2, <5>3, <5>4, <5>6 DEF DecisionProgress
        <5> QED
          BY <5>5, <5>6
      <4>8. CASE TimeCheck(t)
        <5>1. pc[t] = "timeCheck" /\ DecisionProgress(t) /\ ~disturbed[t] /\ Deciding(t)
          BY <4>0, <4>8 DEF TimeCheck, TaskStep
        <5>2. Quiet' /\ seen[t] = {installed} \ {NoConfig} /\ seen'[t] = seen[t]
          BY <4>8, <5>1 DEF TimeCheck, DecisionProgress, Quiet
        <5>3. PICK now \in Instants :
                /\ pc' = [pc EXCEPT ![t] = IF NamedRuleIsOutside(rulesByName, verdict[t].rule, now)
                                           THEN "default" ELSE "record"]
                /\ clock' = [clock EXCEPT ![t] = now]
          BY <4>8 DEF TimeCheck
        <5>4. packet'[t] = packet[t] /\ verdict'[t] = verdict[t] /\ clock'[t] = now
          BY <4>8, <5>3 DEF TimeCheck
        <5>5. ASSUME NEW c \in seen[t]
              PROVE  Decide(c, packet[t], now) =
                       IF NamedRuleIsOutside(rulesByName, verdict[t].rule, now)
                       THEN DefaultVerdict(c) ELSE verdict[t]
          <6>1. rulesByName = c /\ Build(c) # NoEngine
            BY <5>1, SeenIsInForce DEF DecisionProgress
          <6>2. verdict[t] = RsVerdict(c, packet[t])
            BY <5>1 DEF DecisionProgress
          <6> QED
            BY <6>1, <6>2 DEF Decide, RsCheckPacket
        <5>6. CASE NamedRuleIsOutside(rulesByName, verdict[t].rule, now)
          BY <5>2, <5>3, <5>4, <5>5, <5>6 DEF DecisionProgress
        <5>7. CASE ~NamedRuleIsOutside(rulesByName, verdict[t].rule, now)
          BY <5>2, <5>3, <5>4, <5>5, <5>7 DEF DecisionProgress
        <5> QED
          BY <5>6, <5>7
      <4>9. CASE PyMatch(t)
        <5> DEFINE i == FindMatchingRule(engineConfig, packet[t])
                   decides(now) == i # 0 /\ ~OutsideWindow(engineConfig.rules[i], now)
        <5>1. /\ pc[t] = "pyMatch" /\ rustEngine = NoEngine
              /\ DecisionProgress(t) /\ ~disturbed[t] /\ Deciding(t)
          BY <4>0, <4>9 DEF PyMatch, TaskStep, DecisionProgress
        <5>2. Quiet' /\ seen[t] = {installed} \ {NoConfig} /\ seen'[t] = seen[t]
          BY <4>9, <5>1 DEF PyMatch, DecisionProgress, Quiet
        <5>3. PICK now \in Instants :
                /\ pc' = [pc EXCEPT ![t] = IF decides(now) THEN "record" ELSE "default"]
                /\ clock' = [clock EXCEPT ![t] = now]
                /\ verdict' = IF decides(now)
                              THEN [verdict EXCEPT ![t] = RuleVerdict(engineConfig.rules[i])]
                              ELSE verdict
          BY <4>9 DEF PyMatch
        <5>4. packet'[t] = packet[t] /\ clock'[t] = now
          BY <4>9, <5>3 DEF PyMatch
        <5>5. ASSUME NEW c \in seen[t]
              PROVE  Decide(c, packet[t], now) =
                       IF decides(now) THEN RuleVerdict(engineConfig.rules[i]) ELSE DefaultVerdict(c)
          <6>1. engineConfig = c /\ Build(c) = NoEngine
            BY <5>1, SeenIsInForce
          <6> QED
            BY <6>1 DEF Decide, PyCheckPacket
        <5>6. CASE decides(now)
          <6>1. pc'[t] = "record" /\ verdict'[t] = RuleVerdict(engineConfig.rules[i])
            BY <5>3, <5>6
          <6> QED
            BY <5>2, <5>4, <5>5, <5>6, <6>1 DEF DecisionProgress
        <5>7. CASE ~decides(now)
          <6>1. pc'[t] = "default"
            BY <5>3, <5>7
          <6> QED
            BY <5>2, <5>4, <5>5, <5>7, <6>1 DEF DecisionProgress
        <5> QED
          BY <5>6, <5>7
      <4>10. CASE TakeDefault(t)
        <5>1. pc[t] = "default" /\ DecisionProgress(t) /\ ~disturbed[t] /\ Deciding(t)
          BY <4>0, <4>10 DEF TakeDefault, TaskStep
        <5>2. \A c \in seen[t] : DefaultVerdict(engineConfig) = Decide(c, packet[t], clock[t])
          BY <5>1, SeenIsInForce DEF DecisionProgress
        <5> QED
          BY <4>10, <5>1, <5>2 DEF TakeDefault, DecisionProgress
      <4> QED
        BY <2>4, <4>1, <4>2, <4>3, <4>4, <4>5, <4>6, <4>7, <4>8, <4>9, <4>10 DEF TaskStep
    <3> QED
      BY <3>1, <3>3, <3>4
  <2>5. CASE UNCHANGED vars
    BY <2>5 DEF vars, DecisionProgress, Quiet
  <2> QED
    BY <2>1, <2>2, <2>3, <2>4, <2>5 DEF Next
<1> QED
  BY <1>1, <1>2, TypeInvariant, LoopInvariant, ReloadInvariant, PTL DEF Spec

\* A packet no reload overlaps gets the verdict of check_packet() on the
\* configuration in force, whichever engine judged it and although the engine,
\* the name table and the default action are read in separate steps.
THEOREM UndisturbedAlways == Spec => []UndisturbedDecision
<1>1. DecisionInv => UndisturbedDecision
  BY DEF DecisionInv, DecisionProgress, UndisturbedDecision
<1> QED
  BY <1>1, DecisionInvariant, PTL

\* An exception in the packet path always means that a reload overlapped it:
\* neither the cleanup nor another task can take a cache entry or the native
\* engine from under a task that has just tested for it.
THEOREM FailuresNeedReload == Spec => []FailsOnlyDuringReload
<1>1. TypeInv /\ DecisionInv => FailsOnlyDuringReload
  BY DEF TypeInv, TypeOK, DecisionInv, DecisionProgress, FailsOnlyDuringReload
<1> QED
  BY <1>1, TypeInvariant, DecisionInvariant, PTL

-----------------------------------------------------------------------------
(* The counters.                                                           *)

InStages(stages) == {t \in Tasks : pc[t] \in stages}

\* A task that enters a group of stages is one more in it.
LEMMA OneMoreInStages ==
  ASSUME IsFiniteSet(Tasks), NEW S, NEW t \in Tasks,
         pc[t] \notin S, pc'[t] \in S, \A u \in Tasks \ {t} : pc'[u] = pc[u]
  PROVE  Cardinality(InStages(S)') = Cardinality(InStages(S)) + 1
<1>1. InStages(S)' = InStages(S) \cup {t} /\ t \notin InStages(S)
  BY DEF InStages
<1>2. IsFiniteSet(InStages(S))
  BY FS_Subset DEF InStages
<1> QED
  BY <1>1, <1>2, FS_AddElement

\* With finitely many tasks every packet whose path was chosen is counted once,
\* as what happened to it.
THEOREM EveryPacketCounted ==
  ASSUME IsFiniteSet(Tasks)
  PROVE  Spec => []CountedAsTreated
<1> DEFINE allowed == InStages(AllowedStages)
           denied == InStages(DeniedStages)
<1> USE DEF TypeInv, TypeOK, Counters
<1>0. CountedAsTreated <=> /\ metrics["allow"] = Cardinality(allowed)
                           /\ metrics["deny"] = Cardinality(denied)
                           /\ metrics["total"] = metrics["allow"] + metrics["deny"]
  BY DEF CountedAsTreated, InStages
<1>1. Init => CountedAsTreated
  <2> SUFFICES ASSUME Init PROVE CountedAsTreated
    OBVIOUS
  <2>1. allowed = {} /\ denied = {}
    BY DEF Init, InStages, AllowedStages, DeniedStages
  <2> QED
    BY <1>0, <2>1, FS_EmptySet DEF Init
<1>2. TypeInv /\ CountedAsTreated /\ [Next]_vars => CountedAsTreated'
  <2> SUFFICES ASSUME TypeInv, CountedAsTreated, [Next]_vars PROVE CountedAsTreated'
    OBVIOUS
  <2>1. ASSUME UNCHANGED metrics, allowed' = allowed, denied' = denied PROVE CountedAsTreated'
    BY <1>0, <2>1 DEF CountedAsTreated, InStages
  <2>2. ASSUME NEW t \in Tasks, pc[t] \notin AllowedStages \cup DeniedStages,
               pc'[t] \in AllowedStages, \A u \in Tasks \ {t} : pc'[u] = pc[u], Count("allow")
        PROVE  CountedAsTreated'
    <3>1. Cardinality(allowed') = Cardinality(allowed) + 1
      BY <2>2, OneMoreInStages
    <3>2. denied' = denied
      BY <2>2 DEF InStages, AllowedStages, DeniedStages
    <3>3. /\ metrics'["allow"] = metrics["allow"] + 1 /\ metrics'["deny"] = metrics["deny"]
          /\ metrics'["total"] = metrics["total"] + 1
      BY <2>2
    <3>4. /\ metrics'["allow"] = Cardinality(allowed') /\ metrics'["deny"] = Cardinality(denied')
          /\ metrics'["total"] = metrics'["allow"] + metrics'["deny"]
      BY <1>0, <3>1, <3>2, <3>3
    <3> QED
      BY <3>4 DEF CountedAsTreated, InStages
  <2>3. ASSUME NEW t \in Tasks, pc[t] \notin AllowedStages \cup DeniedStages,
               pc'[t] \in DeniedStages, \A u \in Tasks \ {t} : pc'[u] = pc[u], Count("deny")
        PROVE  CountedAsTreated'
    <3>1. Cardinality(denied') = Cardinality(denied) + 1
      BY <2>3, OneMoreInStages
    <3>2. allowed' = allowed
      BY <2>3 DEF InStages, AllowedStages, DeniedStages
    <3>3. /\ metrics'["deny"] = metrics["deny"] + 1 /\ metrics'["allow"] = metrics["allow"]
          /\ metrics'["total"] = metrics["total"] + 1
      BY <2>3
    <3>4. /\ metrics'["allow"] = Cardinality(allowed') /\ metrics'["deny"] = Cardinality(denied')
          /\ metrics'["total"] = metrics'["allow"] + metrics'["deny"]
      BY <1>0, <3>1, <3>2, <3>3
    <3> QED
      BY <3>4 DEF CountedAsTreated, InStages
  <2> USE DEF InStages
  <2>4. ASSUME NEW r \in Reloaders, NEW c \in Configs, UpdateApp(r, c) PROVE CountedAsTreated'
    BY <2>1, <2>4 DEF UpdateApp
  <2>5. ASSUME NEW r \in Reloaders, ReloadStep(r) PROVE CountedAsTreated'
    BY <2>1, <2>5 DEF ReloadStep, UpdateLayer, UpdateEngine, ReadNames, SetNames, BuildRust,
                      SetRust, ClearCache
  <2>6. CASE CleanupCache
    BY <2>1, <2>6 DEF CleanupCache
  <2>7. CASE UNCHANGED vars
    BY <2>1, <2>7 DEF vars
  <2>8. ASSUME NEW t \in Tasks, Start(t) \/ TaskStep(t) PROVE CountedAsTreated'
    <3> USE DEF AllowedStages, DeniedStages
    <3>1. CASE CutThrough(t)
      BY <2>2, <3>1 DEF CutThrough
    <3>2. CASE Record(t)
      <4>1. CASE verdict[t].allowed
        BY <2>2, <3>2, <4>1 DEF Record
      <4>2. CASE ~verdict[t].allowed
        BY <2>3, <3>2, <4>2 DEF Record
      <4> QED
        BY <4>1, <4>2
    <3>3. CASE Start(t) \/ CacheLookup(t) \/ CacheHit(t) \/ CacheKeyError(t)
                 \/ ComputeEligible(t) \/ CacheStore(t)
      BY <2>1, <3>3 DEF Start, CacheLookup, CacheHit, CacheKeyError, ComputeEligible, CacheStore
    <3>4. CASE EngineTest(t) \/ RustMatch(t) \/ RustGone(t) \/ TimeCheck(t)
      BY <2>1, <3>4 DEF EngineTest, RustMatch, RustGone, TimeCheck
    <3>5. CASE PyMatch(t) \/ TakeDefault(t)
      BY <2>1, <3>5 DEF PyMatch, TakeDefault
    <3>6. CASE DeliverLocally(t) \/ Complete(t)
      BY <2>1, <3>6 DEF DeliverLocally, Complete
    <3> QED
      BY <2>8, <3>1, <3>2, <3>3, <3>4, <3>5, <3>6 DEF TaskStep
  <2> QED
    BY <2>4, <2>5, <2>6, <2>7, <2>8 DEF Next
<1> QED
  BY <1>1, <1>2, TypeInvariant, PTL DEF Spec

=============================================================================
