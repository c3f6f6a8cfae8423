---------------------------- MODULE RunnerProofs ----------------------------
(***************************************************************************)
(* Proofs about Runner for any command lines, any files and any number of  *)
(* signals, changes and reloads.                                           *)
(***************************************************************************)
EXTENDS Runner, AclFileWatcherProofs, TLAPS

USE DEF allVars, fileVars, runnerVars, layerVars, taskVars, vars, watcherVars, manualVars, editVars

\* A step of the watcher or the editor leaves the process as it is, but for
\* what a reload records.
LEMMA ThreadsLeaveTheProcess ==
  ASSUME Watcher \/ Environment
  PROVE  UNCHANGED <<args, main, config, app, layer, timer, handle, fdtClock, taskVars, exitCode>>
  BY DEF Watcher, Reload, Environment

\* A step of the process is a step of AclFileWatcher, or leaves what it is about
\* as it is; the one that is neither loads the first list.
LEMMA StepsOfTheWatcher ==
  ASSUME RunnerNext \/ UNCHANGED allVars, ~LoadConfiguration
  PROVE  [Next]_vars
<1>1. CASE LoadFails \/ ValidateOnly \/ CreateRunner \/ LoggingFails
  BY <1>1 DEF LoadFails, ValidateOnly, CreateRunner, LoggingFails
<1>2. CASE BuildApplication \/ BuildFails \/ BeginServing \/ LeaveLoop
  BY <1>2 DEF BuildApplication, BuildFails, BeginServing, LeaveLoop
<1>3. CASE StartWatching
  BY <1>3, Zenon DEF StartWatching, Next
<1>4. ASSUME NEW who \in {"task", "finally"}, StopBegin(who) PROVE [Next]_vars
  BY <1>4 DEF StopBegin
<1>5. CASE StopWatching
  BY <1>5, Zenon DEF StopWatching, Next
<1>6. CASE JoinRaises \/ StopEnd
  BY <1>6 DEF JoinRaises, StopEnd
<1>7. CASE Report \/ Signal \/ Rearm
  BY <1>7 DEF Report, Signal, Rearm
<1>8. CASE Watcher
  BY <1>8, Zenon DEF Watcher, Reload, Next
<1>9. CASE Environment
  BY <1>9, Zenon DEF Environment, Next
<1>10. CASE UNCHANGED allVars
  BY <1>10
<1> QED
  BY <1>1, <1>2, <1>3, <1>4, <1>5, <1>6, <1>7, <1>8, <1>9, <1>10 DEF RunnerNext, Main

-----------------------------------------------------------------------------
(* The types of the process.                                               *)

ProcessTypes ==
  /\ main \in {"loading", "configured", "starting", "built", "watched", "serving",
               "finally", "exited"}
  /\ policy \in {"none", "allowAll", "config", "file"}
  /\ layer \in {"none", "open", "closed"}
  /\ timer \in 0..2 /\ handle \in 0..2 /\ fdtClock \in BOOLEAN
  /\ running \in BOOLEAN
  /\ reporter \in {"none", "created", "sleeping", "ended"}
  /\ stopper \in {"none", "task", "finally"}
  /\ exitCode \in {0, 1} /\ late \in Nat

\* There are no more stop() tasks than signals.
SignalsBounded ==
  /\ signals \in 0..MaxSignals
  /\ stopTasks \in 0..signals

LEMMA ProcessTypesStep ==
  ASSUME ProcessTypes, SignalsBounded, RunnerNext \/ UNCHANGED allVars
  PROVE  ProcessTypes' /\ SignalsBounded'
<1> USE MaxSignalsAssumption DEF ProcessTypes, SignalsBounded
<1>1. CASE LoadFails \/ ValidateOnly \/ LoadConfiguration \/ CreateRunner \/ LoggingFails
  BY <1>1 DEF LoadFails, ValidateOnly, LoadConfiguration, CreateRunner, LoggingFails
<1>2. CASE BuildApplication
  BY <1>2 DEF BuildApplication
<1>3. CASE BuildFails \/ StartWatching
  BY <1>3 DEF BuildFails, StartWatching
<1>4. CASE BeginServing \/ LeaveLoop
  BY <1>4 DEF BeginServing, LeaveLoop
<1>5. ASSUME NEW who \in {"task", "finally"}, StopBegin(who)
      PROVE  ProcessTypes' /\ SignalsBounded'
  <2>1. layer' \in {"none", "open", "closed"} /\ timer' \in 0..2 /\ handle' \in 0..2
    BY <1>5 DEF StopBegin, CloseLayer
  <2>0. fdtClock' \in BOOLEAN
    BY <1>5 DEF StopBegin, CloseLayer
  <2>2. policy' \in {"none", "allowAll", "config", "file"}
    BY <1>5 DEF StopBegin, CloseLayer
  <2>3. ProcessTypes'
    BY <1>5, <2>0, <2>1, <2>2 DEF StopBegin
  <2>4. SignalsBounded'
    BY <1>5 DEF StopBegin, StopMayBegin
  <2> QED
    BY <2>3, <2>4
<1>6. CASE StopWatching
  BY <1>6 DEF StopWatching
<1>7. CASE JoinRaises \/ StopEnd
  BY <1>7 DEF JoinRaises, StopEnd
<1>8. CASE Report \/ Rearm
  BY <1>8 DEF Report, Rearm
<1>9. CASE Signal
  BY <1>9 DEF Signal
<1>10. CASE Watcher
  BY <1>10 DEF Watcher, Reload
<1>11. CASE Environment \/ UNCHANGED allVars
  BY <1>11 DEF Environment
<1> QED
  BY <1>1, <1>2, <1>3, <1>4, <1>5, <1>6, <1>7, <1>8, <1>9, <1>10, <1>11 DEF RunnerNext, Main

\* The first list, if there is one, loads; so TypeInv holds after it too.
LEMMA LoadConfigurationTypes ==
  ASSUME TypeInv, LoadConfiguration
  PROVE  TypeInv'
BY DEF LoadConfiguration, TypeInv, TypeOK, ReadsDone

RunnerTypeInv == TypeInv /\ ProcessTypes /\ SignalsBounded

LEMMA RunnerTypeInvariant == RunnerSpec => []RunnerTypeInv
<1> USE DEF RunnerTypeInv
<1>1. RunnerInit => RunnerTypeInv
  <2> SUFFICES ASSUME RunnerInit PROVE RunnerTypeInv
    OBVIOUS
  <2>1. TypeInv
    BY RestHasItsType DEF RunnerInit
  <2>2. ProcessTypes
    <3>1. timer \in 0..2 /\ handle \in 0..2 /\ late \in Nat
      BY SMT DEF RunnerInit
    <3> QED
      BY <3>1, Zenon DEF RunnerInit, ProcessTypes
  <2>3. SignalsBounded
    BY MaxSignalsAssumption DEF RunnerInit, SignalsBounded
  <2> QED
    BY <2>1, <2>2, <2>3
<1>2. RunnerTypeInv /\ [RunnerNext]_allVars => RunnerTypeInv'
  BY StepsOfTheWatcher, TypeInvStep, ProcessTypesStep, LoadConfigurationTypes
<1> QED
  BY <1>1, <1>2, PTL DEF RunnerSpec

\* The variables of the process, of its watcher and of the file keep their types.
THEOREM RunnerTypeCorrect == RunnerSpec => []RunnerTypeOK
<1>1. RunnerTypeInv => RunnerTypeOK
  BY MaxSignalsAssumption
     DEF RunnerTypeInv, TypeInv, ProcessTypes, SignalsBounded, RunnerTypeOK
<1> QED
  BY <1>1, RunnerTypeInvariant, PTL

-----------------------------------------------------------------------------
(* Nothing is left open.                                                   *)

\* The handle is that of the pending timer; either timer belongs to an open layer,
\* and a layer to an application that has been built; whoever stops has closed
\* the layer first.
OpenInv ==
  /\ timer \in 0..2
  /\ timer # 0 => handle = timer /\ layer = "open"
  /\ fdtClock \in BOOLEAN /\ (fdtClock => layer = "open")
  /\ main \in {"loading", "configured", "starting"} => layer = "none" /\ stopper = "none"
  /\ stopper # "none" => layer # "open"
  /\ main = "exited" => layer # "open"

\* However the process ends, its layer is closed and neither timer is pending.
THEOREM NothingIsLeftOpen == RunnerSpec => []NothingLeftOpen
<1>1. RunnerInit => OpenInv
  <2>1. RunnerInit => timer \in 0..2 /\ timer = 0
    BY SMT DEF RunnerInit
  <2> QED
    BY <2>1, Zenon DEF RunnerInit, OpenInv
<1>2. OpenInv /\ [RunnerNext]_allVars => OpenInv'
  <2> SUFFICES ASSUME OpenInv, [RunnerNext]_allVars PROVE OpenInv'
    OBVIOUS
  <2> USE DEF OpenInv
  <2>1. CASE LoadFails \/ ValidateOnly \/ LoadConfiguration \/ CreateRunner \/ LoggingFails
    BY <2>1 DEF LoadFails, ValidateOnly, LoadConfiguration, CreateRunner, LoggingFails
  <2>2. CASE BuildApplication
    <3>1. timer' \in 0..2 /\ handle' = timer'
      BY <2>2, SMT DEF BuildApplication
    <3>2. fdtClock' \in BOOLEAN /\ layer' = "open" /\ main' \in {"built", "watched"}
      BY <2>2, Zenon DEF BuildApplication
    <3>3. stopper' = "none"
      BY <2>2 DEF BuildApplication
    <3> QED
      BY <3>1, <3>2, <3>3, Zenon
  <2>3. CASE BuildFails
    BY <2>3 DEF BuildFails
  <2>4. CASE StartWatching
    BY <2>4 DEF StartWatching
  <2>5. CASE BeginServing \/ LeaveLoop
    BY <2>5 DEF BeginServing, LeaveLoop
  <2>6. ASSUME NEW who \in {"task", "finally"}, StopBegin(who) PROVE OpenInv'
    <3>1. timer' = 0 /\ timer' \in 0..2
      BY <2>6 DEF StopBegin, CloseLayer
    <3>2. ~fdtClock' /\ fdtClock' \in BOOLEAN /\ layer' # "open"
      <4>1. CASE layer = "none"
        BY <2>6, <4>1, Zenon DEF StopBegin, CloseLayer
      <4>2. CASE layer # "none"
        <5>1. layer' = "closed" /\ fdtClock' = FALSE
          BY <2>6, <4>2, Zenon DEF StopBegin, CloseLayer
        <5> QED
          BY <5>1, Zenon
      <4> QED
        BY <4>1, <4>2
    <3>3. main' \in {"serving", "finally"}
      BY <2>6 DEF StopBegin, StopMayBegin
    <3> QED
      BY <3>1, <3>2, <3>3, Zenon
  <2>7. CASE StopWatching
    BY <2>7 DEF StopWatching
  <2>8. CASE JoinRaises \/ StopEnd
    BY <2>8 DEF JoinRaises, StopEnd
  <2>9. CASE Report \/ Signal
    BY <2>9 DEF Report, Signal, LoopFree
  <2>10. CASE Rearm
    BY <2>10 DEF Rearm, LoopFree
  <2>11. CASE Watcher \/ Environment
    BY <2>11, ThreadsLeaveTheProcess
  <2>12. CASE UNCHANGED allVars
    BY <2>12
  <2> QED
    BY <2>1, <2>2, <2>3, <2>4, <2>5, <2>6, <2>7, <2>8, <2>9, <2>10, <2>11, <2>12 DEF RunnerNext, Main
<1>3. OpenInv => NothingLeftOpen
  BY DEF OpenInv, NothingLeftOpen
<1> QED
  BY <1>1, <1>2, <1>3, PTL DEF RunnerSpec

-----------------------------------------------------------------------------
(* No signal is forgotten.                                                 *)

\* Until the loop begins every signal has its stop() task still before it; in
\* the loop, a stop() that has begun has cleared running.
SignalInv ==
  /\ main \in {"loading", "configured"} => signals = 0 /\ stopTasks = 0
  /\ main \in {"starting", "built", "watched"} => stopTasks = signals
  /\ main = "serving" => stopTasks = signals \/ ~running

\* A signal handled before or in the loop of start() still has a stop() ahead of
\* it, or running is cleared and the loop ends: start() never sets running after
\* the stop() that was to end it (__main__.py:143-150, 274-279).
SignalStands ==
  (signals > 0 /\ main \in {"starting", "built", "watched", "serving"}) =>
    stopTasks > 0 \/ (main = "serving" /\ ~running)

\* No signal is forgotten, however many come and whenever: the safety half of
\* SignalEndsProcess.
THEOREM NoSignalForgotten == RunnerSpec => []SignalStands
<1>1. RunnerInit => SignalInv
  BY DEF RunnerInit, SignalInv
<1>2. SignalInv /\ RunnerTypeInv /\ [RunnerNext]_allVars => SignalInv'
  <2> SUFFICES ASSUME SignalInv, RunnerTypeInv, [RunnerNext]_allVars PROVE SignalInv'
    OBVIOUS
  <2> USE DEF SignalInv
  <2>1. CASE LoadFails \/ ValidateOnly \/ LoadConfiguration \/ CreateRunner \/ LoggingFails
    BY <2>1 DEF LoadFails, ValidateOnly, LoadConfiguration, CreateRunner, LoggingFails
  <2>2. CASE BuildApplication \/ BuildFails
    BY <2>2 DEF BuildApplication, BuildFails
  <2>3. CASE StartWatching
    BY <2>3 DEF StartWatching
  <2>4. CASE BeginServing \/ LeaveLoop
    BY <2>4 DEF BeginServing, LeaveLoop
  <2>5. ASSUME NEW who \in {"task", "finally"}, StopBegin(who) PROVE SignalInv'
    BY <2>5 DEF StopBegin, StopMayBegin
  <2>6. CASE StopWatching \/ JoinRaises \/ StopEnd
    BY <2>6 DEF StopWatching, JoinRaises, StopEnd
  <2>7. CASE Report \/ Rearm
    BY <2>7 DEF Report, Rearm, LoopFree
  <2>8. CASE Signal
    BY <2>8 DEF Signal
  <2>9. CASE Watcher \/ Environment
    BY <2>9 DEF Watcher, Reload, Environment
  <2>10. CASE UNCHANGED allVars
    BY <2>10
  <2> QED
    BY <2>1, <2>2, <2>3, <2>4, <2>5, <2>6, <2>7, <2>8, <2>9, <2>10 DEF RunnerNext, Main
<1>3. SignalInv /\ RunnerTypeInv => SignalStands
  BY MaxSignalsAssumption DEF SignalInv, RunnerTypeInv, SignalsBounded, SignalStands
<1> QED
  BY <1>1, <1>2, <1>3, RunnerTypeInvariant, PTL DEF RunnerSpec

-----------------------------------------------------------------------------
(* The process ends only when it is told to.                               *)

\* A start that fails has made no reporter; an observer that did not start belongs
\* to such a start; and what clears running, or leaves the loop, follows a signal.
EndInv ==
  /\ main = "loading" => config = NoValue
  /\ main \in {"loading", "configured", "starting", "built"} => reporter = "none"
  /\ main \notin {"finally", "exited"} => exitCode = 0
  /\ main = "serving" => running \/ signals > 0
  /\ main = "finally" => exitCode = 1 \/ signals > 0
  /\ stopper = "finally" => main \in {"finally", "exited"}
  /\ exitCode = 1 => reporter = "none"
  /\ phase = "baseline" => main = "built"
  /\ phase = "unstarted" => exitCode = 1
  /\ EndsOnlyWhenTold

\* A process that serves ends by a signal alone, and never with code 1.
THEOREM EndsWhenTold == RunnerSpec => []EndsOnlyWhenTold
<1>1. RunnerInit => EndInv
  BY DEF RunnerInit, RestAtInit, EndInv, EndsOnlyWhenTold
<1>2. EndInv /\ RunnerTypeInv /\ [RunnerNext]_allVars => EndInv'
  <2> SUFFICES ASSUME EndInv, RunnerTypeInv, [RunnerNext]_allVars PROVE EndInv'
    OBVIOUS
  <2>1. exitCode \in {0, 1} /\ signals \in Nat /\ stopTasks \in 0..signals
    BY MaxSignalsAssumption DEF RunnerTypeInv, ProcessTypes, SignalsBounded
  <2> USE <2>1 DEF EndInv, EndsOnlyWhenTold
  <2>2. CASE UNCHANGED allVars
    BY <2>2
  <2>3. CASE RunnerNext
    <3>0. main # "exited"
      BY <2>3 DEF RunnerNext
    <3>1. CASE LoadFails \/ ValidateOnly \/ LoadConfiguration \/ CreateRunner \/ LoggingFails
      BY <3>1 DEF LoadFails, ValidateOnly, LoadConfiguration, CreateRunner, LoggingFails
    <3>2. CASE BuildApplication \/ BuildFails
      BY <3>2 DEF BuildApplication, BuildFails
    <3>3. CASE StartWatching
      BY <3>3 DEF StartWatching, CreateWatcher, StartObserver, ObserverFails
    <3>4. CASE BeginServing \/ LeaveLoop
      BY <3>4 DEF BeginServing, LeaveLoop
    <3>5. ASSUME NEW who \in {"task", "finally"}, StopBegin(who) PROVE EndInv'
      BY <3>5 DEF StopBegin, StopMayBegin
    <3>6. CASE StopWatching
      BY <3>0, <3>6 DEF StopWatching, StopObserver, JoinEnds
    <3>7. CASE JoinRaises \/ StopEnd
      BY <3>0, <3>7 DEF JoinRaises, StopEnd
    <3>8. CASE Report \/ Rearm
      BY <3>8 DEF Report, Rearm, LoopFree
    <3>9. CASE Signal
      BY <3>9 DEF Signal
    <3>10. CASE Watcher \/ Environment
      <4>1. UNCHANGED <<args, main, config, taskVars, exitCode, phase>>
        BY <3>10 DEF Watcher, Reload, OnModified, ReadHash, Load, Install, UpdateState,
                     Environment, Change, Touch, CooldownEnds
      <4> QED
        BY <4>1
    <3> QED
      BY <2>3, <3>1, <3>2, <3>3, <3>4, <3>5, <3>6, <3>7, <3>8, <3>9, <3>10 DEF RunnerNext, Main
  <2> QED
    BY <2>2, <2>3
<1>3. EndInv => EndsOnlyWhenTold
  BY DEF EndInv
<1> QED
  BY <1>1, <1>2, <1>3, RunnerTypeInvariant, PTL DEF RunnerSpec

-----------------------------------------------------------------------------
(* At most one reload is late.                                             *)

\* An observer that was told to stop has one event left, or handles its last
\* one; when a reload was late, neither.
LateInv ==
  /\ phase # "stopped" => late = 0
  /\ phase \in {"stopping", "stopped"} => (notified => wpc = "idle")
  /\ late \in {0, 1}
  /\ late = 1 => ~notified /\ wpc \in {"idle", "update"}

\* After stop_watching() has returned, at most one reload reaches the application.
THEOREM OneReloadIsLate == RunnerSpec => []OneLateReload
<1>1. RunnerInit => LateInv
  BY DEF RunnerInit, RestAtInit, LateInv
<1>2. LateInv /\ [RunnerNext]_allVars => LateInv'
  <2> SUFFICES ASSUME LateInv, [RunnerNext]_allVars PROVE LateInv'
    OBVIOUS
  <2> USE DEF LateInv
  <2>1. CASE LoadFails \/ ValidateOnly \/ LoadConfiguration \/ CreateRunner \/ LoggingFails
    BY <2>1 DEF LoadFails, ValidateOnly, LoadConfiguration, CreateRunner, LoggingFails
  <2>2. CASE BuildApplication \/ BuildFails \/ BeginServing \/ LeaveLoop
    BY <2>2 DEF BuildApplication, BuildFails, BeginServing, LeaveLoop
  <2>3. CASE StartWatching
    BY <2>3 DEF StartWatching, CreateWatcher, StartObserver, ObserverFails
  <2>4. ASSUME NEW who \in {"task", "finally"}, StopBegin(who) PROVE LateInv'
    BY <2>4 DEF StopBegin
  <2>5. CASE StopWatching
    <3>1. CASE StopObserver
      <4>1. notified' => wpc = "idle"
        BY <3>1, Zenon DEF StopObserver
      <4> QED
        BY <2>5, <3>1, <4>1 DEF StopWatching, StopObserver
    <3>2. CASE JoinEnds
      BY <2>5, <3>2 DEF StopWatching, JoinEnds
    <3> QED
      BY <2>5, <3>1, <3>2 DEF StopWatching
  <2>6. CASE JoinRaises \/ StopEnd
    BY <2>6 DEF JoinRaises, StopEnd
  <2>7. CASE Report \/ Signal \/ Rearm
    BY <2>7 DEF Report, Signal, Rearm
  <2>8. CASE Reload
    BY <2>8 DEF Reload, Install
  <2>9. CASE (OnModified \/ ReadHash \/ Load \/ UpdateState) /\ UNCHANGED runnerVars
    BY <2>9 DEF OnModified, ReadHash, Load, UpdateState
  <2>10. CASE Environment
    <3>1. notified' => notified \/ phase = "watching"
      BY <2>10, Zenon DEF Environment, Change, Touch, CooldownEnds
    <3> QED
      BY <2>10, <3>1 DEF Environment, Change, Touch, CooldownEnds
  <2>11. CASE UNCHANGED allVars
    BY <2>11
  <2> QED
    BY <2>1, <2>2, <2>3, <2>4, <2>5, <2>6, <2>7, <2>8, <2>9, <2>10, <2>11
       DEF RunnerNext, Main, Watcher
<1>3. LateInv => OneLateReload
  BY DEF LateInv, OneLateReload
<1> QED
  BY <1>1, <1>2, <1>3, PTL DEF RunnerSpec

-----------------------------------------------------------------------------
(* Objects and documents of the loader.                                    *)

Tables == {AclFields, BBMDFields}

\* What a table validates: its fields, with their types and accepted values.
IsModel(fields, m) ==
  /\ m \in Objects(fields)
  /\ \A f \in DOMAIN fields : m[f].type = fields[f].type /\ m[f].value \in fields[f].accepts

\* The types of all fields are among those that can be converted.
LEMMA TablesAreTyped ==
  ASSUME NEW fields \in Tables, NEW f \in DOMAIN fields
  PROVE  fields[f].type \in Types
<1>1. CASE fields = AclFields
  BY <1>1 DEF AclFields, RuleFields, Field, Types
<1>2. CASE fields = BBMDFields
  BY <1>2 DEF BBMDFields, Field, Types
<1> QED
  BY <1>1, <1>2 DEF Tables

\* The two keys of a configuration file that are no field of it.
LEMMA KeysApart ==
  /\ "acl" \notin DOMAIN BBMDFields
  /\ "device_id" \notin DOMAIN BBMDFields
  /\ "device_id" \notin DOMAIN AclFields
BY DEF AclFields, RuleFields, BBMDFields

\* A document whose values are accepted gives an object, and only such a one does.
LEMMA ValidateGivesAModel ==
  ASSUME NEW fields \in Tables, NEW doc
  PROVE  /\ Validate(fields, doc) # Refused
              => \A f \in DOMAIN fields : Input(fields, doc, f) \in fields[f].accepts
         /\ (\A f \in DOMAIN fields : Input(fields, doc, f) \in fields[f].accepts)
              => IsModel(fields, Validate(fields, doc))
<1>1. Validate(fields, doc) # Refused
        => \A f \in DOMAIN fields : Input(fields, doc, f) \in fields[f].accepts
  BY DEF Validate
<1>2. ASSUME \A f \in DOMAIN fields : Input(fields, doc, f) \in fields[f].accepts
      PROVE  IsModel(fields, Validate(fields, doc))
  <2> DEFINE m == [f \in DOMAIN fields |->
                     [type |-> fields[f].type, value |-> Input(fields, doc, f)]]
  <2>1. Validate(fields, doc) = m
    BY <1>2 DEF Validate
  <2>2. ASSUME NEW f \in DOMAIN fields PROVE fields[f].type \in Types
    BY TablesAreTyped
  <2>3. \A f \in DOMAIN fields : Input(fields, doc, f) \in Held(fields)
    BY <1>2 DEF Held
  <2>4. m \in Objects(fields)
    BY <2>2, <2>3 DEF Objects
  <2> QED
    BY <1>2, <2>1, <2>4 DEF IsModel
<1> QED
  BY <1>1, <1>2

\* An object is saved as the values of its fields, all of which YAML writes.
LEMMA DumpOfAModel ==
  ASSUME NEW fields \in Tables, NEW m, IsModel(fields, m)
  PROVE  /\ m \notin {NoValue, Scalar, Refused}
         /\ SafeDump(m) = [f \in DOMAIN fields |-> m[f].value]
         /\ SafeDump(m) \in DocumentsOf(fields)
         /\ SafeDump(m) \notin {NoValue, Scalar, Refused}
<1>1. m \notin {NoValue, Scalar, Refused} /\ DOMAIN m = DOMAIN fields
  BY MappingsAreNotNull DEF IsModel, Objects, Tables
<1>2. ASSUME NEW f \in DOMAIN fields PROVE Convert(m[f]).type = "plain"
  <2>1. m[f] \in [type : Types, value : Held(fields)]
    BY DEF IsModel, Objects
  <2>2. m[f].type \in Types
    BY TablesAreTyped DEF IsModel
  <2> QED
    BY <2>1, <2>2 DEF Convert, Types
<1>3. SafeDump(m) = [f \in DOMAIN fields |-> m[f].value]
  BY <1>1, <1>2 DEF SafeDump, ConvertToSerializable
<1>4. \A f \in DOMAIN fields : m[f].value \in Held(fields)
  BY DEF IsModel, Objects
<1>5. SafeDump(m) \in DocumentsOf(fields)
  BY <1>3, <1>4 DEF DocumentsOf
<1> QED
  BY <1>1, <1>3, <1>5, MappingsAreNotNull DEF Tables

\* A document that holds the values of an object gives the object again.
LEMMA ValidateAgain ==
  ASSUME NEW fields \in Tables, NEW m, IsModel(fields, m),
         NEW doc, "device_id" \notin DOMAIN doc,
         \A f \in DOMAIN fields : f \in DOMAIN doc /\ doc[f] = m[f].value
  PROVE  Validate(fields, doc) = m
<1>1. \A f \in DOMAIN fields : Input(fields, doc, f) = m[f].value
  BY DEF Input, At
<1>2. Validate(fields, doc)
        = [f \in DOMAIN fields |-> [type |-> fields[f].type, value |-> Input(fields, doc, f)]]
  BY <1>1 DEF Validate, IsModel
<1>3. \A f \in DOMAIN fields : m[f] = [type |-> fields[f].type, value |-> Input(fields, doc, f)]
  <2> SUFFICES ASSUME NEW f \in DOMAIN fields
               PROVE  m[f] = [type |-> fields[f].type, value |-> Input(fields, doc, f)]
    OBVIOUS
  <2>1. m[f] \in [type : Types, value : Held(fields)]
    BY DEF IsModel, Objects
  <2> QED
    BY <1>1, <2>1 DEF IsModel
<1>4. m = [f \in DOMAIN fields |-> m[f]]
  BY DEF IsModel, Objects
<1> QED
  BY <1>2, <1>3, <1>4

\* What load_config() gives: its fields, and a list or none.
IsConfig(c) ==
  /\ c \in [fields : Objects(BBMDFields), acl : Objects(AclFields) \cup {NoValue}]
  /\ IsModel(BBMDFields, c.fields)
  /\ c.acl # NoValue => IsModel(AclFields, c.acl)

LEMMA SavedConfigLoads ==
  ASSUME NEW c, IsConfig(c)
  PROVE  SaveConfig(c, "yaml") # Refused /\ LoadConfig(SaveConfig(c, "yaml")) = c
<1> DEFINE fields == SafeDump(c.fields)
           acl    == SafeDump(c.acl)
           data   == [f \in DOMAIN fields \cup {"acl"} |-> IF f = "acl" THEN acl ELSE fields[f]]
           saved  == [exists |-> TRUE, suffix |-> "yaml", parses |-> TRUE, data |-> data]
<1>1. /\ fields = [f \in DOMAIN BBMDFields |-> c.fields[f].value]
      /\ fields \in DocumentsOf(BBMDFields)
      /\ fields # Refused
  BY DumpOfAModel DEF IsConfig, Tables
<1>2. /\ acl \in DocumentsOf(AclFields) \cup {NoValue}
      /\ acl # Refused /\ c.acl # Refused
  <2>1. CASE c.acl = NoValue
    BY <2>1, NullsAreDistinct DEF SafeDump
  <2>2. CASE c.acl # NoValue
    BY <2>2, DumpOfAModel DEF IsConfig, Tables
  <2> QED
    BY <2>1, <2>2
<1>3. data \in SavedDocuments
  BY <1>1, <1>2 DEF SavedDocuments, DocumentsOf
<1>4. saved \in SavedFiles
  BY <1>3 DEF SavedFiles
<1>5. SaveConfig(c, "yaml") = saved
  BY <1>1, <1>2 DEF SaveConfig
<1>6. saved # Refused /\ IsMapping(data)
  BY <1>3, <1>4, MappingsAreNotNull DEF IsMapping
<1>7. ReadDocument(saved) = data
  BY DEF ReadDocument
<1>8. Validate(BBMDFields, data) = c.fields
  <2>1. "device_id" \notin DOMAIN data
    BY <1>1, KeysApart
  <2>2. \A f \in DOMAIN BBMDFields : f \in DOMAIN data /\ data[f] = c.fields[f].value
    BY <1>1, KeysApart
  <2> QED
    BY <2>1, <2>2, ValidateAgain DEF IsConfig, Tables
<1>9. NestedAcl(data) = c.acl
  <2>1. At(data, "acl", NoValue) = acl
    BY DEF At
  <2>2. CASE c.acl = NoValue
    BY <2>1, <2>2 DEF NestedAcl, SafeDump
  <2>3. CASE c.acl # NoValue
    <3>1. /\ IsModel(AclFields, c.acl)
          /\ acl = [f \in DOMAIN AclFields |-> c.acl[f].value]
          /\ acl \notin {NoValue, Scalar, Refused}
      BY <2>3, DumpOfAModel DEF IsConfig, Tables
    <3>2. Validate(AclFields, acl) = c.acl
      BY <3>1, KeysApart, ValidateAgain DEF Tables
    <3> QED
      BY <2>1, <3>1, <3>2 DEF NestedAcl, IsMapping
  <2> QED
    BY <2>2, <2>3
<1>10. c.fields # Refused
  BY DumpOfAModel DEF IsConfig, Tables
<1>11. LoadConfig(saved) = [fields |-> c.fields, acl |-> c.acl]
  BY <1>2, <1>6, <1>7, <1>8, <1>9, <1>10 DEF LoadConfig
<1>12. c = [fields |-> c.fields, acl |-> c.acl]
  BY DEF IsConfig
<1> QED
  BY <1>5, <1>6, <1>11, <1>12

LEMMA DefaultIsAConfig == IsConfig(CreateDefaultConfig)
<1> DEFINE doc == [bbmd_address |-> "0.0.0.0:47808"]
<1>1. ASSUME NEW f \in DOMAIN BBMDFields
      PROVE  Input(BBMDFields, doc, f) \in BBMDFields[f].accepts
  <2>1. CASE f = "bbmd_address"
    BY <2>1, DefaultsAreAccepted DEF BBMDFields, Field, Input, At
  <2>2. CASE f # "bbmd_address"
    <3>1. Input(BBMDFields, doc, f) = BBMDFields[f].default
      BY <2>2 DEF Input, At
    <3>2. CASE f = "bdt_entries"
      <4>1. BBMDFields[f] = Field("plain", Seq(Addresses), <<>>)
        BY <3>2 DEF BBMDFields
      <4>2. <<>> \in Seq(Addresses)
        OBVIOUS
      <4> QED
        BY <3>1, <4>1, <4>2 DEF Field
    <3>3. CASE f = "device_instance"
      <4>1. BBMDFields[f] = Field("plain", DeviceInstances, 999)
        BY <3>3 DEF BBMDFields
      <4>2. 999 \in DeviceInstances
        BY SMT DEF DeviceInstances
      <4> QED
        BY <3>1, <4>1, <4>2 DEF Field
    <3>4. CASE f = "metrics_interval"
      <4>1. BBMDFields[f] = Field("plain", {n \in Nat : n >= 10}, 60)
        BY <3>4 DEF BBMDFields
      <4>2. 60 \in {n \in Nat : n >= 10}
        BY SMT
      <4> QED
        BY <3>1, <4>1, <4>2 DEF Field
    <3>5. CASE f \in {"device_name", "log_format", "log_file"}
      BY <3>1, <3>5, DefaultsAreAccepted DEF BBMDFields, Field
    <3>7. CASE f = "vendor_identifier"
      <4>1. BBMDFields[f] = Field("plain", Int, 999)
        BY <3>7 DEF BBMDFields
      <4> QED
        BY <3>1, <4>1, SMT DEF Field
    <3>6. CASE f = "enable_metrics"
      <4>1. BBMDFields[f] = Field("plain", BOOLEAN, TRUE)
        BY <3>6 DEF BBMDFields
      <4>2. BBMDFields[f].accepts = BOOLEAN /\ BBMDFields[f].default = TRUE
        BY <4>1 DEF Field
      <4> QED
        BY <3>1, <4>2, Zenon
    <3> QED
      BY <2>2, <3>2, <3>3, <3>4, <3>5, <3>6, <3>7 DEF BBMDFields
  <2> QED
    BY <2>1, <2>2
<1>2. ASSUME NEW f \in DOMAIN AclFields
      PROVE  Input(AclFields, [default_action |-> "deny"], f) \in AclFields[f].accepts
  BY SMT DEF AclFields, RuleFields, Field, Input, At, RuleActions, MessageTypes
<1>3. /\ IsModel(BBMDFields, CreateDefaultConfig.fields)
      /\ IsModel(AclFields, CreateDefaultConfig.acl)
  BY <1>1, <1>2, ValidateGivesAModel DEF CreateDefaultConfig, Tables
<1> QED
  BY <1>3 DEF IsConfig, IsModel, CreateDefaultConfig

-----------------------------------------------------------------------------
(* The configuration in use.                                               *)

Unconfigured == ~args.acl /\ NestedAcl(ReadDocument(args.config)) = NoValue

\* What is loaded is a configuration, and has no list only if none was named.
LEMMA LoadedIsAConfig ==
  ASSUME LoadConfiguration
  PROVE  IsConfig(config') /\ (config'.acl = NoValue => Unconfigured)
<1> DEFINE doc == ReadDocument(args.config)
           c   == LoadConfig(args.config)
<1>1. /\ NestedAcl(doc) # Refused
      /\ Validate(BBMDFields, doc) # Refused
      /\ c = [fields |-> Validate(BBMDFields, doc), acl |-> NestedAcl(doc)]
  BY DEF LoadConfiguration, LoadConfig
<1>2. IsModel(BBMDFields, Validate(BBMDFields, doc))
  BY <1>1, ValidateGivesAModel DEF Tables
<1>3. NestedAcl(doc) # NoValue => IsModel(AclFields, NestedAcl(doc))
  BY <1>1, ValidateGivesAModel DEF Tables, NestedAcl
<1>4. CASE args.acl
  <2>1. LoadAclConfig(file) # Refused
    BY <1>4, LoadableAssumption, LoadableIsWhatLoads DEF LoadConfiguration
  <2>2. IsModel(AclFields, LoadAclConfig(file))
    BY <2>1, ValidateGivesAModel DEF Tables, LoadAclConfig
  <2>3. LoadAclConfig(file) # NoValue
    BY <2>2, DumpOfAModel DEF Tables
  <2>4. config' = [fields |-> Validate(BBMDFields, doc), acl |-> LoadAclConfig(file)]
    BY <1>1, <1>4 DEF LoadConfiguration
  <2> QED
    BY <1>2, <2>2, <2>3, <2>4 DEF IsConfig, IsModel
<1>5. CASE ~args.acl
  <2>1. config' = c
    BY <1>1, <1>5 DEF LoadConfiguration
  <2> QED
    BY <1>1, <1>2, <1>3, <1>5, <2>1 DEF IsConfig, IsModel, Unconfigured
<1> QED
  BY <1>4, <1>5

\* The configuration is loaded once, whole or not at all, and the policy is
\* chosen while it is at hand.
ConfigInv ==
  /\ main = "loading" => config = NoValue
  /\ config = NoValue \/ IsConfig(config)
  /\ main \in {"configured", "starting"} => (config.acl = NoValue => Unconfigured)
  /\ policy = "allowAll" => Unconfigured

LEMMA ConfigInvariant == RunnerSpec => []ConfigInv
<1>1. RunnerInit => ConfigInv
  BY DEF RunnerInit, ConfigInv
<1>2. ConfigInv /\ [RunnerNext]_allVars => ConfigInv'
  <2> SUFFICES ASSUME ConfigInv, [RunnerNext]_allVars PROVE ConfigInv'
    OBVIOUS
  <2> USE DEF ConfigInv, Unconfigured
  <2>1. CASE LoadFails \/ ValidateOnly \/ CreateRunner
    BY <2>1 DEF LoadFails, ValidateOnly, CreateRunner
  <2>2. CASE LoadConfiguration
    BY <2>2, LoadedIsAConfig DEF LoadConfiguration
  <2>3. CASE LoggingFails
    BY <2>3 DEF LoggingFails
  <2>4. CASE BuildApplication
    BY <2>4 DEF BuildApplication
  <2>5. CASE BuildFails
    BY <2>5 DEF BuildFails
  <2>6. CASE StartWatching
    BY <2>6 DEF StartWatching, CreateWatcher, StartObserver, ObserverFails
  <2>7. CASE BeginServing \/ LeaveLoop
    BY <2>7 DEF BeginServing, LeaveLoop
  <2>8. ASSUME NEW who \in {"task", "finally"}, StopBegin(who) PROVE ConfigInv'
    BY <2>8 DEF StopBegin, StopMayBegin, CloseLayer
  <2>9. CASE StopWatching
    BY <2>9 DEF StopWatching, StopObserver, JoinEnds
  <2>10. CASE JoinRaises \/ StopEnd
    BY <2>10 DEF JoinRaises, StopEnd
  <2>11. CASE Report \/ Signal \/ Rearm
    BY <2>11 DEF Report, Signal, Rearm
  <2>12. CASE Watcher
    BY <2>12 DEF Watcher, Reload, OnModified, ReadHash, Load, Install, UpdateState
  <2>13. CASE Environment
    BY <2>13 DEF Environment, Change, Touch, CooldownEnds
  <2>14. CASE UNCHANGED allVars
    BY <2>14
  <2> QED
    BY <2>1, <2>2, <2>3, <2>4, <2>5, <2>6, <2>7, <2>8, <2>9, <2>10, <2>11, <2>12, <2>13,
       <2>14 DEF RunnerNext, Main
<1> QED
  BY <1>1, <1>2, PTL DEF RunnerSpec

\* Allow-all is in force only where neither --acl nor the file names a list.
THEOREM AllowAllOnlyIfUnconfigured == RunnerSpec => []AllowAllOnlyUnconfigured
<1>1. ConfigInv => AllowAllOnlyUnconfigured
  BY DEF ConfigInv, Unconfigured, AllowAllOnlyUnconfigured
<1> QED
  BY <1>1, ConfigInvariant, PTL

\* What is in use can be saved and loads again as it was, for any document.
THEOREM SavedConfigsLoadAgain == RunnerSpec => []SavedConfigLoadsAgain
<1>1. ConfigInv => SavedConfigLoadsAgain
  BY SavedConfigLoads, DefaultIsAConfig DEF ConfigInv, SavedConfigLoadsAgain
<1> QED
  BY <1>1, ConfigInvariant, PTL

-----------------------------------------------------------------------------
(* The reporter.                                                           *)

\* While the device serves its reporter lives.
THEOREM ReporterStaysAlive == RunnerSpec => []ReporterAliveWhileServing
<1> DEFINE Inv == ReporterAliveWhileServing
<1>1. RunnerInit => Inv
  BY DEF RunnerInit, ReporterAliveWhileServing
<1>2. Inv /\ [RunnerNext]_allVars => Inv'
  <2> SUFFICES ASSUME Inv, [RunnerNext]_allVars PROVE Inv'
    OBVIOUS
  <2> USE DEF ReporterAliveWhileServing
  <2>1. CASE LoadFails \/ ValidateOnly \/ LoadConfiguration \/ CreateRunner \/ LoggingFails
    BY <2>1 DEF LoadFails, ValidateOnly, LoadConfiguration, CreateRunner, LoggingFails
  <2>2. CASE BuildApplication \/ BuildFails \/ LeaveLoop
    BY <2>2 DEF BuildApplication, BuildFails, LeaveLoop
  <2>3. CASE StartWatching
    BY <2>3 DEF StartWatching
  <2>4. CASE BeginServing
    BY <2>4 DEF BeginServing
  <2>5. ASSUME NEW who \in {"task", "finally"}, StopBegin(who) PROVE Inv'
    BY <2>5 DEF StopBegin
  <2>6. CASE StopWatching \/ JoinRaises \/ StopEnd
    BY <2>6 DEF StopWatching, JoinRaises, StopEnd
  <2>7. CASE Report \/ Signal \/ Rearm
    BY <2>7 DEF Report, Signal, Rearm
  <2>8. CASE Watcher \/ Environment
    BY <2>8 DEF Watcher, Environment, Reload
  <2>9. CASE UNCHANGED allVars
    BY <2>9
  <2> QED
    BY <2>1, <2>2, <2>3, <2>4, <2>5, <2>6, <2>7, <2>8, <2>9 DEF RunnerNext, Main
<1> QED
  BY <1>1, <1>2, PTL DEF RunnerSpec

-----------------------------------------------------------------------------
(* The watcher in the process.                                             *)

\* Without --acl there is no watcher; with it, from the first list on, the file
\* and the watcher are as AclFileWatcher has them.
Asleep == phase = "loaded" /\ wpc = "idle" /\ mpc = "idle" /\ ~notified

WatchedInv ==
  /\ main = "loading" => Asleep
  /\ main # "loading" /\ ~args.acl => Asleep
  /\ main \notin {"loading", "exited"} /\ args.acl => CarefulInv
  /\ main = "built" => args.acl
  /\ main = "exited" => HashIsOfActive

LEMMA NobodyWakes ==
  ASSUME Asleep, [Next]_vars, ~CreateWatcher
  PROVE  Asleep'
<1>1. CASE \E c \in Contents, save \in Saves : Change(c, save)
  <2>1. PICK c \in Contents, save \in Saves : Change(c, save)
    BY <1>1
  <2>2. notified' = (notified \/ (phase = "watching" /\ save = "inPlace"))
    BY <2>1 DEF Change
  <2>3. ~notified'
    BY <2>2, Zenon DEF Asleep
  <2> QED
    BY <2>1, <2>3 DEF Change, Asleep
<1>2. CASE Touch \/ CooldownEnds \/ StartObserver \/ ObserverFails \/ StopObserver \/ JoinEnds
  BY <1>2 DEF Asleep, Touch, CooldownEnds, StartObserver, ObserverFails, StopObserver, JoinEnds
<1>3. CASE OnModified \/ ReadHash \/ Load \/ Install \/ UpdateState \/ ManualLoad \/ ManualInstall
  BY <1>3 DEF Asleep, OnModified, ReadHash, Load, Install, UpdateState, ManualLoad, ManualInstall
<1>4. CASE UNCHANGED vars
  BY <1>4 DEF Asleep
<1> QED
  BY <1>1, <1>2, <1>3, <1>4 DEF Next

\* Where a step that loads no list leads: only start() makes a watcher, and the
\* steps that end the process leave the watcher alone.
LEMMA HowMainGoesOn ==
  ASSUME RunnerNext \/ UNCHANGED allVars, ~LoadConfiguration
  PROVE  /\ args' = args
         /\ main' = "loading" => main = "loading"
         /\ main = "loading" => main' \in {"loading", "exited"}
         /\ main' = "built" => main = "built" \/ args.acl
         /\ CreateWatcher => main = "built"
         /\ main' = "exited" => UNCHANGED vars
         /\ main = "exited" => main' = "exited"
<1> USE DEF CreateWatcher
<1>1. CASE LoadFails \/ ValidateOnly \/ CreateRunner \/ LoggingFails
  BY <1>1 DEF LoadFails, ValidateOnly, CreateRunner, LoggingFails
<1>2. CASE BuildApplication \/ BuildFails \/ BeginServing \/ LeaveLoop
  BY <1>2 DEF BuildApplication, BuildFails, BeginServing, LeaveLoop
<1>3. CASE StartWatching
  BY <1>3 DEF StartWatching
<1>4. ASSUME NEW who \in {"task", "finally"}, StopBegin(who)
      PROVE  UNCHANGED <<args, main, phase>> /\ main # "exited"
  BY <1>4 DEF StopBegin, StopMayBegin
<1>5. CASE StopWatching /\ main # "exited"
  <2>1. UNCHANGED <<args, main>> /\ phase' \in {"stopping", "stopped"}
    BY <1>5 DEF StopWatching, StopObserver, JoinEnds
  <2> QED
    BY <1>5, <2>1
<1>6. CASE JoinRaises \/ StopEnd
  BY <1>6 DEF JoinRaises, StopEnd
<1>7. CASE Report \/ Signal \/ Rearm
  BY <1>7 DEF Report, Signal, Rearm, LoopFree
<1>8. CASE (Watcher \/ Environment) /\ main # "exited"
  BY <1>8 DEF Watcher, Reload, OnModified, ReadHash, Load, Install, UpdateState,
              Environment, Change, Touch, CooldownEnds
<1>9. CASE UNCHANGED allVars
  BY <1>9
<1> QED
  BY <1>1, <1>2, <1>3, <1>4, <1>5, <1>6, <1>7, <1>8, <1>9 DEF RunnerNext, Main

\* Inside the process, whose observer may start and stop at any time, the hash
\* remembered is that of the configuration in force, while changes are careful.
THEOREM HashOfActiveInProcess == RunnerSpec => []HashIsOfActive
<1>0. WatchedInv => HashIsOfActive
  BY DEF WatchedInv, Asleep, CarefulInv, ReadsAgree, HashIsOfActive
<1>1. RunnerInit => WatchedInv
  BY DEF RunnerInit, RestAtInit, WatchedInv, Asleep
<1>2. WatchedInv /\ RunnerTypeInv /\ [RunnerNext]_allVars => WatchedInv'
  <2> SUFFICES ASSUME WatchedInv, RunnerTypeInv, [RunnerNext]_allVars PROVE WatchedInv'
    OBVIOUS
  <2>1. CASE LoadConfiguration
    BY <2>1 DEF LoadConfiguration, WatchedInv, Asleep, CarefulInv, BeforeWatching
  <2>2. CASE ~LoadConfiguration
    <3>1. /\ args' = args
          /\ main' = "loading" => main = "loading"
          /\ main = "loading" => main' \in {"loading", "exited"}
          /\ main' = "built" => main = "built" \/ args.acl
          /\ CreateWatcher => main = "built"
          /\ main' = "exited" => UNCHANGED vars
          /\ main = "exited" => main' = "exited"
      BY <2>2, HowMainGoesOn
    <3>2. [Next]_vars
      BY <2>2, StepsOfTheWatcher
    <3>3. (main = "loading" \/ ~args.acl) => Asleep'
      BY <3>1, <3>2, NobodyWakes DEF WatchedInv
    <3>4. main' \notin {"loading", "exited"} /\ args'.acl => CarefulInv'
      BY <3>1, <3>2, CarefulInvStep DEF WatchedInv, RunnerTypeInv
    <3>5. main' = "exited" => HashIsOfActive'
      BY <1>0, <3>1 DEF HashIsOfActive
    <3> QED
      BY <3>1, <3>3, <3>4, <3>5 DEF WatchedInv
  <2> QED
    BY <2>1, <2>2
<1> QED
  BY <1>0, <1>1, <1>2, RunnerTypeInvariant, PTL DEF RunnerSpec

=============================================================================
