------------------------------- MODULE Runner -------------------------------
(***************************************************************************)
(* The life of the process (__main__.py): load, build, watch, serve, stop; *)
(* with the file watcher of AclFileWatcher running beside it, and the      *)
(* application built as application.py builds it.                          *)
(*                                                                         *)
(* async_main(), start() and stop() run on the event loop.  start() has no *)
(* await before its loop and stop() has none at all, so other tasks (a     *)
(* stop() that a signal asked for, the metrics reporter, the cache timer)  *)
(* run only while start() sleeps.  The observer thread and the editor of   *)
(* the file run at any time.                                               *)
(***************************************************************************)
EXTENDS AclFileWatcher, ConfigLoader, SequencesExt

CONSTANTS
  Arguments, \* command lines: [config: a file, acl: is --acl given, validate]
  MaxSignals, \* bound on the signals
  LogFormats, \* the formats basicConfig() takes
  VendorIdentifiers, PortAddresses \* what bacpypes3's objects take

\* What load_acl_config() accepts is what AclFileWatcher calls loadable.
ASSUME LoadableIsWhatLoads ==
  \A c \in Contents : c \in Loadable <=> LoadAclConfig(c) # Refused

ASSUME MaxSignalsAssumption == MaxSignals \in Nat

VARIABLES
  args,
  main,        \* how far async_main() and start() have come
  config,      \* the configuration in use, NoValue before it is loaded
  app,         \* runner.app, NoValue before it is built
  policy,      \* where the rules in force come from
  layer,       \* the link layer: "none", "open", "closed"
  timer,       \* the pending cache cleanup: 1 or 2, one following the other; 0 for none
  handle,      \* layer._cache_cleanup_handle
  fdtClock,    \* layer._fdt_clock_handle is pending (armed again by bacpypes3)
  running,     \* runner.running
  reporter,    \* the _metrics_reporter task
  signals,     \* signals handled
  stopTasks,   \* stop() tasks that have not begun
  stopper,     \* whose stop() runs: "none", "task", "finally"
  exitCode,
  late         \* history: reloads installed after stop_watching() returned

fileVars == vars
layerVars == <<app, policy, layer, timer, handle, fdtClock>>
taskVars  == <<running, reporter, signals, stopTasks, stopper>>
runnerVars == <<args, main, config, layerVars, taskVars, exitCode, late>>
allVars == <<fileVars, runnerVars>>

RunnerInit ==
  /\ args \in Arguments
  /\ main = "loading" /\ config = NoValue /\ exitCode = 0
  /\ app = NoValue /\ policy = "none" /\ layer = "none"
  /\ timer = 0 /\ handle = 0 /\ fdtClock = FALSE
  /\ running = FALSE /\ reporter = "none"
  /\ signals = 0 /\ stopTasks = 0 /\ stopper = "none"
  /\ late = 0
  /\ file \in Contents
  /\ active = NoContent
  /\ RestAtInit

-----------------------------------------------------------------------------
(* async_main(), up to the runner.                                         *)

\* Nothing is started when either file does not load.
LoadFails ==
  /\ main = "loading"
  /\ LoadConfig(args.config) = Refused \/ (args.acl /\ file \notin Loadable)
  /\ main' = "exited"
  /\ exitCode' = 1
  /\ UNCHANGED <<fileVars, args, config, layerVars, taskVars, late>>

ValidateOnly ==
  /\ main = "loading"
  /\ args.validate
  /\ ValidateConfigFile(args.config) /\ (args.acl => file \in Loadable)
  /\ main' = "exited"
  /\ UNCHANGED <<fileVars, args, config, layerVars, taskVars, exitCode, late>>

\* Mutant: a list that does not load is replaced by none.
LoadLenient ==
  /\ main = "loading"
  /\ ~args.validate
  /\ LoadConfig(args.config) # Refused
  /\ config' = [LoadConfig(args.config) EXCEPT
                  !.acl = IF args.acl
                          THEN IF file \in Loadable THEN LoadAclConfig(file) ELSE NoValue
                          ELSE @]
  /\ active' = IF args.acl /\ file \in Loadable THEN file ELSE active
  /\ main' = "configured"
  /\ UNCHANGED <<args, layerVars, taskVars, exitCode, late>>
  /\ UNCHANGED <<phase, notified, cooling, watcherVars, manualVars, editVars>>

\* A list given with --acl overrides that of the configuration file.
LoadConfiguration ==
  /\ main = "loading"
  /\ ~args.validate
  /\ LoadConfig(args.config) # Refused
  /\ args.acl => file \in Loadable
  /\ config' = [LoadConfig(args.config) EXCEPT !.acl = IF args.acl THEN LoadAclConfig(file) ELSE @]
  /\ active' = IF args.acl THEN file ELSE active
  /\ main' = "configured"
  /\ UNCHANGED <<args, layerVars, taskVars, exitCode, late>>
  /\ UNCHANGED <<phase, notified, cooling, watcherVars, manualVars, editVars>>

\* ACLBBMDRunner(), then the signal handlers are installed.
CreateRunner ==
  /\ main = "configured"
  /\ config.fields.log_format.value \in LogFormats
  /\ main' = "starting"
  /\ UNCHANGED <<fileVars, args, config, layerVars, taskVars, exitCode, late>>

\* _setup_logging() meets a format that logging refuses (a level that is none is
\* refused as well), or a log file that does not open: the exception leaves
\* async_main().
LoggingFails ==
  /\ main = "configured"
  /\ \/ config.fields.log_format.value \notin LogFormats
     \/ config.fields.log_file.value # NoValue
  /\ main' = "exited"
  /\ exitCode' = 1
  /\ UNCHANGED <<fileVars, args, config, layerVars, taskVars, late>>

-----------------------------------------------------------------------------
(* start(): the BACnet objects and the application made of them.           *)

PortName == "NetworkPort-1"

\* The classes of bacpypes3 check more than the loader has: an identifier has its
\* width, an address must be one they can bind or send to.
ValuesFit(c) ==
  /\ c.fields.vendor_identifier.value \in VendorIdentifiers
  /\ {c.fields.bbmd_address.value} \cup Range(c.fields.bdt_entries.value) \subseteq PortAddresses

BuildObjects(c) ==
  << [class |-> "device", id |-> <<"device", c.fields.device_instance.value>>,
      name |-> c.fields.device_name.value],
     [class |-> "port", id |-> <<"network-port", 1>>,
      name |-> PortName, bdt |-> c.fields.bdt_entries.value] >>

\* An object needs a name, and none before it may have its name or identifier.
AddObject(objects, i) ==
  /\ objects[i].name # ""
  /\ \A j \in 1..i-1 : objects[j].name # objects[i].name /\ objects[j].id # objects[i].id

\* What from_object_list() asks of the objects: a single device, each one added.
ObjectsFit(objects) ==
  /\ \E i \in DOMAIN objects :
       /\ objects[i].class = "device"
       /\ \A j \in DOMAIN objects \ {i} : objects[j].class # "device"
  /\ \A i \in DOMAIN objects : AddObject(objects, i)

\* The port brings the link layer's peers.
FromObjectList(objects) ==
  [ names |-> {obj.name : obj \in Range(objects)},
    ids   |-> {obj.id : obj \in Range(objects)},
    peers |-> (CHOOSE obj \in Range(objects) : obj.class = "port").bdt ]

\* Building the layer opens it and arms both its timers.
BuildApplication ==
  /\ main = "starting"
  /\ ValuesFit(config) /\ ObjectsFit(BuildObjects(config))
  /\ app' = FromObjectList(BuildObjects(config))
  /\ policy' = IF config.acl = NoValue THEN "allowAll" ELSE IF args.acl THEN "file" ELSE "config"
  /\ layer' = "open"
  /\ timer' = 1 /\ handle' = 1 /\ fdtClock' = TRUE
  /\ main' = IF args.acl THEN "built" ELSE "watched"
  /\ UNCHANGED <<fileVars, args, config, taskVars, exitCode, late>>

\* _build_objects() or from_object_list() raises and runner.app is never assigned.
BuildFails ==
  /\ main = "starting"
  /\ ~(ValuesFit(config) /\ ObjectsFit(BuildObjects(config)))
  /\ main' = "finally"
  /\ exitCode' = 1
  /\ UNCHANGED <<fileVars, args, config, layerVars, taskVars, late>>

StartWatching ==
  /\ main = "built"
  /\ \/ CreateWatcher /\ UNCHANGED <<main, exitCode>>
     \/ StartObserver /\ main' = "watched" /\ UNCHANGED exitCode
     \/ ObserverFails /\ main' = "finally" /\ exitCode' = 1
  /\ UNCHANGED <<args, config, layerVars, taskVars, late>>

\* Mutant: the reporter runs up to its first test before running is set.
BeginServingEager ==
  /\ main = "watched"
  /\ reporter' = IF config.fields.enable_metrics.value THEN "ended" ELSE "none"
  /\ running' = TRUE
  /\ main' = "serving"
  /\ UNCHANGED <<fileVars, args, config, layerVars, signals, stopTasks, stopper, exitCode, late>>

\* Mutant: running is not set, and the loop ends as soon as it begins.
BeginServingNotRunning ==
  /\ main = "watched"
  /\ reporter' = IF config.fields.enable_metrics.value THEN "created" ELSE "none"
  /\ main' = "serving"
  /\ UNCHANGED <<fileVars, args, config, layerVars, running, signals, stopTasks, stopper,
                 exitCode, late>>

\* The reporter's task is made, running is set, and start() sleeps.
BeginServing ==
  /\ main = "watched"
  /\ reporter' = IF config.fields.enable_metrics.value THEN "created" ELSE "none"
  /\ running' = TRUE
  /\ main' = "serving"
  /\ UNCHANGED <<fileVars, args, config, layerVars, signals, stopTasks, stopper, exitCode, late>>

\* while self.running: await asyncio.sleep(1)
LeaveLoop ==
  /\ main = "serving"
  /\ stopper = "none"
  /\ ~running
  /\ main' = "finally"
  /\ UNCHANGED <<fileVars, args, config, layerVars, taskVars, exitCode, late>>

-----------------------------------------------------------------------------
(* What runs while start() sleeps.                                         *)

LoopFree == main = "serving" /\ stopper = "none"

\* _metrics_reporter(): it tests running at its start and after every sleep.
Report ==
  /\ LoopFree
  /\ reporter \in {"created", "sleeping"}
  /\ reporter' = IF running THEN "sleeping" ELSE "ended"
  /\ UNCHANGED <<fileVars, args, main, config, layerVars, exitCode, late>>
  /\ UNCHANGED <<running, signals, stopTasks, stopper>>

\* Mutant: the timer is armed again and its handle is not kept.
RearmUnkept ==
  /\ LoopFree
  /\ timer # 0
  /\ timer' = 3 - timer
  /\ UNCHANGED <<fileVars, args, main, config, app, policy, layer, handle, fdtClock, taskVars,
                 exitCode, late>>

\* _cleanup_cache() arms the next timer and keeps its handle.
Rearm ==
  /\ LoopFree
  /\ timer # 0
  /\ timer' = 3 - timer
  /\ handle' = 3 - timer
  /\ UNCHANGED <<fileVars, args, main, config, app, policy, layer, fdtClock, taskVars, exitCode,
                 late>>

\* The handler only makes a task of runner.stop().
Signal ==
  /\ main \in {"starting", "built", "watched", "serving", "finally"}
  /\ signals < MaxSignals
  /\ signals' = signals + 1
  /\ stopTasks' = stopTasks + 1
  /\ UNCHANGED <<fileVars, args, main, config, layerVars, exitCode, late>>
  /\ UNCHANGED <<running, reporter, stopper>>

-----------------------------------------------------------------------------
(* stop(), as a task and once more from the finally clause.                *)

StopMayBegin(who) ==
  /\ stopper = "none"
  /\ \/ who = "task" /\ main = "serving" /\ stopTasks > 0 /\ stopTasks' = stopTasks - 1
     \/ who = "finally" /\ main = "finally" /\ UNCHANGED stopTasks

\* The part of stop() that closes the layer, if the application was assigned,
\* and cancels its timers.
CloseLayer ==
  IF layer = "none" THEN UNCHANGED layerVars
  ELSE /\ layer' = "closed"
       /\ timer' = IF handle = timer THEN 0 ELSE timer
       /\ fdtClock' = FALSE
       /\ UNCHANGED <<app, policy, handle>>

\* Mutant: running is left as it is.
StopBeginStillRunning(who) ==
  /\ StopMayBegin(who)
  /\ stopper' = who
  /\ CloseLayer
  /\ UNCHANGED <<fileVars, args, main, config, running, reporter, signals, exitCode, late>>

StopBegin(who) ==
  /\ StopMayBegin(who)
  /\ stopper' = who
  /\ running' = FALSE
  /\ CloseLayer
  /\ UNCHANGED <<fileVars, args, main, config, reporter, signals, exitCode, late>>

\* stop_watching(): stop the observer, join it with a timeout.
StopWatching ==
  /\ stopper # "none"
  /\ StopObserver \/ JoinEnds
  /\ UNCHANGED runnerVars

\* An observer that never ran cannot be joined: the exception leaves stop().
JoinRaises ==
  /\ stopper = "finally"
  /\ phase = "unstarted"
  /\ main' = "exited"
  /\ exitCode' = 1
  /\ UNCHANGED <<fileVars, args, config, layerVars, taskVars, late>>

\* Tasks that have not ended die with the loop, the observer with the process.
StopEnd ==
  /\ stopper # "none"
  /\ phase \in {"loaded", "stopped"}
  /\ stopper' = "none"
  /\ main' = IF stopper = "finally" THEN "exited" ELSE main
  /\ UNCHANGED <<fileVars, args, config, layerVars, exitCode, late>>
  /\ UNCHANGED <<running, reporter, signals, stopTasks>>

-----------------------------------------------------------------------------
(* The observer thread.                                                    *)

\* reload_callback() of start(): the application is there since before the
\* watching began, and is asked also when its layer is closed.
Reload ==
  /\ Install
  /\ policy' = "file"
  /\ late' = late + (IF phase = "stopped" THEN 1 ELSE 0)
  /\ UNCHANGED <<args, main, config, app, layer, timer, handle, fdtClock, taskVars, exitCode>>

Watcher ==
  \/ (OnModified \/ ReadHash \/ Load \/ UpdateState) /\ UNCHANGED runnerVars
  \/ Reload

Environment ==
  /\ \/ \E c \in Contents, save \in Saves : Change(c, save)
     \/ Touch
     \/ CooldownEnds
  /\ UNCHANGED runnerVars

-----------------------------------------------------------------------------

Main ==
  \/ LoadFails \/ ValidateOnly \/ LoadConfiguration \/ CreateRunner \/ LoggingFails
  \/ BuildApplication \/ BuildFails \/ StartWatching \/ BeginServing \/ LeaveLoop
  \/ \E who \in {"task", "finally"} : StopBegin(who)
  \/ StopWatching \/ JoinRaises \/ StopEnd

RunnerNext ==
  /\ main # "exited"
  /\ Main \/ Report \/ Rearm \/ Signal \/ Watcher \/ Environment

RunnerSpec == RunnerInit /\ [][RunnerNext]_allVars

\* The loop's thread goes on wherever its code does not wait for anybody.
RunnerFairSpec == RunnerSpec /\ WF_allVars(Main)

-----------------------------------------------------------------------------
(* Properties.                                                             *)

RunnerTypeOK ==
  /\ TypeOK
  /\ main \in {"loading", "configured", "starting", "built", "watched", "serving",
               "finally", "exited"}
  /\ policy \in {"none", "allowAll", "config", "file"}
  /\ layer \in {"none", "open", "closed"}
  /\ timer \in 0..2 /\ handle \in 0..2 /\ fdtClock \in BOOLEAN
  /\ running \in BOOLEAN
  /\ reporter \in {"none", "created", "sleeping", "ended"}
  /\ signals \in 0..MaxSignals /\ stopTasks \in 0..MaxSignals
  /\ stopper \in {"none", "task", "finally"}
  /\ exitCode \in {0, 1} /\ late \in Nat

\* However the process ends, after a signal, a failed start, or an observer
\* that cannot be joined, its layer is closed and neither timer of that layer
\* is left pending (__main__.py:152-166, 288-289; bbmd.py:121-136).
NothingLeftOpen == main = "exited" => layer # "open" /\ timer = 0 /\ ~fdtClock

\* The allow-all policy rules only where no list was named: neither --acl nor
\* a list in the configuration file; a list that does not load never turns
\* into it (__main__.py:117-121, 250-259).
AllowAllOnlyUnconfigured ==
  policy = "allowAll" => ~args.acl /\ NestedAcl(ReadDocument(args.config)) = NoValue

\* While the device serves, the reporter of its metrics lives: it never takes
\* a runner that starts for one that stops (__main__.py:143-150, 168-173).
ReporterAliveWhileServing ==
  (main = "serving" /\ running /\ config.fields.enable_metrics.value) =>
    reporter \in {"created", "sleeping"}

\* Once stop_watching() has returned, at most the reload that was under way
\* still reaches the application (acl_reload.py:124-131).
OneLateReload == late <= 1

\* The process ends only when it is told to, or before it serves.  It ends well
\* after --validate or a signal; with code 1 only where the start failed, whatever
\* made it fail, before the reporter was made: neither the loop of start() nor a
\* stop() that a signal asked for ends it otherwise (__main__.py:143-150, 281-291).
EndsOnlyWhenTold ==
  main = "exited" =>
    IF exitCode = 0 THEN (args.validate /\ config = NoValue) \/ signals > 0
                    ELSE reporter = "none"

\* What the loader has loaded, with a list taken from --acl, it can save and
\* load again unchanged: every typed value is converted, every field is found
\* under the name it is saved by (config.py:31, 265-313).
SavedConfigLoadsAgain ==
  \A c \in {config, CreateDefaultConfig} \ {NoValue} :
    SaveConfig(c, "yaml") # Refused /\ LoadConfig(SaveConfig(c, "yaml")) = c

\* A signal ends the process, whenever it comes: also while start() is still
\* on its way to its loop (__main__.py:149-150, 274-279).
SignalEndsProcess == signals > 0 ~> main = "exited"

=============================================================================
