--------------------------- MODULE AclFileWatcher ---------------------------
(***************************************************************************)
(* From the ACL file to the configuration in force (acl_reload.py).        *)
(*                                                                         *)
(* The observer thread runs ACLFileWatcher.on_modified for every event the *)
(* file system reports; a manual reload runs on the event loop; an editor  *)
(* changes the file at any time, also between the two reads of one event.  *)
(* How a configuration replaces another inside the BBMD is AclBbmd; here   *)
(* that is one step.                                                       *)
(*                                                                         *)
(* The MD5 of a content stands for the content.  A content that does not   *)
(* load is one that is missing, cut short by a half-done save, or invalid. *)
(***************************************************************************)
EXTENDS Naturals

CONSTANTS
  Contents,   \* what the file can hold
  Loadable,   \* the contents load_acl_config() accepts
  Saves,      \* how the editor saves: "inPlace", "rename"
  MaxChanges, \* bound on the changes of the file
  MaxManual,  \* bound on the manual reloads
  NoContent

ASSUME LoadableAssumption == Loadable # {} /\ Loadable \subseteq Contents

ASSUME NoContentAssumption == NoContent \notin Contents

VARIABLES
  file,       \* what the file holds
  active,     \* the content the configuration in force was loaded from, if any
  phase,      \* of start_watching() and stop_watching(), see Phases
  notified,   \* a FileModifiedEvent waits for the observer thread
  cooling,    \* less than _reload_cooldown since _last_reload
  lastHash,   \* watcher._last_hash
  wpc, currentHash, newConfig,  \* on_modified and its local variables
  mpc, manualConfig,            \* reload_acl_manual and its local variable
  changes, manuals,
  careful     \* history: no change, manual reload or stop met a busy watcher

watcherVars == <<lastHash, wpc, currentHash, newConfig>>
manualVars  == <<mpc, manualConfig, manuals>>
editVars    == <<file, changes, careful>>
vars == <<active, phase, notified, cooling, watcherVars, manualVars, editVars>>

\* "loaded": no watcher yet.  "baseline": the watcher exists.  "unstarted": its
\* observer was made and did not start.  "watching": the observer runs.
\* "stopping": it was told to stop.  "stopped": stop_watching() forgot it.
Phases == {"loaded", "baseline", "unstarted", "watching", "stopping", "stopped"}

\* Neither the watcher nor a reload has begun.
RestAtInit ==
  /\ phase = "loaded"
  /\ notified = FALSE
  /\ cooling = FALSE
  /\ lastHash = NoContent
  /\ wpc = "idle" /\ currentHash = NoContent /\ newConfig = NoContent
  /\ mpc = "idle" /\ manualConfig = NoContent
  /\ changes = 0 /\ manuals = 0
  /\ careful = TRUE

\* async_main() has loaded the file; the watcher is yet to start.
Init == file \in Loadable /\ active = file /\ RestAtInit

-----------------------------------------------------------------------------
(* The file and the events about it (external).                            *)

\* A change is careful if it waits for the cooldown and for a reload that runs.
CarefulNow == phase = "watching" /\ ~cooling /\ wpc \in {"idle", "hash"} /\ mpc = "idle"

\* Writing in place reports a modification; renaming a new file over the old
\* one does not.
Change(c, save) ==
  /\ changes < MaxChanges
  /\ c # file
  /\ file' = c
  /\ changes' = changes + 1
  /\ notified' = (notified \/ (phase = "watching" /\ save = "inPlace"))
  /\ careful' = (careful /\ CarefulNow /\ save = "inPlace")
  /\ UNCHANGED <<active, phase, cooling, watcherVars, manualVars>>

\* An event that changes nothing: the same content written again.
Touch ==
  /\ phase = "watching"
  /\ notified' = TRUE
  /\ UNCHANGED <<active, phase, cooling, watcherVars, manualVars, editVars>>

CooldownEnds ==
  /\ cooling
  /\ cooling' = FALSE
  /\ UNCHANGED <<active, phase, notified, watcherVars, manualVars, editVars>>

-----------------------------------------------------------------------------
(* ACLReloadManager.start_watching.                                        *)

\* ACLFileWatcher(): the baseline hash, and the cooldown begins.
CreateWatcher ==
  /\ phase = "loaded"
  /\ phase' = "baseline"
  /\ lastHash' = file
  /\ cooling' = TRUE
  /\ UNCHANGED <<active, notified, wpc, currentHash, newConfig, manualVars, editVars>>

\* observer.start(): from here on the file system reports events.
StartObserver ==
  /\ phase = "baseline"
  /\ phase' = "watching"
  /\ UNCHANGED <<active, notified, cooling, watcherVars, manualVars, editVars>>

\* observer.start() raises, with self.observer assigned already.
ObserverFails ==
  /\ phase = "baseline"
  /\ phase' = "unstarted"
  /\ UNCHANGED <<active, notified, cooling, watcherVars, manualVars, editVars>>

-----------------------------------------------------------------------------
(* ACLReloadManager.stop_watching.                                         *)

\* Mutant: the observer is not told to stop and goes on with what it has.
StopObserverForgotten ==
  /\ phase = "watching"
  /\ phase' = "stopping"
  /\ careful' = (careful /\ ~notified /\ wpc = "idle")
  /\ UNCHANGED <<active, notified, cooling, watcherVars, manualVars, file, changes>>

\* observer.stop(): a thread at rest may have the waiting event in its hands
\* already; a thread at work ends after the event it handles.
StopObserver ==
  /\ phase = "watching"
  /\ phase' = "stopping"
  /\ notified' \in {FALSE, notified /\ wpc = "idle"}
  /\ careful' = (careful /\ ~notified /\ wpc = "idle")
  /\ UNCHANGED <<active, cooling, watcherVars, manualVars, file, changes>>

\* observer.join(timeout=2): the thread has ended, or two seconds have passed
\* and stop_watching() goes on without it.
JoinEnds ==
  /\ phase = "stopping"
  /\ phase' = "stopped"
  /\ UNCHANGED <<active, notified, cooling, watcherVars, manualVars, editVars>>

-----------------------------------------------------------------------------
(* ACLFileWatcher.on_modified.                                             *)

\* An event that comes during the cooldown is dropped.
OnModified ==
  /\ wpc = "idle"
  /\ notified
  /\ notified' = FALSE
  /\ wpc' = IF cooling THEN "idle" ELSE "hash"
  /\ UNCHANGED <<active, phase, cooling, lastHash, currentHash, newConfig, manualVars, editVars>>

\* The first read of the file: has its content changed?
ReadHash ==
  /\ wpc = "hash"
  /\ IF file = lastHash
     THEN wpc' = "idle" /\ UNCHANGED currentHash
     ELSE wpc' = "load" /\ currentHash' = file
  /\ UNCHANGED <<active, phase, notified, cooling, lastHash, newConfig, manualVars, editVars>>

\* Mutant: the exception of a failed load ends the observer thread.
LoadUncaught ==
  /\ wpc = "load"
  /\ IF file \in Loadable
     THEN wpc' = "install" /\ newConfig' = file /\ UNCHANGED currentHash
     ELSE wpc' = "dead" /\ currentHash' = NoContent /\ UNCHANGED newConfig
  /\ UNCHANGED <<active, phase, notified, cooling, lastHash, manualVars, editVars>>

\* The second read of the file.  An exception is logged and the event is over.
Load ==
  /\ wpc = "load"
  /\ IF file \in Loadable
     THEN wpc' = "install" /\ newConfig' = file /\ UNCHANGED currentHash
     ELSE wpc' = "idle" /\ currentHash' = NoContent /\ UNCHANGED newConfig
  /\ UNCHANGED <<active, phase, notified, cooling, lastHash, manualVars, editVars>>

\* self.reload_callback(new_config)
Install ==
  /\ wpc = "install"
  /\ wpc' = "update"
  /\ active' = newConfig
  /\ newConfig' = NoContent
  /\ UNCHANGED <<phase, notified, cooling, lastHash, currentHash, manualVars, editVars>>

\* Mutant: the hash of the new content is not remembered.
UpdateStateKeepsHash ==
  /\ wpc = "update"
  /\ wpc' = "idle"
  /\ currentHash' = NoContent
  /\ cooling' = TRUE
  /\ UNCHANGED <<active, phase, notified, lastHash, newConfig, manualVars, editVars>>

\* The hash remembered is that of the first read.
UpdateState ==
  /\ wpc = "update"
  /\ wpc' = "idle"
  /\ lastHash' = currentHash
  /\ currentHash' = NoContent
  /\ cooling' = TRUE
  /\ UNCHANGED <<active, phase, notified, newConfig, manualVars, editVars>>

WatcherStep == ReadHash \/ Load \/ Install \/ UpdateState

-----------------------------------------------------------------------------
(* ACLReloadManager.reload_acl_manual: it neither asks nor tells the       *)
(* watcher.  A load that fails raises and changes nothing.                 *)

\* A coroutine runs where the loop is free, watched or no longer watched: start()
\* and stop() await nothing on their way through the other phases.
ManualLoad ==
  /\ manuals < MaxManual
  /\ phase \in {"watching", "stopped"}
  /\ mpc = "idle"
  /\ file \in Loadable
  /\ mpc' = "install"
  /\ manualConfig' = file
  /\ manuals' = manuals + 1
  /\ careful' = (careful /\ ~notified /\ wpc = "idle")
  /\ UNCHANGED <<file, changes, active, phase, notified, cooling, watcherVars>>

ManualInstall ==
  /\ mpc = "install"
  /\ mpc' = "idle"
  /\ active' = manualConfig
  /\ manualConfig' = NoContent
  /\ UNCHANGED <<manuals, phase, notified, cooling, watcherVars, editVars>>

-----------------------------------------------------------------------------

Next ==
  \/ \E c \in Contents, save \in Saves : Change(c, save)
  \/ Touch
  \/ CooldownEnds
  \/ CreateWatcher \/ StartObserver \/ ObserverFails
  \/ StopObserver \/ JoinEnds
  \/ OnModified \/ ReadHash \/ Load \/ Install \/ UpdateState
  \/ ManualLoad \/ ManualInstall

Spec == Init /\ [][Next]_vars

\* Time passes, start() goes on to start_watching(), the observer thread
\* takes its events and finishes each one, the loop finishes a manual reload.
\* Nobody has to change or touch the file.
Fairness ==
  /\ WF_vars(CooldownEnds)
  /\ WF_vars(CreateWatcher) /\ WF_vars(StartObserver) /\ WF_vars(JoinEnds)
  /\ WF_vars(OnModified) /\ WF_vars(WatcherStep)
  /\ WF_vars(ManualInstall)

FairSpec == Spec /\ Fairness

-----------------------------------------------------------------------------
(* Properties.                                                             *)

TypeOK ==
  /\ file \in Contents
  /\ active \in Loadable \cup {NoContent}
  /\ phase \in Phases
  /\ notified \in BOOLEAN /\ cooling \in BOOLEAN /\ careful \in BOOLEAN
  /\ lastHash \in Contents \cup {NoContent}
  /\ wpc \in {"idle", "hash", "load", "install", "update"}
  /\ currentHash \in Contents \cup {NoContent}
  /\ newConfig \in Loadable \cup {NoContent}
  /\ mpc \in {"idle", "install"}
  /\ manualConfig \in Loadable \cup {NoContent}
  /\ changes \in Nat /\ manuals \in Nat

InForce == file \in Loadable => active = file

\* As long as every change and every manual reload met a watcher at rest, the
\* hash it remembers is that of the configuration in force, although hash and
\* configuration come from two reads of the file (acl_reload.py:64-81).
HashIsOfActive == (careful /\ phase = "watching" /\ wpc = "idle") => lastHash = active

\* Changes made with care take effect: the last content that loads is in force
\* in the end, also when a half-done save was seen before it
\* (acl_reload.py:50-88, README_ACL_RELOAD.md:23).
CarefulChangesTakeEffect == <>[](careful => InForce)

\* A watcher that gets events again and again catches up, however hasty the changes
\* were, unless the hash it remembers is already that of the file
\* (acl_reload.py:60-66).
EventsCatchUp == []<>notified => <>[](InForce \/ lastHash = file)

\* Once the file is watched, with the configuration in force its own, every
\* change takes effect, unless the watching ends: "Automatically reload when
\* the file is modified" (README_ACL_RELOAD.md:23).
EveryChangeTakesEffect ==
  (<>(phase = "watching" /\ active = file) /\ <>[](phase = "watching")) => <>[]InForce

=============================================================================
