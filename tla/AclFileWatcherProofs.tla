------------------------ MODULE AclFileWatcherProofs ------------------------
(***************************************************************************)
(* Proofs about AclFileWatcher for every set of contents and any number of *)
(* changes, events, manual reloads, and a stop.                            *)
(***************************************************************************)
EXTENDS AclFileWatcher, TLAPS

\* A reload under way has read what it is about to use.
ReadsDone ==
  /\ wpc = "install" => newConfig \in Loadable
  /\ mpc = "install" => manualConfig \in Loadable

TypeInv == TypeOK /\ ReadsDone

USE DEF watcherVars, manualVars, editVars

\* It holds at the start: RestAtInit speaks of everything but the file and what
\* is in force.
LEMMA RestHasItsType ==
  ASSUME RestAtInit, file \in Contents, active \in Loadable \cup {NoContent}
  PROVE  TypeInv
<1>1. changes \in Nat /\ manuals \in Nat
  BY SMT DEF RestAtInit
<1> QED
  BY <1>1, Zenon DEF RestAtInit, Phases, TypeInv, TypeOK, ReadsDone

\* Every step keeps the types, with what makes them inductive.
LEMMA TypeInvStep == TypeInv /\ [Next]_vars => TypeInv'
<1> USE LoadableAssumption
<1> SUFFICES ASSUME TypeInv, [Next]_vars PROVE TypeInv'
  OBVIOUS
<1> USE DEF TypeInv, TypeOK, ReadsDone
<1>1. ASSUME NEW c \in Contents, NEW save \in Saves, Change(c, save) PROVE TypeInv'
  BY <1>1 DEF Change
<1>2. CASE Touch
  BY <1>2 DEF Touch
<1>3. CASE CooldownEnds
  BY <1>3 DEF CooldownEnds
<1>4. CASE CreateWatcher
  BY <1>4 DEF CreateWatcher, Phases
<1>5. CASE StartObserver
  BY <1>5 DEF StartObserver, Phases
<1>6. CASE OnModified
  BY <1>6 DEF OnModified
<1>7. CASE ReadHash
  BY <1>7 DEF ReadHash
<1>8. CASE Load
  BY <1>8 DEF Load
<1>9. CASE Install
  BY <1>9 DEF Install
<1>10. CASE UpdateState
  BY <1>10 DEF UpdateState
<1>11. CASE ManualLoad
  BY <1>11 DEF ManualLoad
<1>12. CASE ManualInstall
  BY <1>12 DEF ManualInstall
<1>13. CASE UNCHANGED vars
  BY <1>13 DEF vars
<1>14. CASE ObserverFails
  BY <1>14 DEF ObserverFails, Phases
<1>15. CASE StopObserver
  BY <1>15 DEF StopObserver, Phases
<1>16. CASE JoinEnds
  BY <1>16 DEF JoinEnds, Phases
<1> QED
  BY <1>1, <1>2, <1>3, <1>4, <1>5, <1>6, <1>7, <1>8, <1>9, <1>10, <1>11, <1>12, <1>13,
     <1>14, <1>15, <1>16 DEF Next

\* The variables of the watcher, the manual reload and the file keep their types.
THEOREM TypeCorrect == Spec => []TypeOK
<1>1. Init => TypeInv
  BY LoadableAssumption, RestHasItsType DEF Init
<1>2. TypeInv => TypeOK
  BY DEF TypeInv
<1> QED
  BY <1>1, <1>2, TypeInvStep, PTL DEF Spec

-----------------------------------------------------------------------------
(* The hash remembered is that of the configuration in force.              *)

\* Before the watcher watches, a careful history has not touched the file.
BeforeWatching ==
  phase \in {"loaded", "baseline"} =>
    /\ file = active /\ file \in Loadable
    /\ wpc = "idle" /\ mpc = "idle" /\ ~notified
    /\ phase = "baseline" => lastHash = file

\* Where the two reads of one event stand: the file has not changed between.
ReadsAgree ==
  /\ wpc \in {"idle", "hash", "load", "install"} => lastHash = active
  /\ wpc \in {"load", "install", "update"} => currentHash = file
  /\ wpc = "install" => newConfig = file
  /\ wpc = "update" => active = file

\* A watcher at rest with no event waiting has seen the file.
NothingUnseen ==
  /\ (wpc = "idle" /\ ~notified /\ file \in Loadable) => lastHash = file
  /\ cooling => lastHash = file /\ wpc = "idle"

\* A manual reload under way installs what is in force already.
ManualIsRedundant ==
  mpc = "install" =>
    manualConfig = file /\ lastHash = file /\ active = file /\ wpc \in {"idle", "hash"}

CarefulInv ==
  careful =>
    /\ BeforeWatching
    /\ phase = "watching" => ReadsAgree /\ NothingUnseen /\ ManualIsRedundant

\* A careful history goes on as CarefulInv says.
LEMMA CarefulInvStep == TypeInv /\ CarefulInv /\ [Next]_vars => CarefulInv'
<1> SUFFICES ASSUME TypeInv, CarefulInv, [Next]_vars, careful' PROVE CarefulInv'
  BY DEF CarefulInv
<1>0. careful
  BY DEF Next, Change, Touch, CooldownEnds, CreateWatcher, StartObserver,
         ObserverFails, StopObserver, JoinEnds, OnModified, ReadHash, Load, Install, UpdateState, ManualLoad, ManualInstall, vars, TypeInv, TypeOK
<1> USE <1>0 DEF TypeInv, TypeOK, CarefulInv, BeforeWatching, ReadsAgree, NothingUnseen,
                 ManualIsRedundant
<1>1. ASSUME NEW c \in Contents, NEW save \in Saves, Change(c, save) PROVE CarefulInv'
  BY <1>1 DEF Change, CarefulNow
<1>2. CASE Touch
  BY <1>2 DEF Touch
<1>3. CASE CooldownEnds
  BY <1>3 DEF CooldownEnds
<1>4. CASE CreateWatcher
  BY <1>4 DEF CreateWatcher
<1>5. CASE StartObserver
  BY <1>5 DEF StartObserver
<1>6. CASE OnModified
  BY <1>6 DEF OnModified
<1>7. CASE ReadHash
  BY <1>7 DEF ReadHash
<1>8. CASE Load
  BY <1>8 DEF Load
<1>9. CASE Install
  BY <1>9 DEF Install
<1>10. CASE UpdateState
  BY <1>10 DEF UpdateState
<1>11. CASE ManualLoad
  BY <1>11 DEF ManualLoad
<1>12. CASE ManualInstall
  BY <1>12 DEF ManualInstall
<1>13. CASE UNCHANGED vars
  BY <1>13 DEF vars
<1>14. CASE ObserverFails
  BY <1>14 DEF ObserverFails
<1>15. CASE StopObserver
  BY <1>15 DEF StopObserver
<1>16. CASE JoinEnds
  BY <1>16 DEF JoinEnds
<1> QED
  BY <1>1, <1>2, <1>3, <1>4, <1>5, <1>6, <1>7, <1>8, <1>9, <1>10, <1>11, <1>12, <1>13,
     <1>14, <1>15, <1>16 DEF Next

\* While the file changes only with the watcher at rest, the hash it remembers
\* is that of the configuration in force: no later change back to an earlier
\* content is taken for one already loaded.
THEOREM HashAlwaysOfActive == Spec => []HashIsOfActive
<1>1. Init => TypeInv /\ CarefulInv
  BY LoadableAssumption, RestHasItsType DEF Init, RestAtInit, CarefulInv, BeforeWatching
<1>2. CarefulInv => HashIsOfActive
  BY DEF CarefulInv, ReadsAgree, HashIsOfActive
<1> QED
  BY <1>1, <1>2, TypeInvStep, CarefulInvStep, PTL DEF Spec

\* A watcher at rest with no event waiting has nothing left to do: the list in
\* force is that of the file (acl_reload.py:50-88).
SettledIsInForce ==
  (careful /\ phase = "watching" /\ wpc = "idle" /\ ~notified) => InForce

\* While changes are careful the file differs from the list in force only as
\* long as an event or a reload is on its way: the safety half of
\* CarefulChangesTakeEffect.
THEOREM SettledAlwaysInForce == Spec => []SettledIsInForce
<1>1. Init => TypeInv /\ CarefulInv
  BY LoadableAssumption, RestHasItsType DEF Init, RestAtInit, CarefulInv, BeforeWatching
<1>2. CarefulInv => SettledIsInForce
  BY DEF CarefulInv, ReadsAgree, NothingUnseen, SettledIsInForce, InForce
<1> QED
  BY <1>1, <1>2, TypeInvStep, CarefulInvStep, PTL DEF Spec

=============================================================================
