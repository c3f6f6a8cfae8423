# ace-acl-bbmd in TLA+

`ace-acl-bbmd` is a BACnet/IP broadcast management device (BBMD) that filters what
it receives through an access control list. The list is a file; it can be replaced
while the device runs. This directory models the decision the list takes on a
packet, the way a packet goes through the device while the list is being replaced,
the way from the file to the list, what happens to a packet after the decision, and
the life of the process from its command line to its end. Paths below are relative to the repository;
`bbmd.py`, `acl_engine.py`, ... are in `src/ace_acl_bbmd/`.

## 1. The system

| Part | State | Operations | Talks to |
|---|---|---|---|
| Rule language, `models/acl.py` | none | `matches_*`, `get_sorted_rules`, `find_matching_rule`, `is_cut_through_eligible` | called by the engine |
| ACL engine, `acl_engine.py` | `config`, `_rules_by_name`, `_rust_engine` | `check_packet`, `get_cut_through_decision`, `update_config` | native engine, clock |
| Native engine, `rust/src` | its sorted rules | `new`, `check_packet` (and `check`, `check_batch`, unused by the BBMD) | packet inspection |
| BBMD, `bbmd.py` | `acl_config`, `_cut_through_cache`, its cleanup timer, BDT and FDT (inherited) | `confirmation`, `_forward_broadcast`, `update_acl_config`, `_cleanup_cache` | engine, metrics, bacpypes3 |
| Application, `application.py` | `acl_config`, link layers | `from_object_list`, `add_object`, `update_acl_config` | BBMD |
| File watcher, `acl_reload.py` | `_last_hash`, `_last_reload`, observer | `on_modified`, `start_watching`, `stop_watching`, `reload_acl_manual` | the file, the application |
| Metrics, `models/metrics.py` | counters, device tracker, Prometheus registry | `record_packet`, `record_bbmd_forward`, `get_snapshot`, `reset`, the HTTP and export threads | called by the BBMD and the reporter |
| Runner, `__main__.py` | `running`, the application, the reporter's task | `async_main`, `start`, `stop`, the signal handler, `_metrics_reporter` | all of them |
| Loader, `config.py` | none | `load_config`, `load_acl_config`, `save_config`, `create_default_config`, `validate_config_file` | the files |

Two kinds of execution meet. Packets are handled by tasks of one asyncio event loop:
a task runs alone from one `await` to the next. The file observer is a thread of
watchdog: `on_modified` and everything it calls, down to `_cut_through_cache.clear()`,
may fall between any two steps of a task. There is no lock between the two. A third
caller, `reload_acl_manual`, is a coroutine without an `await` and so runs on the
loop in one piece.

What is hard about it, and what makes each part correct:

* *The decision.* Two implementations of one language must agree; windows across
  midnight and rules of equal priority are where they could slip; cut-through answers
  the question "would the rules pass this?" without asking the rules.
* *The packet path during a reload.* Five copies of the configuration are replaced
  one by one (application, layer, engine, name table, native engine), and a cache of
  derived answers is cleared at the end. A packet between reloads must be judged as by
  one configuration; a packet during a reload should be; what a reload leaves behind
  must be coherent, and staleness must end.
* *From the file to the list.* An event is dropped in the cooldown; the file is read
  twice per event; the baseline is taken after the first load. The list in force
  should be the file's in the end.
* *Forwarding.* A loop over the foreign device table awaits a send per entry, and the
  table changes meanwhile; a send may raise. Who is sent a broadcast, how often, and
  what is counted must not depend on that more than it has to.
* *Metrics.* Four counters are incremented one after the other while a thread reads
  them; a gauge is set from a table that ages and is cleaned by somebody else. Readers
  may lag, but the figures must not drift apart.
* *Life cycle.* A signal comes at any time, also before the loop it is to end; `stop()`
  runs once per signal and once more at the end; the observer outlives the join that
  waits for it; a timer arms itself again. However the process ends, nothing may stay
  open, and it must end.
* *Configuration files.* A list that does not load must not turn into no list; what is
  saved must load again.

`PROJECT.json` lists every hazard at its line with the properties that cover it.

## 2. Modules

| Module | What it is |
|---|---|
| `AclRules` | The rule language and both engines' decisions as pure operators. |
| `AclDecision` | One packet against one configuration at one clock reading; the properties of the operators, with the sort and the scan of the code as reference definitions. |
| `AclPolicy` | The promise: one policy in force, replaced in one step, every packet judged in one step. |
| `AclBbmd` | The packet path and the reload, one action per read or write of shared state. Implements `AclPolicy` when reloads run on the loop. |
| `AclFileWatcher` | The file, its events, `on_modified`, `start_watching`, `stop_watching`, the manual reload. |
| `ConfigLoader` | From a file to a validated configuration and back, as pure operators. |
| `Runner` | The life of the process: `async_main`, `start`, `stop`, signals, the reporter. Extends `AclFileWatcher` and `ConfigLoader` and runs them together. |
| `Metrics` | The collector: `record_packet` increment by increment, the device tracker, its readers. |
| `BroadcastForward` | `_forward_broadcast` over the two tables, one awaited send after another. |
| `Traffic` | `confirmation` from the count to the delivery: `Metrics` and `BroadcastForward` composed. |
| `MCAclDecision`, `MCAclBbmd`, `MCRunner`, `MCTraffic` | Bounded inputs for TLC. |
| `AclDecisionProofs`, `AclBbmdProofs`, `AclBbmdReloadProofs`, `AclPolicyProofs`, `AclFileWatcherProofs`, `RunnerProofs`, `TrafficProofs`, `ForwardProofs` | The theorems. |

### AclRules and AclDecision

A network is the set of its addresses, a device id or message type an element of a
small set. The texts `TimeRange` admits for a time of day (two digits, a colon, two
digits, `24:00` and `09:75` too) are compared as strings; they are numbered in that order,
and a text is its number, its *mark*. A clock reading is a record of day and mark. A window
may begin or end at a mark no clock shows, such as `24:00`. A rule is its tuple of fields.
The Python predicates (`Matches...`) and the native ones (`Rs...`) are separate
where they differ in the source: the native engine tests the destination device also
on a broadcast and reads an empty type list as "all". Both sort stably by priority, so
`SortsBefore` orders the indices and `FirstOf` picks the first; that this is what
sorting and scanning gives is itself checked (`FirstMatchIsTheScan`). A native match
is followed by a window check through a table keyed by rule name
(`NamedRuleIsOutside`), in which the last rule of a name wins.

### AclBbmd

| Variables | Code |
|---|---|
| `appConfig`, `layerConfig`, `engineConfig` | `acl_config` of application and layer, `config` of the engine |
| `rulesByName`, `rustEngine` | `_rules_by_name`, `_rust_engine`, each as the configuration it was built from |
| `cache` | `_cut_through_cache`, `NoEntry` for an absent key |
| `loop` | who runs on the event loop between two awaits |
| `upc`, `unew`, `ubuilt` | a call of `update_acl_config`: its place, its argument, the value it is about to assign |
| `pc`, `packet`, `eligible`, `verdict`, `clock` | a call of `confirmation` and its local variables |
| `metrics` | `_packet_counts` |
| `installed`, `lone` | history: what the last reload to end installed (`NoConfig` if another overlapped it), and the reload under way that no other has overlapped so far |
| `seen`, `disturbed` | history: the configurations in force while a task decided, whether a reload overlapped it |

A reload is `UpdateApp`, `UpdateLayer`, `UpdateEngine`, `ReadNames`, `SetNames`,
`BuildRust`, `SetRust`, `ClearCache`, in this order; the two native steps are left out
where the extension is not installed. A right-hand side that is computed from shared
state before it is assigned is two steps. A packet is `Start`, then for the two
broadcast types `CacheLookup`, `CacheHit` or `CacheKeyError`, or `ComputeEligible` and
`CacheStore`; then `CutThrough` and `DeliverLocally`, or `EngineTest`, `RustMatch` (or
`RustGone`), `TimeCheck`, or `PyMatch`, then `TakeDefault` where no rule decides, and
`Record`, `Complete`. The second look at `acl_config` in `_check_acl` is for logging
only and left out.

An observer's reload and a manual one may overlap, and then no configuration can be said
to be in force: the copies may come from both. `Settled` (no reload is active and the last
to end ran alone) is where the promises about what a reload leaves behind begin again.

`Configs` is any set of configurations: the file watcher restricts what the observer
installs, so every reload it can cause is among those of `AclBbmd`.

### AclFileWatcher

`file`, `active` (the content the list in force came from), `lastHash`, `cooling`, the
waiting event `notified`, and the local variables of `on_modified` and
`reload_acl_manual`. `ReadHash` and `Load` are the two reads of the file. The editor
(`Change`) is external: it saves in place, which reports a modification, possibly with
a half-done content first, or by renaming, which reports none that `on_modified`
accepts. watchdog drops an event equal to the one still waiting, hence one Boolean.
The MD5 of a content stands for the content (no collisions).

`phase` follows the manager: `CreateWatcher` and `StartObserver` (or `ObserverFails`) are
`start_watching`, `StopObserver` and `JoinEnds` are `stop_watching`. An observer told to
stop ends after the event it handles, and one at rest may already hold the waiting
event; the join gives up after two seconds, so `JoinEnds` does not ask whether the
thread has ended. `careful` is history: every change so far came with the watcher
watching, cool and not past its first read, no manual reload met pending work, and no
stop came before the work was done.

### ConfigLoader

A file is whether it exists, its suffix, whether it parses, and the document in it; a
document is a mapping from keys to values. A pydantic model is a table of its fields: the
type validation gives, the values it accepts, the default. The fields the program
steers by and one of each kind are kept; the two validators for addresses are sets of
accepted texts. `Input` is the lookup by alias, then by name. `LoadConfig` validates the
nested list first, `LoadAclConfig` a list of its own; `SaveConfig` converts what YAML
cannot write and saves fields by name. Every exception is `Refused`. `Objects`,
`DocumentsOf` and `SavedFiles` say what validation and saving can give; they are there for
the assumption that none of it is `None` or an exception.

### Runner

| Variables | Code |
|---|---|
| `args`, `exitCode` | the command line, the process's exit code |
| `main`, `config` | how far `async_main()` and `start()` have come, the configuration loaded |
| `app`, `policy`, `layer` | `runner.app`; where its rules came from; its link layer, open or closed |
| `timer`, `handle` | the pending cleanup timer, `layer._cache_cleanup_handle` |
| `fdtClock` | whether `layer._fdt_clock_handle`, the clock of the foreign device table, is pending |
| `running`, `reporter` | `runner.running`, the `_metrics_reporter` task |
| `signals`, `stopTasks`, `stopper` | signals handled, `stop()` tasks not begun, whose `stop()` runs |
| `late` | history: reloads installed after `stop_watching()` had returned |
| those of `AclFileWatcher` | the watcher, beside the process |

`LoadFails`, `ValidateOnly` and `LoadConfiguration` are the branches of `async_main` up
to the runner, `CreateRunner` (or `LoggingFails`, for a log format that `logging` refuses
or a log file that does not open) the runner, `BuildApplication` (or `BuildFails`)
`_build_objects` and the application: the values must be ones bacpypes3 takes
(`ValuesFit`: the identifier's width, the addresses) and the names must differ
(`ObjectsFit`). Which formats, identifiers and addresses are taken are constants of the
model. `StartWatching`, `BeginServing` and
`LeaveLoop` the rest of `start`. `StopBegin`, `StopWatching` (or `JoinRaises`) and
`StopEnd` are `stop`, called by a task that a `Signal` made or by the finally clause.
Between `start()`'s beginning and its loop there is no `await`, and none in `stop()`,
so other tasks step only where `LoopFree` holds; the signal handler and the observer
thread step anywhere. The observer's step `Install` becomes `Reload` here.

### Metrics, BroadcastForward and Traffic

| Variables | Code |
|---|---|
| `packetsTotal`, `bvllTotal`, `packetCounts` | the two Prometheus counters and `_packet_counts`, by action |
| `tracked`, `age`, `activeDevices` | `device_tracker.devices`, the time since each was seen, the gauge |
| `rpc`, `recorded` | the place in `record_packet` and its arguments |
| `scraping`, `scraped` | a scrape under way and what it has read |
| `bbmdFDT`, `place`, `target` | the table, the index a forward has come to, the send it awaits |
| `pc`, `packet`, `forwardsTotal`, `delivered` | a call of `confirmation`, the forward counter, the local deliveries |
| `sent`, `joined` | history: sends per address, and entries a device has had, since the forward began |
| `steady`, `removals` | history: devices registered all along, entries removed meanwhile |

`record_packet` is `IncPackets`, `IncBvll`, `UpdateDevice`, `SetGauge`, `IncLegacy`, each
one action because a scrape (`ScrapePackets`, `ScrapeBvll`) may fall between two of
them; no other task may (`LoopFree`). A tick makes every device a tick older.
`BeginForward`, `SendReturns` and `SendFails` are the two loops of
`_forward_broadcast`, `Following` their tests: an original broadcast skips the BBMD's own
entry, a distributed one goes to the local network by it and never back to its source.
Registration and removal are bacpypes3's (`RegisterDevice`, `RemoveDevice`, external): an
append, and a deletion in place that moves the entries behind it under the loop's index.

`Traffic` begins where the decision of `AclBbmd` ends. A cut-through packet is counted
without a device, forwarded, delivered; a checked one is counted and handed on or dropped,
with its device if the Python engine inspected it: what the native path returns names none
(`DeviceOf`). `AclBbmd`'s `CutThrough`, `DeliverLocally`, `Record` and `Complete`
are the same steps without their inside.

## 3. Runs

| Run | Question | Result |
|---|---|---|
| `acl_decision` | Do scan and choice of the first rule, the two engines (on comparable configurations), the windows, rules that sleep and cut-through without refusing rules behave as stated? | holds |
| `engines_always_agree` | Are the two engines the same on every configuration? | violated |
| `cut_through_bypass` | Does cut-through pass only what the rules pass? | violated |
| `path_both` | Reloads by the observer and on the loop at once, native engine: the next reload that runs alone makes all copies agree, undisturbed decisions, failures and stale entries only from an overlap, counting. | holds |
| `path_python` | Reloads by the observer without the native engine: undisturbed decisions; staleness ends. | holds |
| `path_manual` | Reloads on the loop: no mixture, no failure, no stale entry, no torn decision, and the whole path implements `AclPolicy`. | holds |
| `cache_stale_after_reload` | May an observer's reload leave a stale cache entry? | violated |
| `torn_decision` | May a verdict mix two configurations? | violated |
| `file_watcher` | Careful changes take effect; a watcher that keeps getting events catches up; its hash is that of the list in force. | holds |
| `change_missed` | Does every change of the watched file take effect? | violated |
| `runner` | The life of the process: nothing left open, no allow-all by accident, a reporter while it serves, one late reload at most, no end but by a signal once it serves, saved files load again, a signal ends it. | holds |
| `traffic` | Two packets through count, forward and delivery with a changing table, failing sends, a clock, a reporter and a scraping thread. | holds |

The five violated runs are findings; each quotes the sentence of the repository it
disagrees with:

* *Two engines.* `rust/src/engine.rs:139` promises the semantics of the Python engine.
  A rule with a destination device, an empty list of types, two rules of one name with
  different windows, or a rule named `default` makes the verdicts differ. The theorem
  `EnginesAgreeOnComparable` says that, given what inspection finds in a packet, nothing
  else does. The two inspections themselves are not compared (section 5).
* *Cut-through.* `models/acl.py:206-213` looks for any allow-all rule; it asks neither
  whether a refusing rule precedes it nor whether its window is open. The rules are
  said to be evaluated by priority (`README.md:22`) and windows to be respected
  (`README.md:13`).
* *Stale cache.* `bbmd.py:208-211` may store, after the clear of `bbmd.py:388`, what it
  computed before it. The entry lives until the cleanup, at most 300 s.
* *Torn decision.* `README_ACL_RELOAD.md:91` calls the updates atomic; `acl_engine.py`
  reads engine, table and default action separately.
* *Missed change.* An event in the two seconds after a reload is dropped and nothing
  looks at the file again (`acl_reload.py:60`).

### Bounds, and why they are enough

* `AclDecision` (257,145 states): two addresses, one device, two types; eight marks, of
  which the clock shows the first six, all of them on one day and one on another. The
  windows run within the day (1 to 3), overnight (4 to 0), up to a mark no clock shows (3 to
  7) and over one mark on one day (2 to 2), so that there is a reading at, just before and
  just after every end the clock shows. Lists of up to two rules that
  differ from a plain rule in one field each, with all actions, priorities and names
  that matter. Two rules are the least with an order, a shared name and a shadowed
  allow-all rule. The theorems lift every property of the run to any number
  of rules. One packet is received per behaviour, so the run does not check deadlock.
* `AclBbmd`: two tasks, one source. The second task is what finds the cache entry the
  first one wrote. Three configurations: `Windowed` and `Refusing` are chosen so that a
  mixture of them gives a verdict neither gives; `Open` makes the source eligible for
  cut-through and cannot be built natively, so that `_rust_engine` becomes `None`.
  `path_both` takes `Windowed` and `Open` only.
  A broadcast and a registration take every branch of `confirmation`. `MaxUpdates` is
  3 for `path_both` (two reloads that overlap and one that runs alone) and for
  `path_manual`, 1 where liveness is checked. The tasks of `path_both` (4,272,129 states)
  are symmetric: they differ in nothing but their packets, and no liveness is checked there.
  Two clock readings: inside and outside the window.
* `AclFileWatcher`: contents `old`, `new` and one that does not load; four changes, one
  manual reload, any number of touches. Four changes are enough for a half-done save, a
  change between the two reads and a change back. The runs `file_watcher` and
  `change_missed` do not check deadlock: with the watcher stopped and the changes used
  up, nothing is left to happen.
* `Runner` (140,696 states): five lists, of which two load; twelve documents with and
  without a list, with an alias, a log file, a wrong name, a value the loader refuses, and
  values it takes that are refused later (a log format without a field, a vendor identifier
  of -1 and of 65536, an address the objects do not take); with `--acl` and `--validate`. Two signals, so that one `stop()` follows another and one may come while
  `start()` is on its way; two changes, so that one reload is under way and another
  event waits when the observer is told to stop. The process ends, so the run does not
  check deadlock.
* `Traffic` (864,220 states): two tasks, so that one forward meets the steps of another
  packet; one peer and the BBMD's own entry; two foreign devices and two changes of
  their table, so that one can leave and register again under a loop; two BACnet devices
  and a timeout of one tick. One packet of each kind: original and from
  a peer, distributed by a foreign device, checked and refused, checked and passed by either
  engine.

### Fairness

`AclBbmd`: a reload that began goes on (the observer thread and the loop are
scheduled), a task the loop runs goes on and an awaited step completes, the cleanup
timer fires when the loop is free. `WF` is enough: nothing disables these steps for
good. Nobody has to reload, and no packet has to arrive: `UpdateApp` and `Start` are
not fair. `Runner`: `WF(Main)`, since the loop's thread goes on wherever its code waits
for nobody; a `stop()` task that was made is run; nothing is assumed of signals, the
reporter, the timer, the observer or the editor. `Traffic`: a task that keeps the loop
goes on (`WF` of `Record` and `AfterRecord`), and the reporter, which waits on the loop
that others use in turn, gets it again and again (`SF(Report)`). That is a reporter whose
process has metrics enabled and does not stop; no packet has to come, no send has to
return, no tick has to pass. `AclFileWatcher`: time passes, `start()` goes on to `start_watching()`, the
observer thread takes and finishes its events. Nobody has to change or touch the file;
`EventsCatchUp` assumes recurring events in its own premise.

## 4. Proofs

Checked by TLAPS for every value of the constants.

* `TypeCorrect` (`Spec => []TypeOK`). Strengthened by `NamesBuilt`: what `ReadNames`
  hands to `SetNames` is a configuration and never a missing engine.
* `CoherentAlways` (`CoherentWhenQuiet`), for any number of reloaders in any interleaving.
  `LoneInv` says that while a reload is the lone one no other is active; the invariant
  `ReloadProgress(lone)` says, for each of its places, which copies have been replaced
  already, whatever mixture it found. A reload that begins while another is active makes
  neither of them lone. Without the native extension the two native steps are skipped, so
  `NoNativeEngine` says that there is no engine to be left over.
* `CoherentBetweenTurns` (`NoMixtureRemains`), under `ReloadsTakeTurns`: there is one
  reloader, or all of them are coroutines on the loop. Then every reload runs alone
  (`TurnsInv`), and whenever none is active the copies agree.
* `UndisturbedAlways` and `FailuresNeedReload`, for any reloaders too. `LoopInv` says
  that a deciding task owns the loop, so neither another task nor the cleanup runs
  between its steps. `DecisionProgress(t)` says what an undisturbed task knows at each
  place: no reload is active, the configuration it started under, if there was one, is the
  one installed, the entry or the engine it has tested for is still there, and the verdict
  so far is the one `Decide` leads to. The theorems read off its cases for `record` and
  `failed`. An undisturbed task that began after an overlap fails no more than another;
  `UndisturbedDecision` says nothing of its verdict.
* `EveryPacketCounted` (`CountedAsTreated`), for finitely many tasks and with no
  hypothesis on reloads: a step either leaves the groups of counted stages alone or moves
  one task into one of them and counts it there.
* `StaleNeedsOverlap` (`StaleOnlyFromOverlap`), for any reloaders. `CacheInv` adds
  that what an undisturbed task is about to store is the answer of the configuration
  installed.
* `NoTaskEverFails`, `DecisionsAreAtomic` and `CacheIsFresh`, under `ReloadsOnLoop`.
  `CalmInv` says that then no task is ever disturbed, since a reload and a decision both
  need the loop; the three follow from the theorems above.
* `PathImplementsPolicy` (`Spec => ImplementsPolicy`), under `ReloadsOnLoop`. A step of
  `UpdateEngine` is the policy's `Install`; the step that chooses a packet's path (a hit or
  a store of TRUE, or the step into `record`) is its `Judge`; every other step is a stutter.
  `PathInv` says that a packet in the engine is one cut-through does not concern, so that
  the verdict of the engine is the judgement of the policy.
* `TypeCorrect` of `AclFileWatcherProofs` (`TypeOK`). `ReadsDone`: a reload that is about to
  install has loaded something.
* `HashAlwaysOfActive` (`HashIsOfActive`). `CarefulInv` says that in a careful history
  the two reads of an event see the same content, that a watcher at rest without a
  waiting event has seen the file, and that a manual reload installs what is in force.
  `SettledAlwaysInForce` reads off it that then the list of the file is in force: the safety
  half of `CarefulChangesTakeEffect`.
* `ScanFindsFirst` (`FirstMatchIsTheScan`), for lists of any length, from two theorems.
  `FirstMatchOfAnySort`: where the scan of a stably sorted list ends, there is the rule
  `FindMatchingRule` chooses; `IsStableSort` is what Python's `sorted` and Rust's
  `sort_by_key` promise. `SortIsStable`: the reference sort, which inserts each enabled rule
  behind those of its own priority, is such a sort. Its recursion is the function
  `SortedUpTo`; that the function exists, and that each of its values is sorted
  (`SortExists`, `EveryPrefixIsSorted`), is shown by a least counterexample, because the
  induction rule itself takes an operator as its parameter. `InsertKeepsStable` is the step.
* `SleepersDoNotAct` (`SleepingRulesDoNotAct`), for any number of rules and windows. Where
  the first match is active it is also the first of the active ones (`FirstOfPart`); where no
  match is active the default decides either way; the rest is what `SleeperHidesRule` leaves
  out. `EnginesAgreeOnComparable` carries it over to the native path.
* `EnginesAgreeOnComparable`, `EnginesAgreeAlways` and `CutThroughIsSafe`, for
  configurations of any size. `FirstOfExists` derives from the well-foundedness of the
  naturals that a non-empty set of matching rules has a first one.
* `WindowsAreArcs` (`WindowIsAnArc`), for any number of marks and every window between two
  of them, ends no clock shows included: `AheadWithoutModulus` removes the modulus.
* `NothingIsLeftOpen` (`NothingLeftOpen`). `OpenInv`: the handle is that of the pending
  timer, either timer belongs to an open layer, a layer to an application that was built, and
  whoever stops has closed the layer first. The last matters for `JoinRaises`, which ends
  the process from inside `stop()`.
* `OneReloadIsLate` (`OneLateReload`). `LateInv`: an observer told to stop has one event
  left, or handles its last one, never both; after a late reload it has neither.
* `RunnerTypeCorrect` (`RunnerTypeOK`). `StepsOfTheWatcher`: every step of the process but
  `LoadConfiguration` is a step of `AclFileWatcher` or leaves its variables alone, so that
  the lemmas about the watcher carry over. `SignalsBounded` bounds the `stop()` tasks.
* `EndsWhenTold` (`EndsOnlyWhenTold`). `EndInv`: a start that fails has made no reporter, an
  observer that did not start belongs to such a start, and whatever clears `running` or
  leaves the loop follows a signal. Nothing is assumed of why a start fails.
* `AllowAllOnlyIfUnconfigured` and `SavedConfigsLoadAgain` (`AllowAllOnlyUnconfigured`,
  `SavedConfigLoadsAgain`), from one invariant. `ConfigInv`: what has been loaded is a
  configuration (`IsConfig`), without a list only if none was named. `LoadedIsAConfig`
  shows it of the loader for any document and any list. `SavedConfigLoads` is the round
  trip: all types of the two tables can be converted, the key `device_id` is no field, so a
  saved document is read by name, and each value is accepted again.
* `ReporterStaysAlive` (`ReporterAliveWhileServing`), which is inductive as it stands.
* `NoSignalForgotten` (`SignalStands`), the safety half of `SignalEndsProcess`: until the
  loop begins every signal has its `stop()` task before it, and in the loop a `stop()` that
  has begun has cleared `running`.
* `HashOfActiveInProcess` (`HashIsOfActive` under `RunnerSpec`). `WatchedInv`: without `--acl`
  nobody ever makes a watcher; with it `CarefulInv` holds from the first list to the end.
* `ScrapesLagByOne` and `GaugeCoversRecorded` (`ScrapeLagsByOne`, `GaugeCoversTheRecorded`).
  Both are invariants of the collector alone, and `StepsOfTheCollector` says that a step of
  `Traffic` is a step of the collector or leaves it as it is. `LagInv`: the counters differ
  only between the two increments of one packet, and what a scrape has read so far is not
  ahead of them. `GaugeInv`: who was recorded within the timeout is in the table, which is
  why neither cleaning it nor a tick makes the gauge too low. Packets that are recorded
  without a device are outside both (section 5).
* `TypeCorrect` of `TrafficProofs` (`TypeOK`), with the tables as sequences without
  repetitions. `WhereTheLoopsGo` is what the other proofs use of `Following`: the next
  place is the least that qualifies, and nothing that qualifies lies between.
* `CountersAgree` (`CountersAgreeAtRest`). `CountersInv` relates each counter at each place
  of `record_packet` to the set of tasks whose packet was counted. That those sets are
  finite is part of it: only finitely many packets have arrived.
* `ForwardsAreCountedWhenSent` (`ForwardsCountedWhenSent`). The sends to a peer are a set of
  pairs (`SendsTo`); a step adds one pair and one to the counter, or neither.
* `ForwardsReachEveryone` (`ForwardReachesEveryone`), the one hard invariant of the
  forwarding loops. `ForwardInv` says of a forwarding task: the sends to a device, made,
  awaited and still to come from its present entry, are no more than the entries it has had
  (`OnceInv`); every steady device behind the loop's index is unsent and still in the table;
  and the steady devices the loop has passed over unsent (`Missed`, `Passed`) are at
  most as many as the entries deleted. Deleting an entry at or before the index moves one
  device under it, so both sides grow by one; deleting behind it moves none. For the peers
  it says that exactly those up to the index have been sent to, and of a distributed
  broadcast that its source never was.

`ReloadsTakeTurns` and `ReloadsOnLoop` are hypotheses of the theorems that name them and
not assumptions of the model. With the observer and a manual reload at the same time
`NoMixtureRemains` is false (as an invariant of `path_both` it is violated: the native engine
of one list stays with the configuration of the other until the next reload), and with the
observer alone the three theorems about reloads on the loop are false (the runs
`torn_decision` and `cache_stale_after_reload`).

The assumptions on the constants. `ConfigsAssumption` says that the rules are a finite list
and priorities are natural numbers (`models/acl.py:61`). `MarksAssumption`: a window runs
between two of the marks, and a clock shows one of them.
`LoadableIsWhatLoads` ties the watcher's set of loadable contents to the loader. The
loader's own: an object, a document or a file that was saved is not `None`, a scalar or an
exception (`MappingsAreNotNull`), these three differ, and the address and the texts of the
default configuration are accepted (the provers know nothing of `STRING`, so the texts are
assumed to be strings). Nothing is assumed of what `logging` and bacpypes3 accept
(`LogFormats`, `VendorIdentifiers`, `PortAddresses`). `TablesAssumption`: no address is twice in a table, since `add_peer()`
and `register_foreign_device()` of bacpypes3 look for it first. `AddressesAssumption`: no
peer is also a foreign device and no station has the broadcast address; `sent` counts by
address, and would count two sends to a station in both tables. `PacketsAssumption`: what
is cut through counts as allowed, and a packet's device is one of the devices or none. The
other assumptions say that the null values are not ordinary ones, that reloaders on the
loop are reloaders, that some content of the file loads, that there is a clock reading,
that the devices are finitely many, that the bound on signals is a number, and that a
timeout is at least one tick. TLC evaluates every one of them in the runs.

Only model-checked: the liveness properties (`StalenessEnds`, `CarefulChangesTakeEffect`,
`EventsCatchUp`, `SignalEndsProcess`, `SilentDevicesForgotten`), which need `ENABLED` of the
fair actions. Every other property of a passing run is stated by a theorem.

## 5. Not modelled

Not modelled:

* *Packet inspection.* Decoding of NPDU and APDU headers, which Python and Rust each do on
  their own; on the BBMD path the BVLL type overrides the type they find. What is found is a
  field of a packet in `AclDecision`, the same for both engines.
* *bacpypes3.* Sockets, codec, the base classes of the link layer, and the handling of
  registrations; the foreign device table is an external part of `BroadcastForward`.
* *Parts of the collector no caller reaches.* `reset()`, a collector on a second
  registry, the histogram and the gauge of foreign devices that nothing updates; the
  Prometheus text format and the labels of the counters.
* *Parts of the loader and the reload manager without an effect.* `watch_config`, which
  only logs, and more than the one reload callback the runner registers.
* *Other ports.* `add_object` hands ports other than the BBMD port to its base class.
* *Benchmarks, examples, simulators.* They are tools around the program.

Met while modelling, and without a run of their own:

* `config/acl_rules.yaml:54`, `:70` and `:82` use message types the enumeration lacks, so the
  shipped list does not load and the command of `README_ACL_RELOAD.md:17` ends with code 1
  (`Shipped` in `MCRunner` is that list; `LoadFails` is what happens to it).
* The observer and `reload_acl_manual` share no lock: two reloads that overlap may end with
  the copies of two lists, and nothing repairs that before the next reload
  (`application.py:203-208`, section 4).
* A rule that matches outside its window ends the search: an active rule behind it is not
  tried and the default action decides (`acl_engine.py:229-232`, `:249-257`), although a rule
  is said to be active in its window only (`README.md:13`, `models/acl.py:86`).
  `SleepingRulesDoNotAct` leaves these cases out; without that premise TLC finds it violated.
* A window `18:00`-`24:00` passes the validator and does not reach 00:00, since texts are
  compared (`models/acl.py:49-50`, `acl_engine.py:270`).
* Some configurations load and are refused when the process starts: a log format without a
  field, a vendor identifier or an address bacpypes3 does not take, a device with the name of
  its port (`__main__.py:36-64`, `:82-85`). The process ends with code 1.
* The gauge of active devices understates what `README.md:319` and `models/metrics.py:165`
  promise: packets that are cut through and all packets judged by the native engine are
  recorded without a device (`bbmd.py:285-293`, `acl_engine.py:220-234`).
* A foreign device that leaves and registers again while a forward is under way may be sent
  the packet twice, once for each entry; and an original broadcast goes to every peer, the
  one it came from included (`bbmd.py:341-375`).
* Rules for application message types never match on the BBMD path, since the BVLL type
  always takes their place (`bbmd.py:160`).
* `save_config` truncates the file before it dumps (`config.py:293`).
* With metrics disabled the layer makes a collector whose device table nobody cleans
  (`bbmd.py:105`).

Possible extensions: what the deletion of an entry *behind* a loop's index can never cost,
as a sharper bound for `ForwardReachesEveryone`, and the safety halves of the remaining
liveness properties (above all that a stale cache entry always has a cleanup ahead of it),
in the way `NoSignalForgotten` is that of `SignalEndsProcess`.
