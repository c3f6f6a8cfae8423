------------------------------ MODULE AclBbmd ------------------------------
(***************************************************************************)
(* The packet path of ACLBBMD (bbmd.py, acl_engine.py) against runtime     *)
(* reloads of its configuration (application.py, acl_reload.py).           *)
(*                                                                         *)
(* Every datagram is handled by a task of the event loop.  A task owns the *)
(* loop from one await to the next, so two tasks never interleave in       *)
(* between; but the file observer is a thread, and its reload may fall     *)
(* between any two reads of shared state.  Each action is one such read or *)
(* write.                                                                  *)
(*                                                                         *)
(* The local variables of a handler (eligible, ubuilt) and the history of  *)
(* a decision (seen) are reset where their scope ends.                     *)
(***************************************************************************)
EXTENDS AclRules, FiniteSets

CONSTANTS
  Configs, Packets, Instants,
  Tasks,          \* the datagrams received, one task each
  Reloaders,      \* who calls update_acl_config()
  OnLoop,         \* the reloaders that run on the loop (reload_acl_manual)
  MaxUpdates,     \* bound on the number of reloads
  RustAvailable,  \* the native extension is installed
  Buildable,      \* the configurations the native engine accepts
  NoEngine, NoEntry, NoVerdict, NoConfig, Nobody

ASSUME InputsAssumption == Instants # {}

ASSUME OnLoopAssumption == OnLoop \subseteq Reloaders

ASSUME OwnersAssumption == Nobody \notin Tasks \cup Reloaders /\ Tasks \cap Reloaders = {}

ASSUME NullsAssumption ==
  NoEngine \notin Configs /\ NoConfig \notin Configs /\ NoEntry \notin BOOLEAN

VARIABLES
  appConfig,     \* app.acl_config
  layerConfig,   \* bbmd.acl_config
  engineConfig,  \* acl_engine.config
  rulesByName,   \* the configuration acl_engine._rules_by_name was built from
  rustEngine,    \* the configuration acl_engine._rust_engine was built from
  cache,         \* bbmd._cut_through_cache
  loop,          \* the task or reloader that owns the event loop
  upc, unew, ubuilt, updates,      \* the reloaders
  pc, packet, eligible, verdict,   \* the tasks
  clock,         \* the clock reading a task took
  metrics,
  installed,     \* history: what the last reload installed, if it ran alone
  lone,          \* history: the reloader no other reload has overlapped so far
  seen,          \* history: the configurations in force while a task decided
  disturbed      \* history: a reload ran while the task decided

configVars == <<appConfig, layerConfig, engineConfig, rulesByName, rustEngine>>
reloadVars == <<upc, unew, ubuilt, updates, installed, lone>>
taskVars   == <<pc, packet, eligible, verdict, clock, metrics, seen, disturbed>>
vars == <<configVars, cache, loop, reloadVars, taskVars>>

-----------------------------------------------------------------------------

\* RustACLEngine built from c, or None when that raises.
Build(c) == IF RustAvailable /\ c \in Buildable THEN c ELSE NoEngine

\* The whole of check_packet() on an engine that holds nothing but c.
Decide(c, p, now) ==
  IF Build(c) # NoEngine THEN RsCheckPacket(c, p, now) ELSE PyCheckPacket(c, p, now)

IsBroadcast(p) == p.bvll \in {"original_broadcast", "distribute_broadcast"}

IsRegistration(p) == p.bvll = "register_foreign_device"

Addrs == {p.src : p \in Packets}

EmptyCache == [a \in Addrs |-> NoEntry]

Quiet == \A r \in Reloaders : upc[r] = "idle"

\* No reload is active, and no other has overlapped the last one.
Settled == Quiet /\ installed # NoConfig

InForce == ({installed} \ {NoConfig}) \cup {unew[r] : r \in {x \in Reloaders : upc[x] # "idle"}}

DecidingStages ==
  {"lookup", "read", "compute", "store", "engine", "match", "timeCheck", "pyMatch", "default"}

Deciding(t) == pc[t] \in DecidingStages

ReloadStages == {"idle", "layer", "engine", "readNames", "setNames", "build", "setRust", "clear"}

AllowedStages == {"forwarding", "delivered", "processing", "passed"}

DeniedStages == {"refusing", "refused", "dropped"}

TaskStages ==
  DecidingStages \cup AllowedStages \cup DeniedStages
    \cup {"waiting", "cutThrough", "record", "failed"}

Counters == {"allow", "deny", "total"}

Init ==
  /\ appConfig \in Configs
  /\ layerConfig = appConfig /\ engineConfig = appConfig /\ rulesByName = appConfig
  /\ rustEngine = Build(appConfig)
  /\ installed = appConfig /\ lone = Nobody
  /\ cache = EmptyCache
  /\ loop = Nobody
  /\ upc = [r \in Reloaders |-> "idle"]
  /\ unew = [r \in Reloaders |-> appConfig]
  /\ ubuilt = [r \in Reloaders |-> NoEngine]
  /\ updates = 0
  /\ pc = [t \in Tasks |-> "waiting"]
  /\ packet \in [Tasks -> Packets]
  /\ eligible = [t \in Tasks |-> FALSE]
  /\ verdict = [t \in Tasks |-> NoVerdict]
  /\ clock = [t \in Tasks |-> CHOOSE now \in Instants : TRUE]
  /\ metrics = [action \in Counters |-> 0]
  /\ seen = [t \in Tasks |-> {}]
  /\ disturbed = [t \in Tasks |-> FALSE]

-----------------------------------------------------------------------------
(* A reload: ACLBBMDApplication.update_acl_config and what it calls.       *)

UGo(r, from, to) == upc[r] = from /\ upc' = [upc EXCEPT ![r] = to]

\* The application stores the configuration and calls the link layer.  The
\* observer thread starts whenever the file changes; a manual reload is a
\* coroutine without an await and keeps the loop until it returns.
UpdateApp(r, c) ==
  /\ updates < MaxUpdates
  /\ UGo(r, "idle", "layer")
  /\ IF r \in OnLoop THEN loop = Nobody /\ loop' = r ELSE UNCHANGED loop
  /\ appConfig' = c
  /\ unew' = [unew EXCEPT ![r] = c]
  /\ updates' = updates + 1
  /\ lone' = IF Quiet THEN r ELSE Nobody
  /\ seen' = [t \in Tasks |-> IF Deciding(t) THEN seen[t] \cup {c} ELSE seen[t]]
  /\ disturbed' = [t \in Tasks |-> disturbed[t] \/ Deciding(t)]
  /\ UNCHANGED <<layerConfig, engineConfig, rulesByName, rustEngine, cache,
                 ubuilt, installed, pc, packet, eligible, verdict, clock, metrics>>

UpdateLayer(r) ==
  /\ UGo(r, "layer", "engine")
  /\ layerConfig' = unew[r]
  /\ UNCHANGED <<appConfig, engineConfig, rulesByName, rustEngine, cache, loop,
                 unew, ubuilt, updates, installed, lone, taskVars>>

UpdateEngine(r) ==
  /\ UGo(r, "engine", "readNames")
  /\ engineConfig' = unew[r]
  /\ UNCHANGED <<appConfig, layerConfig, rulesByName, rustEngine, cache, loop,
                 unew, ubuilt, updates, installed, lone, taskVars>>

\* Mutant: the dictionary is built from the native engine, which may be None.
ReadNamesOfEngine(r) ==
  /\ UGo(r, "readNames", "setNames")
  /\ ubuilt' = [ubuilt EXCEPT ![r] = rustEngine]
  /\ UNCHANGED <<configVars, cache, loop, unew, updates, installed, lone, taskVars>>

\* The dictionary is built from self.config, then assigned.
ReadNames(r) ==
  /\ UGo(r, "readNames", "setNames")
  /\ ubuilt' = [ubuilt EXCEPT ![r] = engineConfig]
  /\ UNCHANGED <<configVars, cache, loop, unew, updates, installed, lone, taskVars>>

\* Mutant: the old name table is kept.
SetNamesForgotten(r) ==
  /\ UGo(r, "setNames", IF RustAvailable THEN "build" ELSE "clear")
  /\ UNCHANGED <<configVars, cache, loop, unew, ubuilt, updates, installed, lone,
                 taskVars>>

SetNames(r) ==
  /\ UGo(r, "setNames", IF RustAvailable THEN "build" ELSE "clear")
  /\ rulesByName' = ubuilt[r]
  /\ UNCHANGED <<appConfig, layerConfig, engineConfig, rustEngine, cache, loop,
                 unew, ubuilt, updates, installed, lone, taskVars>>

\* So is the native engine; an exception while it is built leaves None.
BuildRust(r) ==
  /\ UGo(r, "build", "setRust")
  /\ ubuilt' = [ubuilt EXCEPT ![r] = Build(engineConfig)]
  /\ UNCHANGED <<configVars, cache, loop, unew, updates, installed, lone, taskVars>>

\* Mutant: an engine that could not be built leaves the old one in place.
SetRustKeepsOld(r) ==
  /\ UGo(r, "setRust", "clear")
  /\ rustEngine' = IF ubuilt[r] = NoEngine THEN rustEngine ELSE ubuilt[r]
  /\ UNCHANGED <<appConfig, layerConfig, engineConfig, rulesByName, cache, loop,
                 unew, ubuilt, updates, installed, lone, taskVars>>

SetRust(r) ==
  /\ UGo(r, "setRust", "clear")
  /\ rustEngine' = ubuilt[r]
  /\ UNCHANGED <<appConfig, layerConfig, engineConfig, rulesByName, cache, loop,
                 unew, ubuilt, updates, installed, lone, taskVars>>

\* Mutant: the cut-through cache survives the reload.
ClearCacheForgotten(r) ==
  /\ UGo(r, "clear", "idle")
  /\ ubuilt' = [ubuilt EXCEPT ![r] = NoEngine]
  /\ installed' = (IF lone = r THEN unew[r] ELSE NoConfig) /\ lone' = Nobody
  /\ loop' = IF r \in OnLoop THEN Nobody ELSE loop
  /\ UNCHANGED <<configVars, cache, unew, updates, taskVars>>

\* The cut-through cache is cleared last, and the reload is over.
ClearCache(r) ==
  /\ UGo(r, "clear", "idle")
  /\ cache' = EmptyCache
  /\ ubuilt' = [ubuilt EXCEPT ![r] = NoEngine]
  /\ installed' = (IF lone = r THEN unew[r] ELSE NoConfig) /\ lone' = Nobody
  /\ loop' = IF r \in OnLoop THEN Nobody ELSE loop
  /\ UNCHANGED <<configVars, unew, updates, taskVars>>

ReloadStep(r) ==
  \/ UpdateLayer(r) \/ UpdateEngine(r) \/ ReadNames(r) \/ SetNames(r)
  \/ BuildRust(r) \/ SetRust(r) \/ ClearCache(r)

-----------------------------------------------------------------------------
(* The periodic cleanup, a timer of the loop that always re-arms itself    *)
(* (the objects are built with the loop running, __main__.py).             *)

\* Mutant: the cleanup keeps the eligible sources.
CleanupKeepsEligible ==
  /\ loop = Nobody
  /\ cache' = [a \in Addrs |-> IF cache[a] = TRUE THEN TRUE ELSE NoEntry]
  /\ UNCHANGED <<configVars, loop, reloadVars, taskVars>>

\* Mutant: the cleanup runs in a thread of its own.
CleanupInThread ==
  /\ cache' = EmptyCache
  /\ UNCHANGED <<configVars, loop, reloadVars, taskVars>>

CleanupCache ==
  /\ loop = Nobody
  /\ cache' = EmptyCache
  /\ UNCHANGED <<configVars, loop, reloadVars, taskVars>>

-----------------------------------------------------------------------------
(* ACLBBMD.confirmation on one datagram.                                   *)

Go(t, from, to) == pc[t] = from /\ pc' = [pc EXCEPT ![t] = to]

Count(action) ==
  metrics' = [metrics EXCEPT ![action] = @ + 1, !["total"] = @ + 1]

\* What the steps before the verdict leave alone.
sharedByTasks == <<configVars, reloadVars, packet, disturbed>>

\* The loop runs the task; only the two broadcast types may be cut through.
Start(t) ==
  /\ loop = Nobody /\ loop' = t
  /\ Go(t, "waiting", IF IsBroadcast(packet[t]) THEN "lookup" ELSE "engine")
  /\ seen' = [seen EXCEPT ![t] = InForce]
  /\ disturbed' = [disturbed EXCEPT ![t] = ~Quiet]
  /\ UNCHANGED <<configVars, cache, reloadVars, packet, eligible, verdict, clock,
                 metrics>>

\* if source_addr in self._cut_through_cache
CacheLookup(t) ==
  /\ Go(t, "lookup", IF cache[packet[t].src] # NoEntry THEN "read" ELSE "compute")
  /\ UNCHANGED <<sharedByTasks, seen, cache, loop, eligible, verdict, clock, metrics>>

\* return self._cut_through_cache[source_addr]
CacheHit(t) ==
  /\ cache[packet[t].src] # NoEntry
  /\ Go(t, "read", IF cache[packet[t].src] THEN "cutThrough" ELSE "engine")
  /\ UNCHANGED <<sharedByTasks, seen, cache, loop, eligible, verdict, clock, metrics>>

\* The entry is gone by now: KeyError ends the task.
CacheKeyError(t) ==
  /\ cache[packet[t].src] = NoEntry
  /\ Go(t, "read", "failed")
  /\ loop' = Nobody
  /\ seen' = [seen EXCEPT ![t] = {}]
  /\ UNCHANGED <<sharedByTasks, cache, eligible, verdict, clock, metrics>>

ComputeEligible(t) ==
  /\ Go(t, "compute", "store")
  /\ eligible' = [eligible EXCEPT ![t] = IsCutThroughEligible(engineConfig, packet[t].src)]
  /\ UNCHANGED <<sharedByTasks, seen, cache, loop, verdict, clock, metrics>>

CacheStore(t) ==
  /\ Go(t, "store", IF eligible[t] THEN "cutThrough" ELSE "engine")
  /\ cache' = [cache EXCEPT ![packet[t].src] = eligible[t]]
  /\ eligible' = [eligible EXCEPT ![t] = FALSE]
  /\ UNCHANGED <<sharedByTasks, seen, loop, verdict, clock, metrics>>

\* Mutant: cut-through packets are not counted.
CutThroughUncounted(t) ==
  /\ Go(t, "cutThrough", "forwarding")
  /\ loop' = Nobody
  /\ seen' = [seen EXCEPT ![t] = {}]
  /\ UNCHANGED <<sharedByTasks, cache, eligible, verdict, clock, metrics>>

\* Counted as allowed, then awaited: _forward_broadcast ...
CutThrough(t) ==
  /\ Go(t, "cutThrough", "forwarding")
  /\ Count("allow")
  /\ loop' = Nobody
  /\ seen' = [seen EXCEPT ![t] = {}]
  /\ UNCHANGED <<sharedByTasks, cache, eligible, verdict, clock>>

\* ... and the local delivery, without super().confirmation.
DeliverLocally(t) ==
  /\ loop = Nobody
  /\ Go(t, "forwarding", "delivered")
  /\ UNCHANGED <<sharedByTasks, seen, cache, loop, eligible, verdict, clock, metrics>>

\* if self._rust_engine is not None
EngineTest(t) ==
  /\ Go(t, "engine", IF rustEngine # NoEngine THEN "match" ELSE "pyMatch")
  /\ UNCHANGED <<sharedByTasks, seen, cache, loop, eligible, verdict, clock, metrics>>

\* self._rust_engine.check_packet(...), a second read of the attribute.
RustMatch(t) ==
  /\ rustEngine # NoEngine
  /\ LET v == RsVerdict(rustEngine, packet[t]) IN
     /\ Go(t, "match", IF v.rule = DefaultName THEN "record" ELSE "timeCheck")
     /\ verdict' = [verdict EXCEPT ![t] = v]
  /\ UNCHANGED <<sharedByTasks, seen, cache, loop, eligible, clock, metrics>>

\* None has no check_packet: AttributeError ends the task.
RustGone(t) ==
  /\ rustEngine = NoEngine
  /\ Go(t, "match", "failed")
  /\ loop' = Nobody
  /\ seen' = [seen EXCEPT ![t] = {}]
  /\ UNCHANGED <<sharedByTasks, cache, eligible, verdict, clock, metrics>>

\* The name the native engine returned is looked up in the table of names.
TimeCheck(t) ==
  \E now \in Instants :
    /\ Go(t, "timeCheck",
          IF NamedRuleIsOutside(rulesByName, verdict[t].rule, now) THEN "default" ELSE "record")
    /\ clock' = [clock EXCEPT ![t] = now]
    /\ UNCHANGED <<sharedByTasks, seen, cache, loop, eligible, verdict, metrics>>

\* Mutant: the fallback without its time check.
PyMatchUntimed(t) ==
  LET i == FindMatchingRule(engineConfig, packet[t]) IN
  \E now \in Instants :
    /\ Go(t, "pyMatch", IF i # 0 THEN "record" ELSE "default")
    /\ clock' = [clock EXCEPT ![t] = now]
    /\ verdict' = IF i # 0
                  THEN [verdict EXCEPT ![t] = RuleVerdict(engineConfig.rules[i])]
                  ELSE verdict
    /\ UNCHANGED <<sharedByTasks, seen, cache, loop, eligible, metrics>>

\* self.config.find_matching_rule(...) and the time check on its result.
PyMatch(t) ==
  LET i == FindMatchingRule(engineConfig, packet[t]) IN
  \E now \in Instants :
    LET decides == i # 0 /\ ~OutsideWindow(engineConfig.rules[i], now) IN
    /\ Go(t, "pyMatch", IF decides THEN "record" ELSE "default")
    /\ clock' = [clock EXCEPT ![t] = now]
    /\ verdict' = IF decides
                  THEN [verdict EXCEPT ![t] = RuleVerdict(engineConfig.rules[i])]
                  ELSE verdict
    /\ UNCHANGED <<sharedByTasks, seen, cache, loop, eligible, metrics>>

\* self.config.default_action, read once more.
TakeDefault(t) ==
  /\ Go(t, "default", "record")
  /\ verdict' = [verdict EXCEPT ![t] = DefaultVerdict(engineConfig)]
  /\ UNCHANGED <<sharedByTasks, seen, cache, loop, eligible, clock, metrics>>

\* The packet is counted; then the task awaits super().confirmation, awaits
\* the refusal of a registration, or returns.
Record(t) ==
  /\ Go(t, "record", IF verdict[t].allowed THEN "processing"
                     ELSE IF IsRegistration(packet[t]) THEN "refusing" ELSE "dropped")
  /\ Count(IF verdict[t].allowed THEN "allow" ELSE "deny")
  /\ loop' = Nobody
  /\ seen' = [seen EXCEPT ![t] = {}]
  /\ UNCHANGED <<sharedByTasks, cache, eligible, verdict, clock>>

Complete(t) ==
  /\ loop = Nobody
  /\ Go(t, "processing", "passed") \/ Go(t, "refusing", "refused")
  /\ UNCHANGED <<sharedByTasks, seen, cache, loop, eligible, verdict, clock, metrics>>

TaskStep(t) ==
  \/ CacheLookup(t) \/ CacheHit(t) \/ CacheKeyError(t) \/ ComputeEligible(t) \/ CacheStore(t)
  \/ CutThrough(t) \/ DeliverLocally(t)
  \/ EngineTest(t) \/ RustMatch(t) \/ RustGone(t) \/ TimeCheck(t) \/ PyMatch(t) \/ TakeDefault(t)
  \/ Record(t) \/ Complete(t)

-----------------------------------------------------------------------------

Next ==
  \/ \E r \in Reloaders : ReloadStep(r) \/ \E c \in Configs : UpdateApp(r, c)
  \/ \E t \in Tasks : Start(t) \/ TaskStep(t)
  \/ CleanupCache

Spec == Init /\ [][Next]_vars

\* A reload that began and a task the loop runs go on; the timer fires.
Fairness ==
  /\ \A r \in Reloaders : WF_vars(ReloadStep(r))
  /\ \A t \in Tasks : WF_vars(TaskStep(t))
  /\ WF_vars(CleanupCache)

FairSpec == Spec /\ Fairness

-----------------------------------------------------------------------------
(* Properties.                                                             *)

TypeOK ==
  /\ appConfig \in Configs /\ layerConfig \in Configs /\ engineConfig \in Configs
  /\ rulesByName \in Configs
  /\ installed \in Configs \cup {NoConfig} /\ lone \in Reloaders \cup {Nobody}
  /\ rustEngine \in Configs \cup {NoEngine}
  /\ cache \in [Addrs -> BOOLEAN \cup {NoEntry}]
  /\ loop \in Tasks \cup Reloaders \cup {Nobody}
  /\ upc \in [Reloaders -> ReloadStages]
  /\ unew \in [Reloaders -> Configs]
  /\ ubuilt \in [Reloaders -> Configs \cup {NoEngine}]
  /\ updates \in Nat
  /\ pc \in [Tasks -> TaskStages]
  /\ packet \in [Tasks -> Packets]
  /\ eligible \in [Tasks -> BOOLEAN]
  /\ clock \in [Tasks -> Instants]
  /\ metrics \in [Counters -> Nat]
  /\ seen \in [Tasks -> SUBSET Configs]
  /\ disturbed \in [Tasks -> BOOLEAN]

\* The stages after check_packet() has returned, and those of cut-through.  A
\* verdict is judged against the configurations of its history at "record".
JudgedStages == {"record", "processing", "passed"} \cup DeniedStages

CutThroughStages == {"cutThrough", "forwarding", "delivered"}

\* After a reload that ran alone every copy of the configuration is the same
\* one, and the native engine, if there is one, was built from it: whatever
\* mixture an observer and a manual reload at once have left is gone then
\* (application.py:203-208, bbmd.py:384-385, acl_engine.py:303-305).
CoherentWhenQuiet ==
  Settled =>
    /\ appConfig = installed /\ layerConfig = installed
    /\ engineConfig = installed /\ rulesByName = installed
    /\ rustEngine = Build(installed)

\* Where reloads take turns, all copies of the configuration agree whenever none
\* is active (README_ACL_RELOAD.md:91, "to prevent inconsistent state").  An
\* observer and a manual reload at once may leave a mixture: what is promised of
\* them is CoherentWhenQuiet.
NoMixtureRemains ==
  Quiet =>
    /\ layerConfig = appConfig /\ engineConfig = appConfig /\ rulesByName = appConfig
    /\ rustEngine = Build(appConfig)

\* A packet no reload overlaps is judged as check_packet() judges it on the
\* configuration in force, through either engine, although the engine, the
\* name table and the default action are read one by one (acl_engine.py:208-257).
UndisturbedDecision ==
  \A t \in Tasks :
    (pc[t] = "record" /\ ~disturbed[t]) =>
      \A c \in seen[t] : verdict[t] = Decide(c, packet[t], clock[t])

\* A packet is judged by one of the configurations in force while it was
\* judged, never by a mixture (README_ACL_RELOAD.md:91, "Atomic updates").
DecisionIsAtomic ==
  \A t \in Tasks :
    pc[t] = "record" =>
      \E c \in seen[t] : verdict[t] = Decide(c, packet[t], clock[t])

\* A task ends with an exception only if a reload overlapped its decision:
\* between reloads neither the cache entry nor the engine it tested for can
\* be gone when it is used (bbmd.py:204-205, acl_engine.py:209-213).
FailsOnlyDuringReload ==
  \A t \in Tasks : pc[t] = "failed" => disturbed[t]

\* No task ends with an exception at all.
NoTaskFails == \A t \in Tasks : pc[t] # "failed"

Fresh(a) == cache[a] # NoEntry => cache[a] = IsCutThroughEligible(installed, a)

\* Between reloads a cached eligibility is the one the configuration in force
\* gives (bbmd.py:387, "Clear cut-through cache as networks may have changed").
CacheFreshWhenQuiet == Settled => \A a \in Addrs : Fresh(a)

\* A stale entry outlives a reload only if the reload overlapped the decision on
\* some packet of that source: where it overlapped none, the clear leaves nothing
\* stale and nothing stale is stored after it (bbmd.py:207-211, 385-390).
StaleOnlyFromOverlap ==
  Settled =>
    \A a \in Addrs :
      Fresh(a) \/ \E t \in Tasks : packet[t].src = a /\ disturbed[t]

\* Once reloads and packets cease, the periodic cleanup ends every staleness
\* for good (bbmd.py:121-136).
StalenessEnds == <>[](Settled => \A a \in Addrs : Fresh(a))

\* Every packet whose path was chosen is counted once, as what happened to
\* it: cut through and passed packets as allowed, refused and dropped ones as
\* denied (bbmd.py:165-175 and 285-293, models/metrics.py:369-370).
CountedAsTreated ==
  /\ metrics["allow"] = Cardinality({t \in Tasks : pc[t] \in AllowedStages})
  /\ metrics["deny"] = Cardinality({t \in Tasks : pc[t] \in DeniedStages})
  /\ metrics["total"] = metrics["allow"] + metrics["deny"]

-----------------------------------------------------------------------------
(* The promise, under the mapping: the policy is the engine's              *)
(* configuration, a packet is judged when its path is chosen.              *)

Policy == INSTANCE AclPolicy WITH
  policy <- engineConfig,
  incoming <- packet,
  judged <- [t \in Tasks |->
               IF pc[t] \in JudgedStages THEN verdict[t]
               ELSE IF pc[t] \in CutThroughStages
                    THEN [allowed |-> TRUE, rule |-> "cut_through"]
                    ELSE NoVerdict]

\* With reloads confined to the loop the packet path is the atomic policy of
\* AclPolicy: one configuration in force, each packet judged in one step by
\* it, cut-through included (acl_reload.py:141-160).
ImplementsPolicy == Policy!Spec

=============================================================================
