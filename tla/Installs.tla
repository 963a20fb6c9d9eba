------------------------------ MODULE Installs ------------------------------
(***************************************************************************)
(* Compiled apps of one platform: which are loaded at boot (module.Load,    *)
(* engine.Manager.Wanted and SyncLoaded), and how they are installed and    *)
(* upgraded while it runs (engine.Manager.Install and Upgrade).             *)
(*                                                                          *)
(* The install table, the migrations and the policies are in the database   *)
(* and outlive the process; the host (loaded apps, root fields, startup     *)
(* hooks) and the registry of extension handlers do not.  Between two       *)
(* processes the code may change: new versions, apps added or gone.         *)
(***************************************************************************)
EXTENDS Integers, FiniteSets, Sequences, SequencesExt

CONSTANTS
    Apps,         \* the names known to the code, the tables and the callers
    Releases,     \* the deployments: [compiled, present, version]
    Depends,      \* the apps an app depends on
    Uses,         \* the capabilities an app needs
    Provides,     \* the capabilities an app provides
    AutoInstall,  \* the apps with autoInstall: true
    EnvLists,     \* the values of KaizenGo_APPS; {} for an empty one
    Callers,
    None,         \* no row in the install table
    MaxCalls, MaxFailures, MaxRestarts    \* bounds

ASSUME InstallsAssumption ==
    /\ IsFiniteSet(Apps) /\ Depends \in [Apps -> SUBSET Apps]
    /\ AutoInstall \subseteq Apps /\ EnvLists \subseteq SUBSET Apps
    /\ None \notin Nat
    /\ \A r \in Releases : r.version \in [Apps -> Nat] /\ r.present \cup r.compiled \subseteq Apps

VARIABLES
    code,      \* the release that is deployed
    table,     \* kaizengo.installed_apps: app -> stamped version or None
    migrated,  \* the migrations applied, by the version they came with
    seeded,    \* the apps whose policies are in the database
    phase,     \* where the boot of the process is, or "up" or "down"
    todo,      \* the apps the boot has still to go through in this phase
    order,     \* the apps of this boot, dependencies first
    env,       \* KaizenGo_APPS of this process, {} when it is empty
    loaded,    \* Host.Loaded
    fields,    \* the apps whose root fields are registered
    startup,   \* the apps whose startup hook waits
    handlers,  \* app -> how often its `extends` are registered
    call,      \* what each caller is doing
    calls, failures, restarts    \* counters for the bounds

vars == <<code, table, migrated, seeded, phase, todo, order, env, loaded, fields, startup,
          handlers, call, calls, failures, restarts>>
store == <<table, migrated, seeded>>
host == <<loaded, fields, startup>>
boot == <<phase, todo, order, env>>
counters == <<calls, failures, restarts>>

Idle == [pc |-> "idle", op |-> "none", app |-> "none", todo |-> << >>]

(***************************************************************************)
(* module.Registry and appspec                                              *)
(***************************************************************************)
Closed(S) == \A a \in S : Depends[a] \subseteq S

\* Resolve: the apps wanted and all they depend on
Closure ==
    [S \in SUBSET Apps |-> {a \in Apps : \A T \in SUBSET Apps : S \subseteq T /\ Closed(T) => a \in T}]

\* the orders in which every app follows its dependencies; none for a cycle
BugTopoSort == [S \in SUBSET Apps |-> SetToSeqs(S)]
TopoSort ==
    [S \in SUBSET Apps |->
        {s \in SetToSeqs(S) : \A i, j \in DOMAIN s : s[j] \in Depends[s[i]] => j < i}]

\* without a name all installable apps are selected, and every compiled app is one
Selected(S) == IF S = {} THEN code.compiled ELSE S

Resolvable(S) == Closure[S] \subseteq code.compiled /\ TopoSort[Closure[S]] # {}

\* ValidateLoadedCapabilities looks at the apps that have an app.yaml
ValidateLoadedCapabilities(S) ==
    LET specs == S \cap code.present
    IN  \A a \in specs : Uses[a] \subseteq UNION {Provides[b] : b \in specs}

Known(a) == a \in code.present /\ a \in code.compiled
Upgradable(a) == table[a] # None /\ table[a] < code.version[a]

(***************************************************************************)
(* Boot                                                                     *)
(***************************************************************************)
Kept == {a \in Apps : table[a] # None} \cap code.present
BugWanted(list) ==
    IF list # {} THEN {a \in list : Known(a)} ELSE {a \in AutoInstall : Known(a)}

Wanted(list) ==
    IF list # {} THEN {a \in list : Known(a)}
    ELSE {a \in Kept \cup (AutoInstall \cap code.present) : Known(a)}

Fail == failures < MaxFailures /\ failures' = failures + 1

Down ==
    /\ phase' = "down" /\ todo' = << >> /\ order' = << >> /\ env' = {}
    /\ loaded' = {} /\ fields' = {} /\ startup' = {}
    /\ call' = [c \in Callers |-> Idle]

\* Wanted drops the rows of apps that are gone, then Resolve, the capability check
\* and ResetLoadState, then the exports and extends of every app with a spec
Begin(list) ==
    /\ phase = "down" /\ env' = list
    /\ table' = IF list # {} THEN table
                ELSE [a \in Apps |-> IF a \in code.present THEN table[a] ELSE None]
    /\ LET all == Closure[Selected(Wanted(list))]
       IN  /\ list # {} => Wanted(list) # {}
           /\ Resolvable(Selected(Wanted(list))) /\ ValidateLoadedCapabilities(all)
           /\ \E s \in TopoSort[all] : order' = s /\ todo' = s
           /\ handlers' = [a \in Apps |-> IF a \in all \cap code.present THEN 1 ELSE 0]
    /\ phase' = "setup"
    /\ UNCHANGED <<code, migrated, seeded, host, call, counters>>

\* the first app of the phase is done; after the last the next phase begins
Done(next) ==
    IF Len(todo) = 1 THEN phase' = next /\ todo' = order
    ELSE phase' = phase /\ todo' = Tail(todo)

BugMigrate(a) ==
    migrated' = [migrated EXCEPT ![a] = IF @ = 0 THEN code.version[a] ELSE @]

Migrate(a) ==
    migrated' = [migrated EXCEPT ![a] = IF @ < code.version[a] THEN code.version[a] ELSE @]

\* App.Setup: migrations, root fields, a startup hook for the policies
BootSetup ==
    /\ phase = "setup" /\ todo # << >>
    /\ Head(todo) \in code.present
    /\ Migrate(Head(todo))
    /\ fields' = fields \cup {Head(todo)}
    /\ startup' = startup \cup {Head(todo)}
    /\ loaded' = loaded \cup {Head(todo)}
    /\ Done("start")
    /\ UNCHANGED <<code, table, seeded, order, env, handlers, call, counters>>

BootStart ==
    /\ phase = "start"
    /\ seeded' = seeded \cup {Head(todo)}
    /\ startup' = startup \ {Head(todo)}
    /\ Done("mount")
    /\ UNCHANGED <<code, table, migrated, order, env, loaded, fields, handlers, call, counters>>

BootMount ==
    /\ phase = "mount"
    /\ Done("sync")
    /\ UNCHANGED <<code, store, order, env, host, handlers, call, counters>>

\* SyncLoaded: a row for every app that has none
BugSyncLoaded ==
    /\ phase = "sync"
    /\ table' = [table EXCEPT ![Head(todo)] = code.version[Head(todo)]]
    /\ Done("up")
    /\ UNCHANGED <<code, migrated, seeded, order, env, host, handlers, call, counters>>

SyncLoaded ==
    /\ phase = "sync"
    /\ table' = [table EXCEPT ![Head(todo)] = IF @ = None THEN code.version[Head(todo)] ELSE @]
    /\ Done("up")
    /\ UNCHANGED <<code, migrated, seeded, order, env, host, handlers, call, counters>>

\* an error anywhere ends the boot; the next attempt starts over.  The deletion of
\* some rows may have happened.
BootFails ==
    /\ Fail
    /\ \/ phase \in {"setup", "start", "mount", "sync"} /\ UNCHANGED table
       \/ /\ phase = "down"
          /\ \E gone \in SUBSET {a \in Apps : table[a] # None /\ a \notin code.present} :
                table' = [a \in Apps |-> IF a \in gone THEN None ELSE table[a]]
    /\ Down
    /\ UNCHANGED <<code, migrated, seeded, handlers, calls, restarts>>

\* the process ends, by a crash or for a new release
Restart ==
    /\ restarts < MaxRestarts /\ restarts' = restarts + 1
    /\ code' \in Releases
    /\ Down
    /\ handlers' = [a \in Apps |-> 0]
    /\ UNCHANGED <<store, calls, failures>>

(***************************************************************************)
(* Install and Upgrade                                                      *)
(***************************************************************************)
Goto(c, pc) == call' = [call EXCEPT ![c].pc = pc]
Return(c) == call' = [call EXCEPT ![c] = Idle]
BugLocked == \E c \in Callers : call[c].pc = "extend"
Locked == \E c \in Callers : call[c].pc \notin {"idle", "lock"}

Request(c, op, a) ==
    /\ phase = "up" /\ call[c].pc = "idle"
    /\ calls < MaxCalls /\ calls' = calls + 1
    /\ call' = [call EXCEPT ![c] = [Idle EXCEPT !.pc = "lock", !.op = op, !.app = a]]
    /\ UNCHANGED <<code, store, boot, host, handlers, failures, restarts>>

\* Manager.mu is taken, then the request is looked at
Lock(c) ==
    /\ call[c].pc = "lock" /\ ~Locked
    /\ LET a == call[c].app
           refused == \/ call[c].op = "upgrade" /\ table[a] = None
                      \/ a \notin code.compiled
                      \/ /\ a \notin loaded
                         /\ \/ ~Resolvable({a})
                            \/ ~ValidateLoadedCapabilities(Closure[{a}] \cup loaded)
       IN  CASE refused -> Return(c)
             [] ~refused /\ a \in loaded ->
                    Goto(c, IF call[c].op = "upgrade" THEN "migrate" ELSE "stamp")
             [] ~refused /\ a \notin loaded ->
                    \E s \in TopoSort[Closure[{a}]] :
                        call' = [call EXCEPT ![c].pc = "extend", ![c].todo = s]
    /\ UNCHANGED <<code, store, boot, host, handlers, counters>>

\* the app an install is at; the apps that are loaded already are passed over
At(c, pc) == call[c].pc = pc
Next1(c) == Head(call[c].todo)

Skip(c) ==
    /\ At(c, "extend") /\ call[c].todo # << >> /\ Next1(c) \in loaded
    /\ call' = [call EXCEPT ![c].todo = Tail(@)]
    /\ UNCHANGED <<code, store, boot, host, handlers, counters>>

\* ApplyExports, ApplyExtends
Extend(c) ==
    /\ At(c, "extend") /\ call[c].todo # << >> /\ Next1(c) \notin loaded
    /\ handlers' = IF Next1(c) \in code.present
                   THEN [handlers EXCEPT ![Next1(c)] = @ + 1] ELSE handlers
    /\ Goto(c, "setup")
    /\ UNCHANGED <<code, store, boot, host, counters>>

\* the startup hook of an app that is set up now is registered and never runs
Setup(c) ==
    /\ At(c, "setup") /\ Next1(c) \notin fields /\ Next1(c) \in code.present
    /\ Migrate(Next1(c))
    /\ fields' = fields \cup {Next1(c)}
    /\ startup' = startup \cup {Next1(c)}
    /\ Goto(c, "mount")
    /\ UNCHANGED <<code, table, seeded, boot, loaded, handlers, counters>>

\* loadSpec fails, or RegisterQuery panics on a field that is there; the deferred
\* Unlock runs and the server goes on
BugSetupPanics(c) ==
    /\ At(c, "setup") /\ (Next1(c) \in fields \/ Next1(c) \notin code.present)
    /\ Goto(c, "panicked")
    /\ UNCHANGED <<code, store, boot, host, handlers, counters>>

SetupPanics(c) ==
    /\ At(c, "setup") /\ (Next1(c) \in fields \/ Next1(c) \notin code.present)
    /\ Return(c)
    /\ UNCHANGED <<code, store, boot, host, handlers, counters>>

Mount(c) ==
    /\ At(c, "mount")
    /\ loaded' = loaded \cup {Next1(c)}
    /\ Goto(c, "upsert")
    /\ UNCHANGED <<code, store, boot, fields, startup, handlers, counters>>

Upsert(c) ==
    /\ At(c, "upsert")
    /\ table' = [table EXCEPT ![Next1(c)] = code.version[Next1(c)]]
    /\ call' = [call EXCEPT ![c].pc = "extend", ![c].todo = Tail(@)]
    /\ UNCHANGED <<code, migrated, seeded, boot, host, handlers, counters>>

Installed(c) ==
    /\ At(c, "extend") /\ call[c].todo = << >>
    /\ Return(c)
    /\ UNCHANGED <<code, store, boot, host, handlers, counters>>

\* Upgrade of a loaded app
MigrateLoaded(c) ==
    /\ At(c, "migrate")
    /\ Migrate(call[c].app)
    /\ Goto(c, "stamp")
    /\ UNCHANGED <<code, table, seeded, boot, host, handlers, counters>>

Stamp(c) ==
    /\ At(c, "stamp")
    /\ table' = [table EXCEPT ![call[c].app] = code.version[call[c].app]]
    /\ Return(c)
    /\ UNCHANGED <<code, migrated, seeded, boot, host, handlers, counters>>

\* an error of a statement or of a component; Setup may have registered its fields
\* and applied its migrations before it fails
CallFails(c) ==
    /\ Fail
    /\ call[c].pc \in {"setup", "mount", "upsert", "migrate", "stamp"}
    /\ \/ UNCHANGED <<migrated, fields>>
       \/ /\ At(c, "setup") /\ Next1(c) \in code.present
          /\ Migrate(Next1(c))
          /\ fields' \in {fields, fields \cup {Next1(c)}}
    /\ Return(c)
    /\ UNCHANGED <<code, table, seeded, boot, loaded, startup, handlers, calls, restarts>>

(***************************************************************************)
(* Specification                                                            *)
(***************************************************************************)
Init ==
    /\ code \in Releases
    /\ table = [a \in Apps |-> None] /\ migrated = [a \in Apps |-> 0] /\ seeded = {}
    /\ phase = "down" /\ todo = << >> /\ order = << >> /\ env = {}
    /\ loaded = {} /\ fields = {} /\ startup = {}
    /\ handlers = [a \in Apps |-> 0]
    /\ call = [c \in Callers |-> Idle]
    /\ calls = 0 /\ failures = 0 /\ restarts = 0

CallStep(c) ==
    \/ Lock(c) \/ Skip(c) \/ Extend(c) \/ Setup(c) \/ SetupPanics(c) \/ Mount(c)
    \/ Upsert(c) \/ Installed(c) \/ MigrateLoaded(c) \/ Stamp(c)

Boot == (\E list \in EnvLists : Begin(list)) \/ BootSetup \/ BootStart \/ BootMount \/ SyncLoaded

Next ==
    \/ Boot \/ BootFails \/ Restart
    \/ \E c \in Callers : CallStep(c) \/ CallFails(c)
    \/ \E c \in Callers, a \in Apps, op \in {"install", "upgrade"} : Request(c, op, a)

\* a call holds the mutex until it returns and a waiting call gets it in turn
Fairness == \A c \in Callers : SF_vars(Lock(c)) /\ WF_vars(CallStep(c))

Spec == Init /\ [][Next]_vars /\ Fairness

(***************************************************************************)
(* Properties                                                               *)
(***************************************************************************)
Versions == UNION {{r.version[a] : a \in Apps} : r \in Releases}
Phases == {"down", "setup", "start", "mount", "sync", "up"}

\* Every variable keeps its type, and only one call is past Manager.mu.
TypeOK ==
    /\ code \in Releases
    /\ table \in [Apps -> Versions \cup {None}] /\ migrated \in [Apps -> Versions \cup {0}]
    /\ seeded \subseteq Apps /\ phase \in Phases
    /\ {loaded, fields, startup} \subseteq SUBSET Apps
    /\ \A c \in Callers : call[c].pc = "idle" => call[c] = Idle
    /\ Cardinality({c \in Callers : call[c].pc \notin {"idle", "lock"}}) <= 1

\* An app never runs without the apps it depends on: at every moment, also in the
\* middle of a boot and after an install that stopped half-way, the loaded apps are
\* closed under Depends (module.Resolve and topoSort order them, installLocked and
\* Load append them one by one).
DependsLoaded == Closed(loaded)

\* A stamped version is a migrated version: whatever failed, crashed or was
\* deployed in between, the migrations that came with a version have run before the
\* install table says so (manager.go installLocked, Upgrade, SyncLoaded).
StampedIsMigrated == \A a \in Apps : table[a] # None => migrated[a] >= table[a]

\* What was installed comes back: when a boot without KaizenGo_APPS ends, every app
\* with a row that is still compiled in and on disk is loaded, with its policies in
\* the database, and every loaded app has a row (manager.go Wanted, SyncLoaded; the
\* startup hooks of mount.go).
InstalledComesBack ==
    [][phase = "sync" /\ phase' = "up" =>
        /\ \A a \in Apps : a \in loaded' => table'[a] # None /\ a \in seeded'
        /\ env = {} => \A a \in Apps : table'[a] # None /\ Known(a) => a \in loaded']_vars

\* "Existing rows keep their version so Upgrade stays visible after a code bump"
\* (manager.go SyncLoaded): an app that can be upgraded stays so until it is
\* installed or upgraded by a call, or a release takes the new version back or the
\* app away.
UpgradeStaysVisible ==
    [][\A a \in Apps : Upgradable(a) /\ ~Upgradable(a)' =>
        code' # code \/ a \notin code.present \/ \E c \in Callers :
            call[c].app = a \/ (call[c].todo # << >> /\ Next1(c) = a)]_vars

\* Every call returns: a failure or a panic in the middle of an install leaves
\* Manager.mu free for the next one.
CallsReturn == \A c \in Callers : call[c].pc # "idle" ~> call[c].pc = "idle"

\* The two statements below do not hold after an install that stopped half-way:
\* the retry of such an install
\* - panics in Setup on the root fields that the first attempt registered, or
\* - registers the `extends` of the app a second time, so its hooks run twice.
RetrySucceeds == \A c \in Callers : At(c, "setup") => Next1(c) \notin fields
HandlersOnce == \A a \in loaded \cap code.present : handlers[a] = 1
=============================================================================
