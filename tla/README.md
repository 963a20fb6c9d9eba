# Verification of kaizengo

TLA+ models of kaizengo's engine, TLC runs that check them on small instances,
and TLAPS proofs that hold for every instance.

kaizengo is a platform for business apps. An *app* is a declarative spec
(models, queries, mutations, access rules, views) with optional Go hooks. Apps
are compiled into the server or submitted at run time as documents, and the
engine turns a spec into tables, GraphQL root fields, model services and policy
entries while the server runs.

## 1. The system

| Part | State it keeps | Operations | Module |
|---|---|---|---|
| Domain pipeline, `internal/engine/domains.go` | `Domains.dynamic`, `.errors`, `.mu`; the `App` objects; `Host.Loaded` | `Apply`, `Revert`, `Delete`, `Import`, `LoadAll` | `Domains`, `Overlays`, `Surface` |
| Revision store, `internal/app/domains.go` | `kaizengo.domain_revisions` | `Append`, `Head`, `Heads`, `HeadAt`, `List` | `Domains` |
| Root field registry, `internal/module/graphql.go` | the query and mutation fields, a cached schema | `RegisterQuery`, `RegisterMutation`, `Remove`, `Handler` | `Domains`, `Surface` |
| Boot, `cmd/server/main.go`, `internal/module/load.go` | the `Host` and its loaded manifests | `Setup`, startup hooks, `LoadAll`, `Mount` | `Domains`, `Installs` |
| Policy seeding, `internal/engine/security.go`, `apps/permissions` | role, policy and `acl_entry` rows | `ApplySecurity`, `EnsureEntry`, `DisableEntry` | `Domains`, `Records` |
| Layer algebra, `packages/sdk-go/appspec/layer.go` | none | `Merge`, `Subtract`, `MarshalDomain` | `Layers` |
| Spec loading, `packages/sdk-go/appspec/load.go`, `spec.go`, `security.go` | none | includes, defaults, validation, security files | `Specs` |
| App manager, `internal/engine/manager.go`, `internal/app/installed.go` | installed and available apps | `Install`, `Upgrade`, `SyncLoaded`, `Wanted` | `Installs` |
| Database runtime, `internal/dbmanager` | the catalog; the active platform | `UseDatabase`, `rebuild`, `EnterBootstrap`, create, import, duplicate, restore, drop, select | `DbRuntime` |
| Plugin manager, `internal/plugin` | plugin processes, bound handlers | `Start`, `Stop`, `BindHandler`, `UnbindHandler`, host calls | `Plugins` |
| Extension handlers, `internal/extension` | three lists of handlers | `Register`, `ApplyExtends`, `RegisterScoped`, `Run` | `Plugins`, `Installs` |
| ACL evaluation, `packages/sdk-go/acl` | none | `Evaluate`, `BuildListFilter`, `DeniedFields`, domains in memory and in SQL | `Acl` |
| Model services, `internal/engine/model.go`, `acl.go`, `list_page.go` | the rows of one table | `Create`, `Update`, `Delete`, `Get`, `List`, `ListPage`, `Groups` | `Records` |
| Search index, `internal/platform/search`, `apps/typesense` | settings, a memory index, Typesense | index, reindex, query | `Records` |
| Root fields, menus, shell, catalog, `internal/engine/gql.go`, `cqrs_gql.go`, `resources.go`, `catalog_acl.go`, `catalog.go` | registered resources, tracked views | `Setup`, `RegisterAppResources`, `FilterShellNav`, `Catalog` | `Surface` |

How they interact: the *runtime* builds one *platform* per selected database; a
build runs the *boot*, which asks the *app manager* which apps are wanted, sets
each up (root fields, resources), seeds policies, mounts the stored layers through
the *domain pipeline* and starts the *plugins*, which apply documents of their own
and bind handlers and hooks. A request reads the platform that serves, goes
through guards and *ACL evaluation* to a *model service*, runs the *extension
handlers* of its write, and feeds the *search index*.

### Behaviours that are hard

* **The head is read before the lock.** `applyLayer` reads the stored head,
  validates and diffs, and only then takes `Domains.mu`. Whatever other calls
  store meanwhile is not seen, and the head that was read decides at the end
  whether a revision is stored.
* **A mount has many parts.** Tables, model services, root fields, the spec,
  policy rows and the manifest change one after another; each can fail and a
  duplicate root field *panics*. A deferred function has to put back what the
  failed mount changed. Installing an app has the same parts and no such function.
* **Memory and database.** What runs (memory) and what is stored (rows) are
  written at different moments; a failure or a crash lies between them, and a
  boot rebuilds the first from the second.
* **Code changes under stored layers, and under stamped versions.** A new binary
  is a new base for layers which were checked against the old one.
* **Order.** Apps depend on each other, and boot, import and policy seeding all
  have orders of their own.
* **One platform, many databases.** Requests for different databases switch the
  one active platform, and decide under `Runtime.mu` what they do after they
  have released it. Handler lists are shared by all platforms of the process.
* **Catalog and server.** A database is created, copied and dropped on the
  Postgres server, and registered in a file; the steps fail, are canceled with
  their request, or are cut off by a crash one by one.
* **Load, decide, run hooks, write.** An update reads the row, evaluates
  policies against it and runs hooks that may change the payload; the write comes
  later, and the row may have changed.
* **One rule in several places.** Policies decide a record one by one, filter a
  list in SQL or in memory, and mask fields, in different code with different
  orders. The same holds for what a menu, the shell and the catalog show.
* **Three stores of one record.** The row, the memory index and Typesense are
  written one after the other; errors of the last are ignored.
* **Other processes.** A plugin dies at any moment, also while a write waits for
  its hook.

### What makes the parts correct

* pipeline: to its author it is atomic: an app is never half-mounted, what runs is
  the base plus the stored head, a mount touches no other app, every call
  returns, a broken layer never stops the boot;
* layers: nothing of an accepted document is lost, neither at once nor at a
  restart nor at an upgrade of the base;
* policies: the entries a mounted app declares are active, and no others; seeding
  them again changes nothing; a list shows no record that cannot be read;
* registry and surface: one owner per field; each guarded field has a resource a
  policy can name; who can open a view finds it;
* runtime: the platform that serves is open, is the only one that is, and is
  the one named active; a request goes to the platform it selected or to a newer one,
  never back to one replaced before; every registered database exists; every
  request returns;
* app manager: apps run with what they depend on; a stamped version is migrated;
  what was installed comes back;
* records: what is stored is valid, updates of different fields do not undo each
  other, a search finds exactly what is there;
* plugins: nothing of a failed or stopped plugin is left; hooks run once, in
  order; every write ends.

## 2. Modules

| Module | Content |
|---|---|
| `Domains` | the domain pipeline with its store, the registry, the tables' columns, the policy entries, boot, crash and deployment |
| `Overlays`, `DomainsView` | what the pipeline promises one author; the mapping under which `Domains` implements it |
| `MCDomains` | apps and documents for TLC |
| `DomainsProofs` | the inductive invariant of `Domains` and the theorems |
| `DomainsViewProofs` | that `Domains` implements `Overlays`, with the invariant that needs |
| `DbRuntime`, `MCDbRuntime`, `DbRuntimeProofs` | the database runtime: requests of several clients, the active platform, the catalog file, the databases on the server, crash and signal; its instances; its invariants and theorems |
| `Acl` | policy evaluation, masks, list filters, domains: operators without state |
| `Records`, `MCRecords`, `RecordsProofs` | one model with its policies and its search index: concurrent reads and writes, hooks, seeding, reindexing, restart |
| `Installs`, `MCInstalls`, `InstallsProofs` | boot, install and upgrade of apps with failures, restarts and releases |
| `Plugins`, `MCPlugins`, `PluginsProofs` | plugin processes, extension handlers and the writes that run them, across switches of the database |
| `Layers`, `LayersProofs` | `Merge`, `Subtract` and what the stored text of a layer keeps; theorems about them |
| `Specs` | reading, joining, defaulting and validating a spec |
| `Surface`, `MCSurface`, `SurfaceProofs` | what one app puts before its users, across boots, applies, upgrades and an addon |

Composition: `Records` extends `Acl`; `Surface` extends `Specs`, which extends
`Layers`; `DomainsView` instantiates `Overlays` over `Domains`. `Domains` is what
one platform does; `DbRuntime` is what starts, replaces and stops platforms. They
meet in `buildPlatform`: the boot of `Domains` is the one step `BuildOk`,
`BuildFails` or `BuildPanics` of `DbRuntime`. `Domains` keeps documents opaque and
has the interleavings; `Surface` has the documents in full and lets each call run
to its end. `Installs` refines the part of the boot that `Domains` has in
`BootStart` ... `SetupPanics`; `Plugins` begins where a build has set up its apps.

### `Domains`: state

| Variable | In the code |
|---|---|
| `store` | `kaizengo.domain_revisions`, per app a sequence of `<<layer, document>>` |
| `columns` | columns the engine's own DDL created, with their SQL type |
| `active` | names of the active `acl_entry` rows |
| `code` | the version of each compiled app in the running binary |
| `root` | `module.GraphQLRegistry`: which app's definition a root field resolves to |
| `mounted` | each `engine.App`: its spec, the root fields it owns, its model services |
| `dynamic`, `errors`, `lock` | `Domains.dynamic`, `Domains.errors`, `Domains.mu` |
| `loaded` | `Host.Loaded` |
| `saved` | what `saveState` and `snapshotFields` keep for the deferred rollback |
| `call` | one record per API call: its program point, the requests left (`Import` has several), the head it read |
| `boot` | how far `buildPlatform` has come |
| `used` | how much of each bound is spent |

`durable` names the four variables a crash keeps.

### `Domains`: what is abstracted

A document is opaque. The pipeline tells documents apart by the root fields they
register, the columns (with their type) their models store, the policy entries
they declare or disable, and the apps they depend on; `Content` gives these.
`Merge` unites them. `Agree` is the one conflict which the merge and the diff
both look for: a column with two types.

* For a compiled app `Apply` receives a whole document and `Subtract` computes
  the layer, or refuses the document if it changes the base. The model's input
  is the layer, so its guard is that the base and the layer agree.
* `Revert` reads an old revision. Revisions never change, so the reading is
  part of the step that starts the call.
* The layers of a bundle name the app of their entry, as `Export` prints them
  (`BundlesAssumption`). `Import` does not check that: where an entry for an app without
  code holds a layer that names another app, it is mounted under the one name
  (`mountNewLocked`) and stored under the other (`applyLayer`). This is not modelled.
* Types of base columns belong to hand-written migrations. `Generated` selects
  the others, which the engine's DDL creates.
* Locks shorter than a step (the registry's, the store's) do not show.
* Boot handles one app per step, since another process may crash between any
  two, but nothing else runs: the server answers no domain call before
  `buildPlatform` has returned.
* `Setup` does not recover from a duplicate root field. The panic ends in the
  HTTP middleware around the request that builds the platform; the platform
  under construction is dropped (`SetupPanics`).

### `Domains`: a call, step by step

| Action | Code |
|---|---|
| `Apply`, `Revert`, `Delete`, `Import` | the API methods, up to `applyLayer` |
| `Check` | `Import`'s dry run of one entry |
| `ReadHead`, `Validate` | `applyLayer` before the lock: read the head; parse, check dependencies, diff |
| `ReadFails` | the head cannot be read: the call returns the error |
| `MountUnchanged` | `mountLocked` with nothing to do |
| `SwapStart` | `swapLocked`: save, drop the app's fields |
| `MountNew` | `mountNewLocked`: a new `App` |
| `Remount`, `RemountClash`, `RemountFails` | `App.remount` and `App.Setup`: done; duplicate field; failing DDL |
| `ApplySecurity`, `ApplySecurityFails` | drop entries no longer declared, apply the new ones; possibly failing part-way |
| `Rollback` | the deferred functions of `swapLocked` and `mountNewLocked` |
| `UnmountStart`, `Unmount` | `unmountLocked` |
| `Store`, `StoreFails` | the rest of `applyLayer`: append unless unchanged, clear the error, unlock |
| `SetupUnread`, `LoadUnread` | a boot that cannot read heads: `resolveCompiled` mounts the base and reports nothing; `LoadAll` returns the error, and the build is dropped |
| `BootStart` ... `LoadDynamicFails` | `buildPlatform`: `Setup` per compiled app (with `resolveCompiled`), startup hooks, `LoadAll` |
| `Crash`, `Deploy` | the process ends; a new binary |

Everything from a mount's first step to `Store` happens under `Domains.mu`. The
steps are still separate, because GraphQL requests, `ReadHead` of other calls
and a crash see the states in between.

### `Domains`: fairness

`FairSpec` assumes, per call, weak fairness of its steps (a goroutine runs) and
strong fairness of taking the mutex (a `sync.Mutex` waiter that starves for a
millisecond gets the lock next), and weak fairness of boot: it runs to its end, and
after a build that failed the operator starts the process again and selects the
database. `BootStart` after a failure is a new process because the engine's
table of registered models (`internal/engine/registry.go`) outlives a failed
build: the same process refuses to build a platform a second time. Nothing is
assumed of API calls, failures, crashes or deployments.

### `DbRuntime`: state

| Variable | In the code |
|---|---|
| `server`, `locked` | the databases in `pg_database`, and those with `datallowconn` false |
| `file`, `catalog` | `databases.json`, and `Store.cat.Databases` |
| `cookie` | the `kg_db` cookie of each client |
| `plat`, `active`, `handler`, `mu` | `Runtime.plat`, `.active`, `SwapHandler.h`, `Runtime.mu` |
| `platforms` | every platform this process has built, with its database and whether it has been shut down |
| `models` | whether `engine.registry` holds the models that apps register in code |
| `stop` | how far the signal handler in `main` has come, and the host it has read |
| `request` | one record per client: its program point, its database, for a duplicate its source and `wasActive`, and what follows `UseDatabase`; for the properties also `chosen`, the platform that was active when `UseDatabase` returned |
| `used` | how much of each bound is spent |

A platform is a number: 0 is none, and as a handler it is the bootstrap handler.

| Action | Code |
|---|---|
| `App`, `UseDb`, `NewDb`, `DropDb`, `DuplicateDb` | a request arrives: through `CookieMiddleware`, or at `/web/database/...` |
| `Find`, `Decide`, `Lock` | `UseDatabase`: registered? active already? then `rebuild` |
| `BuildOk`, `BuildFails`, `BuildPanics`, `Shutdown` | `rebuild` under `Runtime.mu` |
| `Serve`, `Finish` | `SwapHandler.ServeHTTP`: read the handler, run it |
| `Create`, `Restore`, `Exists`, `Add` | `handleCreate`, `handleRestore`, `handleImport` |
| `Source`, `Ask`, `EnterBootstrap`, `Close`, `Isolate`, `Clone` | `handleDuplicate` and `Admin.DuplicateDatabase` |
| `Check`, `Remove`, `Drop`, `ReAdd` | `handleDrop` |
| `Crash`, `Signal`, `StopHost`, `Exit` | the process and its signal handler |

What is abstracted:

* `CodeModels` says whether an app registers a model in code. The shipped app manager
  does (`apps/appman/gql.go`), so in the default program it is true, and the second
  build of a process fails: `runtime_faults` and `second_build` set it.
  `runtime_concurrent` has programs without such an app, in which the
  platform can be switched and every race below be run; the theorems hold for both.
* Names are valid, the client has a manager session where one is needed, and
  the answer is not modelled. Master password, sessions and backup are left out.
* A request counts until its response; a client has one at a time.
* A build is one step. `Faults` says how it may end otherwise: with an error
  (`"build"`: the database does not answer, the request is canceled, an app
  fails) or a panic (`"panic"`: a duplicate root field).
* A statement of `Admin` happens or fails (`"admin"`), or its request is canceled
  and the server may have executed it nevertheless (`"cancel"`). The catalog file
  is written in one step, or not at all (`"save"`).
* The catalog starts as a subset of the server's databases. A catalog seeded
  from `KaizenGo_POSTGRES_DSN` may name a database that does not exist yet.
* The listener is closed and the process replaced in one step (`Exit`).

Its `FairSpec` assumes that each request runs on, that `Runtime.mu` is handed to
every waiter in turn, as `sync.Mutex` does, and that the process ends once it
has begun to. A build ends because each of its statements does or its context
is canceled. Nothing is assumed of clients, failures, crashes and signals.

### `Overlays` and `DomainsView`: the promise to one author

`Overlays` says what the domain API promises without how: every app is shown as
its base with the layer kept for it; a change is shown all at once or not at all
(`Show`), kept next (`Keep`), and lost when the process ends in between (`Stop`,
`Start`); a layer that no longer fits new code (`Deploy`) is reported, and the app
is shown without it. `DomainsView` instantiates it over `Domains`:

| `Overlays` | in terms of `Domains` |
|---|---|
| `base`, `head` | `code`, and the newest overlay revision of each app |
| `shown` | an app's spec with the root fields that resolve to it and its model services; while a mount or its rollback is under way, what was saved before it |
| `change` | the request of the call that has mounted and not stored yet |
| `reported` | `errors` once the platform is up |

`AtomicToAuthor == Author!Spec` is the refinement. It holds for calls that come
one after another; with two callers `applyLayer` is not atomic (section 4). What is
shown of an app that runs nothing (`Hidden`) is a constant of `Overlays`, since the
abstract module knows nothing of documents.

### `Records`: one model, its policies, its search index

| Variable | In the code |
|---|---|
| `rows` | the table of the model: values and the `deleted` flag |
| `entries`, `clock` | the `acl_entry` rows with their time of update, by which they are listed |
| `config`, `saved` | the search settings in force, and those in `search.json` |
| `memory`, `remote` | the memory index and the collection in Typesense |
| `call` | one record per request: program point, payload, the row it has loaded |
| `crossed`, `missed` | history: ids on which calls overlapped, or whose last index update did not happen |

| Action | Code |
|---|---|
| `BeginCreate` | `Create` up to its statement: policies, `normalizeFields`, required fields, hooks, `validateSpecFields` |
| `BeginChange`, `Refused`, `RefusedByHook`, `AuthorizeUpdate`, `AuthorizeDelete` | `Update`, `Delete`: load the row; policies on the row as loaded; hooks; validation |
| `InsertRecord`, `UpdateRecord`, `SoftDeleteRecord`, `WriteFails` | the statements: `ON CONFLICT` revives a deleted row, an update writes the columns of its payload; a required column takes no NULL (`Takes`) |
| `Reread`, `SyncMemory`, `SyncRemote`, `RemoteFails`, `NotIndexed` | after the write: `getRaw`, then `syncSearchIndex` in two steps |
| `UpdateSearchModelConfig`, `ReindexSearchModel`, `ReindexOne`, `ReindexDone` | settings, and the reindexing of one query's result row by row |
| `SeedPolicy`, `DisableEntry` | `EnsureEntry` and `DisableACLByName`: policies are seeded or disabled while calls run |
| `Restart` | the memory index is gone, settings come from the file |

Reads (`Get`, `List`, `ListPage`, `Groups`, `Query`) are operators on the state:
each is one or two statements and changes nothing. `List` has the filter in SQL, and the
filter in memory which it falls back to when the query fails (`failed`); `ListPage` has
the query domain and the quick search `q`, which looks for a text in the fields
the client may see (that the code also finds "<nil>", the text of a masked field, is left
out).

A value is a text; what the code compares of texts (lower case, occurrence, order)
is given by `Fold`, `Holding`, `Rank` in `Acl`. `Acl` keeps the two readings of a
domain apart: `Satisfies` in memory and `SqlSatisfies` in the `WHERE` clause, which
differ (`=` folds case in memory only). `Matching` says which texts Typesense finds for
which searches, any relation on texts; the memory index goes by `Holding`. The hooks that
`apps/typesense/app.yaml` adds to each model write the document that
`syncSearchIndex` writes, to the same two indexes just before it; one write stands for both.
Hooks are what they may do to a payload (`HookWrites`): set fields, also to nil, and take
fields out; who runs them is in `Plugins`. Left out: relations, one2many
expansion, presets, several organisations, scores and snippets of search hits, the
audit log.

### `Installs`: apps of one platform

| Variable | In the code |
|---|---|
| `code` | the deployed release: compiled apps, apps with an `app.yaml` on disk, versions |
| `table`, `migrated`, `seeded` | `kaizengo.installed_apps`, the migrations applied, the apps whose policies are in the database |
| `phase`, `todo`, `order`, `env` | how far `module.Load` has come, and `KaizenGo_APPS` |
| `loaded`, `fields`, `startup`, `handlers` | `Host.Loaded`, registered root fields, waiting startup hooks, how often an app's `extends` are registered |
| `call` | one `Install` or `Upgrade` per caller |

`Begin` is `Wanted`, `Resolve`, the capability check and `ResetLoadState`; where
nothing is wanted `Resolve` takes every compiled app (`Selected`);
`BootSetup`, `BootStart`, `BootMount`, `SyncLoaded` take the apps one by one;
`BootFails` and `Restart` may come between any two. `Lock` takes `Manager.mu` and
decides; `Skip`, `Extend`, `Setup`, `Mount`, `Upsert`, `Installed` are
`installLocked`; `MigrateLoaded`, `Stamp` are `Upgrade`; `SetupPanics` and
`CallFails` end a call half-way, possibly after the migrations or the root fields of
the app it was at, and nothing undoes what it did. A new release is
deployed by `Restart`. An app's migrations are applied as a whole; the fields of an
app are registered as a whole.

### `Plugins`: processes, hooks, writes

| Variable | In the code |
|---|---|
| `served`, `builds`, `task`, `cur` | the platform requests go to; the build, start or stop under way, and the plugin it is at |
| `procs`, `running` | `Manager.procs` of each platform; the processes that are alive |
| `bound`, `applied` | `Domains.handlers` of each platform; the plugins whose documents were applied |
| `load`, `scoped`, `nextScopedID` | `loadHandlers` and `scopedHandlers`, shared by all platforms of the process |
| `req` | per client the stack of calls it is in: a hook may write in turn |

`Begin` ... `Swap` build a platform and start its plugins, step by step as
`Manager.startOne` does; `StopNext`, `RemoveHook`, `UnbindHandler`, `Kill` are
`Stop` and `unbind`; `ProcessDies` may come at any time. `Write`, `RunHook`,
`Returns`, `Broken`, `Store`, `Finished` are one write with its hooks; `Handle` a
query or command a plugin answers; `HostWrite` a write a plugin makes in a hook.
`SortHandlers` is the exchange sort of `extension.Run`, written out, because it is
not stable. Reads through the host and `ApplyDomain` called from a hook are left
out.

### `Layers`, `Specs`, `Surface`: documents in full

A specification is a record; a list of named declarations is a function from a
name to its declarations. `Layers` has `Merge` and `Subtract` with the conditions
under which they return an error, and `Marshalled`, which drops what
`MarshalDomain` does not write. `Specs` has the loading of a release from its
files, the defaults and the validation; the code's recursion through included files is
one walk with a list of what is still to be read. `Surface` is a state machine over them:

| Variable | In the code |
|---|---|
| `release`, `up`, `layer`, `broken` | the binary that runs, whether it came up, the stored overlay and whether it was left out |
| `served`, `fields` | `App.spec`, and its root fields with guard, model and columns |
| `registry`, `tracked` | `acl.Registry` and `views.TrackView`, which only grow in a process |
| `printed`, `authored` | the document an author has printed, and the last one accepted with the base it was accepted on |
| `addon`, `rights` | an installed addon with menu items; what policies give the user: the views they close, the actions granted without a record (`granted`), those granted on some record only (`own`), the models of which they leave no record to list (`barred`) |

`Boot`, `GetDomain`, `Apply`, `Delete`, `Install`, `SetPolicy` are its actions, each
to its end: `Apply` is `Subtract` from the document, `Merge` on the base,
validation, and `Mount` or a failed mount whose resources stay registered.
A release also has the models its code registers (`registered`), whose views are tracked
at every mount but the one of the boot, which comes before they are registered. Of these
models the root fields of an app without queries and commands are left out, and those
declared non-virtual in the specification. Texts (titles, prompts, SQL) and the
resolvers behind the fields are left out.

## 3. Runs

The bounds (`MaxCalls`, `MaxFailures`, `MaxCrashes`, `MaxUpgrades` of `Domains`;
`MaxRequests`, `MaxFailures`, `MaxCrashes`, `MaxStops` of `DbRuntime`; `MaxClock` of
`Records`; `MaxCalls`, `MaxFailures`, `MaxRestarts` of `Installs`; `MaxBuilds`,
`MaxFailures`, `MaxWrites` of `Plugins`) are conjuncts of the guards. When they are
spent nothing is left to do, so these runs do not check for deadlock; that a call
never gets stuck is stated by `CallsReturn`, `RequestsReturn`, `RequestsEnd`.
`Surface` needs no bound.

| Run | Checks | Bounds |
|---|---|---|
| `concurrent` | `TypeOK` `SurfaceIntact` `LoadedAgree` `DeclaredAreActive` `NoStaleEntries` `OthersUntouched` `StoredIsMounted` | two callers, three calls, bundles, no failure |
| `faults` | `SurfaceIntact` `CallsReturn` `ComesUp` | two callers, failing reads of the store, DDL, policy and append failures, a crash |
| `sequential` | `AtomicToAuthor` `LoadAllComplete` | one caller, two compiled apps and two dynamic, of which one may depend on the other, crashes, a new version of the code |
| `runtime_concurrent` | `TypeOK` `ActiveAgree` `HandlerOpen` `OneOpen` `CatalogExists` `ServedOrNewer` | two clients, two databases, three requests of every kind but import, a failing build, statement or catalog write, a crash, a signal |
| `runtime_faults` | `RequestsReturn` | two clients, two databases, builds that fail or panic, canceled requests, models registered in code |
| `records` | `StoredIsValid` `SearchExact` `UpdatesMerge` | one record, of which only open ones may be deleted, a client and a system job at once, five hooks, three search settings, Typesense failures, restarts, three writes |
| `policies` | `ListIsGettable` `SeedingIsIdempotent` | one record in four forms, six policies of one role, two of them a deny and an allow of equal priority, seeded, seeded again and disabled, three query domains, one text to search for (`Searches`), failed queries, four creations |
| `installs` | `DependsLoaded` `StampedIsMigrated` `InstalledComesBack` `UpgradeStaysVisible` `CallsReturn` | four apps, three releases, two callers, two calls, a failure, two restarts |
| `plugins` | `NothingLeftBehind` `HealthyAnswer` `RunsByPriority` `RequestsEnd` | three plugins of which one always fails, two databases, two builds, a failure or death, two nested writes |
| `surface` | `ServedIsWhole` `GrantsCoverFields` `MenuReachable` `CatalogComplete` | three releases, five additions, an addon, two users |
| `deny_beats_allow` | `DenyBeatsAllow`, which is violated (section 4) | a deny and an allow of priority 0, a record in four forms |
| `second_build` | `SelectingRebuilds`, which is violated (section 4) | one client, two databases, two requests, models registered in code |

Why the bounds are enough:

* `Domains`: two callers are enough for every race in `applyLayer`: between its
  reading and its locking, another call either has stored something or not, and a
  third call would have to wait for the same mutex. Three calls let an app be
  created, changed and removed or restored. The documents in `MCDomains` are chosen
  so that each rejection happens: a field of another app (`hrLeaves`, `hrPayruns`),
  a retyped column (`retyped`), a missing dependency (`leave`, `billing`), a layer
  that no longer fits new code (`hrBadge` under `hrV2`), a disabled entry of another
  app (`strict`).
* `DbRuntime`: two clients: each reads under a mutex or from the catalog, and the other
  acts before it uses what it has read. Two databases let one be active while the other
  is selected. Three requests are a switch, another client's switch between two steps of
  it, and one more. Clients and databases are interchangeable and the runs that check
  safety use that symmetry; `runtime_faults`, which checks liveness, does not.
* `Records`: nothing relates two records, so one is enough; a third writer would repeat
  what the second does between load and write. The hooks set a readonly field, an
  invalid value and nil, and take a required field out. Three writes are create, update
  and another update or delete between the two steps of the index. The policies of
  `policies` allow and deny, whole records and single fields, with and without domain,
  and two of them, `lock` and `open`, have one priority and opposite effects.
* `Installs`: `sales` needs `crm`, which needs `core`: an install of three apps can
  stop in each of them; two restarts are an upgrade and what comes after. `notes`
  uses a capability that `crm` provides and is missing from the third release.
* `Plugins`: the second build runs while the first platform serves, so every list
  has entries of both; two writes are one that a hook makes within another.
* `Surface`: the additions give a field that a later release gives too, with the
  same and with another type, a new query with a policy, a new model with a preset
  and a dependency, and a query whose field (`ping`) may be taken. `Diamond` reaches a
  file on two ways.

The properties of `Domains`:

* `SurfaceIntact`: between mounts the fields an app owns, the fields the
  registry resolves to it, its model services and its spec agree.
* `LoadedAgree`: `Domains.dynamic` and `Host.Loaded` agree, and an app that is
  in neither has no surface.
* `OthersUntouched`: a mount, rollback or unmount changes no field of another
  app.
* `StoredIsMounted`: when a layer is stored, the app runs exactly that layer, and it
  is a layer of that app.
* `MountedIsHead`: an app without a reported error runs its base plus its head.
* `DeclaredAreActive`, `NoStaleEntries`: the active policy entries are those the
  mounted apps declare.
* `ColumnsMatch`: a stored column has the type of the mounted spec.
* `LoadAllComplete`: when a boot ends, a stored app is missing only if it is reported
  and there is a reason: it does not fit what is loaded, a field it defines is taken, or
  it depends on a stored app whose name sorts after its own.
* `LoadAllMounts`: an app is missing for the first two reasons alone. Violated: `LoadAll`
  goes by name.
* `ImportRestores`: a bundle that describes a consistent platform is accepted.
* `CallsReturn`, `ComesUp`: calls return, and the platform comes up again.

The properties of `DbRuntime`:

* `ActiveAgree`: while `Runtime.mu` is free the active name, the platform and the
  handler are those of one database, or all three say bootstrap.
* `HandlerOpen`: no request is handed to a platform that was shut down (one that
  has it already may lose it: `ServeHTTP` holds no lock while it serves).
* `OneOpen`: no replaced platform stays open. Excludes builds that panic, which
  leave their pool open.
* `CatalogExists`: a registered database exists on the server. Excludes an import
  racing a drop, and a drop that is canceled after the server has executed it:
  both register a database that is gone.
* `ServedOrNewer`: a request whose selection succeeded is handed to the platform it
  selected, to one built since, or to the bootstrap page, never back to a platform that
  was replaced before.
* `ServedByOwn`: a request is served by the platform of its own cookie. Violated: the
  platform built since may be another client's (section 4).
* `ActiveExists`: the active database is not dropped. Violated likewise.
* `SelectingRebuilds`: selecting a registered database activates it. Violated.
* `RequestsReturn`: every request returns.

The properties of `DomainsView`:

* `AtomicToAuthor`: seen by one author, the pipeline implements `Overlays`.

The properties of `Records`:

* `UpdatesMerge`: a field of a live record changes only in the write of a call that
  was asked to change it or whose hook sets it; two writers do not undo each other.
* `StoredIsValid`: live records satisfy the model's declaration whatever hooks set,
  except that a hook may empty a required field, which nothing looks at.
* `SearchExact`: without overlapping calls and lost index updates, a search finds a
  record exactly if it is live and an indexed field matches the text, as the index that
  answers matches.
* `SeedingIsIdempotent`: seeding a policy again whose row is as the seed left it changes
  nothing a client can see, provided no policies of equal priority compete. What a seed
  does to a row an administrator has edited or disabled it does not say.
* `ListIsGettable`: a list or page, also one made in memory after a failed query, shows
  no record the client cannot get. Excludes
  grants of single fields that depend on the record, or all of whose fields a later
  deny takes back (`FieldGrantsStand`): without a record at hand `BuildListFilter`
  cannot consider them.

The properties of `Installs`:

* `DependsLoaded`: the loaded apps are closed under `depends` at every moment.
* `StampedIsMigrated`: a version in the install table has been migrated to.
* `InstalledComesBack`: after a boot without `KaizenGo_APPS` every installed app
  that is still there is loaded, with its policies seeded.
* `UpgradeStaysVisible`: what can be upgraded stays so until it is.
* `CallsReturn`: every install and upgrade returns.

The properties of `Plugins`:

* `NothingLeftBehind`: between builds the scoped hooks and the processes are those of
  the healthy plugins of the platform that serves.
* `HealthyAnswer`: its handlers are bound, each to its own plugin. Excludes two
  plugins that name the same handler.
* `RunsByPriority`: the hooks of a phase run once each, by ascending priority.
* `RequestsEnd`: a write ends although the plugin it waits for dies.

The properties of `Surface`:

* `ServedIsWhole`: what is served is the release's base and all that the author added
  beyond the base the document was accepted on.
* `GrantsCoverFields`: every guarded root field has a resource with all its columns.
* `MenuReachable`: who is shown a menu item with a view is shown the app.
* `CatalogComplete`: what a call would answer is in the catalog: every query and
  command, and of a model the create and the list, unless the list answers an empty page
  (`barred`). The catalog asks without a record, the service of a model with the record
  for get, update and delete, so these may answer and not be listed.
* `CatalogOffers`: the same of all operations. Violated (section 4).

Each module has a type invariant; those of the modules without proofs have been
checked with the same instances and are not repeated in the runs.

Fairness. `Installs`: strong fairness of taking `Manager.mu` (`sync.Mutex` hands it
to a waiter that starves) and weak fairness of a call's steps. `Plugins`: weak
fairness of each client's `Serve`: goroutines run, and a hook that is asked returns
or its process dies; a hook that never returns would block its write for ever, which
`hookFunc` does not prevent. Nothing is assumed of builds. `Records` and `Surface`
have safety properties only.

## 4. Where the code differs from its documentation

| Run | Property | What happens |
|---|---|---|
| `deny_beats_allow` | `DenyBeatsAllow` | `docs/acl.md` says "at equal priority deny beats allow". `evaluateMatched` sorts a deny before an allow of its priority, and then sets `hasAllow` for any allow of the whole record, also one that lost: with a deny and an allow of priority 0 the record is read |
| `second_build` | `SelectingRebuilds` | `engine.registry` keeps the models that apps register in code (the app manager's) for the process, and refuses them a second time: the build of the second database a client selects fails |

More departures can be reproduced with configurations kept beside the runs
(`tlc -config <file> <module>`; each stops with a counterexample, and with `-continue`
TLC goes on to those of the other properties):

| Configuration | Module | Property | What happens |
|---|---|---|---|
| `StaleHead.cfg` | `MCDomains` | `MountedIsHead` | one call re-applies the head it has read while another deletes the app: the first mounts the app again, sees "unchanged" and stores nothing. The app runs until the next boot, then it is gone |
| `PoliciesNotRestored.cfg` | `MCDomains` | `DeclaredAreActive` | `ApplySecurity` fails after it has disabled entries; the surface is rolled back, the entries stay disabled |
| `LayerBlocksBoot.cfg` | `MCDomains` | `ComesUp` | new code takes a root field that a stored layer of another app defines; `Setup` panics at every boot |
| `AppendFails.cfg` | `MCDomains` | `MountedIsHead` | the append fails after the mount; the error is returned and the new definition stays mounted |
| `Retype.cfg` | `MCDomains` | `ColumnsMatch` | delete, then apply with another type: the diff has no previous spec, and the existing column keeps its type |
| `HeadUnread.cfg` | `MCDomains` | `MountedIsHead` | a stored layer that cannot be read at boot: `resolveCompiled` mounts the base and reports nothing |
| `LoadOrder.cfg` | `MCDomains` | `LoadAllMounts` | `LoadAll` goes by name; an app which depends on a later one is broken after every restart |
| `ImportOrder.cfg` | `MCDomains` | `ImportRestores` | an exported bundle with an app and its dependency is refused on a fresh platform |
| `DropRace.cfg` | `MCDbRuntime` | `ActiveExists` | a drop has checked that its database is not active; a request that has found the name in the catalog activates it; the drop goes on |
| `DuplicateCanceled.cfg` | `MCDbRuntime` | `SourceReopened` | `DuplicateDatabase` opens the source again with the context of its request; when that was canceled, the source stays closed to connections |
| `WrongDatabase.cfg` | `MCDbRuntime` | `ServedByOwn` | the middleware activates the cookie's database; before the handler is read another client's request has switched it |
| `FailedSwitch.cfg` | `MCDbRuntime` | `FailedSwitchBootstraps` | a database that cannot be built leaves the previous one active, where `docs/development/workflow.md` speaks of bootstrap mode |
| `StopRace.cfg` | `MCDbRuntime` | `StopsEverything` | the signal handler has read the host; a switch builds another, which nobody shuts down |
| `SearchAll.cfg` | `MCRecords` | `SearchAllFinds` | a search without collections takes the names of the memory index, which is empty after a restart: Typesense is not asked although it has the documents |
| `InstallRetried.cfg` | `MCInstalls` | `RetrySucceeds` | an install stops after `Setup`; the retry panics on the root fields of the first attempt |
| `InstallRetried.cfg` with `-continue` | `MCInstalls` | `HandlersOnce` | an install stops after `ApplyExtends`; the retry registers the hooks a second time |
| `HookDepartures.cfg` with `-continue` | `MCPlugins` | `OwnHooksOnly` | while a database is switched, writes on the old platform run the hooks of the new one |
| the same | `MCPlugins` | `RefusedByAHook` | a write has the hooks of the old platform in its queue when their processes are killed, and is refused |
| `ExtendsLost.cfg` | `MCPlugins` | `ExtendsOfServed` | a failed build leaves the `extends` of the platform that never came up |
| `HandlerClash.cfg` | `MCPlugins` | `HealthyAnswer` | a failed plugin unbinds by name the handler of another |
| `HookCaller.cfg` | `MCPlugins` | `CallsRunAsCaller` | hooks of an update or a delete are told of no user; what they ask of the host is refused, or asked for as the system |
| `SurfaceDepartures.cfg` with `-continue` | `MCSurface` | `AddonReachable` | an addon installed live adds a menu item whose view the shell does not know before the next mount |
| the same | `MCSurface` | `ShellShowsViews` | views stay tracked after the layer that had them is gone |
| the same | `MCSurface` | `CatalogCallable` | the catalog lists a query by its own resource though its model has policies too, and `Count` and `Groups` for everyone |
| the same | `MCSurface` | `CatalogOffers` | a policy restricted to records lets a user get and update one of his own; the catalog, which asks without a record, lists neither |
| `DroppedModel.cfg` | `MCSurface` | `ServedIsWhole` | a release drops a model a layer adds fields to: the layer's fragment becomes a model of its own |

Where a passing run checks the same property, it leaves the cause out (no policy
failure, no taken field, no clash of handlers, no dropped model) and shows that it is
the only one within its bounds.

## 5. Proofs

Where a theorem has a hypothesis, the hypothesis excludes a departure that
section 4 reproduces or that the theorem's comment describes, and the runs satisfy it.

### `Domains`

`DomainsProofs` proves, for all values of the constants that satisfy
`DomainsAssumption` and `BundlesAssumption` (any number of apps, documents, callers,
calls and failures):

| Theorem | Statement |
|---|---|
| `TypeCorrect` | `Spec => []TypeOK` |
| `SurfaceIsIntact` | `Spec => []SurfaceIntact` |
| `LoadedAgrees` | `Spec => []LoadedAgree` |
| `StoredMounted` | `Spec => StoredIsMounted` |
| `OthersAreUntouched` | `Spec => OthersUntouched` |
| `GrantsStand` | `"security" \notin Faults /\ Apart => (Spec => []DeclaredAreActive)` |
| `NothingStale` | `{"read", "security"} \cap Faults = {} /\ MaxCrashes = 0 => (Spec => []NoStaleEntries)` |
| `LoadAllIsComplete` | `{"ddl", "security"} \cap Faults = {} => (Spec => LoadAllComplete)` |

`DomainsAssumption` says that compiled and dynamic apps are distinct, that the
two boot orders name an app at most once, that the dynamic one names every dynamic
app, that documents and bundles are well formed, and that every compiled app has
code. Everything is what the code guarantees by its types, by `module.Load`'s
topological sort and by `LoadAll`'s reading the names of all stored apps from a map.
`BundlesAssumption` (section 2) is no such guarantee: it leaves a case out in which
`StoredIsMounted` is false of the code.

The argument. None of the properties is inductive: that a rollback restores a
whole surface depends on what was saved several steps earlier. `IInv` adds

* `LockInv`: a call is between a mount's first and last step exactly when it
  holds the mutex, hence at most one is;
* `RequestInv`, `StoreInv`: a call past its dry run has a request; overlay
  revisions hold overlay documents;
* `BootInv`: no call runs during boot, and boot has loaded only apps that
  precede the one it is at;
* `WholeInv`, `LoadedInv`: only the app whose mount is in progress may be
  other than whole, and only that one may have a surface without a manifest;
* `SavedInv`: what is saved is a whole surface of that app; the fields of the
  others are still as they were saved, and the app has only taken free ones;
* `ProgressInv`: after the remount the app runs the requested spec, and after
  `UnmountStart` none of its fields is left.

The proof is one lemma per action (`...Surface`), over three that say what is
left to show when a step ends with the mutex free, held, or held by another
call (`FreeSurface`, `HeldSurface`, `QuietSurface`). `HeadAtType` and `HeadOfAppended`
need that a non-empty finite set of revision numbers has a maximum
(`MaxIsGreatest`), shown from the well-foundedness of `<` on the naturals.

The two theorems about policy entries rest on `IInv` and on three more invariants.
`KeptInv`: while an app is being mounted or rolled back its `App` still runs the spec
that was saved, which is what `droppedEntries` subtracts from. `GrantInv`: every app
whose turn in the boot is over has its entries active, except one whose spec was
replaced and that is about to be secured. `StaleInv`: every active entry is declared,
or the mount under way is about to drop it. For `GrantInv`, `SourceInv` says that all
that is ever stored, requested, saved or mounted of an app comes from documents of
that app, for which `BundlesAssumption` is needed. `StoredMounted` needs the same. Their
hypotheses are the code's limits:

* `"security" \notin Faults`: an `ApplySecurity` that fails part-way has disabled
  entries of the spec that the rollback brings back, and has added some of the other;
* `Apart`: `acl_entry` rows are keyed by name; of two apps that declare the same
  name, one that is deleted disables the other's entry;
* `"read" \notin Faults` (for `NoStaleEntries` alone): a boot that cannot read an app's
  head mounts the base, and the entries of the layer stay active;
* `MaxCrashes = 0` (for `NoStaleEntries` alone): after a crash between `ApplySecurity`
  and `Append` the entries of a document that was never stored are active, and the
  next boot, which only adds, does not drop them.

`LoadAllIsComplete` is about the end of a boot, while the decision to leave an app out
was taken when the boot was at it, with fewer apps loaded. `ReportInv` says that every
stored app the boot is past is mounted, or is reported and has a reason that holds of
what is loaded *now* (`Settled`). It stays so (`StaysSettled`): root fields are only
taken during a boot, and when an app that was missing as a dependency is loaded later,
it is one whose name sorts after the dependent's, which is a reason of its own (`After`;
`LoadOrder.cfg` shows that this happens). A failing statement of a mount would be
reported too, so tables and policies may not fail; a failing read ends `LoadAll` before
it mounts anything, so that no platform comes up, and a failing append does not occur in
a boot.

### The pipeline and its promise

`DomainsViewProofs` proves that `Domains` implements `Overlays`:

| Theorem | Statement |
|---|---|
| `PipelineIsAtomic` | `OneCaller /\ {"read", "append"} \cap Faults = {} => (Spec => AtomicToAuthor)` |

Any number of calls, crashes and releases may follow each other; tables and policies
may fail in the middle of a mount. The hypotheses are departures of section 4:
`applyLayer` reads the head before it takes the mutex, so another call can come in
between (`StaleHead.cfg`), a layer that cannot be stored stays mounted
(`AppendFails.cfg`), and a layer that cannot be read at boot is left out without a
report (`HeadUnread.cfg`).

The proof has one lemma per group of actions. Of a call's steps those up to the
mutex (`QuietView`), those of a mount (`MountView`), its rollback (`RollbackView`) and
the start of an unmount (`UnmountStartView`) are stutters; the last step of a mount or
an unmount is `Show` (`ShowView`), storing is `Keep` (`StoreView`). A boot is a
stutter but for its end, which is `Start` (`BootView`, `StartView`); then `CrashView`
and `DeployView`. What is shown of an app follows from `IInv`: its surface is whole, or
is being mounted and was saved whole (`ShownRunning`, `ShownSaved`), and no other app's
changes (`OthersShown`). Three more invariants are needed, which tell what was done
earlier (`ViewInv`):

* `InstalledInv`: the compiled apps that are loaded are those the boot sets up, so a
  call for another one shows nothing;
* `BootedInv`: every app the boot is through with runs its newest layer, or its base
  and is reported. It makes the end of a boot a `Start`, and is where a new release
  meets layers stored under the old one;
* `ReadInv`: the head that a call has read is still the head. It makes storing a `Keep`,
  also when `applyLayer` stores nothing because the layer has not changed.

### `DbRuntime`

`DbRuntimeProofs` proves, for any databases, clients, kinds of request, faults
and bounds:

| Theorem | Statement |
|---|---|
| `TypeCorrect` | `Spec => []TypeOK` |
| `AgreeCorrect` | `Spec => []ActiveAgree` |
| `HandlerCorrect` | `Spec => []HandlerOpen` |
| `OneOpenCorrect` | `Spec => []OneOpen` |
| `CatalogCorrect` | `Certain => (Spec => []CatalogExists)` |
| `NewerCorrect` | `Spec => []ServedOrNewer` |

`Certain` says that there is no import and no canceled statement.
`DbRuntimeAssumption` gives the constants their kinds. What two clients can do to each
other beyond this is not excluded by hypotheses: that a request is served by the
platform of its own cookie, and that the active database is not dropped, is false of the
code (`WrongDatabase.cfg`, `DropRace.cfg`).

The invariants, of which each is relative to those before it:

* `TypeInv` adds to the types that a request is in a build, a shutdown or a
  close exactly when it holds `Runtime.mu` (`LockInv`), and that what it is about to
  shut down is a platform other than the current one (`AimInv`). The lemmas
  `GotoKeeps`, `ReturnKeeps`, `UseKeeps`, ... say once what moving a request
  keeps; each action has a lemma over them.
* `ServeInv`: handler and name follow the platform in every state, the platform
  is open until the process stops, and any other open platform is the one that
  the holder of the mutex is about to shut down. The last part is what makes
  `OneOpen` inductive.
* `CatalogInv`: a request between creating and registering its database, or
  between unregistering and dropping it, has the name to itself. No mutex spans
  these steps; that they exclude each other follows from `CREATE DATABASE` and
  `RemoveDatabase` each succeeding for one request only.
* `BuiltInv`: while a request shuts down the platform it replaced, the platform is the
  one it built, for its own database.
* `NewerInv`: a request keeps the platform it chose from `UseDatabase` to its answer. The
  platform that serves is that one or a later one, since numbers of platforms
  grow, or none; what the request has read from the handler is too. No mutex spans these
  steps, and other clients switch the platform between them.

### `Layers`

`LayersProofs` proves, for all documents:

| Theorem | Statement |
|---|---|
| `DocumentComesBack` | a document that `Subtract` accepts is the merge of its base with the layer computed from it |
| `BaseIsKept` | a merge that is accepted keeps every declaration of the base |
| `LayerIsKept` | and every declaration of the layer |

The documents are those in which a name is declared once, and that have a title and
a summary, as the loader and the validation require (nothing in the code asks the
first of the fields of a model). The lemmas go part by part: sets, texts, named
declarations, and models with their fields. They are used again for `ServedAsAuthored`
of `Surface`, where the layer is stacked on another base than the one it was made for.

### `Installs`

`InstallsProofs` proves, for any apps, dependencies, releases, callers and bounds
that satisfy `InstallsAssumption` (finitely many apps, which depend on apps; versions
are numbers; `KaizenGo_APPS` names apps):

| Theorem | Statement |
|---|---|
| `DependsAreLoaded` | `Spec => []DependsLoaded` |
| `StampsAreMigrated` | `Spec => []StampedIsMigrated` |
| `UpgradesStayVisible` | `Spec => UpgradeStaysVisible` |
| `WhatWasInstalledComesBack` | `Spec => InstalledComesBack` |

`DependsLoaded` is not inductive: that the next app may be loaded depends on the
order computed when the boot or the install began. `IInv` adds that what is left of
this order can be gone through from its head over the apps that are loaded
(`OrderedOver`, for the boot in `BootInv`, for calls in `CallInv`); it holds at the
start because `TopoSort` orders a closed set (`TopoSortOrdered`), it is kept when the
head is loaded (`OrderedTail`), and when others load apps (`OrderedMonotone`).
`StampedIsMigrated` needs that a loaded app has been migrated by the running release
(`MigratedInv`), because `SyncLoaded`, `Upsert` and `Stamp` write the version of
loaded apps only. The proof uses nothing of `Manager.mu`: two installs at once would
keep both.

`UpgradeStaysVisible` follows action by action: the version in the table grows only in
`Upsert` and `Stamp`, which a call reaches at its own app, and a boot's `SyncLoaded`
keeps the version of an app that has one. `InstalledComesBack` is about the end of a
boot and needs to know how it began: `BackInv` says that what has been done and what is
left make up the boot's list, that this holds everything installed that the release
knows, and which part of it is seeded and synced. A failed boot forgets what it loaded.

### `Records`

`RecordsProofs` proves, for any fields, policies, hooks, callers and bounds that
satisfy `RecordsAssumption` (required and readonly fields are fields, there are finitely
many ids, policy rows have their columns, with a priority in the range of the
code's integers, and the policies of the start are at most one for each name and role,
which `EnsureEntry` goes by):

| Theorem | Statement |
|---|---|
| `StoredRecordsAreValid` | `Spec => []StoredIsValid` |
| `WritesMerge` | `Spec => UpdatesMerge` |
| `SearchFindsWhatIsStored` | `Spec => []SearchExact` |
| `ListsShowWhatGetGives` | `Spec => []ListIsGettable` |
| `SeedingChangesNothing` | `Spec => SeedingIsIdempotent` |

What an update leaves in a row is decided when its payload is built, several steps
before it is written, while other calls write the row. So `IInv` says of every call
that is about to write that each field of its payload is nil or as declared, and was
asked for by the caller or set by a hook (`ReadyToWrite`), and that the row of an update
or delete exists (it may be deleted by then). A nil, or a field a hook took out, is
stopped by the statement (`Takes`). Of the rows
it says that those which exist are as declared, deleted ones too, because an insert
or a seed may bring them back. `ValidatedIsDeclared` is the step from the checks to
the payload: required fields are looked at before the hooks, values after them, so a
hook that empties a required field has to be excluded (`HooksFill`).

`SearchInv` says which of the three stores of a record may be behind, and why: for an
id on which no two calls have overlapped, the one call that is on it knows its row,
and unless an index update was lost or this call or the reindexing has still to
write them, both indexes hold what the row gives (`InStep`). The theorem covers both
indexes and the fallback from one to the other.

`ListIsGettable` compares two evaluations of one set of policies. The proof needs of the
state only that each entry is a policy row (`EntriesInv`). From there it goes along
`BuildListFilter`: when the filter denies, nothing is listed; when it is exact, SQL and
memory agree with `Evaluate` on the deciding entry, also where a query has failed;
otherwise each row is decided as `Get` decides it. The entry that decides is the
greatest of a finite set by priority and order, and it is the same in both because the
entries that cover the whole record and those that cover a field of it are the same for
every row (`FieldGrantsStand`).

`SeedingIsIdempotent` compares the evaluation of two sets of policies. Seeding a policy
as it is in force takes away one row and adds one that differs in its time of update
only: `SeedInv` says that no other row has its name and role, and that no row is dated
later than now. The rest is about any two sets of rows in which each row of one has
one like it in the other (`Twins`): selection by resource, action, record and field
keeps them twins (`TwinsSelected`), twins have a deciding row of the same effect
(`TwinsDecide`), hence one decision, one mask and the same denied fields
(`TwinsEvaluate`), and one filter (`TwinsFilter`); what a client sees is computed from
these (`TwinsShow`). `DeniedFields` goes through the rows in the order they are listed,
newest first, and that order does change: without ties a row of the highest priority
decides all the same (`TopDecides`), and there is a first one (`ListedFirst`) because
rows of one priority have a latest time.

### `Plugins`

`PluginsProofs` proves, for any plugins, registered hooks, databases and bounds that
satisfy `PluginsAssumption` (binaries and hooks are listed, each at most once, and
those that are started have a manifest):

| Theorem | Statement |
|---|---|
| `NothingStaysBehind` | `Spec => []NothingLeftBehind` |
| `HealthyPluginsAnswer` | `Distinct => (Spec => []HealthyAnswer)` |

A plugin that is started, failed or stopped goes through several steps, and in
between the lists hold parts of it. `IInv` says what each part belongs to:

* `GenInv`: one platform serves, one may be built or stopped, and no other has
  plugins, so what an earlier platform left would have no owner;
* `OrderInv`, `ErrorInv`: a manager lists a binary at most once, the one at hand not
  yet, and lists a failed plugin only after it was unbound;
* `ScopedInv`: every scoped hook has a number of its own and a live plugin that will
  remove it by that number (`Removable`), and no live plugin would remove one that is
  not there. Numbers are needed because `remove` deletes by number, and a number
  given again would take another plugin's hook;
* `RunningInv`: a process belongs to a healthy plugin or to the one at hand.

`BoundInv` adds to it that a bound handler is bound by a live plugin that will unbind
it, and that a handler a plugin has bound stays bound to it. `UnbindHandler` takes a
key and not an owner, so the second part holds only if no two plugins name the same
handler (`Distinct`); `HandlerClash.cfg` shows what happens otherwise.

### `Surface`

`SurfaceProofs` proves, for any releases, additions, other apps, addons and policies
that satisfy `SurfaceAssumption` (the names of the documents have a form for root
fields, which makes no name of the two fields of the shell that the catalog leaves
out):

| Theorem | Statement |
|---|---|
| `TypeCorrect` | `Spec => []TypeOK` |
| `MenusAreReachable` | `Spec => []MenuReachable` |
| `GrantsCover` | `Spec => []GrantsCoverFields` |
| `CatalogLists` | `Spec => []CatalogComplete` |
| `ServedIsAuthored` | `DeclaredOnce /\ NoneDropped => (Spec => []ServedAsAuthored)` |

* `MenusAreReachable` from `ViewsInv`: the view of every menu item served is tracked.
  The shell asks for the views tracked, which only grow, the menus for those served.
* `GrantsCover` from `CoverInv`: what a field needs in the registry is there, and stays
  whatever is registered later (`RegisteredKeeps`, `OperationKeeps`). An operation is
  registered twice in a mount, the second time without columns, so that the lemma is
  about `MergeFields` and not about the mount alone. `QueryField`, `CommandField` and
  `ModelField` say which guards the fields of a declaration can have.
* `CatalogLists`, for every user whose policies need not agree with and without a record,
  from `NamesInv`, by which all names in what is stored, printed and
  served are names of the documents, and `FieldsInv`: the root fields are those of the
  specification served, or none where the process did not come up.
* `ServedIsAuthored` from `WholeInv`: the layer stored is what the document accepted last
  had beyond the base it was accepted on, marshalled (`StoredAsAuthored`), and what is
  served is that layer on the base of the release that runs (`ServedAsStored`). It was
  checked by TLC in the instance of `Surface.cfg` first. `WholeAsAuthored` relates the
  two part by part: what `Subtract` leaves of a part, merged with any base, is what the
  document had beyond its own base (`OverIsBeyond`), though a model appears in a layer
  only if it adds something, with neutral flags and without its presets (`StoredModels`,
  `ModelsAsAuthored`). That documents stay documents, edited, defaulted, printed,
  subtracted or merged, is a lemma each.

`NoneDropped` says that no release drops a model another one has; `DroppedModel.cfg`
shows what happens otherwise. `DeclaredOnce` says that documents name everything once:
of two fields of one name a layer keeps both and a merge only the first.
`ServedAsAuthored` is the second conjunct of `ServedIsWhole`. The first, that
all included files are read, needs an induction over the files and is only checked by TLC.

### What is only model-checked

* Liveness (`CallsReturn`, `ComesUp`, `RequestsReturn`, `RequestsEnd`): fairness and
  `ENABLED` are beyond TLAPS.
* `RunsByPriority` of `Plugins`: it is about the outcome of a sort, which is a fold
  over positions; that needs induction over data.
* That a release is read whole (`IncludesRead`, the first conjunct of `ServedIsWhole`):
  the walk through the included files is a fold, which needs induction as well.

## 6. Left out, and left to do

To do, in this order:

1. The schema cache: a request during a swap rebuilds the schema from a registry
   without the fields that are being replaced (`internal/module/graphql.go:131`).
2. `Domains` composed with `Installs`: both append to `Host.Loaded` and register
   root fields, each under a mutex of its own.
3. `Domains` composed with `DbRuntime`: `module.Default`'s `App` objects are shared by
   all platforms; after a failed build the platform that stays has the spec and the
   services of the other database.

Not modelled:

* `apps/core/spa`, `packages/vscode-kaizengo`, `cmd/kaizen`: clients of the API.
* Code generation, translations, migrations' SQL, the generated gRPC code: text.
* Presets, settings, audit, identity: rows of their own tables without rules
  between them, except that two concurrent saves of a default preset can leave two
  defaults.
* Sessions: one table with an expiry that is extended with use; time is not
  modelled. Manager password and sessions, backups, the catalog file's format.
* The resolvers of `platform_gql.go`, and the second Typesense middleware that a
  rebuild in one process adds.
* A deadline that ends a shutdown, and a hook that never returns: time again.
