------------------------------ MODULE Domains ------------------------------
(***************************************************************************)
(* The domain pipeline of internal/engine/domains.go: apps whose effective *)
(* definition is a base layer (compiled code, or nothing) plus the head of *)
(* the overlay revisions in kaizengo.domain_revisions.  Callers apply,     *)
(* revert, delete and import layers concurrently; the engine hot-mounts    *)
(* them under one mutex; the process may crash and boot again from what    *)
(* the database holds.                                                     *)
(*                                                                         *)
(* A document is opaque: what the engine does with it depends only on the  *)
(* GraphQL root fields it registers, the columns its models store, the     *)
(* policy entries it declares or disables, and the apps it depends on.     *)
(***************************************************************************)
EXTENDS Naturals, Sequences, FiniteSets, FiniteSetsExt

CONSTANTS
    Compiled,       \* apps with a base layer in code
    Dynamic,        \* apps that only have stored layers
    CompiledOrder,  \* the installed ones in dependency order (module.Load)
    DynamicOrder,   \* dynamic apps in name order (LoadAll)
    Docs,           \* overlay documents callers may submit
    CodeDocs,       \* versions of the compiled apps' own documents
    DocApp,         \* the app a document names
    Content,        \* what a document declares
    Fields,         \* GraphQL root fields
    Columns,        \* <<column, SQL type>> pairs
    Entries,        \* policy entry names
    Bundles,        \* bundles callers may import: sequences of requests
    Callers,        \* concurrent API calls
    Faults,         \* kinds of database failure considered
    MaxCalls, MaxFailures, MaxCrashes, MaxUpgrades,
    NoLayer, NoApp, NoCaller

Apps == Compiled \cup Dynamic
Layers == Docs \cup {NoLayer}
Revisions == [layer : {"base", "overlay"}, doc : Docs \cup CodeDocs \cup {NoLayer}]
Definitions == [fields : SUBSET Fields, cols : SUBSET Columns,
                entries : SUBSET Entries, disable : SUBSET Entries,
                depends : SUBSET Apps]
\* engine.appState: an App's spec, the root fields it owns, its model services
AppStates == [spec : Definitions, owned : SUBSET Fields, services : SUBSET Columns]
Requests == [app : Apps, layer : Layers]
FaultKinds == {"read", "ddl", "security", "append"}

ASSUME DomainsAssumption ==
    /\ Compiled \cap Dynamic = {}
    /\ CompiledOrder \in Seq(Compiled)
    /\ DynamicOrder \in Seq(Dynamic)
    /\ \A i, j \in DOMAIN CompiledOrder : CompiledOrder[i] = CompiledOrder[j] => i = j
    /\ \A i, j \in DOMAIN DynamicOrder : DynamicOrder[i] = DynamicOrder[j] => i = j
    /\ \A a \in Dynamic : \E i \in DOMAIN DynamicOrder : DynamicOrder[i] = a
    /\ DocApp \in [Docs \cup CodeDocs -> Apps]
    /\ Content \in [Docs \cup CodeDocs -> Definitions]
    /\ \A a \in Compiled : \E c \in CodeDocs : DocApp[c] = a
    /\ Bundles \subseteq Seq(Requests)
    /\ Faults \subseteq FaultKinds
    /\ MaxCalls \in Nat /\ MaxFailures \in Nat /\ MaxCrashes \in Nat /\ MaxUpgrades \in Nat
    /\ NoLayer \notin Docs \cup CodeDocs
    /\ NoApp \notin Apps
    /\ NoCaller \notin Callers

\* The layers of a bundle name the app of their entry, as in every bundle Export
\* prints.  Import does not check it: an entry for an app without code whose
\* layer names another one would be mounted under the one name and stored under
\* the other, which is not modelled (Merge refuses it for a compiled app).
ASSUME BundlesAssumption ==
    \A bundle \in Bundles : \A i \in DOMAIN bundle :
        bundle[i].layer # NoLayer => DocApp[bundle[i].layer] = bundle[i].app

VARIABLES
    \* the database and the binary: what a crash leaves
    store,      \* kaizengo.domain_revisions, per app
    columns,    \* columns the engine created, per app
    active,     \* names of the active acl_entry rows
    code,       \* the version of each compiled app in the binary
    \* the process
    root,       \* GraphQLRegistry: the app whose definition serves a root field
    mounted,    \* each App's state
    dynamic,    \* Domains.dynamic: mounted apps without code
    loaded,     \* Host.Loaded
    errors,     \* Domains.errors: apps with a reported error
    lock,       \* Domains.mu
    saved,      \* saveState/snapshotFields of the mount in progress
    call,       \* the API calls in progress
    boot,       \* progress of buildPlatform
    used        \* how much of each bound is spent

durable == <<store, columns, active, code>>
memory == <<root, mounted, dynamic, loaded, errors>>
vars == <<durable, memory, lock, saved, call, boot, used>>

-----------------------------------------------------------------------------
(* Documents and stored layers *)

Blank == [fields |-> {}, cols |-> {}, entries |-> {}, disable |-> {}, depends |-> {}]
Unmounted == [spec |-> Blank, owned |-> {}, services |-> {}]

\* Domains.baseOf: the running code of a compiled app, nothing for others
BaseOf(a) == IF a \in Compiled THEN Content[code[a]] ELSE Blank

\* No name is defined with two types: Merge's conflict, diffSpecs' type change
Agree(colsA, colsB) ==
    \A c \in colsA, d \in colsB : c[1] = d[1] => c = d

\* appspec.Merge (which also refuses a layer that redefines its base)
Merge(base, layer) ==
    [fields |-> base.fields \cup layer.fields,
     cols |-> base.cols \cup layer.cols,
     entries |-> base.entries \cup layer.entries,
     disable |-> base.disable \cup layer.disable,
     depends |-> base.depends \cup layer.depends]

\* Domains.effective and parseDynamic succeed: the layer fits and what it
\* depends on is loaded
Valid(a, layer) ==
    \/ layer = NoLayer
    \/ /\ Agree(BaseOf(a).cols, Content[layer].cols)
       /\ Content[layer].depends \subseteq loaded

Effective(a, layer) ==
    IF layer = NoLayer THEN BaseOf(a) ELSE Merge(BaseOf(a), Content[layer])

\* Bug: the layer is not selected on
BugHeadAt(a, layer, n) == IF n = 0 THEN NoLayer ELSE store[a][n].doc

\* DomainStore.HeadAt: the newest revision of a layer up to revision n
HeadAt(a, layer, n) ==
    LET revs == {i \in 1..n : store[a][i].layer = layer}
    IN  IF revs = {} THEN NoLayer ELSE store[a][Max(revs)].doc

HeadOf(a, layer) == HeadAt(a, layer, Len(store[a]))

\* schemaDDL: the engine creates what is not in the base (its migrations do)
Generated(a, spec) == {c \in spec.cols : \A b \in BaseOf(a).cols : b[1] # c[1]}

\* ADD COLUMN IF NOT EXISTS: a column that exists keeps its type
AddColumns(a, cols) ==
    columns[a] \cup {c \in cols : \A have \in columns[a] : have[1] # c[1]}

\* DomainStore.Append: the app's next revision number
Appended(a, layer, doc) == Append(store[a], [layer |-> layer, doc |-> doc])

\* security.ApplySecurity: disabled names first, then the declared entries
Secured(act, disable, entries) == (act \ disable) \cup entries

\* ... failing part-way through one of its two loops
PartlySecured(act, disable, entries) ==
    {act \ some : some \in SUBSET disable}
      \cup {(act \ disable) \cup some : some \in SUBSET entries}

-----------------------------------------------------------------------------
(* Calls *)

Idle == [pc |-> "idle", queue |-> <<>>, checked |-> 0, current |-> NoLayer]
Request(c) == call[c].queue[1]
Target(c) == Request(c).app
Desired(c) == Effective(Target(c), Request(c).layer)   \* the spec being mounted
At(c, pc) == call[c].pc = pc
Goto(c, pc) == call' = [call EXCEPT ![c].pc = pc]
Return(c) == call' = [call EXCEPT ![c] = Idle]

Spend(bound, max) == used[bound] < max /\ used' = [used EXCEPT ![bound] = @ + 1]
Fail(kind) == kind \in Faults /\ Spend("failures", MaxFailures)

Start(c, pc, queue) ==
    /\ boot.phase = "up"
    /\ At(c, "idle")
    /\ Spend("calls", MaxCalls)
    /\ call' = [call EXCEPT ![c] = [Idle EXCEPT !.pc = pc, !.queue = queue]]
    /\ UNCHANGED <<durable, memory, lock, saved, boot>>

\* Domains.Apply: the document of a compiled app is its base plus the layer
\* (Subtract refuses one that changes the base)
Apply(c) == \E doc \in Docs :
    /\ Agree(BaseOf(DocApp[doc]).cols, Content[doc].cols)
    /\ Start(c, "read", <<[app |-> DocApp[doc], layer |-> doc]>>)

\* Domains.Revert: the layer as it was at revision n (revisions never change)
Revert(c) == \E a \in Apps : \E n \in 1..Len(store[a]) :
    Start(c, "read", <<[app |-> a, layer |-> HeadAt(a, "overlay", n)]>>)

\* Domains.Delete: an empty layer
Delete(c) == \E a \in Apps : Start(c, "read", <<[app |-> a, layer |-> NoLayer]>>)

\* Domains.Import: every entry is validated before the first is applied
Import(c) == \E bundle \in Bundles : Start(c, "check", bundle)

\* applyLayer up to the lock, against the layer read as current
Rejected(a, current, layer) ==
    LET prev == IF Valid(a, current) THEN Effective(a, current) ELSE BaseOf(a)
    IN  \/ a \in Dynamic /\ layer = NoLayer /\ current = NoLayer  \* not found
        \/ ~Valid(a, layer)
        \/ ~Agree(prev.cols, Effective(a, layer).cols)            \* diffSpecs

\* Import's dry run of its next entry
Check(c) ==
    /\ At(c, "check")
    /\ LET i == call[c].checked + 1
           req == call[c].queue[i]
       IN  IF i > Len(call[c].queue)
             THEN IF call[c].queue = <<>> THEN Return(c) ELSE Goto(c, "read")
             ELSE IF Rejected(req.app, HeadOf(req.app, "overlay"), req.layer)
                    THEN Return(c)
                    ELSE call' = [call EXCEPT ![c].checked = i]
    /\ UNCHANGED <<durable, memory, lock, saved, boot, used>>

\* applyLayer: the current layer is read before the lock is taken
ReadHead(c) ==
    /\ At(c, "read")
    /\ call' = [call EXCEPT ![c].pc = "validate",
                            ![c].current = HeadOf(Target(c), "overlay")]
    /\ UNCHANGED <<durable, memory, lock, saved, boot, used>>

\* The store cannot be read: the error is returned
ReadFails(c) ==
    /\ \/ At(c, "read")
       \/ At(c, "check") /\ call[c].checked < Len(call[c].queue)
    /\ Fail("read")
    /\ Return(c)
    /\ UNCHANGED <<durable, memory, lock, saved, boot>>

Validate(c) ==
    /\ At(c, "validate")
    /\ IF Rejected(Target(c), call[c].current, Request(c).layer)
         THEN Return(c)
         ELSE Goto(c, "lock")
    /\ UNCHANGED <<durable, memory, lock, saved, boot, used>>

-----------------------------------------------------------------------------
(* Mounting, under Domains.mu *)

\* Domains.compiledApp of an app that is not installed is nil
IsInstalled(a) == a \in Compiled \cap loaded
IsMounted(a) == a \in dynamic \/ IsInstalled(a)
Deletes(c) == Target(c) \in Dynamic /\ Request(c).layer = NoLayer

\* Bug: the lock is not waited for
BugAcquire(c) == At(c, "lock") /\ lock' = c

Acquire(c) == At(c, "lock") /\ lock = NoCaller /\ lock' = c

\* mountLocked has nothing to do: the app is not mounted and stays so, or it
\* runs the spec already
MountUnchanged(c) ==
    /\ Acquire(c)
    /\ IF IsMounted(Target(c))
         THEN ~Deletes(c) /\ mounted[Target(c)].spec = Desired(c)
         ELSE Deletes(c) \/ Target(c) \in Compiled
    /\ Goto(c, "append")
    /\ UNCHANGED <<durable, memory, saved, boot, used>>

\* swapLocked: save the state, then drop the fields the app owns
SwapStart(c) ==
    LET a == Target(c)
        without == [f \in Fields |-> IF f \in mounted[a].owned THEN NoApp ELSE root[f]]
    IN  /\ Acquire(c)
        /\ ~Deletes(c) /\ IsMounted(a) /\ mounted[a].spec # Desired(c)
        /\ root' = without
        /\ saved' = [state |-> mounted[a], root |-> without]
        /\ Goto(c, "remount")
        /\ UNCHANGED <<durable, mounted, dynamic, loaded, errors, boot, used>>

\* mountNewLocked: a fresh App and a snapshot of the fields
MountNew(c) ==
    /\ Acquire(c)
    /\ ~Deletes(c) /\ Target(c) \in Dynamic \ dynamic
    /\ saved' = [state |-> Unmounted, root |-> root]
    /\ Goto(c, "remount")
    /\ UNCHANGED <<durable, memory, boot, used>>

\* Bug: a duplicate field is replaced
BugClash(c) == {}

Clash(c) == {f \in Desired(c).fields : root[f] # NoApp}
NewColumns(c) == Generated(Target(c), Desired(c))

\* App.remount (and Setup of a new App): tables, model services, fields, spec
Remount(c) ==
    LET a == Target(c)
        next == Desired(c)
    IN  /\ At(c, "remount")
        /\ Clash(c) = {}
        /\ columns' = [columns EXCEPT ![a] = AddColumns(a, NewColumns(c))]
        /\ root' = [f \in Fields |-> IF f \in next.fields THEN a ELSE root[f]]
        /\ mounted' = [mounted EXCEPT ![a] =
                          [spec |-> next, owned |-> next.fields, services |-> next.cols]]
        /\ Goto(c, "secure")
        /\ UNCHANGED <<store, active, code, dynamic, loaded, errors, lock, saved, boot, used>>

\* A field another app defines: RegisterQuery panics after some fields are in,
\* with the model services swapped (CQRS apps) or not yet
RemountClash(c) ==
    LET a == Target(c)
        next == Desired(c)
    IN  /\ At(c, "remount")
        /\ Clash(c) # {}
        /\ columns' = [columns EXCEPT ![a] = AddColumns(a, NewColumns(c))]
        /\ \E some \in SUBSET (next.fields \ Clash(c)) :
               root' = [f \in Fields |-> IF f \in some THEN a ELSE root[f]]
        /\ \E services \in {mounted[a].services, next.cols} :
               mounted' = [mounted EXCEPT ![a].services = services]
        /\ Goto(c, "rollback")
        /\ UNCHANGED <<store, active, code, dynamic, loaded, errors, lock, saved, boot, used>>

\* ensureTables fails after some statements
RemountFails(c) ==
    /\ At(c, "remount")
    /\ Fail("ddl")
    /\ \E some \in SUBSET NewColumns(c) :
           columns' = [columns EXCEPT ![Target(c)] = AddColumns(Target(c), some)]
    /\ Goto(c, "rollback")
    /\ UNCHANGED <<store, active, code, memory, lock, saved, boot>>

\* Bug: what the previous spec declared stays
BugDropped(c) == {}

\* droppedEntries: entries of the previous spec the next one does not declare
Dropped(c) == saved.state.spec.entries \ Desired(c).entries

\* Bug: the previous spec's entries are disabled last
BugApplySecurity(c) ==
    LET a == Target(c)
    IN  /\ At(c, "secure")
        /\ active' = (active \cup Desired(c).entries) \ saved.state.spec.entries
        /\ dynamic' = dynamic \cup ({a} \cap Dynamic)
        /\ loaded' = loaded \cup ({a} \cap Dynamic)
        /\ Goto(c, "append")
        /\ UNCHANGED <<store, columns, code, root, mounted, errors, lock, saved, boot, used>>

ApplySecurity(c) ==
    LET a == Target(c)
    IN  /\ At(c, "secure")
        /\ active' = Secured(active, Desired(c).disable \cup Dropped(c), Desired(c).entries)
        /\ dynamic' = dynamic \cup ({a} \cap Dynamic)   \* as it was after a swap
        /\ loaded' = loaded \cup ({a} \cap Dynamic)
        /\ Goto(c, "append")
        /\ UNCHANGED <<store, columns, code, root, mounted, errors, lock, saved, boot, used>>

ApplySecurityFails(c) ==
    /\ At(c, "secure")
    /\ Fail("security")
    /\ active' \in PartlySecured(active, Desired(c).disable \cup Dropped(c), Desired(c).entries)
    /\ Goto(c, "rollback")
    /\ UNCHANGED <<store, columns, code, memory, lock, saved, boot>>

\* Bug: the fields removed for the swap stay removed
BugRestoredFields(c) == saved.root

\* restoreFields, removal of added fields, restoreState: the snapshot and the
\* fields the app owned before
RestoredFields(c) ==
    [f \in Fields |-> IF f \in saved.state.owned THEN Target(c) ELSE saved.root[f]]

\* Bug: the fields come back, the App's spec and services do not
BugRestoredState(c) == mounted

RestoredState(c) == [mounted EXCEPT ![Target(c)] = saved.state]

\* The deferred function of swapLocked and mountNewLocked, then the error return
Rollback(c) ==
    /\ At(c, "rollback")
    /\ root' = RestoredFields(c)
    /\ mounted' = RestoredState(c)
    /\ lock' = NoCaller
    /\ Return(c)
    /\ UNCHANGED <<durable, dynamic, loaded, errors, saved, boot, used>>

\* unmountLocked; entries that cannot be disabled are only logged
UnmountStart(c) ==
    LET a == Target(c)
    IN  /\ Acquire(c)
        /\ Deletes(c) /\ a \in dynamic
        /\ root' = [f \in Fields |-> IF f \in mounted[a].owned THEN NoApp ELSE root[f]]
        /\ Goto(c, "unmount")
        /\ UNCHANGED <<durable, mounted, dynamic, loaded, errors, saved, boot, used>>

\* Bug: the manifest stays in Host.Loaded
BugWithoutManifest(a) == loaded

WithoutManifest(a) == loaded \ {a}

Unmount(c) ==
    LET a == Target(c)
        dropped == mounted[a].spec.entries
    IN  /\ At(c, "unmount")
        /\ \/ active' = active \ dropped /\ UNCHANGED used
           \/ Fail("security") /\ active' \in {active \ some : some \in SUBSET dropped}
        /\ mounted' = [mounted EXCEPT ![a] = Unmounted]
        /\ dynamic' = dynamic \ {a}
        /\ loaded' = WithoutManifest(a)
        /\ Goto(c, "append")
        /\ UNCHANGED <<store, columns, code, root, errors, lock, saved, boot>>

\* applyLayer after the mount: store the layer unless it is what was read
Store(c) ==
    LET a == Target(c)
        layer == Request(c).layer
        rest == Tail(call[c].queue)
    IN  /\ At(c, "append")
        /\ store' = IF layer = call[c].current THEN store
                    ELSE [store EXCEPT ![a] = Appended(a, "overlay", layer)]
        /\ errors' = errors \ {a}
        /\ lock' = NoCaller
        /\ call' = [call EXCEPT ![c] = IF rest = <<>> THEN Idle
                                       ELSE [@ EXCEPT !.pc = "read", !.queue = rest]]
        /\ UNCHANGED <<columns, active, code, root, mounted, dynamic, loaded, saved, boot, used>>

\* Bug: the error path keeps the mutex
BugStoreFails(c) ==
    /\ At(c, "append")
    /\ Request(c).layer # call[c].current
    /\ Fail("append")
    /\ Return(c)
    /\ UNCHANGED <<durable, memory, lock, saved, boot>>

\* DomainStore.Append fails: the error is returned, the mount stays
StoreFails(c) ==
    /\ At(c, "append")
    /\ Request(c).layer # call[c].current
    /\ Fail("append")
    /\ lock' = NoCaller
    /\ Return(c)
    /\ UNCHANGED <<durable, memory, saved, boot>>

-----------------------------------------------------------------------------
(* Boot (buildPlatform), crashes and new code *)

NoFields == [f \in Fields |-> NoApp]
Nothing == [a \in Apps |-> Unmounted]
NoMount == [state |-> Unmounted, root |-> NoFields]
NoCalls == [c \in Callers |-> Idle]

\* The process is gone, or the platform it was building is dropped
Lost == /\ root' = NoFields /\ mounted' = Nothing
        /\ dynamic' = {} /\ loaded' = {} /\ errors' = {}
        /\ lock' = NoCaller /\ saved' = NoMount /\ call' = NoCalls

Init ==
    /\ store = [a \in Apps |-> <<>>]
    /\ columns = [a \in Apps |-> {}]
    /\ active = {}
    /\ code \in {v \in [Compiled -> CodeDocs] : \A a \in Compiled : DocApp[v[a]] = a}
    /\ root = NoFields /\ mounted = Nothing
    /\ dynamic = {} /\ loaded = {} /\ errors = {}
    /\ lock = NoCaller /\ saved = NoMount /\ call = NoCalls
    /\ boot = [phase |-> "down", at |-> 1]
    /\ used = [calls |-> 0, failures |-> 0, crashes |-> 0, upgrades |-> 0]

Booting(phase, order) == boot.phase = phase /\ boot.at <= Len(order)
BootNext == boot' = [boot EXCEPT !.at = @ + 1]
Phase(from, order, to) ==
    /\ boot.phase = from /\ boot.at > Len(order)
    /\ boot' = [phase |-> to, at |-> 1]
    /\ UNCHANGED <<durable, memory, lock, saved, call, used>>

Down == boot' = [phase |-> "down", at |-> 1]

BootStart ==
    /\ boot.phase = "down"
    /\ boot' = [phase |-> "setup", at |-> 1]
    /\ UNCHANGED <<durable, memory, lock, saved, call, used>>

\* Bug: the stored layer is forgotten at boot
BugResolved(a) == BaseOf(a)

\* App.Setup of a compiled app, with Domains.resolveCompiled: record the base
\* revision, mount the stored layer when it still fits and the base otherwise
Resolved(a) ==
    LET layer == HeadOf(a, "overlay")
    IN  IF Valid(a, layer) THEN Effective(a, layer) ELSE BaseOf(a)

RecordBase(a) ==
    \/ /\ store' = IF HeadOf(a, "base") = code[a] THEN store
                   ELSE [store EXCEPT ![a] = Appended(a, "base", code[a])]
       /\ UNCHANGED used
    \/ HeadOf(a, "base") # code[a] /\ Fail("append") /\ UNCHANGED store

Registers(a, spec) ==
    /\ root' = [f \in Fields |-> IF f \in spec.fields THEN a ELSE root[f]]
    /\ mounted' = [mounted EXCEPT ![a] =
                      [spec |-> spec, owned |-> spec.fields, services |-> spec.cols]]

Free(spec) == \A f \in spec.fields : root[f] = NoApp

\* Bug: a layer that is skipped is not reported
BugReport(a, ok) == errors \ {a}

\* Domains.setError
Report(a, ok) == IF ok THEN errors \ {a} ELSE errors \cup {a}

SetupCompiled ==
    /\ Booting("setup", CompiledOrder)
    /\ LET a == CompiledOrder[boot.at]
           spec == Resolved(a)
       IN  /\ Free(spec)
           /\ RecordBase(a)
           /\ columns' = [columns EXCEPT ![a] = AddColumns(a, Generated(a, spec))]
           /\ Registers(a, spec)
           /\ loaded' = loaded \cup {a}
           /\ errors' = Report(a, Valid(a, HeadOf(a, "overlay")))
    /\ BootNext
    /\ UNCHANGED <<active, code, dynamic, lock, saved, call>>

\* resolveCompiled cannot read the stored layers: a warning, and the code alone
\* is mounted; nothing is recorded, created or reported
SetupUnread ==
    /\ Booting("setup", CompiledOrder)
    /\ Fail("read")
    /\ LET a == CompiledOrder[boot.at]
       IN  /\ Free(BaseOf(a))
           /\ Registers(a, BaseOf(a))
           /\ loaded' = loaded \cup {a}
    /\ BootNext
    /\ UNCHANGED <<durable, dynamic, errors, lock, saved, call>>

\* ensureTables fails: Setup returns the error and the build is dropped
SetupFails ==
    /\ Booting("setup", CompiledOrder)
    /\ Fail("ddl")
    /\ LET a == CompiledOrder[boot.at]
       IN  \E some \in SUBSET Generated(a, Resolved(a)) :
               columns' = [columns EXCEPT ![a] = AddColumns(a, some)]
    /\ Lost /\ Down
    /\ UNCHANGED <<store, active, code>>

\* A duplicate root field panics: Setup does not recover, the HTTP middleware
\* around the request that builds the platform does, and the build is dropped
SetupPanics ==
    /\ Booting("setup", CompiledOrder)
    /\ LET a == CompiledOrder[boot.at]
       IN  \/ /\ ~Free(Resolved(a))
              /\ RecordBase(a)
              /\ columns' = [columns EXCEPT ![a] = AddColumns(a, Generated(a, Resolved(a)))]
           \/ /\ ~Free(BaseOf(a))
              /\ Fail("read")
              /\ UNCHANGED <<store, columns>>
    /\ Lost /\ Down
    /\ UNCHANGED <<active, code>>

\* module.Load's startup hooks: every compiled app's policies
SecureCompiled ==
    /\ Booting("secure", CompiledOrder)
    /\ LET spec == mounted[CompiledOrder[boot.at]].spec
       IN  active' = Secured(active, spec.disable, spec.entries)
    /\ BootNext
    /\ UNCHANGED <<store, columns, code, memory, lock, saved, call, used>>

SecureCompiledFails ==
    /\ Booting("secure", CompiledOrder)
    /\ Fail("security")
    /\ LET spec == mounted[CompiledOrder[boot.at]].spec
       IN  active' \in PartlySecured(active, spec.disable, spec.entries)
    /\ Lost /\ Down
    /\ UNCHANGED <<store, columns, code>>

\* mountNewLocked of a stored app
LoadMounts(a, spec) ==
    /\ columns' = [columns EXCEPT ![a] = AddColumns(a, spec.cols)]
    /\ active' = Secured(active, spec.disable, spec.entries)
    /\ Registers(a, spec)
    /\ dynamic' = dynamic \cup {a}
    /\ loaded' = loaded \cup {a}
    /\ errors' = Report(a, TRUE)
    /\ UNCHANGED <<store, code>>

\* A definition that is not valid, or valid but clashes after its DDL has run
LoadReports(a, cols) ==
    /\ columns' = [columns EXCEPT ![a] = AddColumns(a, cols)]
    /\ errors' = Report(a, FALSE)
    /\ UNCHANGED <<store, active, code, root, mounted, dynamic, loaded>>

\* Bug: only apps without code count as loaded dependencies
BugLoad(a, layer) ==
    LET spec == Effective(a, layer)
    IN  IF layer = NoLayer THEN UNCHANGED <<durable, memory>>
        ELSE IF Content[layer].depends \subseteq dynamic /\ Free(spec) THEN LoadMounts(a, spec)
        ELSE LoadReports(a, {})

Load(a, layer) ==
    LET spec == Effective(a, layer)
    IN  IF layer = NoLayer THEN UNCHANGED <<durable, memory>>
        ELSE IF Valid(a, layer) /\ Free(spec) THEN LoadMounts(a, spec)
        ELSE LoadReports(a, IF Valid(a, layer) THEN spec.cols ELSE {})

\* Bug: the empty layer of a deleted app fails the boot
BugLoadDynamic ==
    /\ Booting("load", DynamicOrder)
    /\ LET a == DynamicOrder[boot.at]
           layer == HeadOf(a, "overlay")
       IN  IF layer = NoLayer /\ store[a] # <<>>
             THEN Lost /\ Down /\ UNCHANGED <<durable, used>>
             ELSE Load(a, layer) /\ BootNext /\ UNCHANGED <<lock, saved, call, used>>

\* Domains.LoadAll: one stored app without code
LoadDynamic ==
    /\ Booting("load", DynamicOrder)
    /\ LET a == DynamicOrder[boot.at] IN Load(a, HeadOf(a, "overlay"))
    /\ BootNext
    /\ UNCHANGED <<lock, saved, call, used>>

\* ... which reads all of them first: without them the build is dropped
LoadUnread ==
    /\ boot.phase = "load" /\ boot.at = 1
    /\ Fail("read")
    /\ Lost /\ Down
    /\ UNCHANGED durable

\* ... a stored app whose mount fails in the database: reported, rolled back, boot goes on
LoadDynamicFails ==
    /\ Booting("load", DynamicOrder)
    /\ LET a == DynamicOrder[boot.at]
           layer == HeadOf(a, "overlay")
           spec == Effective(a, layer)
       IN  /\ layer # NoLayer /\ Valid(a, layer) /\ Free(spec)
           /\ \/ /\ Fail("ddl")
                 /\ \E some \in SUBSET spec.cols :
                        columns' = [columns EXCEPT ![a] = AddColumns(a, some)]
                 /\ UNCHANGED active
              \/ /\ Fail("security")
                 /\ columns' = [columns EXCEPT ![a] = AddColumns(a, spec.cols)]
                 /\ active' \in PartlySecured(active, spec.disable, spec.entries)
           /\ errors' = Report(a, FALSE)
    /\ BootNext
    /\ UNCHANGED <<store, code, root, mounted, dynamic, loaded, lock, saved, call>>

BootPhase ==
    \/ Phase("setup", CompiledOrder, "secure")
    \/ Phase("secure", CompiledOrder, "load")
    \/ Phase("load", DynamicOrder, "up")

Boot == \/ BootStart \/ SetupCompiled \/ SetupUnread \/ SetupFails \/ SetupPanics
        \/ SecureCompiled \/ SecureCompiledFails
        \/ LoadDynamic \/ LoadUnread \/ LoadDynamicFails \/ BootPhase

\* The process ends; the database and the binary stay
Crash ==
    /\ boot.phase # "down"
    /\ Spend("crashes", MaxCrashes)
    /\ Lost /\ Down
    /\ UNCHANGED durable

\* A new binary is deployed while the process is down
Deploy ==
    /\ boot.phase = "down"
    /\ Spend("upgrades", MaxUpgrades)
    /\ \E a \in Compiled : \E doc \in CodeDocs :
           DocApp[doc] = a /\ doc # code[a] /\ code' = [code EXCEPT ![a] = doc]
    /\ UNCHANGED <<store, columns, active, memory, lock, saved, call, boot>>

-----------------------------------------------------------------------------

\* What a call does once started, up to its return
Step(c) ==
    \/ Check(c) \/ ReadHead(c) \/ ReadFails(c) \/ Validate(c)
    \/ MountUnchanged(c) \/ SwapStart(c) \/ MountNew(c) \/ UnmountStart(c)
    \/ Remount(c) \/ RemountClash(c) \/ RemountFails(c)
    \/ ApplySecurity(c) \/ ApplySecurityFails(c) \/ Unmount(c)
    \/ Rollback(c) \/ Store(c) \/ StoreFails(c)

Next ==
    \/ \E c \in Callers : Apply(c) \/ Revert(c) \/ Delete(c) \/ Import(c) \/ Step(c)
    \/ Boot \/ Crash \/ Deploy

Spec == Init /\ [][Next]_vars

\* A started call runs on its own goroutine; Domains.mu is handed to every
\* waiter in turn (sync.Mutex does not starve); a boot runs to its end, and
\* after one that failed the process is started again (RegisterModel's table
\* of models outlives a build, so the same process could not build twice)
FairSpec ==
    /\ Spec
    /\ \A c \in Callers : WF_vars(Step(c)) /\ SF_vars(At(c, "lock") /\ Step(c))
    /\ WF_vars(Boot)

(***************************************************************************)
(* Properties                                                              *)
(***************************************************************************)

Calls == [pc : {"idle", "check", "read", "validate", "lock", "remount", "secure",
                "unmount", "append", "rollback"},
          queue : Seq(Requests), checked : Nat, current : Layers]

\* Every variable has the shape of the state it models in the engine and the store.
TypeOK ==
    /\ store \in [Apps -> Seq(Revisions)]
    /\ columns \in [Apps -> SUBSET Columns]
    /\ active \in SUBSET Entries
    /\ code \in [Compiled -> CodeDocs]
    /\ root \in [Fields -> Apps \cup {NoApp}]
    /\ mounted \in [Apps -> AppStates]
    /\ dynamic \in SUBSET Dynamic
    /\ loaded \in SUBSET Apps
    /\ errors \in SUBSET Apps
    /\ lock \in Callers \cup {NoCaller}
    /\ saved \in [state : AppStates, root : [Fields -> Apps \cup {NoApp}]]
    /\ call \in [Callers -> Calls]
    /\ boot \in [phase : {"down", "setup", "secure", "load", "up"}, at : Nat \ {0}]
    /\ used \in [calls : Nat, failures : Nat, crashes : Nat, upgrades : Nat]

Serving == boot.phase = "up" /\ lock = NoCaller

\* The surface of an app is whole: the root fields it owns, the fields the
\* registry serves from it and its model services are those of its spec
Intact(a) ==
    /\ mounted[a].owned = mounted[a].spec.fields
    /\ mounted[a].services = mounted[a].spec.cols
    /\ \A f \in Fields : root[f] = a <=> f \in mounted[a].owned

\* Whenever no mount is in progress every app's surface is whole, however the
\* last mount ended: swapLocked and mountNewLocked leave no app half-mounted.
SurfaceIntact == lock = NoCaller => \A a \in Apps : Intact(a)

\* Domains.dynamic, Host.Loaded and the mounted apps tell the same story
\* between mounts: a deleted or failed app leaves nothing behind.
LoadedAgree == Serving =>
    \A a \in Dynamic : /\ a \in dynamic <=> a \in loaded
                       /\ a \notin dynamic => mounted[a] = Unmounted

\* A mount, its rollback or an unmount never takes, drops or redefines a root
\* field that another app serves.
Owner == Target(IF lock = NoCaller THEN lock' ELSE lock)
OthersUntouched == [][boot.phase = "up" /\ boot'.phase = "up" =>
    \A f \in Fields : root'[f] # root[f] => {root[f], root'[f]} \subseteq {NoApp, Owner}]_vars

\* An app the engine mounts: one without code, or an installed compiled one
Runs(a) == a \in Dynamic \/ IsInstalled(a)

\* Whenever a call stores a layer under an app's name, the layer is that app's
\* and the app, when it is installed, runs exactly it on its base: nothing mounts
\* in between (applyLayer holds Domains.mu), and neither a revision reverted to
\* nor a bundle files one app's layer under another (BundlesAssumption).
StoredIsMounted == [][\A a \in Apps : boot.phase = "up" /\ store'[a] # store[a] =>
    LET layer == HeadOf(a, "overlay")'
    IN  /\ layer # NoLayer => DocApp[layer] = a
        /\ Runs(a)' => mounted'[a].spec = Effective(a, layer)]_vars

\* The effective spec an app runs is its base plus the head of its overlay
\* revisions, unless the engine reports an error for it (docs/architecture.md).
MountedIsHead == Serving =>
    \A a \in Apps \ errors : Runs(a) => mounted[a].spec = Effective(a, HeadOf(a, "overlay"))

\* Between mounts every policy entry a mounted app declares is active, unless
\* a mounted app disables it: a failed apply takes no grant or denial away.
DeclaredAreActive == Serving =>
    \A a \in Apps : \A e \in mounted[a].spec.entries :
        e \in active \/ \E b \in Apps : e \in mounted[b].spec.disable

\* Between mounts no policy entry is active that no mounted app declares:
\* what a new revision no longer declares is disabled.
NoStaleEntries == Serving =>
    active \subseteq UNION {mounted[a].spec.entries : a \in Apps}

\* A column the engine manages has the type the mounted spec gives it, so the
\* model services can scan it: retyping a field is rejected.
ColumnsMatch == Serving =>
    \A a \in Apps : Generated(a, mounted[a].spec) \subseteq columns[a]

\* An app LoadAll comes to after app a
After(a, b) == \E i, j \in DOMAIN DynamicOrder :
    i < j /\ DynamicOrder[i] = a /\ DynamicOrder[j] = b

\* When a boot ends, a stored app is left out, and reported, only for a reason:
\* it does not fit what is loaded, a field it defines is taken, or it depends on
\* a stored app whose name sorts after its own (LoadAll goes by name, not by
\* dependencies).  No app is left out because another one is broken, and none
\* without a report.
LoadAllComplete == [][boot.phase = "load" /\ boot'.phase = "up" =>
    \A a \in Dynamic \ dynamic :
        LET layer == HeadOf(a, "overlay")
        IN  layer # NoLayer =>
                /\ a \in errors
                /\ \/ ~Valid(a, layer)
                   \/ ~Free(Effective(a, layer))
                   \/ \E b \in Content[layer].depends : After(a, b)]_vars

\* LoadAll "mounts every stored app that has no compiled base", and reports only
\* broken definitions.
LoadAllMounts == [][boot.phase = "load" /\ boot'.phase = "up" =>
    \A a \in Dynamic \cap errors :
        LET layer == HeadOf(a, "overlay")
        IN  ~Valid(a, layer) \/ ~Free(Effective(a, layer))]_vars

\* Import refuses a bundle only when one of its layers would not fit the
\* platform the bundle describes: what Export prints can be restored.
InBundle(c, i) ==
    LET req == call[c].queue[i]
    IN  /\ Agree(BaseOf(req.app).cols, Content[req.layer].cols)
        /\ Content[req.layer].depends \subseteq
               loaded \cup {call[c].queue[j].app : j \in DOMAIN call[c].queue}
ImportRestores == [][\A c \in Callers : At(c, "check") /\ At(c, "idle")' =>
    boot'.phase = "down" \/ \E i \in DOMAIN call[c].queue : ~InBundle(c, i)]_vars

\* Every API call returns, whatever fails and whoever else holds Domains.mu.
CallsReturn == \A c \in Callers : ~At(c, "idle") ~> At(c, "idle")

\* A platform that goes down comes up again, whatever layers are stored.
ComesUp == boot.phase = "down" ~> boot.phase = "up"

=============================================================================
