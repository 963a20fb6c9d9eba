------------------------------- MODULE Surface -------------------------------
(***************************************************************************)
(* What one app puts before its users, from the specification it serves:     *)
(* root fields of GraphQL with their guards, resources policies can name,    *)
(* views, menus and the entry of the shell (internal/engine: gql.go,         *)
(* cqrs_gql.go, resources.go, catalog_acl.go; sdk-go/acl: registry.go).      *)
(*                                                                          *)
(* The app is compiled in.  A process starts with the release it was built   *)
(* from and the layer stored for the app; an author prints the effective     *)
(* document, edits the print, and applies it, perhaps after others have or   *)
(* after an upgrade.  An addon installed while the process runs puts items   *)
(* into the menus of the app.  The names of root fields all carry the name   *)
(* of the app; it is left out.  Domains has the interleavings of one apply   *)
(* with another; here each runs to its end.                                  *)
(***************************************************************************)
EXTENDS Specs

CONSTANTS
    Releases,   \* the releases of the app
    Additions,  \* what an author may add to a document, or change in it
    Others,     \* the names of the other apps loaded
    Addon,      \* the menu items an addon contributes, in their order
    Rights,     \* what policies may give the user
    Pascal      \* the form of a name in the name of a root field

VARIABLES
    release,   \* the release the process was started with
    up,        \* the process came up
    layer,     \* the stored overlay of the app
    broken,    \* the stored overlay was not applied at the start
    authored,  \* the last document accepted and the base it was accepted on
    printed,   \* the document the author last printed
    served,    \* the effective specification
    fields,    \* the root fields of the app
    registry,  \* the resources registered, with the fields known of each
    tracked,   \* the views known to the shell
    addon,     \* the addon is installed
    rights     \* of the user

vars == <<release, up, layer, broken, authored, printed, served, fields, registry,
          tracked, addon, rights>>

Base(r) == Decode(r)

(***************************************************************************)
(* Root fields.  "of" is the declaration a field comes from, "columns" what  *)
(* the registry lists of it: the fields it returns, or its arguments.        *)
(***************************************************************************)
Session == <<"session">>
HasCQRS(spec) == spec.queries # Nothing \/ spec.commands # Nothing

Field(name, root, of, guard, model, columns) ==
    [name |-> name, root |-> root, of |-> of, guard |-> guard, model |-> model,
     columns |-> columns]

RecordColumns == {"id", "orgId", "authorId", "deleted", "createdAt", "updatedAt"}
RecordType(m) == RecordColumns \cup DOMAIN m.fields
VirtualType(m) == {"id"} \cup DOMAIN m.fields
ReturnType(m) == IF m.virtual THEN VirtualType(m) ELSE RecordType(m)

\* readonly fields and the inverse of a relation are not written
FieldArgs(m) == {n \in DOMAIN m.fields : ~Last(m.fields[n]).readonly /\ Stored(Last(m.fields[n]))}

Basics ==
    {Field("Ping", "query", <<"basics">>, <<"query", "Ping", "read">>, None, {})}
        \cup {Field(n, "query", <<"basics">>, Session, None, {}) : n \in {"Views", "Menus", "ViewSlots"}}

\* of an app without queries and commands: a session is asked for, the service
\* of the model decides; "model" is the operation of the service
ModelFields(spec, n) ==
    LET m == spec.models[n]
        P == Pascal[n]
        ForAll == {Field(P \o "s", "query", <<"list", n>>, Session, <<n, "list">>, {}),
                   Field(P, "query", <<"get", n>>, Session, <<n, "get">>, {}),
                   Field(P \o "sCount", "query", <<"count", n>>, Session, <<n, "list">>, {}),
                   Field(P \o "sGroups", "query", <<"groups", n>>, Session, <<n, "list">>, {})}
        Writes == {Field(verb \o P, "mutation", <<verb, n>>, Session, <<n, verb>>, {}) :
                       verb \in {"create", "update", "delete"}}
    IN  IF m.virtual THEN {} ELSE IF m.internal THEN ForAll ELSE ForAll \cup Writes

\* the model a query or command is bound to, with the operation it calls there;
\* the lists of virtual models are the code's and ask nobody
Bound(spec, b) == IF spec.models[b.model].virtual THEN None ELSE <<b.model, b.verb>>

QueryFields(spec, n) ==
    LET q == spec.queries[n][1]
        Guard == <<"query", Pascal[n], "read">>
        \* Count and Groups are registered as resources of their own and guarded by the list's
        WithList(b) == {Field(Pascal[n] \o suffix, "query", <<"query", n, suffix>>,
                              Guard, Bound(spec, b), {}) : suffix \in {"Count", "Groups"}}
        Columns == IF q.returns \in DOMAIN spec.models THEN ReturnType(spec.models[q.returns]) ELSE {}
    IN  IF q.binds = {}
        THEN {Field(Pascal[n], "query", <<"query", n>>, Guard, None, Columns)}
        ELSE UNION {{Field(Pascal[n], "query", <<"query", n>>, Guard, Bound(spec, b),
                           ReturnType(spec.models[b.model]))}
                        \cup (IF b.verb = "list" THEN WithList(b) ELSE {}) : b \in q.binds}

CommandFields(spec, n) ==
    LET c == spec.commands[n][1]
        Guard == <<"command", Pascal[n], "execute">>
        Args(b) == (IF b.verb = "create" THEN {} ELSE {"id"})
                       \cup (IF b.verb = "delete" THEN {} ELSE FieldArgs(spec.models[b.model]))
    IN  IF c.binds = {}
        THEN {Field(Pascal[n], "mutation", <<"command", n>>, Guard, None, c.args)}
        ELSE {Field(Pascal[n], "mutation", <<"command", n>>, Guard,
                    Bound(spec, b), Args(b)) : b \in c.binds}

\* the root fields of some queries and commands
Of(spec, names) ==
    (UNION {QueryFields(spec, n) : n \in DOMAIN spec.queries \cap names})
        \cup (UNION {CommandFields(spec, n) : n \in DOMAIN spec.commands \cap names})

RootFields(spec) ==
    Basics \cup (IF HasCQRS(spec) THEN Of(spec, DOMAIN spec.queries \cup DOMAIN spec.commands)
                 ELSE UNION {ModelFields(spec, n) : n \in DOMAIN spec.models})

\* a field registered twice panics
Distinct(fs) == \A f, g \in fs : f.root = g.root /\ f.name = g.name => f = g

\* what binds no model has a handler: of the release, or, when the release does
\* not declare it, one that an external process may give at any time
Handled(r, part, spec) ==
    \A n \in DOMAIN spec[part] :
        \/ spec[part][n][1].binds # {}
        \/ n \in r.handlers
        \/ n \notin DOMAIN Base(r)[part]

\* the type a handler returns exists
Typed(spec, part) ==
    \A n \in DOMAIN spec[part] :
        spec[part][n][1].returns \in {None, "bool", "int", "string"} \cup DOMAIN spec.models

\* queries come before commands; the declarations before the one that fails are mounted
Mounts(r, spec) ==
    /\ Distinct(RootFields(spec))
    /\ HasCQRS(spec) => \A part \in {"queries", "commands"} :
                            Handled(r, part, spec) /\ Typed(spec, part)

(***************************************************************************)
(* Views and menus                                                          *)
(***************************************************************************)
\* of the models declared, and of those registered in code alone
ModelViews(spec, registered) ==
    {Pascal[m] \o "List" : m \in DOMAIN spec.models \cup registered}
        \cup {Pascal[m] \o "Form" : m \in registered \ DOMAIN spec.models}
        \cup {Pascal[m] \o "Form" : m \in
                 {n \in DOMAIN spec.models : /\ ~spec.models[n].internal \/ HasCQRS(spec)
                                             /\ ~spec.models[n].virtual}}

Items(spec) == ToSet(spec.menus)
Contributed == IF addon THEN Addon ELSE << >>

\* contributions are put one by one into the tree made so far, in which an item has
\* its id alone; one whose parent is not there yet goes to the top
MenuCatalog(own, contributions) ==
    LET Before(i) == own \cup {contributions[j] : j \in 1 .. i - 1}
    IN  own \cup {[contributions[i] EXCEPT !.parent =
                      IF \E item \in Before(i) : item.id = @ THEN @ ELSE None] :
                      i \in DOMAIN contributions}

MenuViews(items) == {i.view : i \in items} \ {None}

\* a view is open unless a policy closes it
Open(view) == view \notin rights.closed

\* an item with a view goes by the view, a component without one stays, a folder
\* stays as long as one of its items does
Kept(item, kept) ==
    IF item.view # None THEN Open(item.view)
    ELSE item.component \/ \E i \in kept : i.parent = item.id

\* an item that goes takes what is under it along
Shown(item, shown) == item.parent = None \/ \E i \in shown : i.id = item.parent

\* a menu is no deeper than it has items
FilterMenuCatalog(items) ==
    LET depth == Cardinality(items)
        kept[n \in Nat] == {i \in items : n > 0 /\ Kept(i, kept[n - 1])}
        shown[n \in Nat] == {i \in kept[depth] : n > 0 /\ Shown(i, shown[n - 1])}
    IN  {i \in items : Kept(i, kept[depth]) /\ Shown(i, shown[depth])}

\* without any view known the app is a page of its own
FilterShellNav(spec) == spec.nav /\ (tracked = {} \/ \E v \in tracked : Open(v))

(***************************************************************************)
(* Resources.  The registry is the process's: it merges, and never forgets.  *)
(***************************************************************************)
\* a plausible slip: the later registration replaces the earlier
BugMergeFields(existing, extra) == extra

MergeFields(existing, extra) == existing \cup extra

Registered(reg, descs) ==
    [r \in DOMAIN reg \cup {d.resource : d \in descs} |->
        LET new == UNION {d.columns : d \in {e \in descs : e.resource = r}}
        IN  IF r \notin DOMAIN reg THEN new
            ELSE IF \E d \in descs : d.resource = r THEN MergeFields(reg[r], new) ELSE reg[r]]

Descriptor(kind, name, columns) == [resource |-> <<kind, name>>, columns |-> columns]

\* a plausible slip: the pages are not followed, as the menus of most apps lead to them
BugTracked(spec, registered, items) == ModelViews(spec, registered)

\* pages, the views of the models, and the views menus show
Tracked(spec, registered, items) ==
    spec.pages \cup ModelViews(spec, registered) \cup MenuViews(items)

AppResources(views) ==
    {Descriptor("app", "", {})}
        \cup {Descriptor("view", v, {}) : v \in views}
        \cup {Descriptor("query", n, {}) : n \in {"Ping", "Views", "Menus", "ViewSlots"}}

\* a query or command is registered twice, as a resource with its fields and as
\* an operation without; its Count and its Groups have resources nobody asks for
OperationResources(fs) ==
    {Descriptor(IF f.root = "query" THEN "query" ELSE "command", f.name, f.columns) :
        f \in {g \in fs : g.of[1] \in {"query", "command"}}}

RegisterOperation(reg, descs) ==
    Registered(Registered(reg, descs), {[d EXCEPT !.columns = {}] : d \in descs})

(***************************************************************************)
(* The catalog of callable operations: the operations of the specification   *)
(* by the caller's policies, every other field of the schema without.  A     *)
(* policy may be restricted to some records: it counts in a check that       *)
(* brings a record along, and not in one without.                            *)
(***************************************************************************)
\* a check without a record, and one with the record the caller fares best with
Granted(resource) == resource \in rights.granted
GrantedOn(resource) == resource \in rights.own

Hidden == {"platformShellCommands", "platformShell"}

SpecOperation(f) ==
    \/ f.of[1] \in {"list", "get", "create", "update", "delete", "command"}
    \/ f.of[1] = "query" /\ Len(f.of) = 2

\* the resource of a model and the action an operation of its service needs
ModelResource(operation) ==
    <<"model", operation[1], IF operation[2] \in {"list", "get"} THEN "read" ELSE operation[2]>>

\* a plausible slip: commands are looked up as queries are
BugCatalogResource(f) ==
    IF f.guard = Session THEN ModelResource(f.model) ELSE <<"query", f.guard[2], "read">>

\* the resource the catalog looks up: the model's for the operations on a model
CatalogResource(f) == IF f.guard = Session THEN ModelResource(f.model) ELSE f.guard

Catalog ==
    {f \in fields : SpecOperation(f) => Granted(CatalogResource(f))}
        \ {f \in fields : ~SpecOperation(f) /\ f.name \in Hidden}

\* the filter of the policies leaves no record of a model: its list is an empty page
Barred(operation) == operation[2] = "list" /\ operation[1] \in rights.barred

\* what the service of a model does: lists are decided without a record, the
\* operations on a record with it, and what is written is shown like what is read
Serves(operation) ==
    LET n == operation[1]
        Reads == GrantedOn(<<"model", n, "read">>)
    IN  CASE operation[2] = "list" -> Barred(operation) \/ Granted(ModelResource(operation))
          [] operation[2] = "get" -> Reads
          [] operation[2] = "create" -> Granted(ModelResource(operation)) /\ Reads
          [] operation[2] = "update" -> GrantedOn(ModelResource(operation)) /\ Reads
          [] operation[2] = "delete" -> GrantedOn(ModelResource(operation))

\* what a call comes to: the guard of the field, then the service of the model
Answers(f) ==
    /\ f.guard # Session => Granted(f.guard)
    /\ f.model # None => Serves(f.model)

(***************************************************************************)
(* The process and the author                                               *)
(***************************************************************************)
\* the layer as stored stacked on a base, and what must hold of the result
Effective(base, l) == IF l = NoLayer THEN base ELSE Merge(base, l)

Applies(base, l) ==
    l # NoLayer => /\ Merges(base, l)
                   /\ Valid(Merge(base, l), FALSE)
                   /\ l.depends \subseteq Others

\* the document printed is the effective one without what comes from files
Printed(spec) == [p \in Parts |-> IF p \in BaseParts THEN Nothing ELSE Marshalled(spec)[p]]

\* what an author makes of a print: lists grow, declarations are added or rewritten
Edited(doc, add) ==
    LET Rewritten(d, a) == [n \in DOMAIN d \cup DOMAIN a |-> IF n \in DOMAIN a THEN a[n] ELSE d[n]]
        Model(m, a) == [a EXCEPT !.fields = Rewritten(m.fields, @),
                                 !.search = IF @ = None THEN m.search ELSE @]
    IN  [p \in Parts |->
            CASE p \in TextParts -> IF add[p] = None THEN doc[p] ELSE add[p]
              [] p \in SetParts -> doc[p] \cup add[p]
              [] p = "models" -> [n \in DOMAIN doc[p] \cup DOMAIN add[p] |->
                                     IF n \notin DOMAIN add[p] THEN doc[p][n]
                                     ELSE IF n \notin DOMAIN doc[p] THEN add[p][n]
                                     ELSE Model(doc[p][n], add[p][n])]
              [] OTHER -> Rewritten(doc[p], add[p])]

\* names of the documents have a form for root fields, and what is appended to it
\* makes no name of a field of the shell's, which carries another app's name
Known(spec) ==
    /\ DOMAIN spec = Parts
    /\ DOMAIN spec.models \cup DOMAIN spec.queries \cup DOMAIN spec.commands \subseteq DOMAIN Pascal

ASSUME SurfaceAssumption ==
    /\ \A r \in Releases : Loads(r) => Known(Base(r))
    /\ \A r \in Releases : r.registered \subseteq DOMAIN Pascal
    /\ \A add \in Additions : Known(add)
    /\ \A n \in DOMAIN Pascal, verb \in {"list", "get", "create", "update", "delete"} : <<n, verb>> # None
    /\ \A n \in DOMAIN Pascal :
           {Pascal[n] \o suffix : suffix \in {"sCount", "sGroups", "Count", "Groups"}} \cap Hidden = {}

TypeOK ==
    /\ release \in Releases
    /\ up \in BOOLEAN /\ broken \in BOOLEAN /\ addon \in BOOLEAN
    /\ DOMAIN layer = Parts /\ DOMAIN served = Parts /\ DOMAIN printed = Parts
    /\ rights \in Rights
    /\ up => Distinct(fields)

Init ==
    /\ release \in {r \in Releases : Loads(r)}
    /\ Mounts(release, Base(release))
    /\ up = TRUE /\ broken = FALSE /\ addon = FALSE
    /\ layer = NoLayer
    /\ served = Base(release)
    /\ printed = Printed(Base(release))
    /\ authored = [doc |-> Printed(Base(release)), base |-> Base(release), release |-> release]
    /\ fields = RootFields(served)
    /\ tracked = Tracked(served, {}, Items(served))
    /\ registry = RegisterOperation(Registered([r \in {} |-> {}], AppResources(tracked)),
                                    OperationResources(fields))
    /\ rights \in Rights

\* a process is started, with the same release or another; a stored layer that
\* does not fit is left out, and a specification that cannot be mounted stops the
\* start.  Views are tracked before the code of the app registers its models
Boot(r) ==
    /\ Loads(r)
    /\ LET fits == Applies(Base(r), layer)
           spec == IF fits THEN Effective(Base(r), layer) ELSE Base(r)
           views == Tracked(spec, {}, MenuCatalog(Items(spec), Contributed))
       IN  /\ release' = r
           /\ broken' = ~fits
           /\ served' = spec
           /\ up' = Mounts(r, spec)
           /\ fields' = IF up' THEN RootFields(spec) ELSE {}
           /\ tracked' = views
           /\ registry' = RegisterOperation(Registered([x \in {} |-> {}], AppResources(views)),
                                            OperationResources(fields'))
    /\ UNCHANGED <<layer, authored, printed, addon, rights>>

GetDomain ==
    /\ up
    /\ printed' = Printed(served)
    /\ UNCHANGED <<release, up, layer, broken, authored, served, fields, registry,
                   tracked, addon, rights>>

\* the views a mount makes known; one of what is served already does nothing
Mounting(spec) ==
    IF spec = served THEN {}
    ELSE Tracked(spec, release.registered, MenuCatalog(Items(spec), Contributed))

\* a specification is put in the place of the one served

Mount(spec, l, doc) ==
    /\ Mounts(release, spec)
    /\ layer' = l
    /\ broken' = FALSE
    /\ served' = spec
    /\ fields' = RootFields(spec)
    /\ tracked' = tracked \cup Mounting(spec)
    /\ registry' = RegisterOperation(Registered(registry, AppResources(Mounting(spec))),
                                     OperationResources(fields'))
    /\ authored' = [doc |-> doc, base |-> Base(release), release |-> release]

\* mounting fails and the fields are put back.  Resources and views stay registered,
\* also those of the operations mounted before the one that failed
Unmount(spec) ==
    LET reg == Registered(registry, AppResources(Mounting(spec)))
    IN  /\ ~Mounts(release, spec)
        /\ tracked' = tracked \cup Mounting(spec)
        /\ \E done \in SUBSET DOMAIN spec.queries
                          \cup {DOMAIN spec.queries \cup d : d \in SUBSET DOMAIN spec.commands} :
               registry' = RegisterOperation(reg, OperationResources(Of(spec, done)))
        /\ UNCHANGED <<layer, broken, served, fields, authored>>

\* what the new specification is compared with: the stored layer on the base,
\* or the base when that layer does not apply
Previous ==
    IF Applies(Base(release), layer) THEN Effective(Base(release), layer) ELSE Base(release)

Apply(add) ==
    LET doc == ApplyDefaults(Edited(printed, add))
        base == Base(release)
        l == Marshalled(Subtract(doc, base))
    IN  /\ up
        /\ ParsesDoc(Edited(printed, add))
        /\ Subtracts(doc, base)
        /\ Applies(base, l)
        /\ ~Retypes(Previous, Effective(base, l))
        /\ Mount(Effective(base, l), l, doc) \/ Unmount(Effective(base, l))
        /\ UNCHANGED <<release, up, printed, addon, rights>>

\* the empty layer: the base is part of what is mounted, and mounts.  A column does
\* not change its type on this way either
Delete ==
    /\ up
    /\ ~Retypes(Previous, Base(release))
    /\ Mount(Base(release), NoLayer, Printed(Base(release)))
    /\ UNCHANGED <<release, up, printed, addon, rights>>

\* an addon comes while the process runs: its items are in the menus at once,
\* the views the shell knows stay those of the last mount
Install ==
    /\ up /\ ~addon
    /\ addon' = TRUE
    /\ UNCHANGED <<release, up, layer, broken, authored, printed, served, fields,
                   registry, tracked, rights>>

SetPolicy(r) ==
    /\ rights' = r
    /\ UNCHANGED <<release, up, layer, broken, authored, printed, served, fields,
                   registry, tracked, addon>>

Next ==
    \/ \E r \in Releases : Boot(r)
    \/ GetDomain
    \/ \E add \in Additions : Apply(add)
    \/ Delete
    \/ Install
    \/ \E r \in Rights : SetPolicy(r)

Spec == Init /\ [][Next]_vars

(***************************************************************************)
(* Properties                                                               *)
(***************************************************************************)
\* What is served, told from the documents alone: the base of the running
\* release, and what the last accepted document had beyond the base it was
\* accepted on, whatever base is under it by now.  Presets of filters and charts
\* in models of the author's are not stored.
Beyond(doc, base, now) ==
    [n \in DOMAIN now \cup (DOMAIN doc \ DOMAIN base) |->
        IF n \in DOMAIN now THEN now[n] ELSE doc[n]]

ModelBeyond(dm, bm, now) ==
    [now EXCEPT !.search = IF dm.search # bm.search THEN dm.search ELSE @,
                !.fields = Beyond(dm.fields, bm.fields, @)]

ModelsBeyond(doc, was, now) ==
    [n \in DOMAIN now \cup (DOMAIN doc \ DOMAIN was) |->
        IF n \notin DOMAIN now THEN [doc[n] EXCEPT !.presets = {}]
        ELSE IF n \in DOMAIN doc
             THEN ModelBeyond(doc[n],
                     IF n \in DOMAIN was THEN was[n]
                     ELSE [doc[n] EXCEPT !.search = None, !.fields = Nothing],
                     now[n])
             ELSE now[n]]

Whole(doc, was, now) ==
    [p \in Parts |->
        CASE p \in TextParts -> IF doc[p] # was[p] THEN doc[p] ELSE now[p]
          [] p \in SetParts -> now[p] \cup (doc[p] \ was[p])
          [] p \in NamedParts -> Beyond(doc[p], was[p], now[p])
          [] p \in BaseParts -> now[p]
          [] p = "models" -> ModelsBeyond(doc[p], was[p], now[p])]

Expected == Whole(authored.doc, authored.base, Base(release))

\* the models written in app.yaml or in a file an include leads to, of whatever depth
Included(r, items) == {Target(r, items[i].include) : i \in DOMAIN items} \ {None}

Reached(r) ==
    LET reached[n \in Nat] ==
            IF n = 0 THEN Included(r, r.models)
            ELSE reached[n - 1] \cup UNION {Included(r, r.files[f].models) : f \in reached[n - 1]}
    IN  reached[Cardinality(DOMAIN r.files)]

Written(r) ==
    LET lists == {r.models} \cup {r.files[f].models : f \in Reached(r)}
    IN  {item.model.name : item \in {i \in UNION {ToSet(l) : l \in lists} : i.include = None}}

\* The app serves exactly the base of its release and what the author added to the
\* base the document was accepted on: nothing of an accepted document is lost, not
\* at once, not at a restart and not at an upgrade, and nothing else comes in.
\* Only where release and addition contradict each other is the base served alone,
\* and never under the release the document was accepted on.
\* (Domains.Apply, appspec.Subtract, MarshalDomain, ParseLayer, Merge,
\* resolveCompiled)
IncludesRead(r) == DOMAIN Base(r).models = Written(r)

ServedAsAuthored ==
    up => IF broken THEN served = Base(release) /\ release # authored.release
                    ELSE served = Expected

ServedIsWhole == IncludesRead(release) /\ ServedAsAuthored

\* Every root field behind a guard has a resource that a policy can name, and the
\* registry lists all the columns or arguments the field has now, so that a policy
\* can be written for each of them, after any sequence of mounts, failed ones
\* included.  (RegisterAppResources, registerCQRS, Registry.Register)
GrantsCoverFields ==
    \A f \in fields : f.guard # Session =>
        LET resource == <<f.guard[1], f.name>>
        IN  /\ <<f.guard[1], f.guard[2]>> \in DOMAIN registry
            /\ resource \in DOMAIN registry
            /\ f.columns \subseteq registry[resource]

\* A user who is shown one of the app's own menu items that leads to a view is
\* shown the app in the shell: the filter of the shell and the one of the menus ask
\* for different lists of views, built at different times.
\* (FilterShellNav, FilterMenuCatalog, TrackView)
Reachable(items) == \E i \in FilterMenuCatalog(items) : i.view # None

MenuReachable ==
    up /\ served.nav /\ Reachable(Items(served)) => FilterShellNav(served)

\* Departure: the same of the items an addon contributed.  One installed into the
\* running process shows its item in the menus of the app, and the shell does not
\* know its view before the next mount.
AddonReachable ==
    up /\ served.nav /\ Reachable(MenuCatalog(Items(served), Contributed))
        => FilterShellNav(served)

\* Departure: the shell shows the app only to who can open a view it has ("when
\* the principal can access any view in that app").  A view stays known after the
\* layer that had it is gone, and after a mount that failed.
ShellShowsViews ==
    up /\ FilterShellNav(served) /\ tracked # {} =>
        \E v \in Tracked(served, release.registered,
                         MenuCatalog(Items(served), Contributed)) : Open(v)

\* What a call would answer is listed, where no record and no empty page is what
\* lets it answer: every query and command, and what creates and lists the records of
\* a model.  (Catalog, specOperations, unclaimedOperations, RequireAction)
DecidedLater(f) ==
    f.guard = Session /\ f.model # None /\
        (f.model[2] \in {"get", "update", "delete"} \/ Barred(f.model))

CatalogComplete == {f \in fields : Answers(f) /\ ~DecidedLater(f)} \subseteq Catalog

\* Departure: the same of every operation ("lists callable operations of loaded
\* engine apps").  A policy restricted to records lets the caller get, change or
\* delete one, and the catalog asks without a record.
CatalogOffers == {f \in fields : Answers(f)} \subseteq Catalog

\* Departure: what is listed can be called ("that the caller in ctx may invoke").
\* A query or command is listed by its own resource alone, though the model it is
\* bound to has policies of its own, and Count and Groups are listed to everyone.
CatalogCallable == up => \A f \in Catalog : Answers(f)
=============================================================================
