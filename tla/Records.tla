------------------------------ MODULE Records ------------------------------
(***************************************************************************)
(* The records of one model of one organisation (internal/engine/model.go), *)
(* the policy rows that govern them (apps/permissions), and the search      *)
(* index that follows them (internal/platform/search, apps/typesense).      *)
(*                                                                          *)
(* Create, Update and Delete of modelService are several statements and     *)
(* calls long, and none of them runs in a transaction: the row is loaded,   *)
(* the policies are read, the hooks run, the row is written, read again,    *)
(* and the document built from it goes to the memory index and then to      *)
(* Typesense.  Each of these is an action here, so calls of several clients *)
(* interleave between them.                                                 *)
(***************************************************************************)
EXTENDS Acl

CONSTANTS
    Callers,    \* the requests that can be in flight at once
    Ids,        \* record ids
    UserOf,     \* the user of a caller; Internal for engine.WithInternal
    Internal,   \* no user: a seed or a system job, to which no policy applies
    RolesOf,    \* the roles of a user
    Resource,   \* the model, as a pair <<app, model>>
    Required, Readonly, Default, Valid,   \* the fields, as app.yaml declares them
    HookWrites, \* what the Before hooks may do to a payload: [sets, drops]
    Matching,   \* the pairs <<t, s>> of texts such that Typesense finds t for s
    CreateWith, UpdateWith,               \* the inputs of clients
    Booted,     \* the policies of the apps the platform was started with
    Queries,    \* the query domains clients send, each a sequence of tokens
    Searches,   \* the texts clients search a list for
    Seeds,      \* the policies that are seeded again or edited
    Indexings,  \* the search settings an administrator chooses from
    MaxClock,   \* bound: policy and row writes
    Faults      \* bound: whether Typesense fails and the process restarts

\* a policy row: the priority is an INTEGER of the database
PolicyFields ==
    {"name", "role", "effect", "kind", "resource", "actions", "fields", "domain", "priority"}
MaxInteger == 2147483647

ASSUME RecordsAssumption ==
    /\ Required \cup Readonly \subseteq Fields /\ IsFiniteSet(Ids)
    /\ \A p \in Booted \cup Seeds :
          /\ DOMAIN p = PolicyFields /\ p.effect \in {"allow", "deny"}
          /\ p.priority \in -MaxInteger - 1 .. MaxInteger
    /\ \A p, q \in Booted : p.name = q.name /\ p.role = q.role => p = q

VARIABLES
    rows,     \* id -> [vals, deleted] or NoRow
    entries,  \* the acl_entry rows, with the time at which each was updated
    clock,    \* the number of writes, the source of those times
    config,   \* the search settings in force: [enabled, fields]
    saved,    \* the settings in search.json
    memory,   \* the memory index: id -> document or NoDoc
    remote,   \* the index in Typesense
    call,     \* what each caller is doing
    crossed,  \* history: the ids on which two calls overlapped
    missed    \* history: the ids whose last index update did not happen

vars == <<rows, entries, clock, config, saved, memory, remote, call, crossed, missed>>
tableVars == <<rows, entries, clock>>
indexVars == <<config, saved, memory, remote>>
history == <<crossed, missed>>

NoRow == [vals |-> << >>, deleted |-> TRUE, exists |-> FALSE]
NoDoc == << >>
Idle == [pc |-> "idle", op |-> "none", id |-> "none", asked |-> {}, fields |-> << >>,
         rec |-> NoRecord, todo |-> {}]

Live(id) == rows[id].exists /\ ~rows[id].deleted
Row(vals) == [vals |-> vals, deleted |-> FALSE, exists |-> TRUE]

(***************************************************************************)
(* Policies of a caller                                                     *)
(***************************************************************************)
ListEntriesForUser(user) == {e \in entries : e.role \in RolesOf[user]}

Can(user, action, rec, touched) ==
    Evaluate(ListEntriesForUser(user), Resource, action, rec, touched, user)

ListDomain(user) == BuildListFilter(ListEntriesForUser(user), Resource, "read")

Denied(user, action, rec) ==
    DeniedFields(ListEntriesForUser(user), Resource, action, rec, user)

MustAllow(user, action, rec) ==
    user = Internal \/ Can(user, action, rec, {}).allowed

\* the checks on the fields of a write, before anything is normalised
EnforceWrite(user, action, rec, touched) ==
    \/ user = Internal
    \/ LET d == Can(user, action, rec, touched)
       IN  d.allowed /\ Forbidden(touched, d.mask, Denied(user, action, rec)) = {}

(***************************************************************************)
(* Reads                                                                    *)
(***************************************************************************)
Get(user, id) == Live(id) /\ MustAllow(user, "read", rows[id].vals)

MaskRead(user, id) ==
    IF user = Internal THEN rows[id].vals
    ELSE MaskRecord(rows[id].vals, Can(user, "read", rows[id].vals, {}).mask,
                    Denied(user, "read", rows[id].vals))

\* listWithACL: the grant on the model, the filter in SQL or, when it has no form
\* in SQL or the query failed, in memory, then the decision on each row
List(user, failed) ==
    IF user = Internal THEN {id \in Ids : Live(id)}
    ELSE LET filter == ListDomain(user)
         IN  IF ~Can(user, "read", NoRecord, {}).allowed THEN {}
             ELSE {id \in Ids :
                     /\ Live(id)
                     /\ IF FilterCompiles(filter) /\ ~failed
                        THEN CompileListFilter(filter, rows[id].vals, user)
                        ELSE RecordPassesFilter(filter, rows[id].vals, user)
                     /\ Get(user, id)}

\* ListPage answers from SQL alone when the filter leaves nothing to decide by row
CanSqlPage(user) ==
    user = Internal \/ ListDomain(user).unrestricted \/ ListDomain(user).denyAll

\* the quick search of a page: the text occurs in a field
Holds(vals, q) == \E f \in DOMAIN vals : <<vals[f], q>> \in Holding
Occurs(vals, q) == q = Empty \/ Holds(vals, q)

ListPage(user, expr, q, failed) ==
    LET Filtered == {id \in List(user, failed) :
                        /\ ExprMatch(expr, MaskRead(user, id))
                        /\ Occurs(MaskRead(user, id), q)}
    IN  IF ~CanSqlPage(user) THEN Filtered
        ELSE IF user # Internal /\ ListDomain(user).denyAll THEN {}
        ELSE IF ExprCompiles(expr)
        THEN {id \in Ids : /\ Live(id)
                           /\ SqlExprMatch(expr, rows[id].vals)
                           /\ Occurs(rows[id].vals, q)}
        ELSE Filtered

\* the number of rows for each value of a field
Groups(user, field) ==
    LET shown(id) == IF CanSqlPage(user) THEN rows[id].vals ELSE MaskRead(user, id)
        value(id) == IF field \in DOMAIN shown(id) THEN shown(id)[field] ELSE Empty
        page == ListPage(user, << >>, Empty, FALSE)
    IN  [v \in {value(id) : id \in page} |-> Cardinality({id \in page : value(id) = v})]

(***************************************************************************)
(* Writes: what is stored for an input                                      *)
(***************************************************************************)
\* an empty value of a field that has a default counts as not given
Given(in, f) == f \in DOMAIN in /\ ~(in[f] = Empty /\ Default[f] # Nil)

BugNormalizeFields(in, create) ==
    [f \in {g \in Fields : create \/ (g \notin Readonly /\ (Given(in, g) \/ Default[g] # Nil))} |->
        IF Given(in, f) THEN in[f] ELSE IF Default[f] # Nil THEN Default[f] ELSE Empty]

NormalizeFields(in, create) ==
    [f \in {g \in Fields : create \/ (g \notin Readonly /\ Given(in, g))} |->
        IF Given(in, f) THEN in[f] ELSE IF Default[f] # Nil THEN Default[f] ELSE Empty]

HasRequired(p) == \A f \in DOMAIN p \cap Required : p[f] # Empty
\* a value that is nil is not looked at
ValidateSpecFields(p) == \A f \in DOMAIN p : p[f] \in Valid[f] \cup {Nil}

\* w over p
SetBy(w, p) == [f \in DOMAIN w \cup DOMAIN p |-> IF f \in DOMAIN w THEN w[f] ELSE p[f]]

\* the payload after a hook has set fields of it and taken others out
Hooked(w, p) == [f \in (DOMAIN w.sets \cup DOMAIN p) \ w.drops |-> SetBy(w.sets, p)[f]]

BugValidated(p, asked) ==
    {[fields |-> Hooked(w, p), asked |-> asked \cup DOMAIN w.sets] :
        w \in {x \in HookWrites : ValidateSpecFields(p)}}

\* the statement of a call that names the record's fields in `asked`: the hooks of
\* BeforeCreate and BeforeUpdate change the payload, then it is validated
Validated(p, asked) ==
    {[fields |-> Hooked(w, p), asked |-> asked \cup DOMAIN w.sets] :
        w \in {x \in HookWrites : ValidateSpecFields(Hooked(x, p))}}

BuildDocument(rec) == [f \in config.fields \cap DOMAIN rec |-> rec[f]]

(***************************************************************************)
(* Calls                                                                    *)
(***************************************************************************)
Busy(id) == {c \in Callers : call[c].pc # "idle" /\ id \in {call[c].id} \cup call[c].todo}

\* a call starts: history notes the calls that are on the same record
Start(c, new) ==
    /\ call[c].pc = "idle"
    /\ call' = [call EXCEPT ![c] = new]
    /\ crossed' = crossed \cup {id \in {new.id} \cup new.todo : id \in Ids /\ Busy(id) # {}}

\* the statement is done, its arguments are not needed any more
Written(c, pc) ==
    call' = [call EXCEPT ![c].pc = pc, ![c].fields = << >>, ![c].asked = {}]
BugFinish(c) == call' = [call EXCEPT ![c].pc = "idle"]
Finish(c) == call' = [call EXCEPT ![c] = Idle]

\* Create: a client's record gets a new id, a seed names its own
BeginCreate(c) ==
    \E id \in Ids, in \in CreateWith :
        /\ UserOf[c] # Internal => ~rows[id].exists /\ Busy(id) = {}
        /\ EnforceWrite(UserOf[c], "create", NoRecord, DOMAIN in)
        /\ LET p == NormalizeFields(in, TRUE) IN
           /\ HasRequired(p)
           /\ \E h \in Validated(p, Fields) :
                Start(c, [Idle EXCEPT !.pc = "write", !.op = "create", !.id = id,
                                      !.asked = h.asked, !.fields = h.fields])
        /\ UNCHANGED <<tableVars, indexVars, missed>>

\* Update and Delete load the row first; a row that is gone is not found
BeginChange(c) ==
    \E id \in Ids, op \in {"update", "delete"}, in \in UpdateWith \cup {<< >>} :
        /\ Live(id)
        /\ IF op = "update" THEN in \in UpdateWith ELSE in = << >>
        /\ Start(c, [Idle EXCEPT !.pc = "authorize", !.op = op, !.id = id,
                                 !.asked = DOMAIN in, !.fields = in,
                                 !.rec = rows[id].vals])
        /\ UNCHANGED <<tableVars, indexVars, missed>>

\* the policies are read with the row as it was loaded
Authorized(c) ==
    /\ MustAllow(UserOf[c], call[c].op, call[c].rec)
    /\ call[c].op = "update" =>
           /\ EnforceWrite(UserOf[c], "update", call[c].rec, DOMAIN call[c].fields)
           /\ HasRequired(NormalizeFields(call[c].fields, FALSE))

\* the policies refuse the call; or a hook does, or leaves values that do not pass
Refused(c) ==
    /\ call[c].pc = "authorize" /\ ~Authorized(c)
    /\ Finish(c)
    /\ UNCHANGED <<tableVars, indexVars, history>>

RefusedByHook(c) ==
    /\ call[c].pc = "authorize" /\ Authorized(c)
    /\ Finish(c)
    /\ UNCHANGED <<tableVars, indexVars, history>>

AuthorizeUpdate(c) ==
    /\ call[c].pc = "authorize" /\ call[c].op = "update" /\ Authorized(c)
    /\ \E h \in Validated(NormalizeFields(call[c].fields, FALSE),
                         DOMAIN call[c].fields \ Readonly) :
           call' = [call EXCEPT ![c].pc = "write", ![c].rec = NoRecord,
                                ![c].fields = h.fields, ![c].asked = h.asked]
    /\ UNCHANGED <<tableVars, indexVars, history>>

AuthorizeDelete(c) ==
    /\ call[c].pc = "authorize" /\ call[c].op = "delete" /\ Authorized(c)
    /\ call' = [call EXCEPT ![c].pc = "write", ![c].rec = NoRecord]
    /\ UNCHANGED <<tableVars, indexVars, history>>

\* A column takes no NULL: every column of an INSERT, those an UPDATE names
Columns(c) == IF call[c].op = "create" THEN Fields ELSE Fields \cap DOMAIN call[c].fields

Takes(c) ==
    call[c].op # "delete" =>
        \A f \in Columns(c) : f \in DOMAIN call[c].fields /\ call[c].fields[f] # Nil

\* INSERT ... ON CONFLICT (id) DO UPDATE: the row of that id, deleted or not,
\* takes the new fields and is there again
InsertRecord(c) ==
    /\ call[c].pc = "write" /\ call[c].op = "create" /\ Takes(c)
    /\ clock < MaxClock
    /\ rows' = [rows EXCEPT ![call[c].id] =
                   Row([f \in Fields |-> call[c].fields[f]])]
    /\ clock' = clock + 1
    /\ Written(c, "reread")
    /\ UNCHANGED <<entries, indexVars, history>>

\* UPDATE ... WHERE id = $1: the columns of the payload, whatever happened to the
\* row since it was loaded
UpdateRecord(c) ==
    /\ call[c].pc = "write" /\ call[c].op = "update" /\ Takes(c)
    /\ clock < MaxClock
    /\ rows' = [rows EXCEPT ![call[c].id].vals =
                   [f \in Fields |-> IF f \in DOMAIN call[c].fields
                                     THEN call[c].fields[f] ELSE @[f]]]
    /\ clock' = clock + 1
    /\ Written(c, "reread")
    /\ UNCHANGED <<entries, indexVars, history>>

BugSoftDeleteRecord(c) ==
    /\ call[c].pc = "write" /\ call[c].op = "delete"
    /\ clock < MaxClock
    /\ rows' = [rows EXCEPT ![call[c].id].deleted = TRUE]
    /\ clock' = clock + 1
    /\ Finish(c)
    /\ UNCHANGED <<entries, indexVars, history>>

SoftDeleteRecord(c) ==
    /\ call[c].pc = "write" /\ call[c].op = "delete"
    /\ clock < MaxClock
    /\ rows' = [rows EXCEPT ![call[c].id].deleted = TRUE]
    /\ clock' = clock + 1
    /\ Written(c, "memory")
    /\ UNCHANGED <<entries, indexVars, history>>

WriteFails(c) ==
    /\ call[c].pc = "write" /\ (Faults \/ ~Takes(c))
    /\ Finish(c)
    /\ UNCHANGED <<tableVars, indexVars, history>>

\* Create answers "not found" when the row it wrote is deleted by now; Update
\* goes on with what it finds
Reread(c) ==
    /\ call[c].pc = "reread"
    /\ IF call[c].op = "create" /\ ~Live(call[c].id)
       THEN Finish(c)
       ELSE call' = [call EXCEPT ![c].pc = "memory", ![c].rec = rows[call[c].id].vals]
    /\ UNCHANGED <<tableVars, indexVars, history>>

(***************************************************************************)
(* syncSearchIndex: the memory index, then Typesense, whose errors nobody   *)
(* looks at.  The hooks of apps/typesense/app.yaml write the same document  *)
(* to the same two, just before in the same call; one write stands for both.*)
(***************************************************************************)
NotIndexed(c) ==
    /\ call[c].pc = "memory" /\ ~config.enabled
    /\ Finish(c)
    /\ missed' = missed \cup ({call[c].id} \cap Ids)
    /\ UNCHANGED <<tableVars, indexVars, crossed>>

SyncMemory(c) ==
    /\ call[c].pc = "memory" /\ call[c].op # "reindex" /\ config.enabled
    /\ LET doc == IF call[c].op = "delete" THEN NoDoc ELSE BuildDocument(call[c].rec)
       IN  /\ memory' = [memory EXCEPT ![call[c].id] = doc]
           /\ call' = [call EXCEPT ![c].pc = "remote", ![c].fields = doc, ![c].rec = NoRecord]
    /\ UNCHANGED <<tableVars, config, saved, remote, history>>

SyncRemote(c) ==
    /\ call[c].pc = "remote"
    /\ remote' = [remote EXCEPT ![call[c].id] = call[c].fields]
    /\ missed' = missed \ {call[c].id}
    /\ IF call[c].op = "reindex"
       THEN call' = [call EXCEPT ![c].pc = "memory", ![c].fields = << >>]
       ELSE Finish(c)
    /\ UNCHANGED <<tableVars, config, saved, memory, crossed>>

RemoteFails(c) ==
    /\ Faults
    /\ call[c].pc = "remote"
    /\ missed' = missed \cup {call[c].id}
    /\ Finish(c)
    /\ UNCHANGED <<tableVars, indexVars, crossed>>

(***************************************************************************)
(* Search settings and reindexing                                           *)
(***************************************************************************)
\* the settings change in memory, then the file is written or not
SetOverride(s) ==
    /\ config' = s
    /\ saved' \in IF Faults THEN {saved, s} ELSE {s}

\* Documents already indexed stay as they are.
UpdateSearchModelConfig ==
    /\ \E s \in Indexings :
        /\ s # config
        /\ s.enabled => s.fields # {}
        /\ SetOverride(s)
    /\ missed' = Ids
    /\ crossed' = crossed \cup {id \in Ids : Busy(id) # {}}
    /\ UNCHANGED <<tableVars, memory, remote, call>>

\* a field that is listed already is not a reason to enable the search
EnsureFieldIndexed(field) ==
    IF field \in config.fields THEN UNCHANGED <<config, saved, missed>>
    ELSE LET s == [enabled |-> TRUE, fields |-> config.fields \cup {field}]
         IN  s \in Indexings /\ SetOverride(s) /\ missed' = Ids

\* reindexSearchModel, for a field or for the settings as they are; reindexAll is
\* one query for the rows that are not deleted.  Settings that could not be saved
\* are in force for the calls that are on their way, and the call ends.
ReindexSearchModel(c) ==
    /\ UserOf[c] = Internal
    /\ \/ config.enabled /\ UNCHANGED <<config, saved, missed>>
       \/ \E field \in Fields : EnsureFieldIndexed(field)
    /\ IF saved' = config' \/ config' = config
       THEN Start(c, [Idle EXCEPT !.pc = "memory", !.op = "reindex",
                          !.todo = {id \in Ids : Live(id)},
                          !.rec = [id \in Ids |-> rows[id].vals]])
       ELSE /\ call[c].pc = "idle" /\ UNCHANGED call
            /\ crossed' = crossed \cup {id \in Ids : Busy(id) # {}}
    /\ UNCHANGED <<tableVars, memory, remote>>

\* one row of the result after the other, the document built with the settings
\* of that moment
ReindexOne(c) ==
    /\ call[c].pc = "memory" /\ call[c].op = "reindex" /\ config.enabled
    /\ \E id \in call[c].todo :
        /\ memory' = [memory EXCEPT ![id] = BuildDocument(call[c].rec[id])]
        /\ call' = [call EXCEPT ![c].pc = "remote", ![c].id = id, ![c].todo = @ \ {id},
                                ![c].fields = BuildDocument(call[c].rec[id])]
    /\ UNCHANGED <<tableVars, config, saved, remote, history>>

ReindexDone(c) ==
    /\ call[c].pc = "memory" /\ call[c].op = "reindex" /\ call[c].todo = {}
    /\ Finish(c)
    /\ UNCHANGED <<tableVars, indexVars, history>>

\* a new process: the settings of the file, an empty memory index, no calls
Restart ==
    /\ Faults
    /\ config' = saved
    /\ memory' = [id \in Ids |-> NoDoc]
    /\ call' = [c \in Callers |-> Idle]
    /\ missed' = Ids
    /\ UNCHANGED <<tableVars, saved, remote, crossed>>

(***************************************************************************)
(* Searching: the ids a search may answer with                              *)
(***************************************************************************)
\* the memory index finds what occurs in a field, Typesense has rules of its own
Matches(doc, q) == \E f \in DOMAIN doc : <<doc[f], q>> \in Matching

\* a map is read in no particular order until there are enough hits
Cut(found, limit) ==
    {hits \in SUBSET found :
        Cardinality(hits) = IF Cardinality(found) < limit THEN Cardinality(found) ELSE limit}

MemoryQuery(q, limit) == Cut({id \in Ids : memory[id] # NoDoc /\ Holds(memory[id], q)}, limit)

CollectionCounts == Cardinality({id \in Ids : memory[id] # NoDoc})

\* A search that names no collection takes those of the memory index.  It queries
\* by the indexed fields and by title and body, which hold every value between them.
QueryTypesense(q, named, limit) ==
    IF named \/ CollectionCounts > 0
    THEN Cut({id \in Ids : remote[id] # NoDoc /\ Matches(remote[id], q)}, limit)
    ELSE {{}}

By(index, answers) == {[by |-> index, ids |-> hits] : hits \in answers}

AsQueryMiddleware(q, named, limit) ==
    By("typesense", QueryTypesense(q, named, limit))
        \cup IF Faults THEN By("memory", MemoryQuery(q, limit)) ELSE {}

Query(q, named, limit) ==
    IF q = Empty THEN By("memory", {{}})
    ELSE AsQueryMiddleware(q, named, IF limit <= 0 THEN 20 ELSE limit)

(***************************************************************************)
(* Policies                                                                 *)
(***************************************************************************)
Stored(policy, active, at) == SetBy(policy, [active |-> active, at |-> at])

\* EnsureEntry: the row of that name and role is updated, or a new one added
SameEntry(seed) == {e \in entries : e.name = seed.name /\ e.role = seed.role}
Seeded(seed) == Stored(seed, TRUE, clock + 1)

BugEnsureEntry(seed) ==
    (entries \ SameEntry(seed)) \cup
        {Seeded(IF SameEntry(seed) = {} THEN seed ELSE [seed EXCEPT !.fields = {}])}

EnsureEntry(seed) == (entries \ SameEntry(seed)) \cup {Seeded(seed)}

SeedPolicy ==
    /\ clock < MaxClock
    /\ clock' = clock + 1
    /\ entries' \in {EnsureEntry(seed) : seed \in Seeds}
    /\ UNCHANGED <<rows, indexVars, call, history>>

\* DisableEntry: every active row of that name, of any role
DisableEntry(name) ==
    /\ clock < MaxClock
    /\ \E e \in entries : e.name = name /\ e.active
    /\ clock' = clock + 1
    /\ entries' = {IF e.name = name /\ e.active
                   THEN [e EXCEPT !.active = FALSE, !.at = clock + 1] ELSE e : e \in entries}
    /\ UNCHANGED <<rows, indexVars, call, history>>

(***************************************************************************)
(* Specification                                                            *)
(***************************************************************************)
Init ==
    /\ rows = [id \in Ids |-> NoRow]
    /\ entries = {Stored(policy, TRUE, 0) : policy \in Booted}
    /\ clock = 0
    /\ config \in Indexings
    /\ saved = config
    /\ memory = [id \in Ids |-> NoDoc]
    /\ remote = memory
    /\ call = [c \in Callers |-> Idle]
    /\ crossed = {} /\ missed = {}

CallStep(c) ==
    \/ BeginCreate(c) \/ BeginChange(c) \/ ReindexSearchModel(c)
    \/ Refused(c) \/ RefusedByHook(c) \/ AuthorizeUpdate(c) \/ AuthorizeDelete(c)
    \/ InsertRecord(c) \/ UpdateRecord(c) \/ SoftDeleteRecord(c) \/ WriteFails(c)
    \/ Reread(c) \/ NotIndexed(c) \/ SyncMemory(c) \/ SyncRemote(c) \/ RemoteFails(c)
    \/ ReindexOne(c) \/ ReindexDone(c)

Next ==
    \/ \E c \in Callers : CallStep(c)
    \/ SeedPolicy
    \/ \E seed \in Seeds : DisableEntry(seed.name)
    \/ UpdateSearchModelConfig \/ Restart

Spec == Init /\ [][Next]_vars

(***************************************************************************)
(* Properties                                                               *)
(***************************************************************************)
Payload == UNION {[D -> Texts] : D \in SUBSET Fields}
Calls == {"idle", "authorize", "write", "reread", "memory", "remote"}

\* Every variable keeps its type.
TypeOK ==
    /\ rows \in [Ids -> {NoRow} \cup [vals : [Fields -> Texts], deleted : BOOLEAN,
                                      exists : {TRUE}]]
    /\ \A e \in entries : e.at \in 0..clock /\ e.active \in BOOLEAN
    /\ clock \in 0..MaxClock
    /\ {config, saved} \subseteq Indexings
    /\ memory \in [Ids -> Payload] /\ remote \in [Ids -> Payload]
    /\ \A c \in Callers : /\ call[c].pc \in Calls
                          /\ call[c].todo \subseteq Ids
                          /\ call[c].pc = "idle" => call[c] = Idle
    /\ crossed \subseteq Ids /\ missed \subseteq Ids

Writing(c, id) == call[c].pc = "write" /\ call[c].id = id

\* Two writers of one record do not undo each other: a field of a live record
\* changes only in the write of a call that was asked to change it, or whose hook
\* sets it, and a readonly field only through a hook or a seed of the whole record
\* (model.go Update, updateRecord: the columns of the payload, not of the record
\* that was loaded before the policies and hooks ran).
UpdatesMerge ==
    [][\A id \in Ids : Live(id) =>
        \A f \in Fields : rows'[id].exists /\ rows'[id].vals[f] # rows[id].vals[f] =>
            \E c \in Callers :
                Writing(c, id) /\ call'[c].pc # "write" /\ f \in call[c].asked]_vars

\* What is stored satisfies the declaration of the model whatever the hooks set and
\* in whatever order calls wrote: every value of a live record passes its field's
\* validation, and a required field is filled, unless a hook empties it (model.go:
\* required fields are looked at before the hooks, values after them).
HooksFill == \A w \in HookWrites : \A f \in DOMAIN w.sets \cap Required : w.sets[f] # Empty

StoredIsValid ==
    \A id \in Ids : Live(id) =>
        /\ \A f \in Fields : rows[id].vals[f] \in Valid[f]
        /\ HooksFill => \A f \in Required : rows[id].vals[f] # Empty

Quiet(id) == Busy(id) = {}
Indexed(id) == IF Live(id) THEN BuildDocument(rows[id].vals) ELSE NoDoc

\* When no call is at work on a record, no two calls on it overlapped and none of
\* its index updates was lost, a search of its collection finds the record exactly
\* if it is live and the index that answers finds the text in an indexed field
\* (model.go, searchsync.go, reindex.go write the two; query.go falls back from one
\* to the other on any error).
SearchExact ==
    \A id \in Ids, q \in Texts \ {Empty} :
        config.enabled /\ Quiet(id) /\ id \notin crossed \cup missed =>
            \A answer \in Query(q, TRUE, Cardinality(Ids)) :
                id \in answer.ids <=> IF answer.by = "memory" THEN Holds(Indexed(id), q)
                                                             ELSE Matches(Indexed(id), q)

\* docs/capabilities.md, the middleware makes that "GraphQL search / SearchBar hits
\* Typesense for indexed fields": what the search of a collection finds is found as
\* well by a search that names none.
SearchAllFinds ==
    \A q \in Texts \ {Empty} :
        QueryTypesense(q, FALSE, Cardinality(Ids)) = QueryTypesense(q, TRUE, Cardinality(Ids))

\* A policy that is seeded again as it is changes nothing a client can see: the
\* records it can get, list and page, and the fields it sees of them; provided no
\* two policies of equal priority compete (service.go EnsureEntry updates the row
\* of that name and role, and every boot runs it for every seed).
Visible(user) ==
    [list |-> List(user, FALSE), page |-> ListPage(user, << >>, Empty, FALSE),
     groups |-> Groups(user, "owner"),
     get |-> {id \in Ids : Get(user, id)},
     fields |-> [id \in {i \in Ids : Get(user, i)} |-> MaskRead(user, id)]]

Ties == \E a, b \in entries : a # b /\ a.priority = b.priority /\ a.effect # b.effect
InForce(seed) == \E at \in 0..clock : Stored(seed, TRUE, at) \in entries

SeedingIsIdempotent ==
    [][\A seed \in Seeds : SeedPolicy /\ entries' = EnsureEntry(seed) /\ InForce(seed) /\ ~Ties =>
        \A user \in DOMAIN RolesOf : Visible(user)' = Visible(user)]_vars

\* A list or a page shows no record that the same client could not get, as long as
\* a policy that grants single fields does so for all records, and no deny takes all
\* of these fields back (model.go, acl.go and list_page.go decide by filter in SQL,
\* by filter in memory, or row by row).
FieldGrantsStand ==
    \A e \in entries : e.active /\ e.effect = "allow" /\ ~Covers(e, Star) =>
        e.domain = {} /\ \E f \in e.fields : \A d \in entries :
            d.active /\ d.effect = "deny" /\ Covers(d, f) => Before(e, d)

ListIsGettable ==
    FieldGrantsStand => \A user \in DOMAIN RolesOf :
        \A failed \in BOOLEAN, expr \in Queries, q \in Searches :
            List(user, failed) \cup ListPage(user, expr, q, failed)
                \subseteq {id \in Ids : Get(user, id)}

\* docs/acl.md, table of policy fields: "at equal priority deny beats allow".  A
\* record that the highest active policies on it deny is not read.
DenyBeatsAllow ==
    \A user \in DOMAIN RolesOf, id \in Ids :
        LET apply == {e \in Applying(ListEntriesForUser(user), Resource, "read",
                                     rows[id].vals, user) : Covers(e, Star)}
        IN  Live(id) /\ user # Internal /\ (\E d \in apply : d.effect = "deny" /\
                \A e \in apply : ~Before(e, d))
            => ~Get(user, id)
=============================================================================
