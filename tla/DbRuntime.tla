----------------------------- MODULE DbRuntime -----------------------------
(***************************************************************************)
(* The database runtime of internal/dbmanager: a catalog of databases in a *)
(* file, databases on the Postgres server, and one active platform that    *)
(* the requests of all clients share.  Each client has a cookie with the   *)
(* database it selected; a request for an app activates that database, and *)
(* the database manager's requests create, import, duplicate, restore and  *)
(* drop databases.  Requests run concurrently under Runtime.mu.            *)
(***************************************************************************)
EXTENDS Naturals, Sequences, FiniteSets

CONSTANTS
    Dbs,            \* database names
    Clients,        \* browsers, each with a cookie and one request at a time
    Kinds,          \* kinds of request the clients send
    Faults,         \* kinds of failure considered
    CodeModels,     \* some app registers a model in code (appman does)
    MaxRequests, MaxFailures, MaxCrashes, MaxStops,
    NoDb, NoClient

ASSUME DbRuntimeAssumption ==
    /\ Kinds \subseteq {"app", "use", "create", "import", "duplicate", "restore", "drop"}
    /\ Faults \subseteq {"build", "panic", "save", "admin", "cancel"}
    /\ CodeModels \in BOOLEAN
    /\ MaxRequests \in Nat /\ MaxFailures \in Nat /\ MaxCrashes \in Nat /\ MaxStops \in Nat
    /\ NoDb \notin Dbs
    /\ NoClient \notin Clients

VARIABLES
    \* outside the process
    server,     \* databases on the Postgres server
    locked,     \* those that admit no connections (not datallowconn)
    file,       \* databases in the catalog file
    cookie,     \* each client's kg_db cookie
    \* the process
    catalog,    \* Store.cat.Databases
    plat,       \* Runtime.plat: the number of a platform, 0 for none
    active,     \* Runtime.active
    handler,    \* SwapHandler.h: a platform, 0 for the bootstrap handler
    platforms,  \* every platform built: its database, and whether it is open
    mu,         \* Runtime.mu
    models,     \* engine.registry has the models of code
    stop,       \* how far the signal handler has come, and the host it read
    request,    \* each client's request
    used        \* how much of each bound is spent

outside == <<server, locked, file, cookie>>
runtime == <<plat, active, handler, platforms, models>>
vars == <<outside, catalog, runtime, mu, stop, request, used>>

DbOf(p) == platforms[p].db
Open == {p \in DOMAIN platforms : platforms[p].open}

-----------------------------------------------------------------------------
(* Requests *)

\* goal is what follows UseDatabase; at is the platform that serves the
\* request, or the one it has to shut down; chosen, kept for the properties
\* only, is the platform that was active when UseDatabase returned
Idle == [kind |-> "none", pc |-> "idle", db |-> NoDb, source |-> NoDb,
         select |-> FALSE, wasActive |-> FALSE, goal |-> "return", at |-> 0, chosen |-> 0]

At(c, pc) == request[c].pc = pc
Goto(c, pc) == request' = [request EXCEPT ![c].pc = pc]
Return(c) == request' = [request EXCEPT ![c] = Idle]
Use(c, db, goal) == request' = [request EXCEPT ![c].pc = "find", ![c].db = db, ![c].goal = goal]

Spend(bound, max) == used[bound] < max /\ used' = [used EXCEPT ![bound] = @ + 1]
Fail(kind) == kind \in Faults /\ Spend("failures", MaxFailures)

Start(c, new) ==
    /\ new.kind \in Kinds
    /\ At(c, "idle")
    /\ Spend("requests", MaxRequests)
    /\ request' = [request EXCEPT ![c] = new]
    /\ UNCHANGED <<outside, catalog, runtime, mu, stop>>

\* CookieMiddleware: a request for anything but the database manager
App(c) == Start(c, [Idle EXCEPT
    !.kind = "app", !.pc = IF cookie[c] = NoDb THEN "serve" ELSE "find",
    !.db = cookie[c], !.goal = "serve"])

\* handleUse, handleCreate, handleImport, handleRestore, handleDrop, handleDuplicate
UseDb(c) == \E d \in Dbs :
    Start(c, [Idle EXCEPT !.kind = "use", !.pc = "find", !.db = d, !.goal = "cookie"])

NewDb(c) == \E d \in Dbs, select \in BOOLEAN :
    \/ Start(c, [Idle EXCEPT !.kind = "create", !.pc = "create", !.db = d, !.select = select])
    \/ Start(c, [Idle EXCEPT !.kind = "import", !.pc = "exists", !.db = d, !.select = select])
    \/ Start(c, [Idle EXCEPT !.kind = "restore", !.pc = "create", !.db = d, !.select = select])

DropDb(c) == \E d \in Dbs :
    Start(c, [Idle EXCEPT !.kind = "drop", !.pc = "check", !.db = d])

DuplicateDb(c) == \E s, d \in Dbs, select \in BOOLEAN :
    Start(c, [Idle EXCEPT !.kind = "duplicate", !.pc = "source",
                          !.source = s, !.db = d, !.select = select])

-----------------------------------------------------------------------------
(* UseDatabase and rebuild *)

\* What a request does when UseDatabase has returned without an error: serve
\* the app, set the cookie and answer, or only answer
Answered(c, p) ==
    /\ cookie' = IF request[c].goal = "cookie" THEN [cookie EXCEPT ![c] = request[c].db] ELSE cookie
    /\ IF request[c].goal = "serve"
         THEN request' = [request EXCEPT ![c].pc = "serve", ![c].chosen = p]
         ELSE Return(c)

\* ... and with one: EnsureFromRequest's error is ignored, others are the answer
Refused(c) == IF request[c].goal = "serve" THEN Goto(c, "serve") ELSE Return(c)

Find(c) ==
    /\ At(c, "find")
    /\ IF request[c].db \in catalog THEN Goto(c, "decide") ELSE Refused(c)
    /\ UNCHANGED <<outside, catalog, runtime, mu, stop, used>>

\* Mutant: any active platform will do
BugDecideAny(c) ==
    /\ At(c, "decide")
    /\ mu = NoClient
    /\ IF plat # 0 THEN Answered(c, plat) ELSE Goto(c, "rebuild") /\ UNCHANGED cookie
    /\ UNCHANGED <<server, locked, file, catalog, runtime, mu, stop, used>>

\* The active database needs no rebuild; Runtime.mu is released again
Decide(c) ==
    /\ At(c, "decide")
    /\ mu = NoClient
    /\ IF active = request[c].db /\ plat # 0
         THEN Answered(c, plat)
         ELSE Goto(c, "rebuild") /\ UNCHANGED cookie
    /\ UNCHANGED <<server, locked, file, catalog, runtime, mu, stop, used>>

Lock(c) ==
    /\ At(c, "rebuild")
    /\ mu = NoClient
    /\ mu' = c
    /\ Goto(c, "build")
    /\ UNCHANGED <<outside, catalog, runtime, stop, used>>

\* The database answers, and no app's model is registered a second time
Buildable(c) == request[c].db \in server \ locked /\ ~(CodeModels /\ models)

\* Mutant: the handler is swapped only out of bootstrap
BugBuildOk(c) ==
    LET new == Len(platforms) + 1
    IN  /\ At(c, "build")
        /\ Buildable(c)
        /\ platforms' = Append(platforms, [db |-> request[c].db, open |-> TRUE])
        /\ handler' = IF plat = 0 THEN new ELSE handler
        /\ plat' = new /\ active' = request[c].db
        /\ models' = (models \/ CodeModels)
        /\ IF plat = 0
             THEN mu' = NoClient /\ Answered(c, new)
             ELSE /\ request' = [request EXCEPT ![c].pc = "shutdown", ![c].at = plat]
                  /\ UNCHANGED <<mu, cookie>>
        /\ UNCHANGED <<server, locked, file, catalog, stop, used>>

\* The new platform serves before the old one is shut down
BuildOk(c) ==
    LET new == Len(platforms) + 1
    IN  /\ At(c, "build")
        /\ Buildable(c)
        /\ platforms' = Append(platforms, [db |-> request[c].db, open |-> TRUE])
        /\ handler' = new /\ plat' = new /\ active' = request[c].db
        /\ models' = (models \/ CodeModels)
        /\ IF plat = 0
             THEN mu' = NoClient /\ Answered(c, new)
             ELSE /\ request' = [request EXCEPT ![c].pc = "shutdown", ![c].at = plat]
                  /\ UNCHANGED <<mu, cookie>>
        /\ UNCHANGED <<server, locked, file, catalog, stop, used>>

\* Build's error: the database is gone, a model is registered already, or
\* anything else (a canceled request too); the old platform is kept
BuildFails(c) ==
    /\ At(c, "build")
    /\ \/ ~Buildable(c) /\ UNCHANGED <<models, used>>
       \/ request[c].db \in server \ locked /\ Fail("build") /\ models' \in {models, models \/ CodeModels}
    /\ IF plat = 0 THEN handler' = 0 /\ active' = NoDb ELSE UNCHANGED <<handler, active>>
    /\ mu' = NoClient
    /\ Refused(c)
    /\ UNCHANGED <<outside, catalog, plat, platforms, stop>>

\* Mutant: the Unlock is not deferred
BugBuildPanics(c) ==
    /\ At(c, "build")
    /\ Buildable(c)
    /\ Fail("panic")
    /\ models' \in {models, models \/ CodeModels}
    /\ platforms' = Append(platforms, [db |-> request[c].db, open |-> TRUE])
    /\ Return(c)
    /\ UNCHANGED <<outside, catalog, plat, active, handler, mu, stop>>

\* Build panics (a duplicate root field): nobody closes what it has opened, the
\* deferred Unlock runs, and the Recoverer middleware answers
BuildPanics(c) ==
    /\ At(c, "build")
    /\ Buildable(c)
    /\ Fail("panic")
    /\ models' \in {models, models \/ CodeModels}
    /\ platforms' = Append(platforms, [db |-> request[c].db, open |-> TRUE])
    /\ mu' = NoClient
    /\ Return(c)
    /\ UNCHANGED <<outside, catalog, plat, active, handler, stop>>

Closed(p) == [platforms EXCEPT ![p].open = FALSE]

\* module.Shutdown of the old platform, at the end of rebuild
Shutdown(c) ==
    /\ At(c, "shutdown")
    /\ platforms' = Closed(request[c].at)
    /\ mu' = NoClient
    /\ Answered(c, plat)
    /\ UNCHANGED <<server, locked, file, catalog, plat, active, handler, models, stop, used>>

\* SwapHandler.ServeHTTP: read the handler, then run it
Serve(c) ==
    /\ At(c, "serve")
    /\ request' = [request EXCEPT ![c].pc = "handle", ![c].at = handler]
    /\ UNCHANGED <<outside, catalog, runtime, mu, stop, used>>

Finish(c) ==
    /\ At(c, "handle")
    /\ Return(c)
    /\ UNCHANGED <<outside, catalog, runtime, mu, stop, used>>

-----------------------------------------------------------------------------
(* The database manager *)

\* A statement of Admin fails, and the database it had closed is opened again;
\* when the request is canceled meanwhile, the server may have executed the
\* statement, and opening, which uses the request's context, fails too
AdminFails(done, closed, db) ==
    \/ Fail("admin") /\ UNCHANGED server /\ locked' = closed \ {db}
    \/ Fail("cancel") /\ server' \in {server, done} /\ locked' \in {closed \ {db}, closed \cap server'}

\* Admin.CreateDatabase, for create and restore
Create(c) ==
    /\ At(c, "create")
    /\ IF request[c].db \in server
         THEN Return(c) /\ UNCHANGED <<server, locked, used>>
         ELSE LET done == server \cup {request[c].db}
              IN  \/ /\ server' = done
                     /\ Goto(c, IF request[c].kind = "restore" THEN "restore" ELSE "add")
                     /\ UNCHANGED <<locked, used>>
                  \/ AdminFails(done, locked, NoDb) /\ Return(c)
    /\ UNCHANGED <<file, cookie, catalog, runtime, mu, stop>>

\* RestoreDatabase; when it fails the new database is dropped again, if it can be
Restore(c) ==
    /\ At(c, "restore")
    /\ \/ Goto(c, "add") /\ UNCHANGED <<server, used>>
       \/ Fail("admin") /\ Return(c) /\ server' \in {server, server \ {request[c].db}}
    /\ locked' = locked \cap server'
    /\ UNCHANGED <<file, cookie, catalog, runtime, mu, stop>>

\* handleImport: the database exists on the server
Exists(c) ==
    /\ At(c, "exists")
    /\ IF request[c].db \in server THEN Goto(c, "add") ELSE Return(c)
    /\ UNCHANGED <<outside, catalog, runtime, mu, stop, used>>

\* Store.saveLocked: the catalog in memory is written, or not
Save == \/ file' = catalog' /\ UNCHANGED used
        \/ Fail("save") /\ UNCHANGED file

\* Store.AddDatabase, then select the new database, or the duplicated one again
Add(c) ==
    /\ At(c, "add")
    /\ IF request[c].db \in catalog
         THEN Return(c) /\ UNCHANGED <<file, catalog, used>>
         ELSE /\ catalog' = catalog \cup {request[c].db}
              /\ Save
              /\ IF used' # used THEN Return(c)
                 ELSE IF request[c].select THEN Use(c, request[c].db, "cookie")
                 ELSE IF request[c].wasActive THEN Use(c, request[c].source, "return")
                 ELSE Return(c)
    /\ UNCHANGED <<server, locked, cookie, runtime, mu, stop>>

\* handleDuplicate: is the source registered, and is it active
Source(c) ==
    /\ At(c, "source")
    /\ IF request[c].source \in catalog THEN Goto(c, "ask") ELSE Return(c)
    /\ UNCHANGED <<outside, catalog, runtime, mu, stop, used>>

Ask(c) ==
    /\ At(c, "ask")
    /\ mu = NoClient
    /\ IF active = request[c].source
         THEN request' = [request EXCEPT ![c].pc = "leave", ![c].wasActive = TRUE]
         ELSE Goto(c, "copy")
    /\ UNCHANGED <<outside, catalog, runtime, mu, stop, used>>

\* Mutant: the active name stays
BugEnterBootstrap(c) ==
    /\ At(c, "leave")
    /\ mu = NoClient
    /\ plat' = 0 /\ handler' = 0
    /\ IF plat = 0
         THEN Goto(c, "copy") /\ UNCHANGED mu
         ELSE mu' = c /\ request' = [request EXCEPT ![c].pc = "close", ![c].at = plat]
    /\ UNCHANGED <<outside, catalog, active, platforms, models, stop, used>>

\* EnterBootstrap, of whatever platform is active by now
EnterBootstrap(c) ==
    /\ At(c, "leave")
    /\ mu = NoClient
    /\ plat' = 0 /\ active' = NoDb /\ handler' = 0
    /\ IF plat = 0
         THEN Goto(c, "copy") /\ UNCHANGED mu
         ELSE mu' = c /\ request' = [request EXCEPT ![c].pc = "close", ![c].at = plat]
    /\ UNCHANGED <<outside, catalog, platforms, models, stop, used>>

\* Mutant: the platform that was cleared is shut down, not the old one
BugClose(c) ==
    /\ At(c, "close")
    /\ mu' = NoClient
    /\ Goto(c, "copy")
    /\ UNCHANGED <<outside, catalog, runtime, stop, used>>

Close(c) ==
    /\ At(c, "close")
    /\ platforms' = Closed(request[c].at)
    /\ mu' = NoClient
    /\ Goto(c, "copy")
    /\ UNCHANGED <<outside, catalog, plat, active, handler, models, stop, used>>

Copyable(c) ==
    /\ request[c].source \in server \ {request[c].db}
    /\ request[c].db \notin server

\* The source becomes active again when Admin.DuplicateDatabase fails
CopyFailed(c) ==
    IF request[c].wasActive THEN Use(c, request[c].source, "return") ELSE Return(c)

\* Mutant: the copy is closed, not the source
BugIsolate(c) ==
    /\ At(c, "copy")
    /\ \/ Copyable(c) /\ locked' = locked \cup {request[c].db} /\ Goto(c, "clone") /\ UNCHANGED used
       \/ ((~Copyable(c) /\ UNCHANGED used) \/ Fail("admin")) /\ CopyFailed(c) /\ UNCHANGED locked
    /\ UNCHANGED <<server, file, cookie, catalog, runtime, mu, stop>>

\* Admin.DuplicateDatabase closes the source to connections ...
Isolate(c) ==
    /\ At(c, "copy")
    /\ \/ Copyable(c) /\ locked' = locked \cup {request[c].source} /\ Goto(c, "clone") /\ UNCHANGED used
       \/ ((~Copyable(c) /\ UNCHANGED used) \/ Fail("admin")) /\ CopyFailed(c) /\ UNCHANGED locked
    /\ UNCHANGED <<server, file, cookie, catalog, runtime, mu, stop>>

\* ... copies it and opens it again, which a canceled request does not
Clone(c) ==
    /\ At(c, "clone")
    /\ LET done == IF Copyable(c) THEN server \cup {request[c].db} ELSE server
       IN  \/ /\ server' = done /\ locked' = locked \ {request[c].source} /\ UNCHANGED used
              /\ IF Copyable(c) THEN Goto(c, "add") ELSE CopyFailed(c)
           \/ AdminFails(done, locked, request[c].source) /\ CopyFailed(c)
    /\ UNCHANGED <<file, cookie, catalog, runtime, mu, stop>>

\* handleDrop: not the active database
Check(c) ==
    /\ At(c, "check")
    /\ mu = NoClient
    /\ IF active = request[c].db THEN Return(c) ELSE Goto(c, "remove")
    /\ UNCHANGED <<outside, catalog, runtime, mu, stop, used>>

\* Mutant: the database is dropped although the catalog was not written
BugRemove(c) ==
    /\ At(c, "remove")
    /\ IF request[c].db \notin catalog
         THEN Return(c) /\ UNCHANGED <<file, catalog, used>>
         ELSE catalog' = catalog \ {request[c].db} /\ Save /\ Goto(c, "drop")
    /\ UNCHANGED <<server, locked, cookie, runtime, mu, stop>>

\* Store.RemoveDatabase
Remove(c) ==
    /\ At(c, "remove")
    /\ IF request[c].db \notin catalog
         THEN Return(c) /\ UNCHANGED <<file, catalog, used>>
         ELSE /\ catalog' = catalog \ {request[c].db}
              /\ Save
              /\ IF used' # used THEN Return(c) ELSE Goto(c, "drop")
    /\ UNCHANGED <<server, locked, cookie, runtime, mu, stop>>

\* Admin.DropDatabase, which closes the database to connections first
Drop(c) ==
    /\ At(c, "drop")
    /\ LET done == server \ {request[c].db}
       IN  \/ server' = done /\ locked' = locked \ {request[c].db} /\ Return(c) /\ UNCHANGED used
           \/ AdminFails(done, locked \cup {request[c].db}, request[c].db) /\ Goto(c, "readd")
    /\ UNCHANGED <<file, cookie, catalog, runtime, mu, stop>>

\* ... and when that fails the database is registered again, its error ignored
ReAdd(c) ==
    /\ At(c, "readd")
    /\ IF request[c].db \in catalog
         THEN UNCHANGED <<file, catalog, used>>
         ELSE catalog' = catalog \cup {request[c].db} /\ Save
    /\ Return(c)
    /\ UNCHANGED <<server, locked, cookie, runtime, mu, stop>>

-----------------------------------------------------------------------------
(* The process *)

NoRequests == [c \in Clients |-> Idle]
Running == [phase |-> "run", host |-> 0]

\* A new process: the catalog is what the file holds, nothing is active
Restarted ==
    /\ catalog' = file
    /\ plat' = 0 /\ active' = NoDb /\ handler' = 0 /\ platforms' = <<>> /\ models' = FALSE
    /\ mu' = NoClient /\ stop' = Running /\ request' = NoRequests
    /\ UNCHANGED outside

Init ==
    /\ server \in SUBSET Dbs
    /\ locked = {}
    /\ file \in SUBSET server
    /\ cookie \in [Clients -> Dbs \cup {NoDb}]
    /\ catalog = file
    /\ plat = 0 /\ active = NoDb /\ handler = 0 /\ platforms = <<>> /\ models = FALSE
    /\ mu = NoClient /\ stop = Running /\ request = NoRequests
    /\ used = [requests |-> 0, failures |-> 0, crashes |-> 0, stops |-> 0]

Crash ==
    /\ stop.phase # "stopped"
    /\ Spend("crashes", MaxCrashes)
    /\ Restarted

\* SIGTERM: the handler reads the current host (waiting for Runtime.mu) ...
Signal ==
    /\ stop.phase = "run"
    /\ mu = NoClient
    /\ Spend("stops", MaxStops)
    /\ stop' = [phase |-> "stopping", host |-> plat]
    /\ UNCHANGED <<outside, catalog, runtime, mu, request>>

\* ... shuts it down ...
StopHost ==
    /\ stop.phase = "stopping"
    /\ platforms' = IF stop.host = 0 THEN platforms ELSE Closed(stop.host)
    /\ stop' = [stop EXCEPT !.phase = "stopped"]
    /\ UNCHANGED <<outside, catalog, plat, active, handler, models, mu, request, used>>

\* ... and closes the listener, upon which main returns; it is started again
Exit ==
    /\ stop.phase = "stopped"
    /\ Restarted
    /\ UNCHANGED used

Step(c) ==
    \/ Find(c) \/ Decide(c) \/ Lock(c) \/ BuildOk(c) \/ BuildFails(c) \/ BuildPanics(c)
    \/ Shutdown(c) \/ Serve(c) \/ Finish(c)
    \/ Create(c) \/ Restore(c) \/ Exists(c) \/ Add(c)
    \/ Source(c) \/ Ask(c) \/ EnterBootstrap(c) \/ Close(c) \/ Isolate(c) \/ Clone(c)
    \/ Check(c) \/ Remove(c) \/ Drop(c) \/ ReAdd(c)

Next ==
    \/ \E c \in Clients :
           \/ App(c) \/ UseDb(c) \/ NewDb(c) \/ DropDb(c) \/ DuplicateDb(c)
           \/ Step(c)
    \/ Crash \/ Signal \/ StopHost \/ Exit

Spec == Init /\ [][Next]_vars

Waiting(c) == request[c].pc \in {"decide", "rebuild", "ask", "leave", "check"}

\* A request runs on its own goroutine; Runtime.mu is handed to every waiter in
\* turn (sync.Mutex does not starve), and a build ends
FairSpec ==
    /\ Spec
    /\ \A c \in Clients : WF_vars(Step(c)) /\ SF_vars(Waiting(c) /\ Step(c))
    /\ WF_vars(StopHost \/ Exit)

(***************************************************************************)
(* Properties                                                              *)
(***************************************************************************)

Steps == {"idle", "find", "decide", "rebuild", "build", "shutdown", "serve", "handle",
          "create", "restore", "exists", "add", "source", "ask", "leave", "close",
          "copy", "clone", "check", "remove", "drop", "readd"}

Requests == [kind : {"none", "app", "use", "create", "import", "duplicate", "restore", "drop"},
             pc : Steps, db : Dbs \cup {NoDb}, source : Dbs \cup {NoDb}, select : BOOLEAN,
             wasActive : BOOLEAN, goal : {"serve", "cookie", "return"}, at : Nat, chosen : Nat]

\* Every variable has the shape of the state it models in the runtime and the catalog.
TypeOK ==
    /\ server \in SUBSET Dbs
    /\ locked \in SUBSET server
    /\ file \in SUBSET Dbs
    /\ cookie \in [Clients -> Dbs \cup {NoDb}]
    /\ catalog \in SUBSET Dbs
    /\ platforms \in Seq([db : Dbs, open : BOOLEAN])
    /\ plat \in {0} \cup DOMAIN platforms
    /\ active \in Dbs \cup {NoDb}
    /\ handler \in {0} \cup DOMAIN platforms
    /\ models \in BOOLEAN
    /\ mu \in Clients \cup {NoClient}
    /\ stop \in [phase : {"run", "stopping", "stopped"}, host : Nat]
    /\ request \in [Clients -> Requests]
    /\ used \in [requests : Nat, failures : Nat, crashes : Nat, stops : Nat]

\* Whenever Runtime.mu is free, the active name, the platform and the handler
\* that serves are those of one database, or the server is in bootstrap.
ActiveAgree == mu = NoClient =>
    /\ handler = plat
    /\ active = IF plat = 0 THEN NoDb ELSE DbOf(plat)

\* A request is never handed to a platform whose pool is closed, as long as the
\* process is not stopping: rebuild and EnterBootstrap swap the handler first.
HandlerOpen == stop.phase = "run" /\ handler # 0 => handler \in Open

\* However requests race and builds fail, no platform but the active one stays
\* open: each rebuild shuts down the platform it replaces.  (A build that
\* panics does leave its pool behind.)
OneOpen == "panic" \notin Faults /\ mu = NoClient => Open \subseteq {plat}

\* A database in the catalog exists on the server, also after a crash and when
\* requests for one name race: a name is registered after its database is
\* created, and removed before it is dropped.
CatalogExists == catalog \cup file \subseteq server

\* However clients with different cookies switch the one active platform: a
\* request whose selection succeeded had its own database active then, and is
\* handed to that platform, to one built since, or to the bootstrap page -- never
\* back to a platform that was replaced before.
ServedOrNewer == \A c \in Clients :
    LET own == request[c].chosen
    IN  At(c, "handle") /\ own # 0 =>
            /\ DbOf(own) = request[c].db
            /\ request[c].at = 0 \/ own <= request[c].at

\* A request is served by the platform of the database its cookie names, or
\* redirected to the database manager (CookieMiddleware's comment).
ServedByOwn == \A c \in Clients :
    At(c, "handle") /\ cookie[c] # NoDb /\ request[c].at # 0 /\ stop.phase = "run" =>
        DbOf(request[c].at) = cookie[c]

\* The active database is never dropped (handleDrop's refusal).
ActiveExists == active # NoDb => active \in server

\* A database that cannot be built puts the server into bootstrap mode
\* (docs/development/workflow.md).
FailedSwitchBootstraps == [][\A c \in Clients :
    At(c, "build") /\ ~At(c, "build")' => active' = request[c].db \/ handler' = 0]_vars

\* Selecting a database that is there rebuilds the platform in the process,
\* unless the build fails for a reason of its own (docs/development/workflow.md).
SelectingRebuilds == [][\A c \in Clients :
    At(c, "build") /\ ~At(c, "build")' /\ request[c].db \in server \ locked /\ used' = used /\ stop' = stop =>
        active' = request[c].db]_vars

\* A database that was duplicated admits connections again, whatever happened
\* ("Always re-enable connections on source", DuplicateDatabase).
SourceReopened == (\A c \in Clients : ~At(c, "clone")) => locked = {}

\* When the process ends after a signal no platform is left running: its plugin
\* processes are killed (docs/architecture.md).
StopsEverything == [][stop.phase = "stopped" /\ stop'.phase = "run" => Open = {}]_vars

\* Every request returns, whatever fails and whoever else holds Runtime.mu.
RequestsReturn == \A c \in Clients : ~At(c, "idle") ~> At(c, "idle")

=============================================================================
