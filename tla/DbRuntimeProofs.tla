-------------------------- MODULE DbRuntimeProofs --------------------------
(***************************************************************************)
(* Proofs about module DbRuntime, for any databases, clients and bounds.   *)
(***************************************************************************)
EXTENDS DbRuntime, SequenceTheorems, TLAPS

-----------------------------------------------------------------------------
(* The inductive invariant *)

\* Steps of a request at which it holds Runtime.mu
Holding == {"build", "shutdown", "close"}

LockInv == \A c \in Clients : request[c].pc \in Holding <=> mu = c

\* What a request works on: a database, the source it left, and the platform
\* it has replaced and is about to shut down
AimInv == \A c \in Clients :
    /\ request[c].pc \notin {"idle", "serve", "handle"} => request[c].db \in Dbs
    /\ request[c].pc \in {"source", "ask"} \/ request[c].wasActive => request[c].source \in Dbs
    /\ request[c].pc \in {"shutdown", "close"} => request[c].at \in DOMAIN platforms \ {plat}
    /\ request[c].pc = "exists" => "import" \in Kinds

StopInv == stop.host \in {0} \cup DOMAIN platforms

TypeInv == TypeOK /\ LockInv /\ AimInv /\ StopInv

-----------------------------------------------------------------------------
(* How a request moves *)

Others(c) == \A d \in Clients \ {c} : request'[d] = request[d]

\* Goto changes the step of one request.
LEMMA GotoMoves ==
    ASSUME request \in [Clients -> Requests], NEW c \in Clients, NEW pc \in Steps, Goto(c, pc)
    PROVE  /\ request' \in [Clients -> Requests]
           /\ Others(c)
           /\ request'[c] = [request[c] EXCEPT !.pc = pc]
  BY DEF Goto, Others, Requests

\* Return makes one request idle.
LEMMA ReturnMoves ==
    ASSUME request \in [Clients -> Requests], NEW c \in Clients, Return(c)
    PROVE  /\ request' \in [Clients -> Requests]
           /\ Others(c)
           /\ request'[c] = Idle
           /\ Idle.pc = "idle" /\ ~Idle.wasActive
  BY DEF Return, Idle, Others, Requests, Steps

\* Use sends one request to UseDatabase.
LEMMA UseMoves ==
    ASSUME request \in [Clients -> Requests], NEW c \in Clients, NEW db \in Dbs,
           NEW goal \in {"serve", "cookie", "return"}, Use(c, db, goal)
    PROVE  /\ request' \in [Clients -> Requests]
           /\ Others(c)
           /\ request'[c].pc = "find" /\ request'[c].db = db
           /\ request'[c].source = request[c].source
           /\ request'[c].wasActive = request[c].wasActive
  <1>1. PICK r : r = [request[c] EXCEPT !.pc = "find", !.db = db, !.goal = goal]
    OBVIOUS
  <1>2. r \in Requests
    <2>1. PICK q : q = [request[c] EXCEPT !.pc = "find"]
      OBVIOUS
    <2>2. q \in Requests
      BY <2>1 DEF Requests, Steps
    <2>3. r = [q EXCEPT !.db = db, !.goal = goal]
      BY <1>1, <2>1 DEF Requests
    <2> QED
      BY <2>2, <2>3 DEF Requests
  <1>3. request' = [request EXCEPT ![c] = r]
    BY <1>1 DEF Use
  <1>4. r.pc = "find" /\ r.db = db /\ r.source = request[c].source /\ r.wasActive = request[c].wasActive
    BY <1>1 DEF Requests
  <1> QED
    BY <1>2, <1>3, <1>4 DEF Others

\* What is left of a request that UseDatabase has answered or refused
Released(c) ==
    \/ request'[c] = Idle
    \/ /\ request'[c].pc = "serve" /\ request'[c].source = request[c].source
       /\ request'[c].wasActive = request[c].wasActive

\* An answered request is served or idle.
LEMMA AnsweredMoves ==
    ASSUME request \in [Clients -> Requests], cookie \in [Clients -> Dbs \cup {NoDb}],
           NEW c \in Clients, NEW p \in Nat, Answered(c, p)
    PROVE  /\ request' \in [Clients -> Requests]
           /\ Others(c)
           /\ Released(c)
           /\ cookie' \in [Clients -> Dbs \cup {NoDb}]
  <1>1. request[c].db \in Dbs \cup {NoDb}
    BY DEF Requests
  <1>2. cookie' \in [Clients -> Dbs \cup {NoDb}]
    BY <1>1 DEF Answered
  <1>3. CASE request' = [request EXCEPT ![c].pc = "serve", ![c].chosen = p]
    <2>1. PICK r : r = [request[c] EXCEPT !.pc = "serve", !.chosen = p]
      OBVIOUS
    <2>2. r \in Requests
      <3>1. PICK q : q = [request[c] EXCEPT !.pc = "serve"]
        OBVIOUS
      <3>2. q \in Requests
        BY <3>1 DEF Requests, Steps
      <3>3. r = [q EXCEPT !.chosen = p]
        BY <2>1, <3>1 DEF Requests
      <3> QED
        BY <3>2, <3>3 DEF Requests
    <2>3. request' = [request EXCEPT ![c] = r]
      BY <1>3, <2>1
    <2>4. r.pc = "serve" /\ r.source = request[c].source /\ r.wasActive = request[c].wasActive
      BY <2>1 DEF Requests
    <2> QED
      BY <1>2, <2>2, <2>3, <2>4 DEF Others, Released
  <1>4. CASE Return(c)
    BY <1>2, <1>4, ReturnMoves DEF Released
  <1> QED
    BY <1>3, <1>4 DEF Answered

\* The same for a refusal.
LEMMA RefusedMoves ==
    ASSUME request \in [Clients -> Requests], NEW c \in Clients, Refused(c)
    PROVE  /\ request' \in [Clients -> Requests]
           /\ Others(c)
           /\ Released(c)
  <1>1. CASE Goto(c, "serve")
    <2>1. request'[c] = [request[c] EXCEPT !.pc = "serve"] /\ request[c] \in Requests
      BY <1>1, GotoMoves DEF Steps
    <2> QED
      BY <1>1, <2>1, GotoMoves DEF Steps, Released, Requests
  <1>2. CASE Return(c)
    BY <1>2, ReturnMoves DEF Released
  <1> QED
    BY <1>1, <1>2 DEF Refused

-----------------------------------------------------------------------------
(* Types *)

\* The part of the type invariant that speaks of one request
Aimed(r) ==
    /\ r.pc \notin {"idle", "serve", "handle"} => r.db \in Dbs
    /\ r.pc \in {"source", "ask"} \/ r.wasActive => r.source \in Dbs
    /\ r.pc = "exists" => "import" \in Kinds

\* A request that neither takes nor holds Runtime.mu moves without touching the
\* platforms.
LEMMA WalkKeeps ==
    ASSUME TypeInv, NEW c \in Clients, Others(c), request' \in [Clients -> Requests],
           UNCHANGED <<plat, platforms, mu, stop>>,
           request[c].pc \notin Holding, request'[c].pc \notin Holding, Aimed(request'[c])
    PROVE  LockInv' /\ AimInv' /\ StopInv'
  <1>1. LockInv'
    BY DEF TypeInv, LockInv, Others
  <1>2. AimInv'
    BY DEF TypeInv, AimInv, Others, Aimed, Holding
  <1>3. StopInv'
    BY DEF TypeInv, StopInv
  <1> QED
    BY <1>1, <1>2, <1>3

\* A bound is spent by counting.
LEMMA SpendType ==
    ASSUME used \in [requests : Nat, failures : Nat, crashes : Nat, stops : Nat],
           NEW b \in {"requests", "failures", "crashes", "stops"}, NEW max, Spend(b, max)
    PROVE  used' \in [requests : Nat, failures : Nat, crashes : Nat, stops : Nat]
  BY DEF Spend

\* A failure is counted.
LEMMA FailType ==
    ASSUME used \in [requests : Nat, failures : Nat, crashes : Nat, stops : Nat],
           NEW kind, Fail(kind)
    PROVE  used' \in [requests : Nat, failures : Nat, crashes : Nat, stops : Nat]
  BY SpendType DEF Fail

\* A new request starts at its first step.
LEMMA StartType ==
    ASSUME TypeInv, NEW c \in Clients, NEW new \in Requests, Start(c, new),
           new.pc \notin Holding, Aimed(new)
    PROVE  TypeInv'
  <1>1. request' \in [Clients -> Requests] /\ Others(c) /\ request'[c] = new
    BY DEF Start, TypeInv, TypeOK, Others
  <1>2. TypeOK'
    BY <1>1, SpendType DEF TypeInv, TypeOK, Start, outside, runtime
  <1>3. request[c].pc \notin Holding
    BY DEF Start, At, Holding
  <1> QED
    BY <1>1, <1>2, <1>3, WalkKeeps DEF TypeInv, Start, runtime

\* App keeps the types.
LEMMA AppType ==
    ASSUME TypeInv, NEW c \in Clients, App(c)
    PROVE  TypeInv'
  <1>1. PICK r : r = [Idle EXCEPT !.kind = "app",
                        !.pc = IF cookie[c] = NoDb THEN "serve" ELSE "find",
                        !.db = cookie[c], !.goal = "serve"]
    OBVIOUS
  <1>2. cookie[c] \in Dbs \cup {NoDb}
    BY DEF TypeInv, TypeOK
  <1>3. r \in Requests /\ r.pc \notin Holding /\ Aimed(r)
    BY <1>1, <1>2 DEF Idle, Requests, Steps, Holding, Aimed
  <1> QED
    BY <1>1, <1>3, StartType DEF App

\* UseDb keeps the types.
LEMMA UseDbType ==
    ASSUME TypeInv, NEW c \in Clients, UseDb(c)
    PROVE  TypeInv'
  <1>1. PICK d \in Dbs : Start(c, [Idle EXCEPT !.kind = "use", !.pc = "find", !.db = d, !.goal = "cookie"])
    BY DEF UseDb
  <1>2. PICK r : r = [Idle EXCEPT !.kind = "use", !.pc = "find", !.db = d, !.goal = "cookie"]
    OBVIOUS
  <1>3. r \in Requests /\ r.pc \notin Holding /\ Aimed(r)
    BY <1>2 DEF Idle, Requests, Steps, Holding, Aimed
  <1> QED
    BY <1>1, <1>2, <1>3, StartType

\* NewDb keeps the types.
LEMMA NewDbType ==
    ASSUME TypeInv, NEW c \in Clients, NewDb(c)
    PROVE  TypeInv'
  <1>1. PICK d \in Dbs, select \in BOOLEAN :
            \/ Start(c, [Idle EXCEPT !.kind = "create", !.pc = "create", !.db = d, !.select = select])
            \/ Start(c, [Idle EXCEPT !.kind = "import", !.pc = "exists", !.db = d, !.select = select])
            \/ Start(c, [Idle EXCEPT !.kind = "restore", !.pc = "create", !.db = d, !.select = select])
    BY DEF NewDb
  <1>2. ASSUME NEW kind \in {"create", "import", "restore"}, NEW pc \in {"create", "exists"}, NEW r,
               pc = "exists" => kind = "import",
               r = [Idle EXCEPT !.kind = kind, !.pc = pc, !.db = d, !.select = select],
               Start(c, r)
        PROVE  TypeInv'
    <2>1. r.kind = kind /\ r.pc = pc /\ r.db = d /\ r \in Requests /\ ~r.wasActive
      BY <1>2 DEF Idle, Requests, Steps
    <2>2. pc = "exists" => "import" \in Kinds
      BY <1>2, <2>1 DEF Start
    <2>3. Aimed(r) /\ r.pc \notin Holding
      BY <2>1, <2>2 DEF Aimed, Holding
    <2> QED
      BY <1>2, <2>1, <2>3, StartType
  <1> QED
    BY <1>1, <1>2

\* DropDb keeps the types.
LEMMA DropDbType ==
    ASSUME TypeInv, NEW c \in Clients, DropDb(c)
    PROVE  TypeInv'
  <1>1. PICK d \in Dbs : Start(c, [Idle EXCEPT !.kind = "drop", !.pc = "check", !.db = d])
    BY DEF DropDb
  <1>2. PICK r : r = [Idle EXCEPT !.kind = "drop", !.pc = "check", !.db = d]
    OBVIOUS
  <1>3. r \in Requests /\ r.pc \notin Holding /\ Aimed(r)
    BY <1>2 DEF Idle, Requests, Steps, Holding, Aimed
  <1> QED
    BY <1>1, <1>2, <1>3, StartType

\* DuplicateDb keeps the types.
LEMMA DuplicateDbType ==
    ASSUME TypeInv, NEW c \in Clients, DuplicateDb(c)
    PROVE  TypeInv'
  <1>1. PICK s \in Dbs, d \in Dbs, select \in BOOLEAN :
            Start(c, [Idle EXCEPT !.kind = "duplicate", !.pc = "source",
                                  !.source = s, !.db = d, !.select = select])
    BY DEF DuplicateDb
  <1>2. PICK r : r = [Idle EXCEPT !.kind = "duplicate", !.pc = "source",
                                  !.source = s, !.db = d, !.select = select]
    OBVIOUS
  <1>3. r \in Requests /\ r.pc \notin Holding /\ Aimed(r)
    BY <1>2 DEF Idle, Requests, Steps, Holding, Aimed
  <1> QED
    BY <1>1, <1>2, <1>3, StartType

Rest == LockInv /\ AimInv /\ StopInv /\ request \in [Clients -> Requests]

\* Goto of a request that does not hold Runtime.mu keeps the invariants.
LEMMA GotoKeeps ==
    ASSUME TypeInv, NEW c \in Clients, NEW pc \in Steps \ Holding, Goto(c, pc),
           UNCHANGED <<plat, platforms, mu, stop>>,
           request[c].pc \notin Holding, pc \notin {"source", "exists"},
           pc = "ask" => request[c].pc = "source",
           request[c].pc \in {"idle", "serve", "handle"} => pc = "handle"
    PROVE  Rest'
  <1>1. request' \in [Clients -> Requests] /\ Others(c) /\ request'[c] = [request[c] EXCEPT !.pc = pc]
    BY GotoMoves DEF TypeInv, TypeOK
  <1>2. request[c] \in Requests
    BY DEF TypeInv, TypeOK
  <1>3. request'[c].pc = pc /\ request'[c].db = request[c].db /\ request'[c].source = request[c].source
        /\ request'[c].wasActive = request[c].wasActive
    BY <1>1, <1>2 DEF Requests
  <1>4. Aimed(request'[c])
    BY <1>3 DEF TypeInv, AimInv, Aimed
  <1> QED
    BY <1>1, <1>3, <1>4, WalkKeeps DEF Rest

\* ... and so does Return ...
LEMMA ReturnKeeps ==
    ASSUME TypeInv, NEW c \in Clients, Return(c), UNCHANGED <<plat, platforms, mu, stop>>,
           request[c].pc \notin Holding
    PROVE  Rest'
  <1>1. request' \in [Clients -> Requests] /\ Others(c) /\ request'[c] = Idle
        /\ Idle.pc = "idle" /\ ~Idle.wasActive
    BY ReturnMoves DEF TypeInv, TypeOK
  <1>2. Aimed(request'[c]) /\ request'[c].pc \notin Holding
    BY <1>1 DEF Aimed, Holding
  <1> QED
    BY <1>1, <1>2, WalkKeeps DEF Rest

\* ... and Use ...
LEMMA UseKeeps ==
    ASSUME TypeInv, NEW c \in Clients, NEW db \in Dbs, NEW goal \in {"serve", "cookie", "return"},
           Use(c, db, goal), UNCHANGED <<plat, platforms, mu, stop>>, request[c].pc \notin Holding
    PROVE  Rest'
  <1>1. request \in [Clients -> Requests]
    BY DEF TypeInv, TypeOK
  <1>2. request' \in [Clients -> Requests] /\ Others(c)
    BY <1>1, UseMoves
  <1>3. request'[c].pc = "find" /\ request'[c].db = db /\ request'[c].source = request[c].source
        /\ request'[c].wasActive = request[c].wasActive
    BY <1>1, UseMoves
  <1>4. Aimed(request'[c]) /\ request'[c].pc \notin Holding
    BY <1>3 DEF TypeInv, AimInv, Aimed, Holding
  <1> QED
    BY <1>2, <1>4, WalkKeeps DEF Rest

\* What UseDatabase leaves of a request is aimed at nothing it has to find.
LEMMA ServedAim ==
    ASSUME TypeInv, NEW c \in Clients, Released(c)
    PROVE  Aimed(request'[c]) /\ request'[c].pc \in {"idle", "serve"}
  <1>1. CASE request'[c] = Idle
    BY <1>1 DEF Idle, Aimed
  <1>2. CASE request'[c].pc = "serve" /\ request'[c].source = request[c].source
             /\ request'[c].wasActive = request[c].wasActive
    BY <1>2 DEF Aimed, TypeInv, AimInv
  <1> QED
    BY <1>1, <1>2 DEF Released

\* ... and an answer of UseDatabase ...
LEMMA AnsweredKeeps ==
    ASSUME TypeInv, NEW c \in Clients, NEW p \in Nat, Answered(c, p), UNCHANGED <<plat, platforms, mu, stop>>,
           request[c].pc \notin Holding
    PROVE  Rest' /\ cookie' \in [Clients -> Dbs \cup {NoDb}]
  BY AnsweredMoves, ServedAim, WalkKeeps DEF Rest, TypeInv, TypeOK, Holding

\* ... and its refusal.
LEMMA RefusedKeeps ==
    ASSUME TypeInv, NEW c \in Clients, Refused(c), UNCHANGED <<plat, platforms, mu, stop>>,
           request[c].pc \notin Holding
    PROVE  Rest'
  BY RefusedMoves, ServedAim, WalkKeeps DEF Rest, TypeInv, TypeOK, Holding

\* The steps of UseDatabase and of serving that take no lock.
LEMMA FindType ==
    ASSUME TypeInv, NEW c \in Clients, Find(c)
    PROVE  TypeInv'
  <1>1. Rest'
    <2>1. CASE Goto(c, "decide")
      BY <2>1, GotoKeeps DEF Find, At, Holding, Steps, runtime
    <2>2. CASE Refused(c)
      BY <2>2, RefusedKeeps DEF Find, At, Holding, runtime
    <2> QED
      BY <2>1, <2>2 DEF Find
  <1> QED
    BY <1>1 DEF Rest, TypeInv, TypeOK, Find, outside, runtime

\* Platforms are numbered.
LEMMA PlatNumber == TypeInv => plat \in Nat
  BY LenProperties DEF TypeInv, TypeOK

\* Decide keeps the types.
LEMMA DecideType ==
    ASSUME TypeInv, NEW c \in Clients, Decide(c)
    PROVE  TypeInv'
  <1>1. Rest' /\ cookie' \in [Clients -> Dbs \cup {NoDb}]
    <2>1. CASE Answered(c, plat)
      BY <2>1, AnsweredKeeps, PlatNumber DEF Decide, At, Holding, runtime
    <2>2. CASE Goto(c, "rebuild") /\ UNCHANGED cookie
      BY <2>2, GotoKeeps DEF Decide, At, Holding, Steps, runtime, TypeInv, TypeOK
    <2> QED
      BY <2>1, <2>2 DEF Decide
  <1> QED
    BY <1>1 DEF Rest, TypeInv, TypeOK, Decide, runtime

\* Serve keeps the types.
LEMMA ServeType ==
    ASSUME TypeInv, NEW c \in Clients, Serve(c)
    PROVE  TypeInv'
  <1>1. request[c] \in Requests /\ handler \in Nat
    BY LenProperties DEF TypeInv, TypeOK
  <1>2. PICK r : r = [request[c] EXCEPT !.pc = "handle", !.at = handler]
    OBVIOUS
  <1>3. r \in Requests /\ r.pc = "handle" /\ r.source = request[c].source /\ r.wasActive = request[c].wasActive
    BY <1>1, <1>2 DEF Requests, Steps
  <1>4. request' = [request EXCEPT ![c] = r]
    BY <1>2 DEF Serve
  <1>5. request' \in [Clients -> Requests] /\ Others(c) /\ request'[c] = r
    BY <1>3, <1>4 DEF TypeInv, TypeOK, Others
  <1>6. Aimed(request'[c]) /\ request'[c].pc \notin Holding /\ request[c].pc \notin Holding
    BY <1>3, <1>5 DEF Aimed, TypeInv, AimInv, Serve, At, Holding
  <1>7. LockInv' /\ AimInv' /\ StopInv'
    BY <1>5, <1>6, WalkKeeps DEF Serve, runtime
  <1> QED
    BY <1>5, <1>7 DEF TypeInv, TypeOK, Serve, outside, runtime

\* Finish keeps the types.
LEMMA FinishType ==
    ASSUME TypeInv, NEW c \in Clients, Finish(c)
    PROVE  TypeInv'
  <1>1. Rest'
    BY ReturnKeeps DEF Finish, At, Holding, runtime
  <1> QED
    BY <1>1 DEF Rest, TypeInv, TypeOK, Finish, outside, runtime

\* The steps of the database manager that take no lock.  Each is at a step of
\* its own and leaves Runtime alone.
LEMMA AdminFailsType ==
    ASSUME TypeInv, NEW done \in SUBSET Dbs, NEW closed, NEW db, closed \ {db} \subseteq server,
           closed \ {db} \subseteq done, AdminFails(done, closed, db)
    PROVE  /\ server' \in SUBSET Dbs /\ locked' \in SUBSET server'
           /\ used' \in [requests : Nat, failures : Nat, crashes : Nat, stops : Nat]
  <1>1. used' \in [requests : Nat, failures : Nat, crashes : Nat, stops : Nat]
    BY FailType DEF AdminFails, TypeInv, TypeOK
  <1>2. server' \in SUBSET Dbs /\ locked' \in SUBSET server'
    BY DEF AdminFails, TypeInv, TypeOK
  <1> QED
    BY <1>1, <1>2

\* Create keeps the types.
LEMMA CreateType ==
    ASSUME TypeInv, NEW c \in Clients, Create(c)
    PROVE  TypeInv'
  <1>1. request[c].db \in Dbs /\ request[c].pc = "create"
    BY DEF Create, At, TypeInv, AimInv
  <1>2. Rest'
    <2>1. CASE Return(c)
      BY <1>1, <2>1, ReturnKeeps DEF Create, Holding, runtime
    <2>2. CASE Goto(c, IF request[c].kind = "restore" THEN "restore" ELSE "add")
      BY <1>1, <2>2, GotoKeeps DEF Create, Holding, Steps, runtime
    <2> QED
      BY <2>1, <2>2 DEF Create
  <1>3. /\ server' \in SUBSET Dbs /\ locked' \in SUBSET server'
        /\ used' \in [requests : Nat, failures : Nat, crashes : Nat, stops : Nat]
    <2>1. CASE UNCHANGED <<locked, used>> /\ server' \in {server, server \cup {request[c].db}}
      BY <1>1, <2>1 DEF TypeInv, TypeOK
    <2>2. CASE AdminFails(server \cup {request[c].db}, locked, NoDb)
      <3>1. server \cup {request[c].db} \in SUBSET Dbs /\ locked \in SUBSET server
        BY <1>1 DEF TypeInv, TypeOK
      <3> QED
        BY <2>2, <3>1, AdminFailsType
    <2> QED
      BY <2>1, <2>2 DEF Create
  <1> QED
    BY <1>2, <1>3 DEF Rest, TypeInv, TypeOK, Create, runtime

\* Restore keeps the types.
LEMMA RestoreType ==
    ASSUME TypeInv, NEW c \in Clients, Restore(c)
    PROVE  TypeInv'
  <1>1. Rest'
    <2>1. CASE Return(c)
      BY <2>1, ReturnKeeps DEF Restore, At, Holding, runtime
    <2>2. CASE Goto(c, "add")
      BY <2>2, GotoKeeps DEF Restore, At, Holding, Steps, runtime
    <2> QED
      BY <2>1, <2>2 DEF Restore
  <1>2. used' \in [requests : Nat, failures : Nat, crashes : Nat, stops : Nat]
    BY FailType DEF Restore, TypeInv, TypeOK
  <1>3. server' \in SUBSET Dbs /\ locked' \in SUBSET server'
    BY DEF Restore, TypeInv, TypeOK
  <1> QED
    BY <1>1, <1>2, <1>3 DEF Rest, TypeInv, TypeOK, Restore, runtime

\* Exists keeps the types.
LEMMA ExistsType ==
    ASSUME TypeInv, NEW c \in Clients, Exists(c)
    PROVE  TypeInv'
  <1>1. Rest'
    <2>1. CASE Return(c)
      BY <2>1, ReturnKeeps DEF Exists, At, Holding, runtime
    <2>2. CASE Goto(c, "add")
      BY <2>2, GotoKeeps DEF Exists, At, Holding, Steps, runtime
    <2> QED
      BY <2>1, <2>2 DEF Exists
  <1> QED
    BY <1>1 DEF Rest, TypeInv, TypeOK, Exists, outside, runtime

\* The catalog file holds databases.
LEMMA SaveType ==
    ASSUME TypeInv, Save, catalog' \in SUBSET Dbs
    PROVE  /\ file' \in SUBSET Dbs
           /\ used' \in [requests : Nat, failures : Nat, crashes : Nat, stops : Nat]
  BY FailType DEF Save, TypeInv, TypeOK

\* Add keeps the types.
LEMMA AddType ==
    ASSUME TypeInv, NEW c \in Clients, Add(c)
    PROVE  TypeInv'
  <1>1. request[c].pc = "add" /\ request[c].db \in Dbs
        /\ (request[c].wasActive => request[c].source \in Dbs)
    BY DEF Add, At, TypeInv, AimInv
  <1>2. \/ Return(c)
        \/ Use(c, request[c].db, "cookie")
        \/ request[c].wasActive /\ Use(c, request[c].source, "return")
    BY DEF Add
  <1>3. Rest'
    <2>1. CASE Return(c)
      BY <1>1, <2>1, ReturnKeeps DEF Add, Holding, runtime
    <2>2. CASE Use(c, request[c].db, "cookie")
      BY <1>1, <2>2, UseKeeps DEF Add, Holding, runtime
    <2>3. CASE request[c].wasActive /\ Use(c, request[c].source, "return")
      BY <1>1, <2>3, UseKeeps DEF Add, Holding, runtime
    <2> QED
      BY <1>2, <2>1, <2>2, <2>3
  <1>4. /\ catalog' \in SUBSET Dbs /\ file' \in SUBSET Dbs
        /\ used' \in [requests : Nat, failures : Nat, crashes : Nat, stops : Nat]
    <2>1. CASE UNCHANGED <<file, catalog, used>>
      BY <2>1 DEF TypeInv, TypeOK
    <2>2. CASE catalog' = catalog \cup {request[c].db} /\ Save
      <3>1. catalog' \in SUBSET Dbs
        BY <1>1, <2>2 DEF TypeInv, TypeOK
      <3> QED
        BY <2>2, <3>1, SaveType
    <2> QED
      BY <2>1, <2>2 DEF Add
  <1> QED
    BY <1>3, <1>4 DEF Rest, TypeInv, TypeOK, Add, runtime

\* Source keeps the types.
LEMMA SourceType ==
    ASSUME TypeInv, NEW c \in Clients, Source(c)
    PROVE  TypeInv'
  <1>1. Rest'
    <2>1. CASE Return(c)
      BY <2>1, ReturnKeeps DEF Source, At, Holding, runtime
    <2>2. CASE Goto(c, "ask")
      BY <2>2, GotoKeeps DEF Source, At, Holding, Steps, runtime
    <2> QED
      BY <2>1, <2>2 DEF Source
  <1> QED
    BY <1>1 DEF Rest, TypeInv, TypeOK, Source, outside, runtime

\* Ask keeps the types.
LEMMA AskType ==
    ASSUME TypeInv, NEW c \in Clients, Ask(c)
    PROVE  TypeInv'
  <1>1. Rest'
    <2>1. CASE Goto(c, "copy")
      BY <2>1, GotoKeeps DEF Ask, At, Holding, Steps, runtime
    <2>2. CASE request' = [request EXCEPT ![c].pc = "leave", ![c].wasActive = TRUE]
      <3>1. request[c] \in Requests
        BY DEF TypeInv, TypeOK
      <3>2. PICK r : r = [request[c] EXCEPT !.pc = "leave", !.wasActive = TRUE]
        OBVIOUS
      <3>3. r \in Requests /\ r.pc = "leave" /\ r.db = request[c].db /\ r.source = request[c].source
        BY <3>1, <3>2 DEF Requests, Steps
      <3>4. request' = [request EXCEPT ![c] = r]
        BY <2>2, <3>2
      <3>5. request' \in [Clients -> Requests] /\ Others(c) /\ request'[c] = r
        BY <3>3, <3>4 DEF TypeInv, TypeOK, Others
      <3>6. Aimed(request'[c]) /\ request'[c].pc \notin Holding /\ request[c].pc \notin Holding
        BY <3>3, <3>5 DEF Aimed, TypeInv, AimInv, Ask, At, Holding
      <3> QED
        BY <3>5, <3>6, WalkKeeps DEF Ask, runtime, Rest
    <2> QED
      BY <2>1, <2>2 DEF Ask
  <1> QED
    BY <1>1 DEF Rest, TypeInv, TypeOK, Ask, outside, runtime

\* A copy that failed goes back to the source it had left, or ends.
LEMMA CopyFailedKeeps ==
    ASSUME TypeInv, NEW c \in Clients, CopyFailed(c), UNCHANGED <<plat, platforms, mu, stop>>,
           request[c].pc \notin Holding
    PROVE  Rest'
  <1>1. CASE Return(c)
    BY <1>1, ReturnKeeps
  <1>2. CASE request[c].wasActive /\ Use(c, request[c].source, "return")
    <2>1. request[c].source \in Dbs
      BY <1>2 DEF TypeInv, AimInv
    <2> QED
      BY <1>2, <2>1, UseKeeps
  <1> QED
    BY <1>1, <1>2 DEF CopyFailed

\* Isolate keeps the types.
LEMMA IsolateType ==
    ASSUME TypeInv, NEW c \in Clients, Isolate(c)
    PROVE  TypeInv'
  <1>1. Rest'
    <2>1. CASE Goto(c, "clone")
      BY <2>1, GotoKeeps DEF Isolate, At, Holding, Steps, runtime
    <2>2. CASE CopyFailed(c)
      BY <2>2, CopyFailedKeeps DEF Isolate, At, Holding, runtime
    <2> QED
      BY <2>1, <2>2 DEF Isolate
  <1>2. used' \in [requests : Nat, failures : Nat, crashes : Nat, stops : Nat]
    BY FailType DEF Isolate, TypeInv, TypeOK
  <1>3. locked' \in SUBSET server
    BY DEF Isolate, Copyable, TypeInv, TypeOK
  <1> QED
    BY <1>1, <1>2, <1>3 DEF Rest, TypeInv, TypeOK, Isolate, runtime

\* Clone keeps the types.
LEMMA CloneType ==
    ASSUME TypeInv, NEW c \in Clients, Clone(c)
    PROVE  TypeInv'
  <1>1. request[c].pc = "clone" /\ request[c].db \in Dbs
    BY DEF Clone, At, TypeInv, AimInv
  <1>2. Rest'
    <2>1. CASE Goto(c, "add")
      BY <1>1, <2>1, GotoKeeps DEF Clone, Holding, Steps, runtime
    <2>2. CASE CopyFailed(c)
      BY <1>1, <2>2, CopyFailedKeeps DEF Clone, Holding, runtime
    <2> QED
      BY <2>1, <2>2 DEF Clone
  <1>3. PICK done : /\ done = IF Copyable(c) THEN server \cup {request[c].db} ELSE server
                    /\ \/ server' = done /\ locked' = locked \ {request[c].source} /\ UNCHANGED used
                       \/ AdminFails(done, locked, request[c].source)
    BY DEF Clone
  <1>4. done \in SUBSET Dbs /\ server \subseteq done /\ locked \subseteq server
    BY <1>1, <1>3 DEF TypeInv, TypeOK
  <1>5. /\ server' \in SUBSET Dbs /\ locked' \in SUBSET server'
        /\ used' \in [requests : Nat, failures : Nat, crashes : Nat, stops : Nat]
    <2>1. CASE server' = done /\ locked' = locked \ {request[c].source} /\ UNCHANGED used
      BY <1>4, <2>1 DEF TypeInv, TypeOK
    <2>2. CASE AdminFails(done, locked, request[c].source)
      BY <1>4, <2>2, AdminFailsType
    <2> QED
      BY <1>3, <2>1, <2>2
  <1> QED
    BY <1>2, <1>5 DEF Rest, TypeInv, TypeOK, Clone, runtime

\* Check keeps the types.
LEMMA CheckType ==
    ASSUME TypeInv, NEW c \in Clients, Check(c)
    PROVE  TypeInv'
  <1>1. Rest'
    <2>1. CASE Return(c)
      BY <2>1, ReturnKeeps DEF Check, At, Holding, runtime
    <2>2. CASE Goto(c, "remove")
      BY <2>2, GotoKeeps DEF Check, At, Holding, Steps, runtime
    <2> QED
      BY <2>1, <2>2 DEF Check
  <1> QED
    BY <1>1 DEF Rest, TypeInv, TypeOK, Check, outside, runtime

\* Remove keeps the types.
LEMMA RemoveType ==
    ASSUME TypeInv, NEW c \in Clients, Remove(c)
    PROVE  TypeInv'
  <1>1. Rest'
    <2>1. CASE Return(c)
      BY <2>1, ReturnKeeps DEF Remove, At, Holding, runtime
    <2>2. CASE Goto(c, "drop")
      BY <2>2, GotoKeeps DEF Remove, At, Holding, Steps, runtime
    <2> QED
      BY <2>1, <2>2 DEF Remove
  <1>2. /\ catalog' \in SUBSET Dbs /\ file' \in SUBSET Dbs
        /\ used' \in [requests : Nat, failures : Nat, crashes : Nat, stops : Nat]
    <2>1. CASE UNCHANGED <<file, catalog, used>>
      BY <2>1 DEF TypeInv, TypeOK
    <2>2. CASE catalog' = catalog \ {request[c].db} /\ Save
      <3>1. catalog' \in SUBSET Dbs
        BY <2>2 DEF TypeInv, TypeOK
      <3> QED
        BY <2>2, <3>1, SaveType
    <2> QED
      BY <2>1, <2>2 DEF Remove
  <1> QED
    BY <1>1, <1>2 DEF Rest, TypeInv, TypeOK, Remove, runtime

\* Drop keeps the types.
LEMMA DropType ==
    ASSUME TypeInv, NEW c \in Clients, Drop(c)
    PROVE  TypeInv'
  <1>1. Rest'
    <2>1. CASE Return(c)
      BY <2>1, ReturnKeeps DEF Drop, At, Holding, runtime
    <2>2. CASE Goto(c, "readd")
      BY <2>2, GotoKeeps DEF Drop, At, Holding, Steps, runtime
    <2> QED
      BY <2>1, <2>2 DEF Drop
  <1>2. PICK done : /\ done = server \ {request[c].db}
                    /\ \/ server' = done /\ locked' = locked \ {request[c].db} /\ UNCHANGED used
                       \/ AdminFails(done, locked \cup {request[c].db}, request[c].db)
    BY DEF Drop
  <1>3. /\ server' \in SUBSET Dbs /\ locked' \in SUBSET server'
        /\ used' \in [requests : Nat, failures : Nat, crashes : Nat, stops : Nat]
    <2>1. CASE server' = done /\ locked' = locked \ {request[c].db} /\ UNCHANGED used
      BY <1>2, <2>1 DEF TypeInv, TypeOK
    <2>2. CASE AdminFails(done, locked \cup {request[c].db}, request[c].db)
      <3>1. PICK closed : closed = locked \cup {request[c].db}
        OBVIOUS
      <3>2. done \in SUBSET Dbs /\ closed \ {request[c].db} \subseteq server
            /\ closed \ {request[c].db} \subseteq done
        BY <1>2, <3>1 DEF TypeInv, TypeOK
      <3> QED
        BY <2>2, <3>1, <3>2, AdminFailsType
    <2> QED
      BY <1>2, <2>1, <2>2
  <1> QED
    BY <1>1, <1>3 DEF Rest, TypeInv, TypeOK, Drop, runtime

\* ReAdd keeps the types.
LEMMA ReAddType ==
    ASSUME TypeInv, NEW c \in Clients, ReAdd(c)
    PROVE  TypeInv'
  <1>1. request[c].db \in Dbs
    BY DEF ReAdd, At, TypeInv, AimInv
  <1>2. Rest'
    BY ReturnKeeps DEF ReAdd, At, Holding, runtime
  <1>3. /\ catalog' \in SUBSET Dbs /\ file' \in SUBSET Dbs
        /\ used' \in [requests : Nat, failures : Nat, crashes : Nat, stops : Nat]
    <2>1. CASE UNCHANGED <<file, catalog, used>>
      BY <2>1 DEF TypeInv, TypeOK
    <2>2. CASE catalog' = catalog \cup {request[c].db} /\ Save
      <3>1. catalog' \in SUBSET Dbs
        BY <1>1, <2>2 DEF TypeInv, TypeOK
      <3> QED
        BY <2>2, <3>1, SaveType
    <2> QED
      BY <2>1, <2>2 DEF ReAdd
  <1> QED
    BY <1>2, <1>3 DEF Rest, TypeInv, TypeOK, ReAdd, runtime

\* The steps that take, hold or release Runtime.mu.
LEMMA HoldKeeps ==
    ASSUME TypeInv, NEW c \in Clients, Others(c), request' \in [Clients -> Requests],
           mu \in {NoClient, c}, mu' \in {NoClient, c}, UNCHANGED stop,
           DOMAIN platforms \subseteq DOMAIN platforms',
           request'[c].pc \in Holding <=> mu' = c,
           request'[c].pc \in {"shutdown", "close"} => request'[c].at \in DOMAIN platforms' \ {plat'},
           Aimed(request'[c])
    PROVE  LockInv' /\ AimInv' /\ StopInv'
  <1>1. \A d \in Clients \ {c} : request[d].pc \notin Holding /\ request'[d].pc \notin Holding
    BY DbRuntimeAssumption DEF TypeInv, LockInv, Others
  <1>2. LockInv'
    BY <1>1, DbRuntimeAssumption DEF LockInv
  <1>3. AimInv'
    BY <1>1 DEF TypeInv, AimInv, Others, Aimed, Holding
  <1>4. StopInv'
    BY DEF TypeInv, StopInv
  <1> QED
    BY <1>2, <1>3, <1>4

\* Lock keeps the types.
LEMMA LockType ==
    ASSUME TypeInv, NEW c \in Clients, Lock(c)
    PROVE  TypeInv'
  <1>1. request[c] \in Requests /\ request \in [Clients -> Requests]
    BY DEF TypeInv, TypeOK
  <1>2. request' \in [Clients -> Requests] /\ Others(c) /\ request'[c] = [request[c] EXCEPT !.pc = "build"]
    BY <1>1, GotoMoves DEF Lock, Steps
  <1>3. request'[c].pc = "build" /\ request'[c].db = request[c].db /\ request'[c].source = request[c].source
        /\ request'[c].wasActive = request[c].wasActive
    BY <1>1, <1>2 DEF Requests
  <1>4. Aimed(request'[c])
    BY <1>3 DEF Aimed, TypeInv, AimInv, Lock, At
  <1>5. LockInv' /\ AimInv' /\ StopInv'
    BY <1>2, <1>3, <1>4, HoldKeeps DEF Lock, Holding, runtime
  <1> QED
    BY <1>2, <1>5 DEF TypeInv, TypeOK, Lock, outside, runtime

\* Appending a platform
LEMMA AppendType ==
    ASSUME platforms \in Seq([db : Dbs, open : BOOLEAN]), NEW db \in Dbs,
           platforms' = Append(platforms, [db |-> db, open |-> TRUE])
    PROVE  /\ platforms' \in Seq([db : Dbs, open : BOOLEAN])
           /\ DOMAIN platforms' = DOMAIN platforms \cup {Len(platforms) + 1}
           /\ Len(platforms) + 1 \notin DOMAIN platforms /\ 0 \notin DOMAIN platforms'
           /\ DOMAIN platforms' \subseteq Nat
           /\ \A p \in DOMAIN platforms : platforms'[p] = platforms[p]
           /\ platforms'[Len(platforms) + 1] = [db |-> db, open |-> TRUE]
  <1>1. PICK x : x = [db |-> db, open |-> TRUE]
    OBVIOUS
  <1>2. x \in [db : Dbs, open : BOOLEAN]
    BY <1>1
  <1>3. platforms' = Append(platforms, x)
    BY <1>1
  <1>4. platforms' \in Seq([db : Dbs, open : BOOLEAN])
    BY <1>2, <1>3, AppendProperties
  <1>5. Len(platforms') = Len(platforms) + 1 /\ platforms'[Len(platforms) + 1] = x
        /\ \A p \in 1 .. Len(platforms) : platforms'[p] = platforms[p]
    BY <1>2, <1>3, AppendProperties
  <1>6. DOMAIN platforms = 1 .. Len(platforms) /\ DOMAIN platforms' = 1 .. Len(platforms') /\ Len(platforms) \in Nat
    BY <1>4, LenProperties
  <1> QED
    BY <1>1, <1>4, <1>5, <1>6

\* Closing a platform
LEMMA ClosedType ==
    ASSUME platforms \in Seq([db : Dbs, open : BOOLEAN]), NEW p \in DOMAIN platforms,
           platforms' = Closed(p)
    PROVE  /\ platforms' \in Seq([db : Dbs, open : BOOLEAN])
           /\ DOMAIN platforms' = DOMAIN platforms
           /\ \A q \in DOMAIN platforms : platforms'[q].db = platforms[q].db
           /\ \A q \in DOMAIN platforms \ {p} : platforms'[q] = platforms[q]
           /\ ~platforms'[p].open
  <1>1. PICK x : x = [platforms[p] EXCEPT !.open = FALSE]
    OBVIOUS
  <1>2. platforms[p] \in [db : Dbs, open : BOOLEAN]
    BY ElementOfSeq, LenProperties
  <1>3. x \in [db : Dbs, open : BOOLEAN] /\ x.db = platforms[p].db /\ ~x.open
    BY <1>1, <1>2
  <1>4. platforms' = [platforms EXCEPT ![p] = x]
    BY <1>1 DEF Closed
  <1>5. p \in 1 .. Len(platforms)
    BY LenProperties
  <1>6. platforms' \in Seq([db : Dbs, open : BOOLEAN])
    BY <1>3, <1>4, <1>5, ExceptSeq
  <1> QED
    BY <1>3, <1>4, <1>6

\* BuildOk keeps the types.
LEMMA BuildOkType ==
    ASSUME TypeInv, NEW c \in Clients, BuildOk(c)
    PROVE  TypeInv'
  <1>1. /\ request[c].pc = "build" /\ mu = c /\ request[c].db \in Dbs /\ request[c] \in Requests
        /\ request \in [Clients -> Requests] /\ cookie \in [Clients -> Dbs \cup {NoDb}]
        /\ (request[c].wasActive => request[c].source \in Dbs)
    BY DEF BuildOk, At, TypeInv, TypeOK, LockInv, AimInv, Holding
  <1>2. PICK new : new = Len(platforms) + 1
    OBVIOUS
  <1>3. /\ platforms' \in Seq([db : Dbs, open : BOOLEAN])
        /\ DOMAIN platforms' = DOMAIN platforms \cup {new} /\ new \notin DOMAIN platforms
        /\ DOMAIN platforms' \subseteq Nat
    BY <1>1, <1>2, AppendType DEF BuildOk, TypeInv, TypeOK
  <1>4. plat' = new /\ handler' = new /\ active' \in Dbs /\ models' \in BOOLEAN
    BY <1>1, <1>2 DEF BuildOk, TypeInv, TypeOK, DbRuntimeAssumption
  <1>5. /\ request' \in [Clients -> Requests] /\ Others(c) /\ Aimed(request'[c])
        /\ cookie' \in [Clients -> Dbs \cup {NoDb}] /\ mu' \in {NoClient, c}
        /\ request'[c].pc \in Holding <=> mu' = c
        /\ request'[c].pc \in {"shutdown", "close"} => request'[c].at \in DOMAIN platforms' \ {plat'}
    <2>1. CASE plat = 0
      <3>1. mu' = NoClient /\ Answered(c, new)
        BY <1>2, <2>1 DEF BuildOk
      <3>2. /\ request' \in [Clients -> Requests] /\ Others(c) /\ cookie' \in [Clients -> Dbs \cup {NoDb}]
            /\ Released(c)
        BY <1>1, <1>3, <3>1, AnsweredMoves
      <3>3. Aimed(request'[c]) /\ request'[c].pc \in {"idle", "serve"}
        BY <3>2, ServedAim
      <3> QED
        BY <3>1, <3>2, <3>3, DbRuntimeAssumption DEF Holding
    <2>2. CASE plat # 0
      <3>1. request' = [request EXCEPT ![c].pc = "shutdown", ![c].at = plat] /\ mu' = mu /\ cookie' = cookie
        BY <2>2 DEF BuildOk
      <3>2. plat \in DOMAIN platforms /\ plat \in Nat
        BY <2>2, <1>3 DEF TypeInv, TypeOK
      <3>3. PICK r : r = [request[c] EXCEPT !.pc = "shutdown", !.at = plat]
        OBVIOUS
      <3>4. /\ r \in Requests /\ r.pc = "shutdown" /\ r.db = request[c].db /\ r.at = plat
            /\ r.source = request[c].source /\ r.wasActive = request[c].wasActive
        BY <1>1, <3>2, <3>3 DEF Requests, Steps
      <3>5. request' = [request EXCEPT ![c] = r]
        BY <3>1, <3>3
      <3>6. request' \in [Clients -> Requests] /\ Others(c) /\ request'[c] = r
        BY <1>1, <3>4, <3>5 DEF Others
      <3>7. Aimed(request'[c])
        BY <1>1, <3>4, <3>6 DEF Aimed
      <3> QED
        BY <1>1, <1>3, <1>4, <3>1, <3>2, <3>4, <3>6, <3>7 DEF Holding
    <2> QED
      BY <2>1, <2>2
  <1>6. LockInv' /\ AimInv' /\ StopInv'
    BY <1>1, <1>3, <1>5, HoldKeeps DEF BuildOk
  <1> QED
    BY <1>3, <1>4, <1>5, <1>6 DEF TypeInv, TypeOK, BuildOk

\* BuildFails keeps the types.
LEMMA BuildFailsType ==
    ASSUME TypeInv, NEW c \in Clients, BuildFails(c)
    PROVE  TypeInv'
  <1>1. /\ request[c].pc = "build" /\ mu = c /\ request \in [Clients -> Requests]
    BY DEF BuildFails, At, TypeInv, TypeOK, LockInv, Holding
  <1>2. request' \in [Clients -> Requests] /\ Others(c)
        /\ Released(c)
    BY <1>1, RefusedMoves DEF BuildFails
  <1>3. Aimed(request'[c]) /\ request'[c].pc \in {"idle", "serve"}
    BY <1>2, ServedAim
  <1>4. LockInv' /\ AimInv' /\ StopInv'
    BY <1>1, <1>2, <1>3, HoldKeeps, DbRuntimeAssumption DEF BuildFails, Holding
  <1>5. used' \in [requests : Nat, failures : Nat, crashes : Nat, stops : Nat] /\ models' \in BOOLEAN
    BY FailType, DbRuntimeAssumption DEF BuildFails, TypeInv, TypeOK
  <1> QED
    BY <1>2, <1>4, <1>5 DEF TypeInv, TypeOK, BuildFails, outside

\* BuildPanics keeps the types.
LEMMA BuildPanicsType ==
    ASSUME TypeInv, NEW c \in Clients, BuildPanics(c)
    PROVE  TypeInv'
  <1>1. /\ request[c].pc = "build" /\ mu = c /\ request[c].db \in Dbs /\ request \in [Clients -> Requests]
    BY DEF BuildPanics, At, TypeInv, TypeOK, LockInv, AimInv, Holding
  <1>2. /\ platforms' \in Seq([db : Dbs, open : BOOLEAN])
        /\ DOMAIN platforms \subseteq DOMAIN platforms'
    BY <1>1, AppendType DEF BuildPanics, TypeInv, TypeOK
  <1>3. request' \in [Clients -> Requests] /\ Others(c) /\ request'[c] = Idle
        /\ Idle.pc = "idle" /\ ~Idle.wasActive
    BY <1>1, ReturnMoves DEF BuildPanics
  <1>4. LockInv' /\ AimInv' /\ StopInv'
    BY <1>1, <1>2, <1>3, HoldKeeps, DbRuntimeAssumption DEF BuildPanics, Holding, Aimed
  <1>5. used' \in [requests : Nat, failures : Nat, crashes : Nat, stops : Nat] /\ models' \in BOOLEAN
    BY FailType, DbRuntimeAssumption DEF BuildPanics, TypeInv, TypeOK
  <1> QED
    BY <1>2, <1>3, <1>4, <1>5 DEF TypeInv, TypeOK, BuildPanics, outside

\* Shutdown keeps the types.
LEMMA ShutdownType ==
    ASSUME TypeInv, NEW c \in Clients, Shutdown(c)
    PROVE  TypeInv'
  <1>1. /\ request[c].pc = "shutdown" /\ mu = c /\ request[c].at \in DOMAIN platforms
        /\ request \in [Clients -> Requests] /\ cookie \in [Clients -> Dbs \cup {NoDb}]
    BY DEF Shutdown, At, TypeInv, TypeOK, LockInv, AimInv, Holding
  <1>2. platforms' \in Seq([db : Dbs, open : BOOLEAN]) /\ DOMAIN platforms' = DOMAIN platforms
    BY <1>1, ClosedType DEF Shutdown, TypeInv, TypeOK
  <1>3. /\ request' \in [Clients -> Requests] /\ Others(c) /\ cookie' \in [Clients -> Dbs \cup {NoDb}]
        /\ Released(c)
    BY <1>1, AnsweredMoves, PlatNumber DEF Shutdown
  <1>4. Aimed(request'[c]) /\ request'[c].pc \in {"idle", "serve"}
    BY <1>3, ServedAim
  <1>5. LockInv' /\ AimInv' /\ StopInv'
    BY <1>1, <1>2, <1>3, <1>4, HoldKeeps, DbRuntimeAssumption DEF Shutdown, Holding
  <1> QED
    BY <1>2, <1>3, <1>5 DEF TypeInv, TypeOK, Shutdown

\* EnterBootstrap keeps the types.
LEMMA EnterBootstrapType ==
    ASSUME TypeInv, NEW c \in Clients, EnterBootstrap(c)
    PROVE  TypeInv'
  <1>1. /\ request[c].pc = "leave" /\ mu = NoClient /\ request[c].db \in Dbs /\ request[c] \in Requests
        /\ request \in [Clients -> Requests]
        /\ (request[c].wasActive => request[c].source \in Dbs)
    BY DEF EnterBootstrap, At, TypeInv, TypeOK, AimInv
  <1>2. 0 \notin DOMAIN platforms /\ DOMAIN platforms \subseteq Nat
    BY LenProperties DEF TypeInv, TypeOK
  <1>3. /\ request' \in [Clients -> Requests] /\ Others(c) /\ Aimed(request'[c]) /\ mu' \in {NoClient, c}
        /\ request'[c].pc \in Holding <=> mu' = c
        /\ request'[c].pc \in {"shutdown", "close"} => request'[c].at \in DOMAIN platforms' \ {plat'}
    <2>1. CASE plat = 0
      <3>1. Goto(c, "copy") /\ mu' = mu
        BY <2>1 DEF EnterBootstrap
      <3>2. request' \in [Clients -> Requests] /\ Others(c) /\ request'[c] = [request[c] EXCEPT !.pc = "copy"]
        BY <1>1, <3>1, GotoMoves DEF Steps
      <3>3. request'[c].pc = "copy" /\ request'[c].db = request[c].db /\ request'[c].source = request[c].source
            /\ request'[c].wasActive = request[c].wasActive
        BY <1>1, <3>2 DEF Requests
      <3> QED
        BY <1>1, <3>1, <3>2, <3>3, DbRuntimeAssumption DEF Aimed, Holding
    <2>2. CASE plat # 0
      <3>1. mu' = c /\ request' = [request EXCEPT ![c].pc = "close", ![c].at = plat]
        BY <2>2 DEF EnterBootstrap
      <3>2. plat \in DOMAIN platforms /\ plat \in Nat
        BY <2>2, <1>2 DEF TypeInv, TypeOK
      <3>3. PICK r : r = [request[c] EXCEPT !.pc = "close", !.at = plat]
        OBVIOUS
      <3>4. /\ r \in Requests /\ r.pc = "close" /\ r.db = request[c].db /\ r.at = plat
            /\ r.source = request[c].source /\ r.wasActive = request[c].wasActive
        BY <1>1, <3>2, <3>3 DEF Requests, Steps
      <3>5. request' = [request EXCEPT ![c] = r]
        BY <3>1, <3>3
      <3>6. request' \in [Clients -> Requests] /\ Others(c) /\ request'[c] = r
        BY <1>1, <3>4, <3>5 DEF Others
      <3>7. Aimed(request'[c])
        BY <1>1, <3>4, <3>6 DEF Aimed
      <3> QED
        BY <1>2, <3>1, <3>2, <3>4, <3>6, <3>7 DEF Holding, EnterBootstrap
    <2> QED
      BY <2>1, <2>2
  <1>4. LockInv' /\ AimInv' /\ StopInv'
    BY <1>1, <1>3, HoldKeeps DEF EnterBootstrap
  <1> QED
    BY <1>3, <1>4 DEF TypeInv, TypeOK, EnterBootstrap, outside

\* Close keeps the types.
LEMMA CloseType ==
    ASSUME TypeInv, NEW c \in Clients, Close(c)
    PROVE  TypeInv'
  <1>1. /\ request[c].pc = "close" /\ mu = c /\ request[c].at \in DOMAIN platforms
        /\ request[c].db \in Dbs /\ request[c] \in Requests /\ request \in [Clients -> Requests]
        /\ (request[c].wasActive => request[c].source \in Dbs)
    BY DEF Close, At, TypeInv, TypeOK, LockInv, AimInv, Holding
  <1>2. platforms' \in Seq([db : Dbs, open : BOOLEAN]) /\ DOMAIN platforms' = DOMAIN platforms
    BY <1>1, ClosedType DEF Close, TypeInv, TypeOK
  <1>3. request' \in [Clients -> Requests] /\ Others(c) /\ request'[c] = [request[c] EXCEPT !.pc = "copy"]
    BY <1>1, GotoMoves DEF Close, Steps
  <1>4. request'[c].pc = "copy" /\ request'[c].db = request[c].db /\ request'[c].source = request[c].source
        /\ request'[c].wasActive = request[c].wasActive
    BY <1>1, <1>3 DEF Requests
  <1>5. LockInv' /\ AimInv' /\ StopInv'
    BY <1>1, <1>2, <1>3, <1>4, HoldKeeps, DbRuntimeAssumption DEF Close, Holding, Aimed
  <1> QED
    BY <1>2, <1>3, <1>5 DEF TypeInv, TypeOK, Close, outside

\* A new process
LEMMA RestartedType ==
    ASSUME TypeInv, Restarted, used' \in [requests : Nat, failures : Nat, crashes : Nat, stops : Nat]
    PROVE  TypeInv'
  <1>1. Idle \in Requests /\ Idle.pc = "idle" /\ ~Idle.wasActive /\ NoClient \notin Clients
    BY DbRuntimeAssumption DEF Idle, Requests, Steps
  <1>2. platforms' \in Seq([db : Dbs, open : BOOLEAN]) /\ stop'.phase = "run" /\ stop'.host = 0
        /\ stop' \in [phase : {"run", "stopping", "stopped"}, host : Nat]
    BY DEF Restarted, Running
  <1>3. request' = [c \in Clients |-> Idle]
    BY DEF Restarted, NoRequests
  <1>4. request' \in [Clients -> Requests]
    BY <1>1, <1>3
  <1>5. /\ plat' = 0 /\ active' = NoDb /\ handler' = 0 /\ models' = FALSE /\ mu' = NoClient
        /\ catalog' = file /\ server' = server /\ locked' = locked /\ file' = file /\ cookie' = cookie
    BY DEF Restarted, outside
  <1>6. TypeOK'
    BY <1>2, <1>4, <1>5 DEF TypeInv, TypeOK
  <1>7. LockInv'
    BY <1>1, <1>3, <1>5 DEF LockInv, Holding
  <1>8. AimInv' /\ StopInv'
    BY <1>1, <1>2, <1>3 DEF AimInv, StopInv
  <1> QED
    BY <1>6, <1>7, <1>8 DEF TypeInv

\* The type invariant is inductive.
LEMMA TypeStep == TypeInv /\ [Next]_vars => TypeInv'
  <1> SUFFICES ASSUME TypeInv, [Next]_vars PROVE TypeInv'
    OBVIOUS
  <1>1. ASSUME NEW c \in Clients, App(c) \/ UseDb(c) \/ NewDb(c) \/ DropDb(c) \/ DuplicateDb(c)
        PROVE  TypeInv'
    BY <1>1, AppType, UseDbType, NewDbType, DropDbType, DuplicateDbType
  <1>2. ASSUME NEW c \in Clients, Step(c)
        PROVE  TypeInv'
    <2>1. CASE Find(c) \/ Decide(c) \/ Lock(c) \/ BuildOk(c) \/ BuildFails(c) \/ BuildPanics(c)
               \/ Shutdown(c) \/ Serve(c) \/ Finish(c)
      BY <2>1, FindType, DecideType, LockType, BuildOkType, BuildFailsType, BuildPanicsType,
         ShutdownType, ServeType, FinishType
    <2>2. CASE Create(c) \/ Restore(c) \/ Exists(c) \/ Add(c) \/ Source(c) \/ Ask(c)
               \/ EnterBootstrap(c) \/ Close(c) \/ Isolate(c) \/ Clone(c)
      BY <2>2, CreateType, RestoreType, ExistsType, AddType, SourceType, AskType,
         EnterBootstrapType, CloseType, IsolateType, CloneType
    <2>3. CASE Check(c) \/ Remove(c) \/ Drop(c) \/ ReAdd(c)
      BY <2>3, CheckType, RemoveType, DropType, ReAddType
    <2> QED
      BY <1>2, <2>1, <2>2, <2>3 DEF Step
  <1>3. CASE Crash
    <2>1. used' \in [requests : Nat, failures : Nat, crashes : Nat, stops : Nat]
      BY <1>3, SpendType DEF Crash, TypeInv, TypeOK
    <2> QED
      BY <1>3, <2>1, RestartedType DEF Crash
  <1>4. CASE Signal
    <2>1. used' \in [requests : Nat, failures : Nat, crashes : Nat, stops : Nat]
      BY <1>4, SpendType DEF Signal, TypeInv, TypeOK
    <2>2. plat \in Nat
      BY LenProperties DEF TypeInv, TypeOK
    <2> QED
      BY <1>4, <2>1, <2>2 DEF Signal, TypeInv, TypeOK, LockInv, AimInv, StopInv, outside, runtime
  <1>5. CASE StopHost
    <2>1. platforms' \in Seq([db : Dbs, open : BOOLEAN]) /\ DOMAIN platforms' = DOMAIN platforms
      <3>1. stop.host = 0 \/ stop.host \in DOMAIN platforms
        BY DEF TypeInv, StopInv
      <3> QED
        BY <1>5, <3>1, ClosedType DEF StopHost, TypeInv, TypeOK
    <2>2. stop' \in [phase : {"run", "stopping", "stopped"}, host : Nat] /\ stop'.host = stop.host
      BY <1>5 DEF StopHost, TypeInv, TypeOK
    <2> QED
      BY <1>5, <2>1, <2>2 DEF StopHost, TypeInv, TypeOK, LockInv, AimInv, StopInv, outside
  <1>6. CASE Exit
    BY <1>6, RestartedType DEF Exit, TypeInv, TypeOK
  <1>7. CASE UNCHANGED vars
    BY <1>7 DEF vars, outside, runtime, TypeInv, TypeOK, LockInv, AimInv, StopInv
  <1> QED
    BY <1>1, <1>2, <1>3, <1>4, <1>5, <1>6, <1>7 DEF Next

\* The type invariant holds initially.
LEMMA TypeInit == Init => TypeInv
  <1> SUFFICES ASSUME Init PROVE TypeInv
    OBVIOUS
  <1>1. Idle \in Requests /\ Idle.pc = "idle" /\ ~Idle.wasActive /\ NoClient \notin Clients
    BY DbRuntimeAssumption DEF Idle, Requests, Steps
  <1>2. platforms \in Seq([db : Dbs, open : BOOLEAN]) /\ stop.host = 0
        /\ stop \in [phase : {"run", "stopping", "stopped"}, host : Nat]
    BY DEF Init, Running
  <1>3. request = [c \in Clients |-> Idle]
    BY DEF Init, NoRequests
  <1>4. TypeOK
    BY <1>1, <1>2, <1>3 DEF TypeOK, Init
  <1> QED
    BY <1>1, <1>2, <1>3, <1>4 DEF TypeInv, LockInv, AimInv, StopInv, Init, Holding

\* Every reachable state has the types of the code's variables.
THEOREM TypeCorrect == Spec => []TypeOK
  <1>1. TypeInv => TypeOK
    BY DEF TypeInv
  <1> QED
    BY <1>1, TypeInit, TypeStep, PTL DEF Spec

-----------------------------------------------------------------------------
(* What serves *)

AgreeInv ==
    /\ handler = plat
    /\ active = IF plat = 0 THEN NoDb ELSE DbOf(plat)

RunInv == stop.phase = "run" /\ plat # 0 => platforms[plat].open

\* A platform that is open but does not serve is about to be shut down
LeftInv == "panic" \notin Faults =>
    \A p \in Open : p = plat \/ \E c \in Clients :
        request[c].pc \in {"shutdown", "close"} /\ request[c].at = p

ServeInv == AgreeInv /\ RunInv /\ LeftInv

\* A step of one request leaves the others where they are.
LEMMA StepOthers ==
    ASSUME TypeInv, NEW c \in Clients,
           Step(c) \/ App(c) \/ UseDb(c) \/ NewDb(c) \/ DropDb(c) \/ DuplicateDb(c)
    PROVE  Others(c)
  <1>1. request \in [Clients -> Requests]
    BY DEF TypeInv, TypeOK
  <1>2. ASSUME NEW r, request' = [request EXCEPT ![c] = r] PROVE Others(c)
    BY <1>1, <1>2 DEF Others
  <1>3. ASSUME NEW new, Start(c, new) PROVE Others(c)
    BY <1>2, <1>3 DEF Start
  <1>4. ASSUME NEW pc, Goto(c, pc) PROVE Others(c)
    BY <1>2, <1>4 DEF Goto
  <1>5. Return(c) => Others(c)
    BY <1>2 DEF Return
  <1>6. ASSUME NEW db, NEW goal, Use(c, db, goal) PROVE Others(c)
    BY <1>2, <1>6 DEF Use
  <1>7. (\E p : Answered(c, p)) \/ Refused(c) \/ CopyFailed(c) => Others(c)
    BY <1>2, <1>4, <1>5, <1>6 DEF Answered, Refused, CopyFailed
  <1>8. CASE App(c) \/ UseDb(c) \/ NewDb(c) \/ DropDb(c) \/ DuplicateDb(c)
    BY <1>3, <1>8 DEF App, UseDb, NewDb, DropDb, DuplicateDb
  <1>9. CASE Find(c) \/ Decide(c) \/ Lock(c) \/ BuildFails(c) \/ BuildPanics(c) \/ Shutdown(c) \/ Finish(c)
    BY <1>4, <1>5, <1>7, <1>9 DEF Find, Decide, Lock, BuildFails, BuildPanics, Shutdown, Finish
  <1>10. CASE BuildOk(c) \/ Serve(c) \/ EnterBootstrap(c) \/ Ask(c)
    <2>1. CASE BuildOk(c)
      BY <1>2, <1>7, <2>1 DEF BuildOk
    <2>2. CASE Serve(c)
      BY <1>2, <2>2 DEF Serve
    <2>3. CASE EnterBootstrap(c)
      BY <1>2, <1>4, <2>3 DEF EnterBootstrap
    <2>4. CASE Ask(c)
      BY <1>2, <1>4, <2>4 DEF Ask
    <2> QED
      BY <1>10, <2>1, <2>2, <2>3, <2>4
  <1>11. CASE Create(c) \/ Restore(c) \/ Exists(c) \/ Add(c) \/ Source(c) \/ Close(c)
    BY <1>4, <1>5, <1>6, <1>11 DEF Create, Restore, Exists, Add, Source, Close
  <1>12. CASE Isolate(c) \/ Clone(c) \/ Check(c) \/ Remove(c) \/ Drop(c) \/ ReAdd(c)
    BY <1>4, <1>5, <1>7, <1>12 DEF Isolate, Clone, Check, Remove, Drop, ReAdd
  <1> QED
    BY <1>8, <1>9, <1>10, <1>11, <1>12 DEF Step

\* The steps that leave Runtime as it is
Quiet(c) ==
    \/ App(c) \/ UseDb(c) \/ NewDb(c) \/ DropDb(c) \/ DuplicateDb(c)
    \/ Find(c) \/ Decide(c) \/ Lock(c) \/ Serve(c) \/ Finish(c)
    \/ Create(c) \/ Restore(c) \/ Exists(c) \/ Add(c) \/ Source(c) \/ Ask(c)
    \/ Isolate(c) \/ Clone(c) \/ Check(c) \/ Remove(c) \/ Drop(c) \/ ReAdd(c)

\* What serves does not change in a step that leaves Runtime alone.
LEMMA QuietKeeps ==
    ASSUME TypeInv, ServeInv, NEW c \in Clients, Quiet(c)
    PROVE  ServeInv'
  <1>1. UNCHANGED <<plat, active, handler, platforms, stop>> /\ request[c].pc \notin {"shutdown", "close"}
    <2>1. CASE App(c) \/ UseDb(c) \/ NewDb(c) \/ DropDb(c) \/ DuplicateDb(c)
      BY <2>1 DEF App, UseDb, NewDb, DropDb, DuplicateDb, Start, At, runtime
    <2>2. CASE Find(c) \/ Decide(c) \/ Lock(c) \/ Serve(c) \/ Finish(c)
      BY <2>2 DEF Find, Decide, Lock, Serve, Finish, At, runtime
    <2>3. CASE Create(c) \/ Restore(c) \/ Exists(c) \/ Add(c) \/ Source(c) \/ Ask(c)
      BY <2>3 DEF Create, Restore, Exists, Add, Source, Ask, At, runtime
    <2>4. CASE Isolate(c) \/ Clone(c) \/ Check(c) \/ Remove(c) \/ Drop(c) \/ ReAdd(c)
      BY <2>4 DEF Isolate, Clone, Check, Remove, Drop, ReAdd, At, runtime
    <2> QED
      BY <2>1, <2>2, <2>3, <2>4 DEF Quiet
  <1>2. Others(c)
    BY StepOthers DEF Quiet, Step
  <1>3. AgreeInv' /\ RunInv'
    BY <1>1 DEF ServeInv, AgreeInv, RunInv, DbOf
  <1>4. LeftInv'
    BY <1>1, <1>2 DEF ServeInv, LeftInv, Open, Others
  <1> QED
    BY <1>3, <1>4 DEF ServeInv

\* The new platform serves, and the one it replaces is remembered.
LEMMA BuildOkServes ==
    ASSUME TypeInv, ServeInv, NEW c \in Clients, BuildOk(c)
    PROVE  ServeInv'
  <1>1. /\ request[c].pc = "build" /\ mu = c /\ request[c].db \in Dbs /\ request[c] \in Requests
        /\ request \in [Clients -> Requests]
    BY DEF BuildOk, At, TypeInv, TypeOK, LockInv, AimInv, Holding
  <1>2. PICK new : new = Len(platforms) + 1
    OBVIOUS
  <1>3. /\ DOMAIN platforms' = DOMAIN platforms \cup {new} /\ new # 0
        /\ \A p \in DOMAIN platforms : platforms'[p] = platforms[p]
        /\ platforms'[new] = [db |-> request[c].db, open |-> TRUE]
    BY <1>1, <1>2, AppendType DEF BuildOk, TypeInv, TypeOK
  <1>4. plat' = new /\ handler' = new /\ active' = request[c].db
    BY <1>2 DEF BuildOk
  <1>5. AgreeInv' /\ RunInv'
    BY <1>3, <1>4 DEF AgreeInv, RunInv, DbOf
  <1>6. plat # 0 => request'[c].pc = "shutdown" /\ request'[c].at = plat
    BY <1>1 DEF BuildOk, Requests
  <1>7. \A d \in Clients : request[d].pc \notin {"shutdown", "close"}
    BY <1>1 DEF TypeInv, LockInv, Holding
  <1>8. LeftInv'
    <2> SUFFICES ASSUME "panic" \notin Faults, NEW p \in Open', p # plat'
                 PROVE  request'[c].pc = "shutdown" /\ request'[c].at = p
      BY DEF LeftInv
    <2>1. p \in DOMAIN platforms /\ platforms[p].open /\ p # 0
      <3>1. p \in DOMAIN platforms' /\ p # new
        BY <1>4 DEF Open
      <3>2. 0 \notin DOMAIN platforms
        BY LenProperties DEF TypeInv, TypeOK
      <3> QED
        BY <1>3, <3>1, <3>2 DEF Open
    <2>2. p = plat
      BY <1>7, <2>1 DEF ServeInv, LeftInv, Open
    <2> QED
      BY <1>6, <2>1, <2>2
  <1> QED
    BY <1>5, <1>8 DEF ServeInv

\* A build that fails or panics leaves what served before.
LEMMA BuildErrorServes ==
    ASSUME TypeInv, ServeInv, NEW c \in Clients, BuildFails(c) \/ BuildPanics(c)
    PROVE  ServeInv'
  <1>1. /\ request[c].pc = "build" /\ request[c].db \in Dbs
    BY DEF BuildFails, BuildPanics, At, TypeInv, AimInv
  <1>2. Others(c)
    BY StepOthers DEF Step
  <1>3. CASE BuildFails(c)
    <2>1. AgreeInv' /\ RunInv'
      BY <1>3 DEF BuildFails, ServeInv, AgreeInv, RunInv, DbOf
    <2>2. LeftInv'
      BY <1>1, <1>2, <1>3 DEF BuildFails, ServeInv, LeftInv, Open, Others
    <2> QED
      BY <2>1, <2>2 DEF ServeInv
  <1>4. CASE BuildPanics(c)
    <2>1. \A p \in DOMAIN platforms : p \in DOMAIN platforms' /\ platforms'[p] = platforms[p]
      BY <1>1, <1>4, AppendType DEF BuildPanics, TypeInv, TypeOK
    <2>2. plat # 0 => plat \in DOMAIN platforms
      BY DEF TypeInv, TypeOK
    <2>3. AgreeInv' /\ RunInv'
      BY <1>4, <2>1, <2>2 DEF BuildPanics, ServeInv, AgreeInv, RunInv, DbOf
    <2>4. LeftInv'
      BY <1>4 DEF BuildPanics, Fail, LeftInv
    <2> QED
      BY <2>3, <2>4 DEF ServeInv
  <1> QED
    BY <1>3, <1>4

\* Only the platform that was replaced is shut down.
LEMMA CloseServes ==
    ASSUME TypeInv, ServeInv, NEW c \in Clients, Shutdown(c) \/ Close(c)
    PROVE  ServeInv'
  <1>1. /\ request[c].pc \in {"shutdown", "close"} /\ mu = c /\ request[c].at \in DOMAIN platforms \ {plat}
    BY DEF Shutdown, Close, At, TypeInv, LockInv, AimInv, Holding
  <1>2. UNCHANGED <<plat, active, handler, stop>> /\ platforms' = Closed(request[c].at)
    BY DEF Shutdown, Close
  <1>3. /\ DOMAIN platforms' = DOMAIN platforms
        /\ \A q \in DOMAIN platforms : platforms'[q].db = platforms[q].db
        /\ \A q \in DOMAIN platforms \ {request[c].at} : platforms'[q] = platforms[q]
        /\ ~platforms'[request[c].at].open
    BY <1>1, <1>2, ClosedType DEF TypeInv, TypeOK
  <1>4. plat # 0 => plat \in DOMAIN platforms
    BY DEF TypeInv, TypeOK
  <1>5. AgreeInv' /\ RunInv'
    BY <1>1, <1>2, <1>3, <1>4 DEF ServeInv, AgreeInv, RunInv, DbOf
  <1>6. LeftInv'
    <2>1. \A d \in Clients \ {c} : request[d].pc \notin {"shutdown", "close"}
      BY <1>1 DEF TypeInv, LockInv, Holding
    <2>2. \A p \in Open' : p \in Open /\ p # request[c].at
      BY <1>3 DEF Open
    <2> QED
      BY <1>2, <2>1, <2>2 DEF ServeInv, LeftInv
  <1> QED
    BY <1>5, <1>6 DEF ServeInv

\* In bootstrap no platform serves, and the one that did is remembered.
LEMMA EnterBootstrapServes ==
    ASSUME TypeInv, ServeInv, NEW c \in Clients, EnterBootstrap(c)
    PROVE  ServeInv'
  <1>1. mu = NoClient /\ request[c] \in Requests /\ request \in [Clients -> Requests]
    BY DEF EnterBootstrap, TypeInv, TypeOK
  <1>2. AgreeInv' /\ RunInv'
    BY DEF EnterBootstrap, AgreeInv, RunInv
  <1>3. \A d \in Clients : request[d].pc \notin {"shutdown", "close"}
    BY <1>1, DbRuntimeAssumption DEF TypeInv, LockInv, Holding
  <1>4. plat # 0 => request'[c].pc = "close" /\ request'[c].at = plat
    BY <1>1 DEF EnterBootstrap, Requests
  <1>5. 0 \notin DOMAIN platforms
    BY LenProperties DEF TypeInv, TypeOK
  <1>6. platforms' = platforms /\ plat' = 0
    BY DEF EnterBootstrap
  <1>7. LeftInv'
    BY <1>3, <1>4, <1>5, <1>6 DEF ServeInv, LeftInv, Open
  <1> QED
    BY <1>2, <1>7 DEF ServeInv

\* A new process starts in bootstrap.
LEMMA RestartedServes ==
    ASSUME Restarted
    PROVE  ServeInv'
  <1>1. plat' = 0 /\ active' = NoDb /\ handler' = 0 /\ platforms' = << >>
    BY DEF Restarted
  <1>2. Open' = {}
    BY <1>1 DEF Open
  <1> QED
    BY <1>1, <1>2 DEF ServeInv, AgreeInv, RunInv, LeftInv

\* The invariant on what serves is inductive, given the types.
LEMMA ServeStep == TypeInv /\ ServeInv /\ [Next]_vars => ServeInv'
  <1> SUFFICES ASSUME TypeInv, ServeInv, [Next]_vars PROVE ServeInv'
    OBVIOUS
  <1>1. ASSUME NEW c \in Clients,
               App(c) \/ UseDb(c) \/ NewDb(c) \/ DropDb(c) \/ DuplicateDb(c) \/ Step(c)
        PROVE  ServeInv'
    BY <1>1, QuietKeeps, BuildOkServes, BuildErrorServes, CloseServes, EnterBootstrapServes DEF Quiet, Step
  <1>2. CASE Crash \/ Exit
    BY <1>2, RestartedServes DEF Crash, Exit
  <1>3. CASE Signal
    BY <1>3 DEF Signal, outside, runtime, ServeInv, AgreeInv, RunInv, LeftInv, DbOf, Open
  <1>4. CASE StopHost
    <2>1. UNCHANGED <<plat, active, handler, request>> /\ stop'.phase = "stopped"
      BY <1>4 DEF StopHost, TypeInv, TypeOK
    <2>2. /\ DOMAIN platforms' = DOMAIN platforms
          /\ \A q \in DOMAIN platforms : platforms'[q].db = platforms[q].db
                                         /\ (platforms'[q].open => platforms[q].open)
      <3>1. CASE stop.host = 0
        BY <1>4, <3>1 DEF StopHost
      <3>2. CASE stop.host # 0
        <4>1. stop.host \in DOMAIN platforms
          BY <3>2 DEF TypeInv, StopInv
        <4> QED
          BY <1>4, <3>2, <4>1, ClosedType DEF StopHost, TypeInv, TypeOK
      <3> QED
        BY <3>1, <3>2
    <2>3. plat # 0 => plat \in DOMAIN platforms
      BY DEF TypeInv, TypeOK
    <2> QED
      BY <2>1, <2>2, <2>3 DEF ServeInv, AgreeInv, RunInv, LeftInv, DbOf, Open
  <1>5. CASE UNCHANGED vars
    BY <1>5 DEF vars, outside, runtime, ServeInv, AgreeInv, RunInv, LeftInv, DbOf, Open
  <1> QED
    BY <1>1, <1>2, <1>3, <1>4, <1>5 DEF Next

\* It holds initially.
LEMMA ServeInit == Init => ServeInv
  <1> SUFFICES ASSUME Init PROVE ServeInv
    OBVIOUS
  <1>1. plat = 0 /\ active = NoDb /\ handler = 0 /\ platforms = << >>
    BY DEF Init
  <1>2. Open = {}
    BY <1>1 DEF Open
  <1> QED
    BY <1>1, <1>2 DEF ServeInv, AgreeInv, RunInv, LeftInv

\* Handler, platform and active name always belong to one database.
THEOREM AgreeCorrect == Spec => []ActiveAgree
  <1>1. ServeInv => ActiveAgree
    BY DEF ServeInv, AgreeInv, ActiveAgree
  <1> QED
    BY <1>1, TypeInit, TypeStep, ServeInit, ServeStep, PTL DEF Spec

\* No request is handed to a platform that has been shut down.
THEOREM HandlerCorrect == Spec => []HandlerOpen
  <1>1. TypeInv /\ ServeInv => HandlerOpen
    BY DEF ServeInv, AgreeInv, RunInv, HandlerOpen, Open, TypeInv, TypeOK
  <1> QED
    BY <1>1, TypeInit, TypeStep, ServeInit, ServeStep, PTL DEF Spec

\* Unless a build panics, the active platform is the only open one.
THEOREM OneOpenCorrect == Spec => []OneOpen
  <1>1. TypeInv /\ ServeInv => OneOpen
    BY DbRuntimeAssumption DEF ServeInv, LeftInv, OneOpen, TypeInv, LockInv, Holding
  <1> QED
    BY <1>1, TypeInit, TypeStep, ServeInit, ServeStep, PTL DEF Spec

-----------------------------------------------------------------------------
(* Catalog and server *)

\* A request that has created its database and not yet registered it, or has
\* removed it from the catalog and not yet dropped it, has the name to itself
Claims(c) == request[c].pc \in {"restore", "add", "drop", "readd"}

CatalogInv ==
    /\ catalog \cup file \subseteq server
    /\ \A c \in Clients : Claims(c) => request[c].db \in server \ (catalog \cup file)
    /\ \A c, d \in Clients : c # d /\ Claims(c) /\ Claims(d) => request[c].db # request[d].db

\* No import, and no statement whose outcome is unknown
Certain == "import" \notin Kinds /\ "cancel" \notin Faults

\* Steps that leave server and catalog alone and claim nothing new
LEMMA UnclaimedKeeps ==
    ASSUME CatalogInv, NEW c \in Clients, Others(c), UNCHANGED <<server, file, catalog>>, ~Claims(c)'
    PROVE  CatalogInv'
  BY DEF CatalogInv, Claims, Others

\* Creating a database claims its name.
LEMMA CreateCatalog ==
    ASSUME TypeInv, CatalogInv, Certain, NEW c \in Clients, Create(c)
    PROVE  CatalogInv'
  <1>1. Others(c) /\ request \in [Clients -> Requests] /\ request[c] \in Requests
    BY StepOthers DEF Step, TypeInv, TypeOK
  <1>2. CASE Return(c) /\ server' = server
    <2>1. ~Claims(c)'
      BY <1>1, <1>2, ReturnMoves DEF Claims
    <2> QED
      BY <1>1, <1>2, <2>1, UnclaimedKeeps DEF Create
  <1>3. CASE request[c].db \notin server /\ server' = server \cup {request[c].db}
             /\ Goto(c, IF request[c].kind = "restore" THEN "restore" ELSE "add")
    <2>1. request'[c].db = request[c].db
      BY <1>1, <1>3 DEF Goto, Requests
    <2> QED
      BY <1>1, <1>3, <2>1 DEF CatalogInv, Claims, Others, Create
  <1> QED
    BY <1>2, <1>3 DEF Create, AdminFails, Fail, Certain

\* Restoring keeps the claim, or gives the database up.
LEMMA RestoreCatalog ==
    ASSUME TypeInv, CatalogInv, NEW c \in Clients, Restore(c)
    PROVE  CatalogInv'
  <1>1. Others(c) /\ request \in [Clients -> Requests] /\ request[c] \in Requests /\ Claims(c)
    BY StepOthers DEF Step, TypeInv, TypeOK, Restore, At, Claims
  <1>2. CASE Goto(c, "add") /\ server' = server
    <2>1. request'[c].db = request[c].db
      BY <1>1, <1>2 DEF Goto, Requests
    <2> QED
      BY <1>1, <1>2, <2>1 DEF CatalogInv, Claims, Others, Restore
  <1>3. CASE Return(c) /\ server' \in {server, server \ {request[c].db}}
    <2>1. ~Claims(c)'
      BY <1>1, <1>3, ReturnMoves DEF Claims
    <2> QED
      BY <1>1, <1>3, <2>1 DEF CatalogInv, Claims, Others, Restore
  <1> QED
    BY <1>2, <1>3 DEF Restore

\* Registering ends the claim.
LEMMA AddCatalog ==
    ASSUME TypeInv, CatalogInv, NEW c \in Clients, Add(c) \/ ReAdd(c)
    PROVE  CatalogInv'
  <1>1. Others(c) /\ request \in [Clients -> Requests] /\ Claims(c)
        /\ request[c].db \in Dbs /\ (request[c].wasActive => request[c].source \in Dbs)
    BY StepOthers DEF Step, TypeInv, TypeOK, AimInv, Add, ReAdd, At, Claims
  <1>2. ~Claims(c)'
    <2>1. \/ Return(c)
          \/ Use(c, request[c].db, "cookie")
          \/ request[c].wasActive /\ Use(c, request[c].source, "return")
      BY DEF Add, ReAdd
    <2>2. CASE Return(c)
      BY <1>1, <2>2, ReturnMoves DEF Claims
    <2>3. CASE Use(c, request[c].db, "cookie")
      BY <1>1, <2>3, UseMoves DEF Claims
    <2>4. CASE request[c].wasActive /\ Use(c, request[c].source, "return")
      BY <1>1, <2>4, UseMoves DEF Claims
    <2> QED
      BY <2>1, <2>2, <2>3, <2>4
  <1>3. server' = server /\ catalog' \in {catalog, catalog \cup {request[c].db}} /\ file' \in {file, catalog'}
    BY DEF Add, ReAdd, Save
  <1> QED
    BY <1>1, <1>2, <1>3 DEF CatalogInv, Claims, Others

\* A copy claims its name.
LEMMA CloneCatalog ==
    ASSUME TypeInv, CatalogInv, Certain, NEW c \in Clients, Clone(c)
    PROVE  CatalogInv'
  <1>1. /\ Others(c) /\ request \in [Clients -> Requests] /\ request[c] \in Requests
        /\ (request[c].wasActive => request[c].source \in Dbs)
    BY StepOthers DEF Step, TypeInv, TypeOK, AimInv
  <1>2. CASE CopyFailed(c) /\ server' = server
    <2>1. ~Claims(c)'
      <3>1. CASE Return(c)
        BY <1>1, <3>1, ReturnMoves DEF Claims
      <3>2. CASE request[c].wasActive /\ Use(c, request[c].source, "return")
        BY <1>1, <3>2, UseMoves DEF Claims
      <3> QED
        BY <1>2, <3>1, <3>2 DEF CopyFailed
    <2> QED
      BY <1>1, <1>2, <2>1, UnclaimedKeeps DEF Clone
  <1>3. CASE request[c].db \notin server /\ server' = server \cup {request[c].db} /\ Goto(c, "add")
    <2>1. request'[c].db = request[c].db
      BY <1>1, <1>3 DEF Goto, Requests
    <2> QED
      BY <1>1, <1>3, <2>1 DEF CatalogInv, Claims, Others, Clone
  <1> QED
    BY <1>2, <1>3 DEF Clone, Copyable, AdminFails, Fail, Certain

\* Removing a database from the catalog claims its name.
LEMMA RemoveCatalog ==
    ASSUME TypeInv, CatalogInv, NEW c \in Clients, Remove(c)
    PROVE  CatalogInv'
  <1>1. Others(c) /\ request \in [Clients -> Requests] /\ request[c] \in Requests
    BY StepOthers DEF Step, TypeInv, TypeOK
  <1>2. CASE Return(c)
    <2>1. ~Claims(c)'
      BY <1>1, <1>2, ReturnMoves DEF Claims
    <2>2. server' = server /\ catalog' \subseteq catalog /\ file' \in {file, catalog'}
      BY <1>2 DEF Remove, Save
    <2> QED
      BY <1>1, <2>1, <2>2 DEF CatalogInv, Claims, Others
  <1>3. CASE /\ request[c].db \in catalog /\ server' = server
             /\ catalog' = catalog \ {request[c].db} /\ file' = catalog' /\ Goto(c, "drop")
    <2>1. request'[c].db = request[c].db
      BY <1>1, <1>3 DEF Goto, Requests
    <2> QED
      BY <1>1, <1>3, <2>1 DEF CatalogInv, Claims, Others
  <1>4. Save /\ used' = used => file' = catalog'
    BY DEF Save, Fail, Spend, TypeInv, TypeOK
  <1> QED
    BY <1>2, <1>3, <1>4 DEF Remove

\* Dropping ends the claim, or keeps it to register again.
LEMMA DropCatalog ==
    ASSUME TypeInv, CatalogInv, Certain, NEW c \in Clients, Drop(c)
    PROVE  CatalogInv'
  <1>1. Others(c) /\ request \in [Clients -> Requests] /\ request[c] \in Requests /\ Claims(c)
        /\ UNCHANGED <<catalog, file>>
    BY StepOthers DEF Step, TypeInv, TypeOK, Drop, At, Claims
  <1>2. CASE Return(c) /\ server' = server \ {request[c].db}
    <2>1. ~Claims(c)'
      BY <1>1, <1>2, ReturnMoves DEF Claims
    <2> QED
      BY <1>1, <1>2, <2>1 DEF CatalogInv, Claims, Others
  <1>3. CASE Goto(c, "readd") /\ server' = server
    <2>1. request'[c].db = request[c].db
      BY <1>1, <1>3 DEF Goto, Requests
    <2> QED
      BY <1>1, <1>3, <2>1 DEF CatalogInv, Claims, Others
  <1> QED
    BY <1>2, <1>3 DEF Drop, AdminFails, Fail, Certain

\* Every other step leaves server and catalog alone and ends at a step that
\* claims nothing.
LEMMA OtherCatalog ==
    ASSUME TypeInv, CatalogInv, Certain, NEW c \in Clients,
           \/ App(c) \/ UseDb(c) \/ NewDb(c) \/ DropDb(c) \/ DuplicateDb(c)
           \/ Find(c) \/ Decide(c) \/ Lock(c) \/ BuildOk(c) \/ BuildFails(c) \/ BuildPanics(c)
           \/ Shutdown(c) \/ Serve(c) \/ Finish(c) \/ Exists(c)
           \/ Source(c) \/ Ask(c) \/ EnterBootstrap(c) \/ Close(c) \/ Isolate(c) \/ Check(c)
    PROVE  CatalogInv'
  <1>1. Others(c)
    BY StepOthers DEF Step
  <1>2. /\ request \in [Clients -> Requests] /\ request[c] \in Requests
        /\ cookie \in [Clients -> Dbs \cup {NoDb}]
        /\ (request[c].wasActive => request[c].source \in Dbs)
    BY DEF TypeInv, TypeOK, AimInv
  <1>3. ASSUME NEW pc \in Steps \ {"restore", "add", "drop", "readd"}, Goto(c, pc) PROVE ~Claims(c)'
    <2>1. request'[c] = [request[c] EXCEPT !.pc = pc]
      BY <1>2, <1>3, GotoMoves
    <2> QED
      BY <1>2, <2>1 DEF Claims, Requests
  <1>4. Return(c) => ~Claims(c)'
    BY <1>2, ReturnMoves DEF Claims
  <1>5. (\E p : Answered(c, p)) \/ Refused(c) => ~Claims(c)'
    <2>1. ASSUME NEW p, request' = [request EXCEPT ![c].pc = "serve", ![c].chosen = p] PROVE ~Claims(c)'
      BY <1>2, <2>1 DEF Claims, Requests
    <2> QED
      BY <1>3, <1>4, <2>1 DEF Answered, Refused, Steps
  <1>6. ASSUME NEW r, request' = [request EXCEPT ![c] = r], r.pc \notin {"restore", "add", "drop", "readd"}
        PROVE  ~Claims(c)'
    BY <1>2, <1>6 DEF Claims
  <1>7. CASE App(c) \/ UseDb(c) \/ NewDb(c) \/ DropDb(c) \/ DuplicateDb(c)
    <2>1. ASSUME NEW new, Start(c, new), new.pc \notin {"restore", "add", "drop", "readd"} PROVE CatalogInv'
      <3>1. ~Claims(c)'
        BY <1>6, <2>1 DEF Start
      <3> QED
        BY <1>1, <2>1, <3>1, UnclaimedKeeps DEF Start, outside
    <2>2. CASE App(c)
      BY <2>1, <2>2 DEF App, Idle
    <2>3. CASE UseDb(c) \/ DropDb(c)
      BY <2>1, <2>3 DEF UseDb, DropDb, Idle
    <2>4. CASE NewDb(c)
      BY <2>1, <2>4 DEF NewDb, Idle
    <2>5. CASE DuplicateDb(c)
      BY <2>1, <2>5 DEF DuplicateDb, Idle
    <2> QED
      BY <1>7, <2>2, <2>3, <2>4, <2>5
  <1>8. CASE Find(c) \/ Decide(c) \/ Lock(c) \/ BuildFails(c) \/ BuildPanics(c) \/ Shutdown(c) \/ Finish(c)
    <2>1. ~Claims(c)'
      BY <1>3, <1>4, <1>5, <1>8 DEF Find, Decide, Lock, BuildFails, BuildPanics, Shutdown, Finish, Steps
    <2>2. UNCHANGED <<server, file, catalog>>
      BY <1>8 DEF Find, Decide, Lock, BuildFails, BuildPanics, Shutdown, Finish, outside
    <2> QED
      BY <1>1, <2>1, <2>2, UnclaimedKeeps
  <1>9. CASE BuildOk(c)
    <2>1. ~Claims(c)'
      <3>1. CASE Answered(c, Len(platforms) + 1)
        BY <1>5, <3>1
      <3>2. CASE request' = [request EXCEPT ![c].pc = "shutdown", ![c].at = plat]
        BY <1>2, <3>2 DEF Claims, Requests
      <3> QED
        BY <1>9, <3>1, <3>2 DEF BuildOk
    <2> QED
      BY <1>1, <1>9, <2>1, UnclaimedKeeps DEF BuildOk
  <1>10. CASE Serve(c) \/ Ask(c) \/ EnterBootstrap(c)
    <2>1. ~Claims(c)'
      <3>1. CASE request' = [request EXCEPT ![c].pc = "handle", ![c].at = handler]
        BY <1>2, <3>1 DEF Claims, Requests
      <3>2. CASE request' = [request EXCEPT ![c].pc = "leave", ![c].wasActive = TRUE]
        BY <1>2, <3>2 DEF Claims, Requests
      <3>3. CASE request' = [request EXCEPT ![c].pc = "close", ![c].at = plat]
        BY <1>2, <3>3 DEF Claims, Requests
      <3>4. CASE Goto(c, "copy")
        BY <1>3, <3>4 DEF Steps
      <3> QED
        BY <1>10, <3>1, <3>2, <3>3, <3>4 DEF Serve, Ask, EnterBootstrap
    <2> QED
      BY <1>1, <1>10, <2>1, UnclaimedKeeps DEF Serve, Ask, EnterBootstrap, outside
  <1>11. CASE Source(c) \/ Close(c) \/ Check(c)
    <2>1. ~Claims(c)'
      BY <1>3, <1>4, <1>11 DEF Source, Close, Check, Steps
    <2> QED
      BY <1>1, <1>11, <2>1, UnclaimedKeeps DEF Source, Close, Check, outside
  <1>12. CASE Isolate(c)
    <2>1. ~Claims(c)'
      <3>1. CASE Goto(c, "clone")
        BY <1>3, <3>1 DEF Steps
      <3>2. CASE Return(c)
        BY <1>4, <3>2
      <3>3. CASE request[c].wasActive /\ Use(c, request[c].source, "return")
        BY <1>2, <3>3, UseMoves DEF Claims
      <3> QED
        BY <1>12, <3>1, <3>2, <3>3 DEF Isolate, CopyFailed
    <2> QED
      BY <1>1, <1>12, <2>1, UnclaimedKeeps DEF Isolate
  <1>13. CASE Exists(c)
    BY <1>13 DEF Exists, At, TypeInv, AimInv, Certain
  <1> QED
    BY <1>7, <1>8, <1>9, <1>10, <1>11, <1>12, <1>13

\* The invariant on catalog and server is inductive, given the types.
LEMMA CatalogStep == TypeInv /\ CatalogInv /\ Certain /\ [Next]_vars => CatalogInv'
  <1> SUFFICES ASSUME TypeInv, CatalogInv, Certain, [Next]_vars PROVE CatalogInv'
    OBVIOUS
  <1>1. ASSUME NEW c \in Clients,
               App(c) \/ UseDb(c) \/ NewDb(c) \/ DropDb(c) \/ DuplicateDb(c) \/ Step(c)
        PROVE  CatalogInv'
    BY <1>1, CreateCatalog, RestoreCatalog, AddCatalog, CloneCatalog, RemoveCatalog, DropCatalog,
       OtherCatalog DEF Step
  <1>2. CASE Crash \/ Exit
    BY <1>2 DEF Crash, Exit, Restarted, NoRequests, Idle, outside, CatalogInv, Claims
  <1>3. CASE Signal \/ StopHost \/ UNCHANGED vars
    BY <1>3 DEF Signal, StopHost, vars, outside, CatalogInv, Claims
  <1> QED
    BY <1>1, <1>2, <1>3 DEF Next

\* It holds initially.
LEMMA CatalogInit == Init => CatalogInv
  BY DEF Init, NoRequests, Idle, CatalogInv, Claims

\* Every registered database exists, in the running process and after any
\* restart, as long as nothing is imported and no request is canceled in the
\* middle of a statement.
THEOREM CatalogCorrect == Certain => (Spec => []CatalogExists)
  <1> SUFFICES ASSUME Certain PROVE Spec => []CatalogExists
    OBVIOUS
  <1>1. CatalogInv => CatalogExists
    BY DEF CatalogInv, CatalogExists
  <1>2. TypeInv /\ CatalogInv /\ [Next]_vars => CatalogInv'
    BY CatalogStep
  <1> QED
    BY <1>1, <1>2, TypeInit, TypeStep, CatalogInit, PTL DEF Spec

-----------------------------------------------------------------------------
(* What a request that selected its database is handed to *)

\* Until the platform it replaced is shut down, the one a request built serves
BuiltInv == \A c \in Clients : request[c].pc = "shutdown" => plat # 0 /\ DbOf(plat) = request[c].db

\* Nobody else gets at Runtime.mu in between.
LEMMA BuiltStep == TypeInv /\ TypeInv' /\ BuiltInv /\ [Next]_vars => BuiltInv'
  <1> SUFFICES ASSUME TypeInv, TypeInv', BuiltInv, [Next]_vars, NEW d \in Clients, request'[d].pc = "shutdown"
               PROVE  plat' # 0 /\ DbOf(plat)' = request'[d].db
    BY DEF BuiltInv
  <1>1. mu' = d /\ d # NoClient
    BY DbRuntimeAssumption DEF TypeInv, LockInv, Holding
  <1>2. request[d].pc = "shutdown" => mu = d /\ plat # 0 /\ plat \in DOMAIN platforms /\ DbOf(plat) = request[d].db
    BY DEF BuiltInv, TypeInv, TypeOK, LockInv, Holding
  <1>3. ASSUME NEW c \in Clients, Quiet(c)
        PROVE  plat' # 0 /\ DbOf(plat)' = request'[d].db
    <2>1. UNCHANGED <<plat, platforms>>
      <3>1. CASE App(c) \/ UseDb(c) \/ NewDb(c) \/ DropDb(c) \/ DuplicateDb(c)
        BY <3>1 DEF App, UseDb, NewDb, DropDb, DuplicateDb, Start, runtime
      <3>2. CASE Find(c) \/ Decide(c) \/ Lock(c) \/ Serve(c) \/ Finish(c)
        BY <3>2 DEF Find, Decide, Lock, Serve, Finish, runtime
      <3>3. CASE Create(c) \/ Restore(c) \/ Exists(c) \/ Add(c) \/ Source(c) \/ Ask(c)
        BY <3>3 DEF Create, Restore, Exists, Add, Source, Ask, runtime
      <3>4. CASE Isolate(c) \/ Clone(c) \/ Check(c) \/ Remove(c) \/ Drop(c) \/ ReAdd(c)
        BY <3>4 DEF Isolate, Clone, Check, Remove, Drop, ReAdd, runtime
      <3> QED
        BY <1>3, <3>1, <3>2, <3>3, <3>4 DEF Quiet
    <2>2. c # d
      <3>1. CASE Lock(c)
        <4>1. request'[c].pc = "build"
          BY <3>1, GotoMoves DEF Lock, TypeInv, TypeOK, Steps, Requests
        <4> QED
          BY <4>1
      <3>2. CASE ~Lock(c)
        <4>1. mu' = mu /\ request[c].pc \notin Holding
          <5>1. CASE App(c) \/ UseDb(c) \/ NewDb(c) \/ DropDb(c) \/ DuplicateDb(c)
            BY <5>1 DEF App, UseDb, NewDb, DropDb, DuplicateDb, Start, At, Holding
          <5>2. CASE Find(c) \/ Decide(c) \/ Serve(c) \/ Finish(c)
            BY <5>2 DEF Find, Decide, Serve, Finish, At, Holding
          <5>3. CASE Create(c) \/ Restore(c) \/ Exists(c) \/ Add(c) \/ Source(c) \/ Ask(c)
            BY <5>3 DEF Create, Restore, Exists, Add, Source, Ask, At, Holding
          <5>4. CASE Isolate(c) \/ Clone(c) \/ Check(c) \/ Remove(c) \/ Drop(c) \/ ReAdd(c)
            BY <5>4 DEF Isolate, Clone, Check, Remove, Drop, ReAdd, At, Holding
          <5> QED
            BY <1>3, <3>2, <5>1, <5>2, <5>3, <5>4 DEF Quiet
        <4> QED
          BY <1>1, <4>1 DEF TypeInv, LockInv
      <3> QED
        BY <3>1, <3>2
    <2>3. request'[d] = request[d]
      BY <1>3, <2>2, StepOthers DEF Quiet, Step, Others
    <2> QED
      BY <1>2, <2>1, <2>3 DEF DbOf
  <1>4. ASSUME NEW c \in Clients, BuildOk(c)
        PROVE  plat' # 0 /\ DbOf(plat)' = request'[d].db
    <2>1. request[c].pc = "build" /\ mu = c /\ request[c].db \in Dbs /\ request[c] \in Requests
      BY <1>4 DEF BuildOk, At, TypeInv, TypeOK, LockInv, AimInv, Holding
    <2>2. plat' = Len(platforms) + 1 /\ platforms'[Len(platforms) + 1].db = request[c].db /\ plat' # 0
      BY <1>4, <2>1, AppendType DEF BuildOk, TypeInv, TypeOK
    <2>3. c = d
      <3>1. ASSUME c # d PROVE FALSE
        <4>1. request'[d] = request[d]
          BY <1>4, <3>1, StepOthers DEF Step, Others
        <4> QED
          BY <1>2, <2>1, <3>1, <4>1
      <3> QED
        BY <3>1
    <2>4. request'[d].db = request[d].db
      <3>1. plat # 0
        BY <1>1, <1>4 DEF BuildOk
      <3>2. request' = [request EXCEPT ![c].pc = "shutdown", ![c].at = plat]
        BY <1>4, <3>1 DEF BuildOk
      <3> QED
        BY <2>1, <2>3, <3>2 DEF TypeInv, TypeOK, Requests
    <2> QED
      BY <2>2, <2>3, <2>4 DEF DbOf
  <1>5. ASSUME NEW c \in Clients, BuildFails(c) \/ BuildPanics(c) \/ Shutdown(c) \/ Close(c) PROVE FALSE
    BY <1>1, <1>5 DEF BuildFails, BuildPanics, Shutdown, Close
  <1>6. ASSUME NEW c \in Clients, EnterBootstrap(c) PROVE FALSE
    <2>1. mu = NoClient /\ request \in [Clients -> Requests] /\ request[c] \in Requests
      BY <1>6 DEF EnterBootstrap, TypeInv, TypeOK
    <2>2. d = c
      BY <1>2, <1>6, <1>1, <2>1, StepOthers DEF Step, Others
    <2>3. plat # 0 /\ request' = [request EXCEPT ![c].pc = "close", ![c].at = plat]
      BY <1>1, <1>6, <2>1 DEF EnterBootstrap
    <2> QED
      BY <2>1, <2>2, <2>3 DEF Requests
  <1>7. CASE Crash \/ Exit
    BY <1>7 DEF Crash, Exit, Restarted, NoRequests, Idle
  <1>8. CASE Signal
    BY <1>2, <1>8 DEF Signal, runtime, DbOf
  <1>9. CASE StopHost
    <2>1. request' = request /\ plat' = plat
      BY <1>9 DEF StopHost
    <2>2. \A q \in DOMAIN platforms : platforms'[q].db = platforms[q].db
      BY <1>9, ClosedType DEF StopHost, TypeInv, TypeOK, StopInv
    <2> QED
      BY <1>2, <2>1, <2>2 DEF DbOf
  <1>10. CASE UNCHANGED vars
    BY <1>2, <1>10 DEF vars, runtime, DbOf
  <1> QED
    BY <1>3, <1>4, <1>5, <1>6, <1>7, <1>8, <1>9, <1>10 DEF Next, Step, Quiet

\* A request carries the platform it chose until it ends; what serves is that
\* one, a later one, or the bootstrap page
NewerInv == \A c \in Clients :
    LET own == request[c].chosen
    IN  own # 0 =>
            /\ request[c].pc \in {"serve", "handle"}
            /\ own \in DOMAIN platforms
            /\ DbOf(own) = request[c].db
            /\ plat = 0 \/ own <= plat
            /\ request[c].pc = "handle" => request[c].at = 0 \/ own <= request[c].at

\* A step by which one request ends without having chosen a platform, or has
\* not chosen one yet, keeps the invariant, if no older platform comes to serve.
LEMMA UnchosenKeeps ==
    ASSUME TypeInv, NewerInv, NEW c \in Clients, Others(c), request'[c].chosen = 0,
           plat' \in {0, plat} \/ (plat' \in Nat /\ plat' > Len(platforms)), DOMAIN platforms \subseteq DOMAIN platforms',
           \A p \in DOMAIN platforms : platforms'[p].db = platforms[p].db
    PROVE  NewerInv'
  <1> SUFFICES ASSUME NEW d \in Clients, request'[d].chosen # 0
               PROVE  /\ request'[d].pc \in {"serve", "handle"}
                      /\ request'[d].chosen \in DOMAIN platforms'
                      /\ platforms'[request'[d].chosen].db = request'[d].db
                      /\ plat' = 0 \/ request'[d].chosen <= plat'
                      /\ request'[d].pc = "handle" => request'[d].at = 0 \/ request'[d].chosen <= request'[d].at
    BY DEF NewerInv, DbOf
  <1>1. d # c /\ request'[d] = request[d]
    BY DEF Others
  <1>2. /\ request[d].pc \in {"serve", "handle"}
        /\ request[d].chosen \in DOMAIN platforms
        /\ DbOf(request[d].chosen) = request[d].db
        /\ plat = 0 \/ request[d].chosen <= plat
        /\ request[d].pc = "handle" => request[d].at = 0 \/ request[d].chosen <= request[d].at
    BY <1>1 DEF NewerInv
  <1>3. platforms'[request'[d].chosen].db = request'[d].db
    BY <1>1, <1>2 DEF DbOf
  <1>4. plat' = 0 \/ request'[d].chosen <= plat'
    <2>1. DOMAIN platforms = 1..Len(platforms) /\ Len(platforms) \in Nat
      BY LenProperties DEF TypeInv, TypeOK
    <2>2. request[d].chosen \in Nat /\ request[d].chosen <= Len(platforms)
      BY <1>2, <2>1
    <2>3. CASE plat' \in {0, plat}
      BY <1>1, <1>2, <2>3
    <2>4. CASE plat' \in Nat /\ plat' > Len(platforms)
      BY <1>1, <2>1, <2>2, <2>4
    <2> QED
      BY <2>3, <2>4
  <1> QED
    BY <1>1, <1>2, <1>3, <1>4

\* A request at any other step has chosen nothing, and most steps choose nothing.
LEMMA StaysUnchosen ==
    ASSUME TypeInv, NewerInv, NEW c \in Clients,
           \/ App(c) \/ UseDb(c) \/ NewDb(c) \/ DropDb(c) \/ DuplicateDb(c)
           \/ Find(c) \/ Lock(c) \/ BuildFails(c) \/ BuildPanics(c) \/ Finish(c)
           \/ Create(c) \/ Restore(c) \/ Exists(c) \/ Add(c) \/ Source(c) \/ Ask(c)
           \/ EnterBootstrap(c) \/ Close(c)
           \/ Isolate(c) \/ Clone(c) \/ Check(c) \/ Remove(c) \/ Drop(c) \/ ReAdd(c)
    PROVE  request'[c].chosen = 0
  <1>1. request \in [Clients -> Requests] /\ request[c] \in Requests
    BY DEF TypeInv, TypeOK
  <1>2. request[c].pc \notin {"serve", "handle"} => request[c].chosen = 0
    BY DEF NewerInv
  <1>3. ASSUME NEW pc, Goto(c, pc), request[c].pc \notin {"serve", "handle"} PROVE request'[c].chosen = 0
    BY <1>1, <1>2, <1>3 DEF Goto, Requests
  <1>4. Return(c) => request'[c].chosen = 0
    BY <1>1 DEF Return, Idle
  <1>5. ASSUME NEW db, NEW goal, Use(c, db, goal), request[c].pc \notin {"serve", "handle"}
        PROVE  request'[c].chosen = 0
    BY <1>1, <1>2, <1>5 DEF Use, Requests
  <1>6. request[c].pc \notin {"serve", "handle"} /\ (Refused(c) \/ CopyFailed(c)) => request'[c].chosen = 0
    BY <1>3, <1>4, <1>5 DEF Refused, CopyFailed
  <1>7. CASE App(c) \/ UseDb(c) \/ NewDb(c) \/ DropDb(c) \/ DuplicateDb(c)
    <2>1. ASSUME NEW new, Start(c, new), new.chosen = 0 PROVE request'[c].chosen = 0
      BY <1>1, <2>1 DEF Start
    <2>2. CASE App(c) \/ UseDb(c) \/ DropDb(c)
      BY <2>1, <2>2 DEF App, UseDb, DropDb, Idle
    <2>3. CASE NewDb(c)
      BY <2>1, <2>3 DEF NewDb, Idle
    <2>4. CASE DuplicateDb(c)
      BY <2>1, <2>4 DEF DuplicateDb, Idle
    <2> QED
      BY <1>7, <2>2, <2>3, <2>4
  <1>8. CASE Find(c) \/ Lock(c) \/ BuildFails(c) \/ BuildPanics(c) \/ Finish(c)
    BY <1>3, <1>4, <1>6, <1>8 DEF Find, Lock, BuildFails, BuildPanics, Finish, At
  <1>9. CASE Create(c) \/ Restore(c) \/ Exists(c) \/ Add(c) \/ Source(c) \/ Close(c)
    BY <1>3, <1>4, <1>5, <1>9 DEF Create, Restore, Exists, Add, Source, Close, At
  <1>10. CASE Ask(c) \/ EnterBootstrap(c)
    <2>1. request[c].pc \notin {"serve", "handle"}
      BY <1>10 DEF Ask, EnterBootstrap, At
    <2>2. ASSUME request' = [request EXCEPT ![c].pc = "leave", ![c].wasActive = TRUE] PROVE request'[c].chosen = 0
      BY <1>1, <1>2, <2>1, <2>2 DEF Requests
    <2>3. ASSUME request' = [request EXCEPT ![c].pc = "close", ![c].at = plat] PROVE request'[c].chosen = 0
      BY <1>1, <1>2, <2>1, <2>3 DEF Requests
    <2> QED
      BY <1>3, <1>10, <2>1, <2>2, <2>3 DEF Ask, EnterBootstrap
  <1>11. CASE Isolate(c) \/ Clone(c) \/ Check(c) \/ Remove(c) \/ Drop(c) \/ ReAdd(c)
    BY <1>3, <1>4, <1>6, <1>11 DEF Isolate, Clone, Check, Remove, Drop, ReAdd, At
  <1> QED
    BY <1>7, <1>8, <1>9, <1>10, <1>11

\* UseDatabase answers while the platform of its database serves.
LEMMA AnsweredChooses ==
    ASSUME TypeInv, NewerInv, NEW c \in Clients, Others(c), request[c].pc \notin {"serve", "handle"},
           NEW p \in Nat, Answered(c, p), p = plat', p \in DOMAIN platforms', platforms'[p].db = request[c].db,
           plat' = plat \/ (plat' \in Nat /\ plat' > Len(platforms)), DOMAIN platforms \subseteq DOMAIN platforms',
           \A q \in DOMAIN platforms : platforms'[q].db = platforms[q].db
    PROVE  NewerInv'
  <1>1. request \in [Clients -> Requests] /\ request[c] \in Requests
    BY DEF TypeInv, TypeOK
  <1>2. CASE Return(c)
    <2>1. request'[c].chosen = 0
      BY <1>1, <1>2 DEF Return, Idle
    <2> QED
      BY <2>1, UnchosenKeeps
  <1>3. CASE request' = [request EXCEPT ![c].pc = "serve", ![c].chosen = p]
    <2>1. /\ request'[c].pc = "serve" /\ request'[c].chosen = p
          /\ request'[c].db = request[c].db
      BY <1>1, <1>3 DEF Requests
    <2>3. DOMAIN platforms = 1..Len(platforms) /\ Len(platforms) \in Nat
      BY LenProperties DEF TypeInv, TypeOK
    <2>4. ASSUME NEW d \in Clients \ {c}, request'[d].chosen # 0
          PROVE  /\ request'[d].pc \in {"serve", "handle"}
                 /\ request'[d].chosen \in DOMAIN platforms'
                 /\ platforms'[request'[d].chosen].db = request'[d].db
                 /\ plat' = 0 \/ request'[d].chosen <= plat'
                 /\ request'[d].pc = "handle" => request'[d].at = 0 \/ request'[d].chosen <= request'[d].at
      <3>1. request'[d] = request[d]
        BY DEF Others
      <3>2. /\ request[d].pc \in {"serve", "handle"}
            /\ request[d].chosen \in DOMAIN platforms
            /\ DbOf(request[d].chosen) = request[d].db
            /\ plat = 0 \/ request[d].chosen <= plat
            /\ request[d].pc = "handle" => request[d].at = 0 \/ request[d].chosen <= request[d].at
        BY <2>4, <3>1 DEF NewerInv
      <3>3. plat' = 0 \/ request'[d].chosen <= plat'
        BY <2>3, <3>1, <3>2
      <3> QED
        BY <3>1, <3>2, <3>3 DEF DbOf
    <2>5. ASSUME NEW d \in Clients, request'[d].chosen # 0
          PROVE  /\ request'[d].pc \in {"serve", "handle"}
                 /\ request'[d].chosen \in DOMAIN platforms'
                 /\ platforms'[request'[d].chosen].db = request'[d].db
                 /\ plat' = 0 \/ request'[d].chosen <= plat'
                 /\ request'[d].pc = "handle" => request'[d].at = 0 \/ request'[d].chosen <= request'[d].at
      <3>1. CASE d = c
        BY <2>1, <3>1
      <3>2. CASE d # c
        BY <2>4, <2>5, <3>2
      <3> QED
        BY <3>1, <3>2
    <2> QED
      BY <2>5 DEF NewerInv, DbOf
  <1> QED
    BY <1>2, <1>3 DEF Answered

\* The steps that let UseDatabase answer keep the invariant.
LEMMA ChoosingKeeps ==
    ASSUME TypeInv, ServeInv, BuiltInv, NewerInv, NEW c \in Clients, Decide(c) \/ BuildOk(c) \/ Shutdown(c)
    PROVE  NewerInv'
  <1>1. /\ request \in [Clients -> Requests] /\ request[c] \in Requests
        /\ request[c].pc \in {"decide", "build", "shutdown"} /\ request[c].chosen = 0 /\ request[c].db \in Dbs
    BY DEF Decide, BuildOk, Shutdown, At, TypeInv, TypeOK, NewerInv, AimInv
  <1>2. Others(c)
    BY StepOthers DEF Step
  <1>3. plat \in Nat /\ (plat # 0 => plat \in DOMAIN platforms)
    BY PlatNumber DEF TypeInv, TypeOK
  <1>4. CASE Decide(c)
    <2>1. UNCHANGED <<plat, platforms>>
      BY <1>4 DEF Decide, runtime
    <2>2. CASE Answered(c, plat) /\ active = request[c].db /\ plat # 0
      <3>1. platforms[plat].db = request[c].db
        BY <2>2 DEF ServeInv, AgreeInv, DbOf
      <3> QED
        BY <1>1, <1>2, <1>3, <2>1, <2>2, <3>1, AnsweredChooses
    <2>3. CASE Goto(c, "rebuild")
      <3>1. request'[c].chosen = 0
        BY <1>1, <2>3 DEF Goto, Requests
      <3> QED
        BY <1>2, <2>1, <3>1, UnchosenKeeps
    <2> QED
      BY <1>4, <2>2, <2>3 DEF Decide
  <1>5. CASE BuildOk(c)
    <2>1. PICK new : new = Len(platforms) + 1
      OBVIOUS
    <2>2. /\ DOMAIN platforms' = DOMAIN platforms \cup {new} /\ new # 0
          /\ \A p \in DOMAIN platforms : platforms'[p] = platforms[p]
          /\ platforms'[new] = [db |-> request[c].db, open |-> TRUE]
      BY <1>1, <1>5, <2>1, AppendType DEF BuildOk, TypeInv, TypeOK
    <2>3. new \in Nat /\ new > Len(platforms) /\ plat' = new
      BY <1>5, <2>1, LenProperties DEF BuildOk, TypeInv, TypeOK
    <2>4. CASE Answered(c, new)
      BY <1>1, <1>2, <2>2, <2>3, <2>4, AnsweredChooses
    <2>5. CASE request' = [request EXCEPT ![c].pc = "shutdown", ![c].at = plat]
      <3>1. request'[c].chosen = 0
        BY <1>1, <2>5 DEF Requests
      <3> QED
        BY <1>2, <2>2, <2>3, <3>1, UnchosenKeeps
    <2> QED
      BY <1>5, <2>1, <2>4, <2>5 DEF BuildOk
  <1>6. CASE Shutdown(c)
    <2>1. request[c].at \in DOMAIN platforms
      BY <1>6 DEF Shutdown, At, TypeInv, AimInv
    <2>2. /\ plat' = plat /\ DOMAIN platforms' = DOMAIN platforms /\ Answered(c, plat)
          /\ \A q \in DOMAIN platforms : platforms'[q].db = platforms[q].db
      BY <1>6, <2>1, ClosedType DEF Shutdown, TypeInv, TypeOK
    <2>3. plat # 0 /\ platforms[plat].db = request[c].db
      BY <1>6 DEF Shutdown, At, BuiltInv, DbOf
    <2> QED
      BY <1>1, <1>2, <1>3, <2>2, <2>3, AnsweredChooses
  <1> QED
    BY <1>4, <1>5, <1>6


\* The request is handed to what serves, which is not older than what it chose.
LEMMA ServeKeeps ==
    ASSUME TypeInv, ServeInv, NewerInv, NEW c \in Clients, Serve(c)
    PROVE  NewerInv'
  <1>1. /\ request \in [Clients -> Requests] /\ request[c] \in Requests
        /\ request' = [request EXCEPT ![c].pc = "handle", ![c].at = handler]
        /\ UNCHANGED <<plat, platforms>>
    BY DEF Serve, runtime, TypeInv, TypeOK
  <1>2. /\ request'[c].pc = "handle" /\ request'[c].at = plat
        /\ request'[c].chosen = request[c].chosen /\ request'[c].db = request[c].db
    BY <1>1 DEF Requests, ServeInv, AgreeInv
  <1>3. \A d \in Clients \ {c} : request'[d] = request[d]
    BY <1>1
  <1> QED
    BY <1>1, <1>2, <1>3 DEF NewerInv, DbOf

\* The invariant on what was chosen is inductive, given those on types and on
\* what serves.
LEMMA NewerStep == TypeInv /\ ServeInv /\ BuiltInv /\ NewerInv /\ [Next]_vars => NewerInv'
  <1> SUFFICES ASSUME TypeInv, ServeInv, BuiltInv, NewerInv, [Next]_vars PROVE NewerInv'
    OBVIOUS
  <1>1. ASSUME NEW c \in Clients,
               App(c) \/ UseDb(c) \/ NewDb(c) \/ DropDb(c) \/ DuplicateDb(c) \/ Step(c)
        PROVE  NewerInv'
    <2>1. Others(c)
      BY <1>1, StepOthers
    <2>2. CASE BuildFails(c) \/ EnterBootstrap(c)
      <3>1. request'[c].chosen = 0
        BY <2>2, StaysUnchosen
      <3>2. plat' \in {0, plat} /\ platforms' = platforms
        BY <2>2 DEF BuildFails, EnterBootstrap
      <3> QED
        BY <2>1, <3>1, <3>2, UnchosenKeeps
    <2>3. CASE BuildPanics(c)
      <3>1. request'[c].chosen = 0 /\ plat' = plat
        BY <2>3, StaysUnchosen DEF BuildPanics
      <3>2. request[c].db \in Dbs
        BY <2>3 DEF BuildPanics, At, TypeInv, AimInv
      <3>3. \A p \in DOMAIN platforms : p \in DOMAIN platforms' /\ platforms'[p] = platforms[p]
        BY <2>3, <3>2, AppendType DEF BuildPanics, TypeInv, TypeOK
      <3> QED
        BY <2>1, <3>1, <3>3, UnchosenKeeps
    <2>4. CASE Close(c)
      <3>1. request'[c].chosen = 0 /\ plat' = plat
        BY <2>4, StaysUnchosen DEF Close
      <3>2. request[c].at \in DOMAIN platforms
        BY <2>4 DEF Close, At, TypeInv, AimInv
      <3>3. DOMAIN platforms' = DOMAIN platforms /\ \A q \in DOMAIN platforms : platforms'[q].db = platforms[q].db
        BY <2>4, <3>2, ClosedType DEF Close, TypeInv, TypeOK
      <3> QED
        BY <2>1, <3>1, <3>3, UnchosenKeeps
    <2>5. CASE \/ App(c) \/ UseDb(c) \/ NewDb(c) \/ DropDb(c) \/ DuplicateDb(c)
               \/ Find(c) \/ Lock(c) \/ Finish(c)
               \/ Create(c) \/ Restore(c) \/ Exists(c) \/ Add(c) \/ Source(c) \/ Ask(c)
               \/ Isolate(c) \/ Clone(c) \/ Check(c) \/ Remove(c) \/ Drop(c) \/ ReAdd(c)
      <3>1. request'[c].chosen = 0
        BY <2>5, StaysUnchosen
      <3>2. UNCHANGED <<plat, platforms>>
        <4>1. CASE App(c) \/ UseDb(c) \/ NewDb(c) \/ DropDb(c) \/ DuplicateDb(c)
          BY <4>1 DEF App, UseDb, NewDb, DropDb, DuplicateDb, Start, runtime
        <4>2. CASE Find(c) \/ Lock(c) \/ Finish(c)
          BY <4>2 DEF Find, Lock, Finish, runtime
        <4>3. CASE Create(c) \/ Restore(c) \/ Exists(c) \/ Add(c) \/ Source(c) \/ Ask(c)
          BY <4>3 DEF Create, Restore, Exists, Add, Source, Ask, runtime
        <4>4. CASE Isolate(c) \/ Clone(c) \/ Check(c) \/ Remove(c) \/ Drop(c) \/ ReAdd(c)
          BY <4>4 DEF Isolate, Clone, Check, Remove, Drop, ReAdd, runtime
        <4> QED
          BY <2>5, <4>1, <4>2, <4>3, <4>4
      <3> QED
        BY <2>1, <3>1, <3>2, UnchosenKeeps
    <2> QED
      BY <1>1, <2>2, <2>3, <2>4, <2>5, ChoosingKeeps, ServeKeeps DEF Step
  <1>2. CASE Crash \/ Exit
    BY <1>2 DEF Crash, Exit, Restarted, NoRequests, Idle, NewerInv
  <1>3. CASE Signal \/ UNCHANGED vars
    BY <1>3 DEF Signal, vars, outside, runtime, NewerInv, DbOf
  <1>4. CASE StopHost
    <2>1. request' = request /\ plat' = plat
      BY <1>4 DEF StopHost
    <2>2. DOMAIN platforms' = DOMAIN platforms /\ \A q \in DOMAIN platforms : platforms'[q].db = platforms[q].db
      BY <1>4, ClosedType DEF StopHost, TypeInv, TypeOK, StopInv
    <2> QED
      BY <2>1, <2>2 DEF NewerInv, DbOf
  <1> QED
    BY <1>1, <1>2, <1>3, <1>4 DEF Next

\* Both hold initially.
LEMMA NewerInit == Init => BuiltInv /\ NewerInv
  BY DEF Init, NoRequests, Idle, BuiltInv, NewerInv

\* For any number of clients with any cookies, whatever fails: a request whose
\* selection succeeded is handed to the platform of its database, to one built
\* since, or to the bootstrap page, and never to one that was replaced before.
THEOREM NewerCorrect == Spec => []ServedOrNewer
  <1>1. NewerInv => ServedOrNewer
    BY DEF NewerInv, ServedOrNewer, At
  <1> QED
    BY <1>1, TypeInit, TypeStep, ServeInit, ServeStep, BuiltStep, NewerInit, NewerStep, PTL DEF Spec

=============================================================================
