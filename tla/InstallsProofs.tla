--------------------------- MODULE InstallsProofs ---------------------------
(***************************************************************************)
(* Proofs about module Installs, for any apps, releases, callers and        *)
(* bounds.  Nothing in them needs Manager.mu: two installs that ran at once *)
(* would keep these promises.                                               *)
(***************************************************************************)
EXTENDS Installs, FiniteSetTheorems, SequenceTheorems, TLAPS

-----------------------------------------------------------------------------
(* The inductive invariant *)

Elements(s) == {s[i] : i \in DOMAIN s}

\* Whoever goes through s from its head, starting with the apps of L, meets an
\* app after all it depends on
OrderedOver(s, L) ==
    \A i \in DOMAIN s : Depends[s[i]] \subseteq L \cup {s[j] : j \in 1 .. i - 1}

Pcs == {"idle", "lock", "extend", "setup", "mount", "upsert", "migrate", "stamp"}

CallRecords == [pc : Pcs, op : {"none", "install", "upgrade"}, app : Apps \cup {"none"},
                todo : Seq(Apps)]

TypeInv ==
    /\ code \in Releases
    /\ table \in [Apps -> Nat \cup {None}] /\ migrated \in [Apps -> Nat]
    /\ phase \in Phases /\ todo \in Seq(Apps) /\ order \in Seq(Apps)
    /\ loaded \in SUBSET Apps
    /\ call \in [Callers -> CallRecords]

\* What is loaded has been migrated by the running release
MigratedInv == \A a \in loaded : migrated[a] >= code.version[a]

BootInv ==
    /\ phase = "setup" => /\ OrderedOver(todo, loaded)
                          /\ Elements(order) \subseteq loaded \cup Elements(todo)
                          /\ todo # << >> => order # << >>
    /\ phase \in {"start", "mount", "sync"} =>
          /\ Elements(order) \cup Elements(todo) \subseteq loaded
          /\ todo # << >> /\ order # << >>

CallInv(c) ==
    /\ call[c].pc \in {"extend", "setup", "mount", "upsert"} => OrderedOver(call[c].todo, loaded)
    /\ call[c].pc \in {"setup", "mount", "upsert"} => call[c].todo # << >>
    /\ At(c, "mount") => migrated[Next1(c)] >= code.version[Next1(c)]
    /\ At(c, "upsert") => Next1(c) \in loaded
    /\ At(c, "lock") => call[c].app \in Apps
    /\ call[c].pc \in {"migrate", "stamp"} => call[c].app \in loaded

IInv ==
    /\ TypeInv /\ DependsLoaded /\ MigratedInv /\ StampedIsMigrated
    /\ BootInv /\ \A c \in Callers : CallInv(c)

-----------------------------------------------------------------------------
(* Dependencies and their order *)

\* The closure of some apps is closed.
LEMMA ClosureClosed ==
    ASSUME NEW S \in SUBSET Apps
    PROVE  Closure[S] \in SUBSET Apps /\ Closed(Closure[S])
  <1>1. Closure[S] = {a \in Apps : \A T \in SUBSET Apps : S \subseteq T /\ Closed(T) => a \in T}
    BY DEF Closure
  <1>2. ASSUME NEW a \in Closure[S], NEW b \in Depends[a] PROVE b \in Closure[S]
    <2>1. b \in Apps
      BY <1>1, InstallsAssumption
    <2>2. ASSUME NEW T \in SUBSET Apps, S \subseteq T, Closed(T) PROVE b \in T
      BY <1>1, <2>2 DEF Closed
    <2> QED
      BY <1>1, <2>1, <2>2
  <1> QED
    BY <1>1, <1>2 DEF Closed

\* The sequences that list a set without repetition list all of it.
LEMMA SeqsCover ==
    ASSUME NEW S, IsFiniteSet(S), NEW s \in SetToSeqs(S)
    PROVE  s \in Seq(S) /\ DOMAIN s = 1 .. Cardinality(S) /\ Elements(s) = S
  <1> DEFINE D == 1 .. Cardinality(S)
  <1>1. s \in [D -> S] /\ \A i, j \in D : i # j => s[i] # s[j]
    BY DEF SetToSeqs
  <1>2. Cardinality(S) \in Nat
    BY FS_CardinalityType
  <1>3. s \in Injection(D, S)
    BY <1>1 DEF Injection, IsInjective
  <1>4. IsFiniteSet(D) /\ Cardinality(D) = Cardinality(S)
    BY <1>2, FS_Interval
  <1>5. s \in Surjection(D, S)
    BY <1>3, <1>4, FS_Injection
  <1>6. \A x \in S : \E i \in D : s[i] = x
    BY <1>5 DEF Surjection
  <1> QED
    BY <1>1, <1>2, <1>6 DEF Elements

\* An order of a closed set can be gone through from its head.
LEMMA TopoSortOrdered ==
    ASSUME NEW S \in SUBSET Apps, Closed(S), NEW s \in TopoSort[S], NEW L
    PROVE  s \in Seq(Apps) /\ OrderedOver(s, L)
  <1>1. s \in SetToSeqs(S) /\ \A i, j \in DOMAIN s : s[j] \in Depends[s[i]] => j < i
    BY DEF TopoSort
  <1>2. IsFiniteSet(S)
    BY InstallsAssumption, FS_Subset
  <1>3. s \in Seq(S) /\ DOMAIN s = 1 .. Cardinality(S) /\ Elements(s) = S
    BY <1>1, <1>2, SeqsCover
  <1>4. ASSUME NEW i \in DOMAIN s, NEW b \in Depends[s[i]] PROVE b \in {s[j] : j \in 1 .. i - 1}
    <2>1. b \in S
      <3>1. s[i] \in S
        BY <1>3 DEF Elements
      <3> QED
        BY <3>1, <1>4 DEF Closed
    <2>2. PICK j \in DOMAIN s : s[j] = b
      BY <1>3, <2>1 DEF Elements
    <2>3. j < i
      BY <1>1, <2>2
    <2> QED
      BY <1>2, <1>3, <2>2, <2>3, FS_CardinalityType
  <1> QED
    BY <1>3, <1>4 DEF OrderedOver

\* With more apps loaded the order is as good.
LEMMA OrderedMonotone ==
    ASSUME NEW s, NEW L, NEW M, L \subseteq M, OrderedOver(s, L)
    PROVE  OrderedOver(s, M)
  BY DEF OrderedOver

\* When the head is loaded the rest is still in order.
LEMMA OrderedTail ==
    ASSUME NEW s \in Seq(Apps), s # << >>, NEW L, NEW M, L \subseteq M, Head(s) \in M,
           OrderedOver(s, L)
    PROVE  /\ Tail(s) \in Seq(Apps)
           /\ OrderedOver(Tail(s), M)
           /\ Elements(s) \subseteq M \cup Elements(Tail(s))
           /\ Elements(Tail(s)) \subseteq Elements(s)
  <1>1. /\ Tail(s) \in Seq(Apps) /\ Len(s) \in Nat /\ Len(s) >= 1
        /\ Len(Tail(s)) = Len(s) - 1 /\ Head(s) = s[1]
        /\ DOMAIN s = 1 .. Len(s) /\ DOMAIN Tail(s) = 1 .. Len(s) - 1
        /\ \A i \in DOMAIN Tail(s) : Tail(s)[i] = s[i + 1]
    OBVIOUS
  <1>2. ASSUME NEW i \in DOMAIN Tail(s)
        PROVE  Depends[Tail(s)[i]] \subseteq M \cup {Tail(s)[j] : j \in 1 .. i - 1}
    <2>1. i + 1 \in DOMAIN s /\ Tail(s)[i] = s[i + 1]
      BY <1>1
    <2>2. Depends[s[i + 1]] \subseteq L \cup {s[j] : j \in 1 .. i}
      <3>1. i \in Int /\ (i + 1) - 1 = i
        BY <1>1
      <3> QED
        BY <2>1, <3>1, Zenon DEF OrderedOver
    <2>3. ASSUME NEW j \in 1 .. i PROVE s[j] \in M \cup {Tail(s)[k] : k \in 1 .. i - 1}
      <3>1. CASE j = 1
        BY <1>1, <3>1
      <3>2. CASE j # 1
        <4>1. j - 1 \in 1 .. i - 1 /\ j - 1 \in DOMAIN Tail(s) /\ s[j] = Tail(s)[j - 1]
          BY <1>1, <3>2
        <4> QED
          BY <4>1
      <3> QED
        BY <3>1, <3>2
    <2>4. {s[j] : j \in 1 .. i} \subseteq M \cup {Tail(s)[k] : k \in 1 .. i - 1}
      BY <2>3
    <2> QED
      BY <2>1, <2>2, <2>4
  <1>3. ASSUME NEW i \in DOMAIN s PROVE s[i] \in M \cup Elements(Tail(s))
    <2>1. CASE i = 1
      BY <1>1, <2>1
    <2>2. CASE i # 1
      <3>1. i - 1 \in DOMAIN Tail(s) /\ s[i] = Tail(s)[i - 1]
        BY <1>1, <2>2
      <3> QED
        BY <3>1 DEF Elements
    <2> QED
      BY <2>1, <2>2
  <1>4. Elements(Tail(s)) \subseteq Elements(s)
    <2>1. \A i \in DOMAIN Tail(s) : i + 1 \in DOMAIN s /\ Tail(s)[i] = s[i + 1]
      BY <1>1
    <2> QED
      BY <2>1 DEF Elements
  <1> QED
    BY <1>1, <1>2, <1>3, <1>4 DEF OrderedOver, Elements

\* What comes first depends on what is loaded already.
LEMMA OrderedHead ==
    ASSUME NEW s \in Seq(Apps), s # << >>, NEW L, OrderedOver(s, L)
    PROVE  Head(s) \in Apps /\ Head(s) \in Elements(s) /\ Depends[Head(s)] \subseteq L
  <1>1. 1 \in DOMAIN s /\ Head(s) = s[1] /\ s[1] \in Apps
    OBVIOUS
  <1>2. Depends[s[1]] \subseteq L \cup {s[j] : j \in 1 .. 0}
    BY <1>1 DEF OrderedOver
  <1> QED
    BY <1>1, <1>2 DEF Elements

-----------------------------------------------------------------------------
(* What every step but the end of a process keeps *)

\* No step of a process unloads an app or takes a migration back
Steady ==
    /\ code' = code /\ loaded \subseteq loaded'
    /\ \A a \in Apps : migrated'[a] >= migrated[a]

\* A call that does not move keeps its part of the invariant.
LEMMA CallKeeps ==
    ASSUME TypeInv, TypeInv', Steady, NEW c \in Callers, CallInv(c), call'[c] = call[c]
    PROVE  CallInv(c)'
  <1>1. call[c] \in CallRecords
    BY DEF TypeInv
  <1>2. call[c].pc \in {"extend", "setup", "mount", "upsert"} => OrderedOver(call[c].todo, loaded')
    BY OrderedMonotone DEF CallInv, Steady
  <1>3. ASSUME call[c].todo # << >> PROVE Next1(c) \in Apps /\ Next1(c)' = Next1(c)
    BY <1>1, <1>3 DEF CallRecords, Next1
  <1>4. ASSUME At(c, "mount") PROVE migrated'[Next1(c)'] >= code'.version[Next1(c)']
    <2>1. call[c].todo # << >> /\ migrated[Next1(c)] >= code.version[Next1(c)]
      BY <1>4 DEF CallInv, At
    <2>2. code.version[Next1(c)] \in Nat
      BY <1>3, <2>1, InstallsAssumption DEF TypeInv
    <2>3. migrated[Next1(c)] \in Nat /\ migrated'[Next1(c)] \in Nat
      BY <1>3, <2>1 DEF TypeInv
    <2> QED
      BY <1>3, <2>1, <2>2, <2>3 DEF Steady
  <1>5. At(c, "upsert") => Next1(c)' \in loaded'
    BY <1>3 DEF CallInv, Steady, At
  <1>6. /\ At(c, "lock") => call[c].app \in Apps
        /\ call[c].pc \in {"migrate", "stamp"} => call[c].app \in loaded'
        /\ call[c].pc \in {"setup", "mount", "upsert"} => call[c].todo # << >>
    BY DEF CallInv, Steady
  <1> QED
    BY <1>2, <1>4, <1>5, <1>6 DEF CallInv, At

\* Installs do not disturb a boot.
LEMMA BootKeeps ==
    ASSUME BootInv, UNCHANGED <<phase, todo, order>>, loaded \subseteq loaded'
    PROVE  BootInv'
  <1>1. OrderedOver(todo, loaded) => OrderedOver(todo, loaded')
    BY OrderedMonotone
  <1> QED
    BY <1>1 DEF BootInv

\* Migrating reaches the version of the release and never goes back.
LEMMA MigrateReaches ==
    ASSUME TypeInv, NEW a \in Apps, Migrate(a)
    PROVE  /\ migrated' \in [Apps -> Nat]
           /\ \A b \in Apps : migrated'[b] >= migrated[b]
           /\ migrated'[a] >= code.version[a]
  <1>1. code.version \in [Apps -> Nat] /\ migrated \in [Apps -> Nat]
    BY InstallsAssumption DEF TypeInv
  <1> QED
    BY <1>1 DEF Migrate

\* What is loaded stays migrated, if what comes in is.
LEMMA MigratedKeeps ==
    ASSUME TypeInv, TypeInv', Steady, MigratedInv,
           \A a \in loaded' : a \in loaded \/ migrated'[a] >= code.version[a]
    PROVE  MigratedInv'
  <1> SUFFICES ASSUME NEW a \in loaded' PROVE migrated'[a] >= code.version[a]
    BY DEF MigratedInv, Steady
  <1>1. a \in Apps /\ migrated[a] \in Nat /\ migrated'[a] \in Nat /\ code.version[a] \in Nat
    BY InstallsAssumption DEF TypeInv
  <1> QED
    BY <1>1 DEF MigratedInv, Steady

\* Stamps stay behind the migrations, if new ones are.
LEMMA StampsKeep ==
    ASSUME TypeInv, TypeInv', Steady, StampedIsMigrated,
           \A a \in Apps : table'[a] \in {table[a], None} \/ migrated'[a] >= table'[a]
    PROVE  StampedIsMigrated'
  <1> SUFFICES ASSUME NEW a \in Apps, table'[a] # None PROVE migrated'[a] >= table'[a]
    BY DEF StampedIsMigrated
  <1>1. migrated[a] \in Nat /\ migrated'[a] \in Nat /\ table'[a] \in Nat
    BY DEF TypeInv
  <1> QED
    BY <1>1 DEF StampedIsMigrated, Steady

\* A step of one call, whatever it does, keeps the invariant if it keeps the part of
\* the call, of what it loads and of what it stamps.
LEMMA CallStepKeeps ==
    ASSUME IInv, TypeInv', Steady, UNCHANGED <<phase, todo, order>>, NEW c \in Callers,
           \A d \in Callers \ {c} : call'[d] = call[d], CallInv(c)',
           DependsLoaded',
           \A a \in loaded' : a \in loaded \/ migrated'[a] >= code.version[a],
           \A a \in Apps : table'[a] \in {table[a], None} \/ migrated'[a] >= table'[a]
    PROVE  IInv'
  <1>1. \A d \in Callers : CallInv(d)'
    BY CallKeeps DEF IInv
  <1>2. BootInv'
    BY BootKeeps DEF IInv, Steady
  <1>3. MigratedInv' /\ StampedIsMigrated'
    BY MigratedKeeps, StampsKeep DEF IInv
  <1> QED
    BY <1>1, <1>2, <1>3 DEF IInv

-----------------------------------------------------------------------------
(* The steps of a call *)

Others(c) == \A d \in Callers \ {c} : call'[d] = call[d]

\* Goto changes the step of one call.
LEMMA GotoMoves ==
    ASSUME TypeInv, NEW c \in Callers, NEW pc \in Pcs, Goto(c, pc)
    PROVE  /\ call' \in [Callers -> CallRecords] /\ Others(c)
           /\ call'[c].pc = pc /\ call'[c].app = call[c].app /\ call'[c].todo = call[c].todo
  BY DEF TypeInv, Goto, CallRecords, Others

\* Return makes one call idle.
LEMMA ReturnMoves ==
    ASSUME TypeInv, NEW c \in Callers, Return(c)
    PROVE  /\ call' \in [Callers -> CallRecords] /\ Others(c)
           /\ call'[c] = Idle /\ Idle.pc = "idle" /\ CallInv(c)'
  <1>1. Idle \in CallRecords /\ Idle.pc = "idle"
    BY DEF Idle, CallRecords, Pcs
  <1>2. call' \in [Callers -> CallRecords] /\ Others(c) /\ call'[c] = Idle
    BY <1>1 DEF TypeInv, Return, Others
  <1> QED
    BY <1>1, <1>2 DEF CallInv, At

\* The calls that only move themselves: they load and stamp nothing.
LEMMA MoveKeeps ==
    ASSUME IInv, NEW c \in Callers, Others(c), CallInv(c)', call' \in [Callers -> CallRecords],
           UNCHANGED <<code, table, migrated, phase, todo, order, loaded>>
    PROVE  IInv'
  <1>1. TypeInv'
    BY DEF IInv, TypeInv
  <1>2. \A a \in Apps : migrated[a] \in Nat
    BY DEF IInv, TypeInv
  <1>3. Steady
    BY <1>2 DEF Steady
  <1>4. DependsLoaded'
    BY DEF IInv, DependsLoaded
  <1> QED
    BY <1>1, <1>3, <1>4, CallStepKeeps DEF Others

LEMMA RequestStep ==
    ASSUME IInv, NEW c \in Callers, NEW a \in Apps, NEW op \in {"install", "upgrade"},
           Request(c, op, a)
    PROVE  IInv'
  <1>1. PICK r : r = [Idle EXCEPT !.pc = "lock", !.op = op, !.app = a]
    OBVIOUS
  <1>2. r \in CallRecords /\ r.pc = "lock" /\ r.app = a
    <2>1. r = [pc |-> "lock", op |-> op, app |-> a, todo |-> << >>]
      BY <1>1 DEF Idle
    <2>2. << >> \in Seq(Apps)
      OBVIOUS
    <2> QED
      BY <2>1, <2>2 DEF CallRecords, Pcs
  <1>3. call' = [call EXCEPT ![c] = r] /\ call \in [Callers -> CallRecords]
    BY <1>1 DEF Request, IInv, TypeInv
  <1>4. CallInv(c)'
    BY <1>2, <1>3 DEF CallInv, At
  <1> QED
    BY <1>2, <1>3, <1>4, MoveKeeps DEF Request, Others, store, boot, host

LEMMA LockStep ==
    ASSUME IInv, NEW c \in Callers, Lock(c)
    PROVE  IInv'
  <1>1. TypeInv /\ call[c].app \in Apps /\ call[c] \in CallRecords
    BY DEF IInv, TypeInv, CallInv, Lock, At
  <1>2. CASE Return(c)
    BY <1>1, <1>2, ReturnMoves, MoveKeeps DEF Lock, store, boot, host
  <1>3. ASSUME NEW pc \in {"migrate", "stamp"}, call[c].app \in loaded, Goto(c, pc)
        PROVE  IInv'
    <2>1. /\ call' \in [Callers -> CallRecords] /\ Others(c)
          /\ call'[c].pc = pc /\ call'[c].app = call[c].app
      BY <1>1, <1>3, GotoMoves DEF Pcs
    <2>2. CallInv(c)'
      BY <1>3, <2>1 DEF CallInv, At, Lock, host
    <2> QED
      BY <2>1, <2>2, MoveKeeps DEF Lock, store, boot, host
  <1>4. ASSUME NEW s \in TopoSort[Closure[{call[c].app}]],
               call' = [call EXCEPT ![c].pc = "extend", ![c].todo = s]
        PROVE  IInv'
    <2>1. Closure[{call[c].app}] \in SUBSET Apps /\ Closed(Closure[{call[c].app}])
      BY <1>1, ClosureClosed
    <2>2. s \in Seq(Apps) /\ OrderedOver(s, loaded)
      BY <1>4, <2>1, TopoSortOrdered
    <2>3. call' \in [Callers -> CallRecords] /\ Others(c)
      BY <1>1, <1>4, <2>2 DEF TypeInv, CallRecords, Pcs, Others
    <2>4. call'[c].pc = "extend" /\ call'[c].todo = s
      BY <1>1, <1>4 DEF TypeInv, CallRecords
    <2>5. CallInv(c)'
      BY <2>2, <2>4 DEF CallInv, At, Lock, host
    <2> QED
      BY <2>3, <2>5, MoveKeeps DEF Lock, store, boot, host
  <1>5. PICK refused \in BOOLEAN :
          CASE refused -> Return(c)
            [] ~refused /\ call[c].app \in loaded ->
                   Goto(c, IF call[c].op = "upgrade" THEN "migrate" ELSE "stamp")
            [] ~refused /\ call[c].app \notin loaded ->
                   \E s \in TopoSort[Closure[{call[c].app}]] :
                       call' = [call EXCEPT ![c].pc = "extend", ![c].todo = s]
    BY Zenon DEF Lock
  <1>6. CASE refused
    BY <1>2, <1>5, <1>6
  <1>7. CASE ~refused /\ call[c].app \in loaded
    BY <1>3, <1>5, <1>7
  <1>8. CASE ~refused /\ call[c].app \notin loaded
    BY <1>4, <1>5, <1>8
  <1> QED
    BY <1>6, <1>7, <1>8

LEMMA SkipStep ==
    ASSUME IInv, NEW c \in Callers, Skip(c)
    PROVE  IInv'
  <1>1. /\ call \in [Callers -> CallRecords] /\ call[c].todo \in Seq(Apps)
        /\ call[c].todo # << >> /\ Head(call[c].todo) \in loaded
        /\ OrderedOver(call[c].todo, loaded) /\ call[c].pc = "extend"
    BY DEF IInv, TypeInv, CallRecords, CallInv, Skip, At, Next1
  <1>2. Tail(call[c].todo) \in Seq(Apps) /\ OrderedOver(Tail(call[c].todo), loaded)
    BY <1>1, OrderedTail
  <1>3. call' \in [Callers -> CallRecords] /\ Others(c)
    BY <1>1, <1>2 DEF Skip, CallRecords, Others
  <1>4. call'[c].pc = "extend" /\ call'[c].todo = Tail(call[c].todo)
    BY <1>1 DEF Skip, CallRecords
  <1>5. CallInv(c)'
    BY <1>2, <1>4 DEF CallInv, At, Skip, host
  <1> QED
    BY <1>3, <1>5, MoveKeeps DEF Skip, store, boot, host

LEMMA ExtendStep ==
    ASSUME IInv, NEW c \in Callers, Extend(c)
    PROVE  IInv'
  <1>1. TypeInv /\ call[c].todo # << >> /\ OrderedOver(call[c].todo, loaded)
    BY DEF IInv, CallInv, Extend, At
  <1>2. /\ call' \in [Callers -> CallRecords] /\ Others(c)
        /\ call'[c].pc = "setup" /\ call'[c].todo = call[c].todo
    BY <1>1, GotoMoves DEF Extend, Pcs
  <1>3. CallInv(c)'
    BY <1>1, <1>2 DEF CallInv, At, Extend, host
  <1> QED
    BY <1>2, <1>3, MoveKeeps DEF Extend, store, boot, host

LEMMA EndStep ==
    ASSUME IInv, NEW c \in Callers, SetupPanics(c) \/ Installed(c)
    PROVE  IInv'
  <1>1. Return(c) /\ UNCHANGED <<code, table, migrated, phase, todo, order, loaded>>
    BY DEF SetupPanics, Installed, store, boot, host
  <1> QED
    BY <1>1, ReturnMoves, MoveKeeps DEF IInv

\* Setup migrates the app before it can be loaded.
LEMMA SetupStep ==
    ASSUME IInv, NEW c \in Callers, Setup(c)
    PROVE  IInv'
  <1>1. /\ TypeInv /\ call[c].todo \in Seq(Apps) /\ call[c].todo # << >>
        /\ OrderedOver(call[c].todo, loaded)
    BY DEF IInv, TypeInv, CallRecords, CallInv, Setup, At
  <1>2. Next1(c) \in Apps
    BY <1>1, OrderedHead DEF Next1
  <1>3. /\ migrated' \in [Apps -> Nat]
        /\ \A b \in Apps : migrated'[b] >= migrated[b]
        /\ migrated'[Next1(c)] >= code.version[Next1(c)]
    BY <1>1, <1>2, MigrateReaches DEF Setup
  <1>4. /\ call' \in [Callers -> CallRecords] /\ Others(c)
        /\ call'[c].pc = "mount" /\ call'[c].todo = call[c].todo
    BY <1>1, GotoMoves DEF Setup, Pcs
  <1>5. UNCHANGED <<code, table, phase, todo, order, loaded>>
    BY DEF Setup, boot
  <1>6. TypeInv' /\ Steady
    BY <1>1, <1>3, <1>4, <1>5 DEF TypeInv, Steady
  <1>7. CallInv(c)'
    BY <1>1, <1>3, <1>4, <1>5 DEF CallInv, At, Next1
  <1>8. DependsLoaded'
    BY <1>5 DEF IInv, DependsLoaded
  <1> QED
    BY <1>4, <1>5, <1>6, <1>7, <1>8, CallStepKeeps DEF Others

\* Mount loads the app, whose dependencies are loaded.
LEMMA MountStep ==
    ASSUME IInv, NEW c \in Callers, Mount(c)
    PROVE  IInv'
  <1>1. /\ TypeInv /\ call[c].todo \in Seq(Apps) /\ call[c].todo # << >>
        /\ OrderedOver(call[c].todo, loaded)
        /\ migrated[Next1(c)] >= code.version[Next1(c)]
    BY DEF IInv, TypeInv, CallRecords, CallInv, Mount, At
  <1>2. Next1(c) \in Apps /\ Depends[Next1(c)] \subseteq loaded
    BY <1>1, OrderedHead DEF Next1
  <1>3. /\ call' \in [Callers -> CallRecords] /\ Others(c)
        /\ call'[c].pc = "upsert" /\ call'[c].todo = call[c].todo
    BY <1>1, GotoMoves DEF Mount, Pcs
  <1>4. UNCHANGED <<code, table, migrated, phase, todo, order>> /\ loaded' = loaded \cup {Next1(c)}
    BY DEF Mount, store, boot
  <1>5. TypeInv'
    BY <1>1, <1>2, <1>3, <1>4 DEF TypeInv
  <1>6. Steady
    BY <1>1, <1>4 DEF TypeInv, Steady
  <1>7. OrderedOver(call[c].todo, loaded')
    BY <1>1, <1>4, OrderedMonotone
  <1>8. CallInv(c)'
    BY <1>1, <1>3, <1>4, <1>7 DEF CallInv, At, Next1
  <1>9. DependsLoaded'
    BY <1>2, <1>4 DEF IInv, DependsLoaded, Closed
  <1> QED
    BY <1>1, <1>3, <1>4, <1>5, <1>6, <1>8, <1>9, CallStepKeeps DEF Others

\* Upsert stamps an app that is loaded, hence migrated.
LEMMA UpsertStep ==
    ASSUME IInv, NEW c \in Callers, Upsert(c)
    PROVE  IInv'
  <1>1. /\ TypeInv /\ call[c] \in CallRecords /\ call[c].todo \in Seq(Apps) /\ call[c].todo # << >>
        /\ OrderedOver(call[c].todo, loaded) /\ Head(call[c].todo) \in loaded
    BY DEF IInv, TypeInv, CallRecords, CallInv, Upsert, At, Next1
  <1>2. Next1(c) \in Apps /\ migrated[Next1(c)] >= code.version[Next1(c)]
    BY <1>1 DEF IInv, MigratedInv, TypeInv, Next1
  <1>3. Tail(call[c].todo) \in Seq(Apps) /\ OrderedOver(Tail(call[c].todo), loaded)
    BY <1>1, OrderedTail
  <1>4. call' \in [Callers -> CallRecords] /\ Others(c)
    BY <1>1, <1>3 DEF Upsert, TypeInv, CallRecords, Pcs, Others
  <1>5. call'[c].pc = "extend" /\ call'[c].todo = Tail(call[c].todo)
    BY <1>1 DEF Upsert, TypeInv, CallRecords
  <1>6. /\ UNCHANGED <<code, migrated, phase, todo, order, loaded>>
        /\ table' = [table EXCEPT ![Next1(c)] = code.version[Next1(c)]]
    BY DEF Upsert, boot, host
  <1>7. code.version[Next1(c)] \in Nat
    BY <1>1, <1>2, InstallsAssumption DEF TypeInv
  <1>8. TypeInv' /\ Steady
    <2>1. table' \in [Apps -> Nat \cup {None}]
      BY <1>1, <1>6, <1>7 DEF TypeInv
    <2>2. \A a \in Apps : migrated[a] \in Nat
      BY <1>1 DEF TypeInv
    <2> QED
      BY <1>1, <1>4, <1>6, <2>1, <2>2 DEF TypeInv, Steady
  <1>9. CallInv(c)'
    BY <1>3, <1>5, <1>6 DEF CallInv, At
  <1>10. DependsLoaded'
    BY <1>6 DEF IInv, DependsLoaded
  <1>11. \A a \in Apps : table'[a] = table[a] \/ migrated'[a] >= table'[a]
    BY <1>1, <1>2, <1>6 DEF TypeInv
  <1> QED
    BY <1>4, <1>6, <1>8, <1>9, <1>10, <1>11, CallStepKeeps DEF Others

\* Upgrade migrates an app that is loaded,
LEMMA MigrateLoadedStep ==
    ASSUME IInv, NEW c \in Callers, MigrateLoaded(c)
    PROVE  IInv'
  <1>1. TypeInv /\ call[c].app \in loaded /\ call[c].app \in Apps
    BY DEF IInv, TypeInv, CallInv, MigrateLoaded, At
  <1>2. migrated' \in [Apps -> Nat] /\ \A b \in Apps : migrated'[b] >= migrated[b]
    BY <1>1, MigrateReaches DEF MigrateLoaded
  <1>3. /\ call' \in [Callers -> CallRecords] /\ Others(c)
        /\ call'[c].pc = "stamp" /\ call'[c].app = call[c].app
    BY <1>1, GotoMoves DEF MigrateLoaded, Pcs
  <1>4. UNCHANGED <<code, table, phase, todo, order, loaded>>
    BY DEF MigrateLoaded, boot, host
  <1>5. TypeInv' /\ Steady
    BY <1>1, <1>2, <1>3, <1>4 DEF TypeInv, Steady
  <1>6. CallInv(c)'
    BY <1>1, <1>3, <1>4 DEF CallInv, At
  <1>7. DependsLoaded'
    BY <1>4 DEF IInv, DependsLoaded
  <1> QED
    BY <1>3, <1>4, <1>5, <1>6, <1>7, CallStepKeeps DEF Others

\* and then stamps it.
LEMMA StampStep ==
    ASSUME IInv, NEW c \in Callers, Stamp(c)
    PROVE  IInv'
  <1>1. TypeInv /\ call[c].app \in loaded /\ call[c].app \in Apps
    BY DEF IInv, TypeInv, CallInv, Stamp, At
  <1>2. migrated[call[c].app] >= code.version[call[c].app] /\ code.version[call[c].app] \in Nat
    BY <1>1, InstallsAssumption DEF IInv, MigratedInv, TypeInv
  <1>3. call' \in [Callers -> CallRecords] /\ Others(c) /\ CallInv(c)'
    BY <1>1, ReturnMoves DEF Stamp
  <1>4. /\ UNCHANGED <<code, migrated, phase, todo, order, loaded>>
        /\ table' = [table EXCEPT ![call[c].app] = code.version[call[c].app]]
    BY DEF Stamp, boot, host
  <1>5. TypeInv' /\ Steady
    BY <1>1, <1>2, <1>3, <1>4 DEF TypeInv, Steady
  <1>6. DependsLoaded'
    BY <1>4 DEF IInv, DependsLoaded
  <1>7. \A a \in Apps : table'[a] = table[a] \/ migrated'[a] >= table'[a]
    BY <1>1, <1>2, <1>4 DEF TypeInv
  <1> QED
    BY <1>3, <1>4, <1>5, <1>6, <1>7, CallStepKeeps DEF Others

\* A call that fails leaves what it did; that may be a migration.
LEMMA CallFailsStep ==
    ASSUME IInv, NEW c \in Callers, CallFails(c)
    PROVE  IInv'
  <1>1. TypeInv /\ \A a \in Apps : migrated[a] \in Nat
    BY DEF IInv, TypeInv
  <1>2. call' \in [Callers -> CallRecords] /\ Others(c) /\ CallInv(c)'
    BY <1>1, ReturnMoves DEF CallFails
  <1>3. UNCHANGED <<code, table, phase, todo, order, loaded>>
    BY DEF CallFails, boot
  <1>4. migrated' \in [Apps -> Nat] /\ \A b \in Apps : migrated'[b] >= migrated[b]
    <2>1. CASE UNCHANGED migrated
      BY <1>1, <2>1 DEF TypeInv
    <2>2. CASE At(c, "setup") /\ Migrate(Next1(c))
      <3>1. /\ call[c].todo \in Seq(Apps) /\ call[c].todo # << >>
            /\ OrderedOver(call[c].todo, loaded)
        BY <2>2 DEF IInv, TypeInv, CallRecords, CallInv, At
      <3>2. Next1(c) \in Apps
        BY <3>1, OrderedHead DEF Next1
      <3> QED
        BY <1>1, <2>2, <3>2, MigrateReaches
    <2> QED
      BY <2>1, <2>2 DEF CallFails
  <1>5. TypeInv' /\ Steady
    BY <1>1, <1>2, <1>3, <1>4 DEF TypeInv, Steady
  <1>6. DependsLoaded'
    BY <1>3 DEF IInv, DependsLoaded
  <1> QED
    BY <1>2, <1>3, <1>5, <1>6, CallStepKeeps DEF Others

-----------------------------------------------------------------------------
(* The steps of a boot *)

\* A boot that goes on leaves the calls where they are.
LEMMA BootStepKeeps ==
    ASSUME IInv, TypeInv', Steady, UNCHANGED call, BootInv', DependsLoaded',
           \A a \in loaded' : a \in loaded \/ migrated'[a] >= code.version[a],
           \A a \in Apps : table'[a] \in {table[a], None} \/ migrated'[a] >= table'[a]
    PROVE  IInv'
  <1>1. \A d \in Callers : CallInv(d)'
    BY CallKeeps DEF IInv
  <1>2. MigratedInv' /\ StampedIsMigrated'
    BY MigratedKeeps, StampsKeep DEF IInv
  <1> QED
    BY <1>1, <1>2 DEF IInv

\* The apps a boot wants are apps.
LEMMA WantedApps ==
    ASSUME TypeInv, NEW list \in EnvLists
    PROVE  /\ Selected(Wanted(list)) \in SUBSET Apps
           /\ Wanted(list) \subseteq Selected(Wanted(list))
  <1>1. Wanted(list) \in SUBSET Apps /\ code.compiled \in SUBSET Apps
    BY InstallsAssumption DEF TypeInv, Wanted, Kept, Known
  <1> QED
    BY <1>1 DEF Selected

LEMMA BeginStep ==
    ASSUME IInv, NEW list \in EnvLists, Begin(list)
    PROVE  IInv'
  <1>1. TypeInv
    BY DEF IInv
  <1> DEFINE all == Closure[Selected(Wanted(list))]
  <1>2. all \in SUBSET Apps /\ Closed(all)
    BY <1>1, WantedApps, ClosureClosed
  <1>3. PICK s \in TopoSort[all] : order' = s /\ todo' = s
    BY DEF Begin
  <1>4. s \in Seq(Apps) /\ OrderedOver(s, loaded)
    BY <1>2, <1>3, TopoSortOrdered
  <1>5. UNCHANGED <<code, migrated, loaded, call>> /\ phase' = "setup"
    BY DEF Begin, host
  <1>6. \A a \in Apps : table'[a] \in {table[a], None}
    BY <1>1 DEF Begin, TypeInv
  <1>7. table' \in [Apps -> Nat \cup {None}]
    BY <1>1 DEF Begin, TypeInv
  <1>8. TypeInv' /\ Steady
    BY <1>1, <1>3, <1>4, <1>5, <1>7 DEF TypeInv, Steady, Phases
  <1>9. BootInv'
    BY <1>3, <1>4, <1>5 DEF BootInv
  <1>10. DependsLoaded'
    BY <1>5 DEF IInv, DependsLoaded
  <1> QED
    BY <1>5, <1>6, <1>8, <1>9, <1>10, BootStepKeeps

\* Done goes to the next app, or to the first of the next phase.
LEMMA DoneMoves ==
    ASSUME TypeInv, todo # << >>, NEW next, Done(next)
    PROVE  \/ phase' = next /\ todo' = order /\ Tail(todo) = << >>
           \/ phase' = phase /\ todo' = Tail(todo) /\ Tail(todo) # << >>
  <1>1. todo \in Seq(Apps) /\ Len(todo) \in Nat /\ Len(todo) # 0 /\ Len(Tail(todo)) = Len(todo) - 1
    BY DEF TypeInv
  <1>2. Tail(todo) \in Seq(Apps) /\ (Tail(todo) = << >> <=> Len(Tail(todo)) = 0)
    BY <1>1
  <1> QED
    BY <1>1, <1>2 DEF Done

\* An app is set up after all it depends on, and migrated when it is loaded.
LEMMA BootSetupStep ==
    ASSUME IInv, BootSetup
    PROVE  IInv'
  <1>1. /\ TypeInv /\ todo \in Seq(Apps) /\ todo # << >> /\ OrderedOver(todo, loaded)
        /\ Elements(order) \subseteq loaded \cup Elements(todo) /\ order # << >>
        /\ phase = "setup"
    BY DEF IInv, TypeInv, BootInv, BootSetup
  <1>2. Head(todo) \in Apps /\ Depends[Head(todo)] \subseteq loaded
    BY <1>1, OrderedHead
  <1>3. /\ migrated' \in [Apps -> Nat]
        /\ \A b \in Apps : migrated'[b] >= migrated[b]
        /\ migrated'[Head(todo)] >= code.version[Head(todo)]
    BY <1>1, <1>2, MigrateReaches DEF BootSetup
  <1>4. UNCHANGED <<code, table, order, call>> /\ loaded' = loaded \cup {Head(todo)}
    BY DEF BootSetup
  <1>5. /\ Tail(todo) \in Seq(Apps) /\ OrderedOver(Tail(todo), loaded')
        /\ Elements(todo) \subseteq loaded' \cup Elements(Tail(todo))
    BY <1>1, <1>4, OrderedTail
  <1>6. \/ phase' = "start" /\ todo' = order /\ Tail(todo) = << >>
        \/ phase' = "setup" /\ todo' = Tail(todo) /\ Tail(todo) # << >>
    BY <1>1, DoneMoves DEF BootSetup
  <1>7. TypeInv' /\ Steady
    BY <1>1, <1>2, <1>3, <1>4, <1>5, <1>6 DEF TypeInv, Steady, Phases
  <1>8. Elements(<< >>) = {}
    BY DEF Elements
  <1>9. BootInv'
    BY <1>1, <1>4, <1>5, <1>6, <1>8 DEF BootInv
  <1>10. DependsLoaded'
    BY <1>2, <1>4 DEF IInv, DependsLoaded, Closed
  <1> QED
    BY <1>3, <1>4, <1>7, <1>9, <1>10, BootStepKeeps

\* After the last Setup every app of the boot is loaded, and stays so.
LEMMA LoadedBootKeeps ==
    ASSUME IInv, phase \in {"start", "mount", "sync"}, NEW next \in {"mount", "sync", "up"},
           Done(next), UNCHANGED <<order, loaded>>
    PROVE  /\ BootInv' /\ phase' \in Phases /\ todo' \in Seq(Apps)
           /\ Head(todo) \in loaded
  <1>1. /\ TypeInv /\ todo \in Seq(Apps) /\ order \in Seq(Apps) /\ phase \in Phases
        /\ todo # << >> /\ order # << >> /\ Elements(order) \cup Elements(todo) \subseteq loaded
    BY DEF IInv, TypeInv, BootInv
  <1>2. /\ Tail(todo) \in Seq(Apps)
        /\ \A i \in DOMAIN Tail(todo) : i + 1 \in DOMAIN todo /\ Tail(todo)[i] = todo[i + 1]
        /\ 1 \in DOMAIN todo /\ Head(todo) = todo[1]
    BY <1>1
  <1>3. Elements(Tail(todo)) \subseteq Elements(todo) /\ Head(todo) \in Elements(todo)
    BY <1>2 DEF Elements
  <1>4. \/ phase' = next /\ todo' = order
        \/ phase' = phase /\ todo' = Tail(todo) /\ Tail(todo) # << >>
    BY <1>1, DoneMoves
  <1>5. phase' \in Phases \ {"setup"}
    BY <1>4 DEF Phases
  <1> QED
    BY <1>1, <1>2, <1>3, <1>4, <1>5 DEF BootInv

LEMMA BootRestStep ==
    ASSUME IInv, BootStart \/ BootMount
    PROVE  IInv'
  <1>1. /\ TypeInv /\ UNCHANGED <<code, table, migrated, order, loaded, call>>
        /\ phase \in {"start", "mount"} /\ (Done("mount") \/ Done("sync"))
    BY DEF IInv, BootStart, BootMount, store, host
  <1>2. BootInv' /\ phase' \in Phases /\ todo' \in Seq(Apps)
    BY <1>1, LoadedBootKeeps
  <1>3. TypeInv' /\ Steady
    BY <1>1, <1>2 DEF TypeInv, Steady
  <1>4. DependsLoaded'
    BY <1>1 DEF IInv, DependsLoaded
  <1> QED
    BY <1>1, <1>2, <1>3, <1>4, BootStepKeeps

\* SyncLoaded stamps what is loaded.
LEMMA SyncLoadedStep ==
    ASSUME IInv, SyncLoaded
    PROVE  IInv'
  <1>1. /\ TypeInv /\ UNCHANGED <<code, migrated, order, loaded, call>>
        /\ phase = "sync" /\ Done("up")
    BY DEF IInv, SyncLoaded, host
  <1>2. BootInv' /\ phase' \in Phases /\ todo' \in Seq(Apps) /\ Head(todo) \in loaded
    BY <1>1, LoadedBootKeeps
  <1>3. /\ Head(todo) \in Apps /\ code.version[Head(todo)] \in Nat
        /\ migrated[Head(todo)] >= code.version[Head(todo)]
    BY <1>1, <1>2, InstallsAssumption DEF IInv, TypeInv, MigratedInv
  <1>4. table' = [table EXCEPT ![Head(todo)] =
                     IF @ = None THEN code.version[Head(todo)] ELSE @]
    BY DEF SyncLoaded
  <1>5. table' \in [Apps -> Nat \cup {None}]
    BY <1>1, <1>3, <1>4 DEF TypeInv
  <1>6. \A a \in Apps : table'[a] = table[a] \/ migrated'[a] >= table'[a]
    BY <1>1, <1>3, <1>4 DEF TypeInv
  <1>7. \A a \in Apps : migrated[a] \in Nat
    BY <1>1 DEF TypeInv
  <1>8. TypeInv' /\ Steady
    BY <1>1, <1>2, <1>5, <1>7 DEF TypeInv, Steady
  <1>9. DependsLoaded'
    BY <1>1 DEF IInv, DependsLoaded
  <1> QED
    BY <1>1, <1>2, <1>6, <1>8, <1>9, BootStepKeeps

-----------------------------------------------------------------------------
(* The end of a process *)

\* A process that is down has loaded nothing; stamps and migrations are stored.
LEMMA DownKeeps ==
    ASSUME IInv, Down, code' \in Releases, migrated' = migrated,
           table' \in [Apps -> Nat \cup {None}],
           \A a \in Apps : table'[a] \in {table[a], None}
    PROVE  IInv'
  <1>1. << >> \in Seq(Apps)
    OBVIOUS
  <1>2. Idle \in CallRecords /\ Idle.pc = "idle"
    BY <1>1 DEF Idle, CallRecords, Pcs
  <1>3. /\ phase' = "down" /\ todo' = << >> /\ order' = << >> /\ loaded' = {}
        /\ call' = [c \in Callers |-> Idle]
    BY DEF Down
  <1>4. TypeInv'
    BY <1>1, <1>2, <1>3 DEF IInv, TypeInv, Phases
  <1>5. DependsLoaded' /\ MigratedInv' /\ BootInv'
    BY <1>3 DEF DependsLoaded, Closed, MigratedInv, BootInv
  <1>6. StampedIsMigrated'
    BY DEF IInv, StampedIsMigrated
  <1>7. \A c \in Callers : CallInv(c)'
    BY <1>2, <1>3 DEF CallInv, At
  <1> QED
    BY <1>4, <1>5, <1>6, <1>7 DEF IInv

LEMMA BootFailsStep ==
    ASSUME IInv, BootFails
    PROVE  IInv'
  <1>1. TypeInv /\ Down /\ code' = code /\ migrated' = migrated
    BY DEF IInv, BootFails
  <1>2. \/ table' = table
        \/ \E gone \in SUBSET Apps : table' = [a \in Apps |-> IF a \in gone THEN None ELSE table[a]]
    BY DEF BootFails
  <1>3. table' \in [Apps -> Nat \cup {None}] /\ \A a \in Apps : table'[a] \in {table[a], None}
    BY <1>1, <1>2 DEF TypeInv
  <1> QED
    BY <1>1, <1>3, DownKeeps DEF TypeInv

LEMMA RestartStep ==
    ASSUME IInv, Restart
    PROVE  IInv'
  BY DownKeeps DEF IInv, TypeInv, Restart, store

-----------------------------------------------------------------------------
(* The theorems *)

LEMMA InvInit == Init => IInv
  <1> SUFFICES ASSUME Init PROVE IInv
    OBVIOUS
  <1>1. << >> \in Seq(Apps)
    OBVIOUS
  <1>2. Idle \in CallRecords /\ Idle.pc = "idle"
    BY <1>1 DEF Idle, CallRecords, Pcs
  <1>3. TypeInv
    BY <1>1, <1>2 DEF Init, TypeInv, Phases
  <1>4. DependsLoaded /\ MigratedInv /\ BootInv /\ StampedIsMigrated
    BY DEF Init, DependsLoaded, Closed, MigratedInv, BootInv, StampedIsMigrated
  <1>5. \A c \in Callers : CallInv(c)
    BY <1>2 DEF Init, CallInv, At
  <1> QED
    BY <1>3, <1>4, <1>5 DEF IInv

\* The invariant is inductive.
LEMMA InvStep == IInv /\ [Next]_vars => IInv'
  <1> SUFFICES ASSUME IInv, [Next]_vars PROVE IInv'
    OBVIOUS
  <1>1. CASE Boot \/ BootFails \/ Restart
    BY <1>1, BeginStep, BootSetupStep, BootRestStep, SyncLoadedStep, BootFailsStep, RestartStep
       DEF Boot
  <1>2. ASSUME NEW c \in Callers, CallStep(c) \/ CallFails(c) PROVE IInv'
    BY <1>2, LockStep, SkipStep, ExtendStep, SetupStep, EndStep, MountStep, UpsertStep,
       MigrateLoadedStep, StampStep, CallFailsStep DEF CallStep
  <1>3. ASSUME NEW c \in Callers, NEW a \in Apps, NEW op \in {"install", "upgrade"},
               Request(c, op, a)
        PROVE  IInv'
    BY <1>3, RequestStep
  <1>4. CASE UNCHANGED vars
    BY <1>4 DEF vars, IInv, TypeInv, DependsLoaded, MigratedInv, StampedIsMigrated, BootInv,
                CallInv, At, Next1
  <1> QED
    BY <1>1, <1>2, <1>3, <1>4 DEF Next

LEMMA InvHolds == Spec => []IInv
  BY InvInit, InvStep, PTL DEF Spec

\* An app never runs without the apps it depends on, however boots and installs
\* end.
THEOREM DependsAreLoaded == Spec => []DependsLoaded
  <1>1. IInv => DependsLoaded
    BY DEF IInv
  <1> QED
    BY <1>1, InvHolds, PTL

\* A stamped version is a migrated version, through all failures, restarts and
\* releases.
THEOREM StampsAreMigrated == Spec => []StampedIsMigrated
  <1>1. IInv => StampedIsMigrated
    BY DEF IInv
  <1> QED
    BY <1>1, InvHolds, PTL

-----------------------------------------------------------------------------
(* Upgrades stay visible *)

\* What an app needs to stay upgradable.
LEMMA StaysUpgradable ==
    ASSUME NEW a \in Apps, Upgradable(a), code' = code, table'[a] = table[a]
    PROVE  Upgradable(a)'
  BY DEF Upgradable

\* Only the call that is at an app stamps it.
LEMMA StampedByItsCall ==
    ASSUME IInv, NEW c \in Callers, CallStep(c) \/ CallFails(c), NEW a \in Apps,
           call[c].app # a, ~(call[c].todo # << >> /\ Next1(c) = a)
    PROVE  code' = code /\ table'[a] = table[a]
  <1>1. table \in [Apps -> Nat \cup {None}]
    BY DEF IInv, TypeInv
  <1>2. CASE Upsert(c)
    <2>1. call[c].todo # << >>
      BY <1>2 DEF IInv, CallInv, Upsert, At
    <2> QED
      BY <1>1, <1>2, <2>1 DEF Upsert
  <1>3. CASE Stamp(c)
    BY <1>1, <1>3 DEF Stamp
  <1>4. CASE Lock(c) \/ Skip(c) \/ Extend(c) \/ SetupPanics(c) \/ Installed(c)
    BY <1>4 DEF Lock, Skip, Extend, SetupPanics, Installed, store
  <1>5. CASE Setup(c) \/ Mount(c) \/ MigrateLoaded(c) \/ CallFails(c)
    BY <1>5 DEF Setup, Mount, MigrateLoaded, CallFails, store
  <1> QED
    BY <1>2, <1>3, <1>4, <1>5 DEF CallStep

\* A boot stamps what has no row, and removes rows of apps that are gone.
LEMMA BootKeepsStamps ==
    ASSUME IInv, Boot \/ BootFails, NEW a \in Apps, table[a] # None, a \in code.present
    PROVE  code' = code /\ table'[a] = table[a]
  <1>1. table \in [Apps -> Nat \cup {None}]
    BY DEF IInv, TypeInv
  <1>2. ASSUME NEW list \in EnvLists, Begin(list) PROVE code' = code /\ table'[a] = table[a]
    BY <1>1, <1>2 DEF Begin
  <1>3. CASE BootSetup \/ BootStart \/ BootMount
    BY <1>3 DEF BootSetup, BootStart, BootMount, store
  <1>4. CASE SyncLoaded
    BY <1>1, <1>4 DEF SyncLoaded
  <1>5. CASE BootFails
    BY <1>1, <1>5 DEF BootFails
  <1> QED
    BY <1>2, <1>3, <1>4, <1>5 DEF Boot

LEMMA UpgradeVisibleStep ==
    ASSUME IInv, [Next]_vars, NEW a \in Apps, Upgradable(a), ~Upgradable(a)', a \in code.present,
           \A c \in Callers : call[c].app # a /\ ~(call[c].todo # << >> /\ Next1(c) = a)
    PROVE  code' # code
  <1> SUFFICES ASSUME code' = code PROVE FALSE
    OBVIOUS
  <1>1. table'[a] # table[a]
    BY StaysUpgradable
  <1>2. ~(Boot \/ BootFails)
    BY <1>1, BootKeepsStamps DEF Upgradable
  <1>3. ~Restart
    BY <1>1 DEF Restart, store
  <1>4. \A c \in Callers : ~(CallStep(c) \/ CallFails(c))
    BY <1>1, StampedByItsCall
  <1>5. ~\E c \in Callers, b \in Apps, op \in {"install", "upgrade"} : Request(c, op, b)
    BY <1>1 DEF Request, store
  <1>6. ~UNCHANGED vars
    BY <1>1 DEF vars
  <1> QED
    BY <1>2, <1>3, <1>4, <1>5, <1>6 DEF Next

\* An app that can be upgraded stays so, whatever boots, fails or is installed
\* besides, until a call for it or a release changes that.
THEOREM UpgradesStayVisible == Spec => UpgradeStaysVisible
  <1>1. IInv /\ [Next]_vars =>
            [\A a \in Apps : Upgradable(a) /\ ~Upgradable(a)' =>
                code' # code \/ a \notin code.present \/ \E c \in Callers :
                    call[c].app = a \/ (call[c].todo # << >> /\ Next1(c) = a)]_vars
    BY UpgradeVisibleStep
  <1> QED
    BY <1>1, InvHolds, PTL DEF Spec, UpgradeStaysVisible

-----------------------------------------------------------------------------
(* What was installed comes back *)

Booting == {"setup", "start", "mount", "sync"}

\* What a boot has done so far and what it has still to do make up its list, which
\* holds all that is installed; nobody calls before it is over
BackInv ==
    /\ phase = "down" => loaded = {}
    /\ phase # "up" => \A c \in Callers : call[c].pc = "idle"
    /\ phase \in Booting =>
          /\ loaded \cup Elements(todo) \subseteq Elements(order)
          /\ env = {} => \A a \in Apps : table[a] # None /\ Known(a) => a \in Elements(order)
    /\ phase = "start" => Elements(order) \subseteq seeded \cup Elements(todo)
    /\ phase \in {"mount", "sync"} => Elements(order) \subseteq seeded
    /\ phase = "sync" => \A a \in Elements(order) \ Elements(todo) : table[a] # None

\* What an order of apps lists is what the boot wants and all it depends on.
LEMMA ClosureListed ==
    ASSUME NEW S \in SUBSET Apps, NEW s \in TopoSort[Closure[S]]
    PROVE  Elements(s) = Closure[S] /\ S \subseteq Elements(s)
  <1>1. Closure[S] \in SUBSET Apps
    BY ClosureClosed
  <1>2. s \in SetToSeqs(Closure[S]) /\ IsFiniteSet(Closure[S])
    BY <1>1, InstallsAssumption, FS_Subset DEF TopoSort
  <1>3. Elements(s) = Closure[S]
    BY <1>2, SeqsCover
  <1>4. S \subseteq Closure[S]
    BY DEF Closure
  <1> QED
    BY <1>3, <1>4

\* The head and the tail are all of a list.
LEMMA HeadAndTail ==
    ASSUME NEW s \in Seq(Apps), s # << >>
    PROVE  Elements(s) = {Head(s)} \cup Elements(Tail(s)) /\ Elements(<< >>) = {}
  <1>1. /\ 1 \in DOMAIN s /\ Head(s) = s[1]
        /\ \A i \in DOMAIN s : i = 1 \/ (i - 1 \in DOMAIN Tail(s) /\ s[i] = Tail(s)[i - 1])
        /\ \A i \in DOMAIN Tail(s) : i + 1 \in DOMAIN s /\ Tail(s)[i] = s[i + 1]
    OBVIOUS
  <1>2. ASSUME NEW i \in DOMAIN s PROVE s[i] \in {Head(s)} \cup Elements(Tail(s))
    BY <1>1 DEF Elements
  <1>3. Elements(Tail(s)) \subseteq Elements(s) /\ Head(s) \in Elements(s)
    BY <1>1 DEF Elements
  <1>4. Elements(s) \subseteq {Head(s)} \cup Elements(Tail(s))
    BY <1>2 DEF Elements
  <1>5. Elements(<< >>) = {}
    BY DEF Elements
  <1> QED
    BY <1>3, <1>4, <1>5

\* The first app of a phase is done: those still to do are the others, or all of the
\* next phase.
LEMMA DoneSplits ==
    ASSUME IInv, phase \in Booting, todo # << >>, NEW next, Done(next), order' = order
    PROVE  /\ Elements(todo) = {Head(todo)} \cup Elements(Tail(todo))
           /\ Elements(order)' = Elements(order)
           /\ \/ phase' = next /\ Elements(todo)' = Elements(order) /\ Elements(Tail(todo)) = {}
              \/ phase' = phase /\ Elements(todo)' = Elements(Tail(todo))
  <1>1. TypeInv /\ todo \in Seq(Apps)
    BY DEF IInv, TypeInv
  <1>2. \/ phase' = next /\ todo' = order /\ Tail(todo) = << >>
        \/ phase' = phase /\ todo' = Tail(todo)
    BY <1>1, DoneMoves
  <1> QED
    BY <1>1, <1>2, HeadAndTail DEF Elements

LEMMA BackBegin ==
    ASSUME IInv, BackInv, NEW list \in EnvLists, Begin(list)
    PROVE  BackInv'
  <1>1. /\ TypeInv /\ Selected(Wanted(list)) \in SUBSET Apps
        /\ Wanted(list) \subseteq Selected(Wanted(list))
    BY WantedApps DEF IInv
  <1>2. PICK s \in TopoSort[Closure[Selected(Wanted(list))]] : order' = s /\ todo' = s
    BY DEF Begin
  <1>3. Wanted(list) \subseteq Elements(s)
    BY <1>1, <1>2, ClosureListed
  <1>4. /\ phase' = "setup" /\ loaded' = {} /\ call' = call /\ code' = code /\ env' = list
        /\ phase = "down"
    BY DEF Begin, BackInv, host
  <1>5. ASSUME list = {}, NEW a \in Apps, table'[a] # None, Known(a) PROVE a \in Elements(s)
    <2>1. table[a] # None
      BY <1>1, <1>5 DEF Begin, TypeInv, Known
    <2>2. a \in Wanted(list)
      BY <1>5, <2>1 DEF Wanted, Kept, Known
    <2> QED
      BY <1>3, <2>2
  <1>6. \A a \in Apps : Known(a)' <=> Known(a)
    BY <1>4 DEF Known
  <1>7. Elements(order)' = Elements(s) /\ Elements(todo)' = Elements(s)
    BY <1>2 DEF Elements
  <1> QED
    BY <1>4, <1>5, <1>6, <1>7 DEF BackInv, Booting

\* The list of the boot goes on holding what is installed, if the table does not
\* change for other apps.
LEMMA ListKeeps ==
    ASSUME IInv, BackInv, phase \in Booting, UNCHANGED <<code, order, env>>,
           \A a \in Apps : a \in Elements(order) \/ table'[a] = table[a]
    PROVE  env' = {} => \A a \in Apps : table'[a] # None /\ Known(a)' => a \in Elements(order)'
  BY DEF BackInv, Known, Elements

LEMMA BackSetup ==
    ASSUME IInv, BackInv, BootSetup
    PROVE  BackInv'
  <1>1. /\ phase = "setup" /\ todo # << >> /\ Done("start")
        /\ loaded' = loaded \cup {Head(todo)}
        /\ UNCHANGED <<code, order, env, table, call>>
    BY DEF BootSetup
  <1>2. /\ Elements(todo) = {Head(todo)} \cup Elements(Tail(todo))
        /\ Elements(order)' = Elements(order)
        /\ \/ phase' = "start" /\ Elements(todo)' = Elements(order)
           \/ phase' = "setup" /\ Elements(todo)' = Elements(Tail(todo))
    BY <1>1, DoneSplits DEF Booting
  <1>3. loaded \cup Elements(todo) \subseteq Elements(order)
    BY <1>1 DEF BackInv, Booting
  <1>4. loaded' \cup Elements(todo)' \subseteq Elements(order)'
    BY <1>1, <1>2, <1>3
  <1>5. env' = {} => \A a \in Apps : table'[a] # None /\ Known(a)' => a \in Elements(order)'
    BY <1>1, ListKeeps DEF Booting
  <1>6. \A c \in Callers : call'[c].pc = "idle"
    BY <1>1 DEF BackInv
  <1> QED
    BY <1>2, <1>4, <1>5, <1>6 DEF BackInv

\* After the last startup hook the policies of all apps of the boot are there.
LEMMA BackRest ==
    ASSUME IInv, BackInv, BootStart \/ BootMount
    PROVE  BackInv'
  <1>1. /\ phase \in {"start", "mount"} /\ seeded \subseteq seeded'
        /\ UNCHANGED <<code, order, env, table, call, loaded>>
        /\ phase = "start" => Done("mount") /\ Head(todo) \in seeded'
        /\ phase = "mount" => Done("sync")
    BY DEF BootStart, BootMount, host, store
  <1>2. todo # << >>
    BY <1>1 DEF IInv, BootInv
  <1>3. /\ Elements(todo) = {Head(todo)} \cup Elements(Tail(todo))
        /\ Elements(order)' = Elements(order)
    BY <1>1, <1>2, DoneSplits DEF Booting
  <1>4. \/ phase = "start" /\ phase' = "mount" /\ Elements(todo)' = Elements(order)
           /\ Elements(Tail(todo)) = {}
        \/ phase = "mount" /\ phase' = "sync" /\ Elements(todo)' = Elements(order)
        \/ phase' = phase /\ Elements(todo)' = Elements(Tail(todo))
    BY <1>1, <1>2, DoneSplits DEF Booting
  <1>5. loaded' \cup Elements(todo)' \subseteq Elements(order)'
    BY <1>1, <1>3, <1>4 DEF BackInv, Booting
  <1>6. env' = {} => \A a \in Apps : table'[a] # None /\ Known(a)' => a \in Elements(order)'
    BY <1>1, ListKeeps DEF Booting
  <1>7. \A c \in Callers : call'[c].pc = "idle"
    BY <1>1 DEF BackInv
  <1>8. phase' = "start" => Elements(order)' \subseteq seeded' \cup Elements(todo)'
    BY <1>1, <1>3, <1>4 DEF BackInv
  <1>9. phase' \in {"mount", "sync"} => Elements(order)' \subseteq seeded'
    BY <1>1, <1>3, <1>4 DEF BackInv
  <1>10. phase' = "sync" => Elements(order)' \ Elements(todo)' = {}
    BY <1>1, <1>3, <1>4
  <1>11. phase' # "down"
    BY <1>1, <1>4
  <1> QED
    BY <1>5, <1>6, <1>7, <1>8, <1>9, <1>10, <1>11 DEF BackInv

\* What SyncLoaded does to the table of the boot's apps.
LEMMA SyncStamps ==
    ASSUME IInv, BackInv, SyncLoaded
    PROVE  /\ Head(todo) \in Apps /\ table'[Head(todo)] # None
           /\ \A a \in Apps \ {Head(todo)} : table'[a] = table[a]
           /\ \A a \in Apps : table[a] # None => table'[a] # None
           /\ Head(todo) \in Elements(order)
           /\ \A a \in Elements(order) \ Elements(Tail(todo)) : table'[a] # None
  <1>1. /\ TypeInv /\ todo \in Seq(Apps) /\ todo # << >> /\ phase = "sync"
        /\ Elements(todo) \subseteq Elements(order) /\ Elements(order) \subseteq loaded
    BY DEF IInv, TypeInv, BootInv, BackInv, Booting, SyncLoaded
  <1>2. Elements(todo) = {Head(todo)} \cup Elements(Tail(todo))
    BY <1>1, HeadAndTail
  <1>3. Head(todo) \in Apps /\ Elements(order) \subseteq Apps
    BY <1>1, <1>2 DEF TypeInv
  <1>4. code.version[Head(todo)] # None
    BY <1>1, <1>3, InstallsAssumption DEF TypeInv
  <1>5. /\ table'[Head(todo)] # None
        /\ \A a \in Apps \ {Head(todo)} : table'[a] = table[a]
    BY <1>1, <1>3, <1>4 DEF SyncLoaded, TypeInv
  <1>6. \A a \in Elements(order) \ Elements(todo) : table[a] # None
    BY <1>1 DEF BackInv
  <1> QED
    BY <1>1, <1>2, <1>3, <1>5, <1>6

LEMMA BackSync ==
    ASSUME IInv, BackInv, SyncLoaded
    PROVE  BackInv'
  <1>1. /\ phase = "sync" /\ Done("up") /\ UNCHANGED <<code, order, env, call, loaded, seeded>>
        /\ todo # << >>
    BY DEF SyncLoaded, host, IInv, BootInv
  <1>2. /\ Elements(todo) = {Head(todo)} \cup Elements(Tail(todo))
        /\ Elements(order)' = Elements(order)
        /\ \/ phase' = "up"
           \/ phase' = "sync" /\ Elements(todo)' = Elements(Tail(todo))
    BY <1>1, DoneSplits DEF Booting
  <1>3. env' = {} => \A a \in Apps : table'[a] # None /\ Known(a)' => a \in Elements(order)'
    BY <1>1, SyncStamps, ListKeeps DEF Booting
  <1>4. CASE phase' = "up"
    BY <1>4 DEF BackInv, Booting
  <1>5. CASE phase' = "sync" /\ Elements(todo)' = Elements(Tail(todo))
    <2>1. \A a \in Elements(order)' \ Elements(todo)' : table'[a] # None
      BY <1>2, <1>5, SyncStamps
    <2>2. loaded' \cup Elements(todo)' \subseteq Elements(order)'
      BY <1>1, <1>2, <1>5 DEF BackInv, Booting
    <2>3. Elements(order)' \subseteq seeded' /\ \A c \in Callers : call'[c].pc = "idle"
      BY <1>1, <1>2 DEF BackInv
    <2> QED
      BY <1>3, <1>5, <2>1, <2>2, <2>3 DEF BackInv
  <1> QED
    BY <1>2, <1>4, <1>5

\* The end of a process ends its calls.
LEMMA BackDown ==
    ASSUME Down
    PROVE  BackInv'
  <1>1. phase' = "down" /\ loaded' = {} /\ \A c \in Callers : call'[c].pc = "idle"
    BY DEF Down, Idle
  <1> QED
    BY <1>1 DEF BackInv, Booting

\* No call moves while a boot is under way.
LEMMA BackCall ==
    ASSUME IInv, BackInv, NEW c \in Callers,
           CallStep(c) \/ CallFails(c) \/ \E a \in Apps, op \in {"install", "upgrade"} : Request(c, op, a)
    PROVE  BackInv'
  <1>1. phase = "up"
    <2>1. phase = "up" \/ call[c].pc # "idle"
      BY Zenon DEF CallStep, CallFails, Request, At, Lock, Skip, Extend, Setup, SetupPanics, Mount,
             Upsert, Installed, MigrateLoaded, Stamp
    <2> QED
      BY <2>1 DEF BackInv
  <1>2. phase' = phase
    BY Zenon DEF CallStep, CallFails, Request, boot, Lock, Skip, Extend, Setup, SetupPanics, Mount,
           Upsert, Installed, MigrateLoaded, Stamp
  <1> QED
    BY <1>1, <1>2 DEF BackInv, Booting

LEMMA BackInit == Init => BackInv
  <1>1. Init => phase = "down" /\ loaded = {} /\ \A c \in Callers : call[c].pc = "idle"
    BY DEF Init, Idle
  <1> QED
    BY <1>1 DEF BackInv, Booting

LEMMA BackStep == IInv /\ BackInv /\ [Next]_vars => BackInv'
  <1> SUFFICES ASSUME IInv, BackInv, [Next]_vars PROVE BackInv'
    OBVIOUS
  <1>1. CASE Boot
    BY <1>1, BackBegin, BackSetup, BackRest, BackSync DEF Boot
  <1>2. CASE BootFails \/ Restart
    BY <1>2, BackDown DEF BootFails, Restart
  <1>3. CASE \E c \in Callers : \/ CallStep(c) \/ CallFails(c)
                                \/ \E a \in Apps, op \in {"install", "upgrade"} : Request(c, op, a)
    BY <1>3, BackCall
  <1>4. CASE UNCHANGED vars
    BY <1>4 DEF vars, BackInv, Elements, Known
  <1> QED
    BY <1>1, <1>2, <1>3, <1>4 DEF Next

LEMMA BackHolds == Spec => []BackInv
  <1>1. Init => BackInv
    BY BackInit
  <1>2. IInv /\ BackInv /\ [Next]_vars => BackInv'
    BY BackStep
  <1> QED
    BY <1>1, <1>2, InvHolds, PTL DEF Spec

\* Only the last step of SyncLoaded brings the platform up.
LEMMA SyncBringsUp ==
    ASSUME IInv, BackInv, [Next]_vars, phase = "sync", phase' = "up"
    PROVE  SyncLoaded
  <1>1. ~(BootFails \/ Restart)
    BY DEF BootFails, Restart, Down
  <1>2. \A c \in Callers : ~(CallStep(c) \/ CallFails(c))
    <2>1. \A c \in Callers : call[c].pc = "idle"
      BY DEF BackInv
    <2> QED
      BY <2>1, Zenon DEF CallStep, CallFails, At, Lock, Skip, Extend, Setup, SetupPanics, Mount,
             Upsert, Installed, MigrateLoaded, Stamp
  <1>3. ~\E c \in Callers, a \in Apps, op \in {"install", "upgrade"} : Request(c, op, a)
    BY DEF Request
  <1>4. ~((\E list \in EnvLists : Begin(list)) \/ BootSetup \/ BootStart \/ BootMount)
    BY DEF Begin, BootSetup, BootStart, BootMount
  <1>5. ~UNCHANGED vars
    BY DEF vars
  <1> QED
    BY <1>1, <1>2, <1>3, <1>4, <1>5 DEF Next, Boot

LEMMA BackWhenUp ==
    ASSUME IInv, BackInv, [Next]_vars, phase = "sync", phase' = "up"
    PROVE  /\ \A a \in Apps : a \in loaded' => table'[a] # None /\ a \in seeded'
           /\ env = {} => \A a \in Apps : table'[a] # None /\ Known(a) => a \in loaded'
  <1>1. SyncLoaded /\ loaded' = loaded /\ seeded' = seeded /\ Done("up") /\ order' = order
    BY SyncBringsUp DEF SyncLoaded, host
  <1>2. todo # << >> /\ Elements(order) \subseteq loaded
    BY DEF IInv, BootInv
  <1>3. Elements(Tail(todo)) = {}
    BY <1>1, <1>2, DoneSplits DEF Booting
  <1>4. loaded \subseteq Elements(order) /\ Elements(order) \subseteq seeded
    BY DEF BackInv, Booting
  <1>5. \A a \in Elements(order) : table'[a] # None
    BY <1>1, <1>3, SyncStamps
  <1>6. ASSUME env = {}, NEW a \in Apps, table'[a] # None, Known(a) PROVE a \in Elements(order)
    <2>1. a = Head(todo) \/ table[a] # None
      BY <1>1, <1>6, SyncStamps
    <2> QED
      BY <1>1, <1>6, <2>1, SyncStamps DEF BackInv, Booting
  <1> QED
    BY <1>1, <1>2, <1>4, <1>5, <1>6

\* What was installed is loaded after a boot, with its policies, whatever releases,
\* crashes and failures came before.
THEOREM WhatWasInstalledComesBack == Spec => InstalledComesBack
  <1>1. IInv /\ BackInv /\ [Next]_vars =>
            [phase = "sync" /\ phase' = "up" =>
                /\ \A a \in Apps : a \in loaded' => table'[a] # None /\ a \in seeded'
                /\ env = {} => \A a \in Apps : table'[a] # None /\ Known(a) => a \in loaded']_vars
    BY BackWhenUp
  <1> QED
    BY <1>1, InvHolds, BackHolds, PTL DEF Spec, InstalledComesBack
=============================================================================
