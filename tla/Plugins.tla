------------------------------ MODULE Plugins ------------------------------
(***************************************************************************)
(* External Go apps (internal/plugin) and the extension handlers they share *)
(* with the compiled apps (internal/extension).                             *)
(*                                                                          *)
(* The lists of extension handlers belong to the process, the bound query   *)
(* and command handlers to one platform.  A platform is built while another *)
(* one serves, so a build changes the lists under the requests of the old   *)
(* platform; the old one is stopped after the swap.  `task` is what the     *)
(* goroutine that holds Runtime.mu is doing.                                *)
(***************************************************************************)
EXTENDS Integers, FiniteSets, Sequences, SequencesExt

CONSTANTS
    Star,          \* the * of a pattern
    None,
    Registered,   \* the handlers of init() functions, in order (baseHandlers)
    Extends,      \* database -> the `extends` of the apps it loads, in order
    Extensible,   \* the apps with enableExtensions: true
    Paths,        \* KaizenGo_PLUGINS: a sequence of binaries
    Manifest,     \* binary -> [domains, handlers, hooks], what Describe answers
    Clients, Points,
    Ops,           \* of "create", "update" and "delete"
    MaxBuilds, MaxFailures, MaxWrites    \* bounds

\* A hook has a pattern and a priority, a handler a key and a kind.
Listed(s) == s \in Seq(Range(s))
ASSUME PluginsAssumption ==
    /\ Listed(Paths) /\ Range(Paths) \subseteq DOMAIN Manifest
    /\ \A b \in Range(Paths) : /\ Manifest[b].domains \in Nat
                                /\ Listed(Manifest[b].handlers) /\ Listed(Manifest[b].hooks)
    /\ Listed(Registered) /\ \A db \in DOMAIN Extends : Listed(Extends[db])
    /\ MaxBuilds \in Nat /\ MaxFailures \in Nat /\ MaxWrites \in Nat

Keys == UNION {{Manifest[b].handlers[i].key : i \in DOMAIN Manifest[b].handlers} : b \in Range(Paths)}
Gens == 0 .. MaxBuilds

VARIABLES
    served,      \* the platform requests go to, 0 for the bootstrap handler
    builds,      \* platforms built so far
    task,        \* [step, gen, at, n]
    procs,       \* platform -> Manager.procs
    cur,         \* the proc that is being started or unbound
    running,     \* the plugin processes, as <<platform, position in Paths>>
    bound,       \* platform -> Domains.handlers
    applied,     \* platform -> the binaries whose documents were applied
    load,        \* loadHandlers
    scoped,      \* scopedHandlers
    nextScopedID,
    req,         \* the calls each client is in: a hook may write in turn
    failures, writes

vars == <<served, builds, task, procs, cur, running, bound, applied, load, scoped,
          nextScopedID, req, failures, writes>>
extension == <<load, scoped, nextScopedID>>
plugins == <<procs, cur, running, bound, applied>>

Free == [step |-> "free", gen |-> 0, at |-> 0, n |-> 0]
NoProc == [at |-> 0, hooks |-> << >>, handlers |-> << >>, error |-> FALSE]

(***************************************************************************)
(* extension.matching                                                       *)
(***************************************************************************)
MatchPattern(p, point, phase) ==
    p.app \in {Star, point.app} /\ p.model \in {Star, point.model} /\ p.phase = phase
AllowWildcard(p, point) == Star \in {p.app, p.model} => point.app \in Extensible

BugSwapped(s, i, j) == IF s[i].priority < s[j].priority
                       THEN [s EXCEPT ![i] = s[j], ![j] = s[i]] ELSE s
Swapped(s, i, j) == IF s[j].priority < s[i].priority
                    THEN [s EXCEPT ![i] = s[j], ![j] = s[i]] ELSE s

\* every position is compared with every later one, in order
SortHandlers(s) ==
    LET n == Len(s)
        pairs == FlattenSeq([i \in 1 .. n |-> [j \in 1 .. n - i |-> <<i, i + j>>]])
    IN  FoldLeft(LAMBDA t, p : Swapped(t, p[1], p[2]), s, pairs)

Matching(point, phase) ==
    SortHandlers(SelectSeq(Registered \o load \o scoped,
        LAMBDA h : MatchPattern(h.pattern, point, phase) /\ AllowWildcard(h.pattern, point)))

(***************************************************************************)
(* The build of a platform                                                  *)
(***************************************************************************)
Goto(step) == task' = [task EXCEPT !.step = step, !.n = 1]
Fail == failures < MaxFailures /\ failures' = failures + 1
Described == Manifest[Paths[cur.at]]
Owner == <<task.gen, cur.at>>

\* module.Load: ResetLoadState while the old platform serves
Begin(db) ==
    /\ task.step = "free" /\ builds < MaxBuilds
    /\ builds' = builds + 1
    /\ task' = [step |-> "extend", gen |-> builds + 1, at |-> db, n |-> 1]
    /\ load' = << >>
    /\ UNCHANGED <<served, plugins, scoped, nextScopedID, req, failures, writes>>

\* ApplyExtends of the next app
Extend ==
    /\ task.step = "extend" /\ task.n <= Len(Extends[task.at])
    /\ load' = Append(load, Extends[task.at][task.n])
    /\ task' = [task EXCEPT !.n = @ + 1]
    /\ UNCHANGED <<served, builds, plugins, scoped, nextScopedID, req, failures, writes>>

\* an `extends` without its handler, or anything else in the build; the old platform
\* goes on
BuildFails ==
    /\ task.step = "extend" /\ Fail
    /\ task' = Free
    /\ UNCHANGED <<served, builds, plugins, extension, req, writes>>

\* the platform is up; Manager.Start takes the binaries one by one
Built ==
    /\ task.step = "extend" /\ task.n > Len(Extends[task.at])
    /\ task' = [task EXCEPT !.step = "start", !.at = 1, !.n = 1]
    /\ UNCHANGED <<served, builds, plugins, extension, req, failures, writes>>

StartProcess ==
    /\ task.step = "start" /\ task.at <= Len(Paths)
    /\ cur' = [NoProc EXCEPT !.at = task.at]
    /\ running' = running \cup {<<task.gen, task.at>>}
    /\ Goto("domains")
    /\ UNCHANGED <<served, builds, procs, bound, applied, extension, req, failures, writes>>

StartFails ==
    /\ task.step = "start" /\ task.at <= Len(Paths) /\ Fail
    /\ cur' = [NoProc EXCEPT !.at = task.at, !.error = TRUE]
    /\ Goto("unbind")
    /\ UNCHANGED <<served, builds, procs, running, bound, applied, extension, req, writes>>

\* an error after the process has started: the handshake, Describe, a document
\* that is refused, a handler of another kind
Erred ==
    /\ cur' = [cur EXCEPT !.error = TRUE]
    /\ Goto("unbind")
    /\ UNCHANGED <<served, builds, procs, running, bound, applied, extension, req, writes>>

DescribeFails == task.step = "domains" /\ task.n = 1 /\ Fail /\ Erred
DomainFails == task.step = "domains" /\ task.n <= Described.domains /\ Fail /\ Erred
BadKind ==
    /\ task.step = "handlers" /\ task.n <= Len(Described.handlers)
    /\ Described.handlers[task.n].kind \notin {"query", "command"}
    /\ UNCHANGED failures
    /\ Erred

ApplyDomain ==
    /\ task.step = "domains"
    /\ IF task.n <= Described.domains
       THEN /\ applied' = [applied EXCEPT ![task.gen] = @ \cup {cur.at}]
            /\ task' = [task EXCEPT !.n = @ + 1]
       ELSE Goto("handlers") /\ UNCHANGED applied
    /\ UNCHANGED <<served, builds, procs, cur, running, bound, extension, req, failures, writes>>

BindHandler ==
    /\ task.step = "handlers"
    /\ IF task.n <= Len(Described.handlers)
       THEN LET h == Described.handlers[task.n]
            IN  /\ h.kind \in {"query", "command"}
                /\ bound' = [bound EXCEPT ![task.gen][h.key] = Owner]
                /\ cur' = [cur EXCEPT !.handlers = Append(@, h.key)]
                /\ task' = [task EXCEPT !.n = @ + 1]
       ELSE Goto("hooks") /\ UNCHANGED <<bound, cur>>
    /\ UNCHANGED <<served, builds, procs, running, applied, extension, req, failures, writes>>

RegisterScoped ==
    /\ task.step = "hooks" /\ task.n <= Len(Described.hooks)
    /\ nextScopedID' = nextScopedID + 1
    /\ scoped' = Append(scoped, [pattern |-> Described.hooks[task.n].pattern,
                                 priority |-> Described.hooks[task.n].priority,
                                 owner |-> Owner, id |-> nextScopedID + 1])
    /\ cur' = [cur EXCEPT !.hooks = Append(@, nextScopedID + 1)]
    /\ task' = [task EXCEPT !.n = @ + 1]
    /\ UNCHANGED <<served, builds, procs, running, bound, applied, load, req, failures, writes>>

Started ==
    /\ task.step = "hooks" /\ task.n > Len(Described.hooks)
    /\ procs' = [procs EXCEPT ![task.gen] = Append(@, cur)]
    /\ cur' = NoProc
    /\ task' = [task EXCEPT !.step = "start", !.at = @ + 1, !.n = 1]
    /\ UNCHANGED <<served, builds, running, bound, applied, extension, req, failures, writes>>

\* rebuild: the new platform serves, then the old one is shut down.  Manager.Stop
\* takes its list away first; procs is then what Stop has still to unbind.
Swap ==
    /\ task.step = "start" /\ task.at > Len(Paths)
    /\ served' = task.gen
    /\ task' = IF served = 0 THEN Free ELSE [step |-> "stop", gen |-> served, at |-> 0, n |-> 1]
    /\ UNCHANGED <<builds, plugins, extension, req, failures, writes>>

\* EnterBootstrap before a database is dropped or copied
EnterBootstrap ==
    /\ task.step = "free" /\ served # 0
    /\ served' = 0
    /\ task' = [step |-> "stop", gen |-> served, at |-> 0, n |-> 1]
    /\ UNCHANGED <<builds, plugins, extension, req, failures, writes>>

(***************************************************************************)
(* Manager.unbind, one registry at a time                                   *)
(***************************************************************************)
StopNext ==
    /\ task.step = "stop"
    /\ IF procs[task.gen] # << >>
       THEN /\ cur' = Head(procs[task.gen])
            /\ procs' = [procs EXCEPT ![task.gen] = Tail(@)]
            /\ Goto("stopping")
       ELSE task' = Free /\ UNCHANGED <<cur, procs>>
    /\ UNCHANGED <<served, builds, running, bound, applied, extension, req, failures, writes>>

Unbinding == task.step \in {"unbind", "stopping"}

\* the function RegisterScoped returns
Unregistered(id) ==
    LET found == {i \in DOMAIN scoped : scoped[i].id = id}
    IN  IF found = {} THEN scoped ELSE RemoveAt(scoped, Min(found))

BugRemoveHook ==
    /\ Unbinding /\ cur.hooks # << >>
    /\ scoped' = Unregistered(Head(cur.hooks))
    /\ cur' = [cur EXCEPT !.hooks = << >>]
    /\ UNCHANGED <<served, builds, task, procs, running, bound, applied, load, nextScopedID,
                   req, failures, writes>>

RemoveHook ==
    /\ Unbinding /\ cur.hooks # << >>
    /\ scoped' = Unregistered(Head(cur.hooks))
    /\ cur' = [cur EXCEPT !.hooks = Tail(@)]
    /\ UNCHANGED <<served, builds, task, procs, running, bound, applied, load, nextScopedID,
                   req, failures, writes>>

BugUnbindHandler ==
    /\ Unbinding /\ cur.hooks = << >> /\ cur.handlers # << >>
    /\ bound' = [bound EXCEPT ![task.gen][Head(cur.handlers)] = None]
    /\ cur' = [cur EXCEPT !.handlers = << >>]
    /\ UNCHANGED <<served, builds, task, procs, running, applied, extension, req, failures, writes>>

\* by name, whoever has bound it
UnbindHandler ==
    /\ Unbinding /\ cur.hooks = << >> /\ cur.handlers # << >>
    /\ bound' = [bound EXCEPT ![task.gen][Head(cur.handlers)] = None]
    /\ cur' = [cur EXCEPT !.handlers = Tail(@)]
    /\ UNCHANGED <<served, builds, task, procs, running, applied, extension, req, failures, writes>>

Kill ==
    /\ Unbinding /\ cur.hooks = << >> /\ cur.handlers = << >>
    /\ running' = running \ {Owner}
    /\ IF task.step = "unbind"
       THEN /\ procs' = [procs EXCEPT ![task.gen] = Append(@, cur)]
            /\ task' = [task EXCEPT !.step = "start", !.at = @ + 1, !.n = 1]
       ELSE UNCHANGED procs /\ Goto("stop")
    /\ cur' = NoProc
    /\ UNCHANGED <<served, builds, bound, applied, extension, req, failures, writes>>

\* a plugin process ends by itself; nobody starts it again
ProcessDies(g, i) ==
    /\ <<g, i>> \in running /\ Fail
    /\ running' = running \ {<<g, i>>}
    /\ UNCHANGED <<served, builds, task, procs, cur, bound, applied, extension, req, writes>>

(***************************************************************************)
(* A write: the before-hooks, the statement, the after-hooks                *)
(***************************************************************************)
Top(c) == Last(req[c])
Push(c, call) == req' = [req EXCEPT ![c] = Append(@, call)]
Pop(c) == req' = [req EXCEPT ![c] = Front(@)]
Replace(c, call) == req' = [req EXCEPT ![c] = Append(Front(@), call)]
Working(c, pcs) == req[c] # << >> /\ Top(c).pc \in pcs
InPlugin == {"beforeHook", "afterHook", "handler"}

\* user is who the call is evaluated for, caller whom its hooks are told of, gen
\* the platform it runs on, owner the plugin process that is asked
NewWrite(gen, point, user, caller) ==
    [pc |-> "before", point |-> point, user |-> user, caller |-> caller, gen |-> gen,
     owner |-> None, queue |-> Matching(point, "before")]

\* Create knows its author, Update and Delete name no user in the hook's context
HookUser(op, user) == IF op = "create" THEN user ELSE None

Write(c, point, op) ==
    /\ req[c] = << >> /\ served # 0 /\ writes < MaxWrites
    /\ writes' = writes + 1
    /\ Push(c, NewWrite(served, point, c, HookUser(op, c)))
    /\ UNCHANGED <<served, builds, task, plugins, extension, failures>>

\* a query or command whose handler is bound; without one it is refused
Handle(c, key) ==
    /\ req[c] = << >> /\ served # 0 /\ writes < MaxWrites
    /\ bound[served][key] \in running
    /\ writes' = writes + 1
    /\ Push(c, [pc |-> "handler", point |-> None, user |-> c, caller |-> c, gen |-> served,
                owner |-> bound[served][key], queue |-> << >>])
    /\ UNCHANGED <<served, builds, task, plugins, extension, failures>>

Rejected(c) == Pop(c)
Passed(c) == Replace(c, [Top(c) EXCEPT !.pc = IF @ \in {"before", "beforeHook"}
                                              THEN "before" ELSE "after",
                                       !.owner = None, !.queue = Tail(@)])

\* the next hook: one of a compiled app answers, one of a plugin is asked
RunHook(c) ==
    /\ Working(c, {"before", "after"}) /\ Top(c).queue # << >>
    /\ LET call == Top(c)
           hook == Head(call.queue)
       IN  IF hook.owner \in running
           THEN Replace(c, [call EXCEPT !.pc = @ \o "Hook", !.owner = hook.owner])
           ELSE \/ call.pc = "before" /\ Rejected(c)
                \/ (call.pc = "after" \/ hook.owner = None) /\ Passed(c)
    /\ UNCHANGED <<served, builds, task, plugins, extension, failures, writes>>

\* the hook or handler of a plugin returns; an error of an after-hook is logged
Returns(c) ==
    /\ Working(c, InPlugin) /\ Top(c).owner \in running
    /\ \/ Top(c).pc # "handler" /\ Passed(c)
       \/ Top(c).pc # "afterHook" /\ Rejected(c)
    /\ UNCHANGED <<served, builds, task, plugins, extension, failures, writes>>

BugBroken(c) ==
    /\ Working(c, InPlugin) /\ Top(c).owner \notin running
    /\ Top(c).pc # "afterHook" /\ Rejected(c)
    /\ UNCHANGED <<served, builds, task, plugins, extension, failures, writes>>

\* the process is gone: its call fails, and with it those it has made
Broken(c) ==
    /\ \E i \in DOMAIN req[c] :
        /\ req[c][i].pc \in InPlugin /\ req[c][i].owner \notin running
        /\ req' = [req EXCEPT ![c] =
                      IF req[c][i].pc = "afterHook"
                      THEN SubSeq(@, 1, i - 1) \o
                           <<[@[i] EXCEPT !.pc = "after", !.owner = None, !.queue = Tail(@)]>>
                      ELSE SubSeq(@, 1, i - 1)]
    /\ UNCHANGED <<served, builds, task, plugins, extension, failures, writes>>

\* the statement, which may fail
Store(c) ==
    /\ Working(c, {"before"}) /\ Top(c).queue = << >>
    /\ \/ Rejected(c)
       \/ Replace(c, [Top(c) EXCEPT !.pc = "after", !.queue = Matching(Top(c).point, "after")])
    /\ UNCHANGED <<served, builds, task, plugins, extension, failures, writes>>

Finished(c) ==
    /\ Working(c, {"after"}) /\ Top(c).queue = << >>
    /\ Pop(c)
    /\ UNCHANGED <<served, builds, task, plugins, extension, failures, writes>>

(***************************************************************************)
(* What a hook or a handler asks of the host                                *)
(***************************************************************************)
\* the client of the SDK sends the caller it was given; the policies refuse a call
\* for nobody, unless the client is one made by AsSystem
AsCaller(call, system) == system \/ call.caller # None

\* a write through the host runs on the platform that started the plugin
HostWrite(c, point, op) ==
    /\ Working(c, InPlugin) /\ Top(c).owner \in running /\ writes < MaxWrites
    /\ \E system \in BOOLEAN : AsCaller(Top(c), system)
    /\ writes' = writes + 1
    /\ Push(c, NewWrite(Top(c).owner[1], point, Top(c).caller, HookUser(op, Top(c).caller)))
    /\ UNCHANGED <<served, builds, task, plugins, extension, failures>>

(***************************************************************************)
(* Specification                                                            *)
(***************************************************************************)
Init ==
    /\ served = 0 /\ builds = 0 /\ task = Free
    /\ procs = [g \in Gens |-> << >>] /\ cur = NoProc /\ running = {}
    /\ bound = [g \in Gens |-> [k \in Keys |-> None]] /\ applied = [g \in Gens |-> {}]
    /\ load = << >> /\ scoped = << >> /\ nextScopedID = 0
    /\ req = [c \in Clients |-> << >>] /\ failures = 0 /\ writes = 0

Manage ==
    \/ Extend \/ BuildFails \/ Built \/ StartProcess \/ StartFails \/ DescribeFails
    \/ DomainFails \/ BadKind \/ ApplyDomain \/ BindHandler \/ RegisterScoped \/ Started
    \/ Swap \/ StopNext \/ RemoveHook \/ UnbindHandler \/ Kill

Serve(c) == RunHook(c) \/ Returns(c) \/ Broken(c) \/ Store(c) \/ Finished(c)

Ask(c) ==
    \/ \E p \in Points, op \in Ops : Write(c, p, op) \/ HostWrite(c, p, op)
    \/ \E key \in Keys : Handle(c, key)

Next ==
    \/ \E db \in DOMAIN Extends : Begin(db)
    \/ EnterBootstrap \/ Manage
    \/ \E g \in Gens, i \in DOMAIN Paths : ProcessDies(g, i)
    \/ \E c \in Clients : Serve(c) \/ Ask(c)

\* requests are served and hooks return; nothing is assumed of builds
Spec == Init /\ [][Next]_vars /\ \A c \in Clients : WF_vars(Serve(c))

(***************************************************************************)
(* Properties                                                               *)
(***************************************************************************)
Healthy(g) == {i \in DOMAIN procs[g] : ~procs[g][i].error}
ProcsOf(g) == {<<g, procs[g][i].at>> : i \in Healthy(g)}
HooksOf(g) == UNION {{[id |-> id, owner |-> <<g, procs[g][i].at>>] : id \in Range(procs[g][i].hooks)}
                         : i \in Healthy(g)}

\* Whatever failed while plugins were started and stopped: when no build and no stop
\* is under way, the scoped hooks are, each once, those of the healthy plugins of the
\* served platform, and no other plugin process is left (manager.go Start, Stop,
\* unbind; RegisterScoped "so their hooks disappear when the plugin process stops").
\* The bootstrap handler, platform 0, has no plugins.
NothingLeftBehind ==
    task.step = "free" =>
        /\ running \subseteq ProcsOf(served)
        /\ \A i, j \in DOMAIN scoped : scoped[i].id = scoped[j].id => i = j
        /\ {[id |-> h.id, owner |-> h.owner] : h \in Range(scoped)} = HooksOf(served)

\* "A plugin that fails ... is logged, unbound, and listed with its error; other
\* plugins and the platform keep running" (docs/grpc-plugins.md:124): on the served
\* platform exactly the handlers of the healthy plugins are bound, each to its own
\* plugin, if no two plugins name the same handler.
HealthyAnswer ==
    served # 0 /\ task.step = "free" =>
        \A k \in Keys :
            LET owners == {i \in Healthy(served) : k \in Range(procs[served][i].handlers)}
            IN  IF owners = {} THEN bound[served][k] = None
                ELSE bound[served][k] \in {<<served, procs[served][i].at>> : i \in owners}

\* A phase of a write begins: its queue was read from the lists just now
Phase(c) == Last(req'[c]).pc
Entered(c) ==
    /\ req'[c] # << >> /\ Phase(c) \in {"before", "after"}
    /\ \/ Len(req'[c]) > Len(req[c])
       \/ Len(req'[c]) = Len(req[c]) /\ Top(c).pc = "before" /\ Phase(c) = "after"

\* extension.Run: before the first hook of a phase runs, every handler that matches
\* is in the queue once and the queue ascends in priority, whatever the order the
\* three lists were filled in.
RunsByPriority ==
    [][\A c \in Clients : Entered(c) =>
        LET queue == Last(req'[c]).queue
            all == Registered \o load \o scoped
            due == {i \in DOMAIN all : /\ MatchPattern(all[i].pattern, Last(req'[c]).point, Phase(c))
                                       /\ AllowWildcard(all[i].pattern, Last(req'[c]).point)}
        IN  /\ \A i \in 1 .. Len(queue) - 1 : queue[i].priority <= queue[i + 1].priority
            /\ Len(queue) = Cardinality(due)
            /\ Range(queue) = {all[i] : i \in due}]_vars

\* A request always ends, although the plugin it waits for dies or is stopped with
\* its platform, also in a write that another plugin made in a hook (manager.go
\* hookFunc and unbind; a hook that never returns, or writes without end, is the
\* plugin's own fault and left out by the fairness and the bound on writes).
RequestsEnd == \A c \in Clients : req[c] # << >> ~> req[c] = << >>

\* The four statements below do not hold.
\* - internal/plugin/manager.go:79, a manager starts the plugins "for one platform":
\*   while a database is switched the hooks of the new platform see the writes of the
\*   old one, and the other way round.
OwnHooksOnly ==
    [][\A c \in Clients : Entered(c) =>
        \A hook \in Range(Last(req'[c]).queue) :
            hook.owner = None \/ hook.owner[1] = Last(req'[c]).gen]_vars

\* - the `extends` of the apps of the served platform are registered; a failed build
\*   leaves those of the platform that never came up.
ExtendsOfServed == served # 0 /\ task.step = "free" => \E db \in DOMAIN Extends : load = Extends[db]

\* - a write is refused only by a handler that rejects it: one that began between the
\*   swap and the end of the stop still has the hooks of the old platform in its
\*   queue, and their process is killed under it.
RefusedByAHook ==
    [][\A c \in Clients :
        failures = 0 /\ Len(req'[c]) < Len(req[c]) /\ Top(c).queue # << >> =>
            Head(Top(c).queue).owner \in running \cup {None}]_vars

\* - docs/grpc-plugins.md:56, every hook request carries a caller, "Plugins pass it back
\*   on host calls so ACL is evaluated as that user": the hooks of an update or a
\*   delete are told of no user.
CallsRunAsCaller ==
    \A c \in Clients : \A i \in DOMAIN req[c] :
        req[c][i].pc \in InPlugin => req[c][i].caller = req[c][i].user
=============================================================================
