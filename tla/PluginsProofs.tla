--------------------------- MODULE PluginsProofs ---------------------------
(***************************************************************************)
(* Proofs about module Plugins, for any plugins, any number of platforms    *)
(* built after one another, and any failures and deaths of processes.       *)
(***************************************************************************)
EXTENDS Plugins, SequenceTheorems, TLAPS

-----------------------------------------------------------------------------
(* The inductive invariant *)

\* Starting one plugin, and starting or unbinding one
Starting == {"domains", "handlers", "hooks", "unbind"}
Busy == Starting \cup {"stopping"}
Building == Starting \cup {"extend", "start"}
Stopping == {"stop", "stopping"}
Steps == Building \cup Stopping \cup {"free"}

Hooks == UNION {Range(Manifest[b].hooks) : b \in Range(Paths)}
Processes == Gens \X Nat
Procs == [at : Nat, hooks : Seq(Nat), handlers : Seq(Keys), error : BOOLEAN]
ScopedHooks == [pattern : {h.pattern : h \in Hooks}, priority : {h.priority : h \in Hooks},
                owner : Processes, id : Nat]
Tasks == [step : Steps, gen : Gens, at : Nat \cup DOMAIN Extends, n : Nat \ {0}]

TypeInv ==
    /\ served \in Gens /\ builds \in Gens
    /\ task.step = "free" => task = Free
    /\ task.step # "free" => task \in Tasks
    /\ task.step # "extend" => task.at \in Nat
    /\ procs \in [Gens -> Seq(Procs)] /\ cur \in Procs
    /\ running \subseteq Processes
    /\ bound \in [Gens -> [Keys -> {None} \cup Processes]]
    /\ scoped \in Seq(ScopedHooks) /\ nextScopedID \in Nat

\* At most one platform serves, and at most one is being built or stopped; no
\* other one has plugins
GenInv ==
    /\ served <= builds
    /\ task.step \in Building => task.gen = builds /\ task.gen # served /\ task.gen # 0
    /\ task.step \in Stopping => task.gen \in 1 .. builds /\ task.gen # served
    /\ \A g \in Gens : g = 0 \/ g \notin {served, task.gen} => procs[g] = << >>
    /\ task.step = "extend" => procs[task.gen] = << >>

\* A manager's list has every binary at most once, and not the one at hand
OrderInv ==
    /\ \A g \in Gens : \A i \in DOMAIN procs[g] :
           /\ procs[g][i].at \in DOMAIN Paths
           /\ \A j \in DOMAIN procs[g] : procs[g][i].at = procs[g][j].at => i = j
    /\ task.step \in Starting \cup {"start"} =>
           /\ task.at \in 1 .. Len(Paths) + 1
           /\ \A i \in DOMAIN procs[task.gen] : procs[task.gen][i].at < task.at
    /\ task.step \in Starting => cur.at = task.at
    /\ task.step \in Busy =>
           /\ cur.at \in DOMAIN Paths
           /\ \A i \in DOMAIN procs[task.gen] : procs[task.gen][i].at # cur.at

\* A plugin with an error is unbound before it is listed
ErrorInv ==
    /\ \A g \in Gens : \A i \in DOMAIN procs[g] :
           procs[g][i].error => procs[g][i].hooks = << >> /\ procs[g][i].handlers = << >>
    /\ task.step = "unbind" => cur.error
    /\ task.step \in {"domains", "handlers", "hooks"} => ~cur.error
    /\ task.step \in {"domains", "handlers"} => cur.hooks = << >>
    /\ task.step = "domains" => cur.handlers = << >>

\* The plugins of a platform that may have something registered
Live(g) == Range(procs[g]) \cup (IF task.step \in Busy /\ g = task.gen THEN {cur} ELSE {})

\* The removers of a plugin are for hooks of the list that it owns, each for another
Removes(g, p) ==
    /\ \A i, j \in DOMAIN p.hooks : p.hooks[i] = p.hooks[j] => i = j
    /\ \A i \in DOMAIN p.hooks : \E j \in DOMAIN scoped :
           scoped[j].id = p.hooks[i] /\ scoped[j].owner = <<g, p.at>>

\* A live plugin has the remover of a hook
Removable(h) == \E p \in Live(h.owner[1]) :
    p.at = h.owner[2] /\ \E i \in DOMAIN p.hooks : p.hooks[i] = h.id

\* The scoped hooks are those that the live plugins have removers of, each once
ScopedInv ==
    /\ \A i \in DOMAIN scoped : scoped[i].id <= nextScopedID
    /\ \A i, j \in DOMAIN scoped : scoped[i].id = scoped[j].id => i = j
    /\ \A i \in DOMAIN scoped : Removable(scoped[i])
    /\ \A g \in Gens : \A p \in Live(g) : Removes(g, p)

\* A process is that of a healthy plugin, or of the one at hand
RunningInv == \A o \in running : o \in ProcsOf(o[1]) \/ (task.step \in Busy /\ o = Owner)

\* The handlers a plugin names.  A handler is bound by its key alone: two plugins that
\* name the same one take it from each other.
Names(i) == {Manifest[Paths[i]].handlers[j].key : j \in DOMAIN Manifest[Paths[i]].handlers}
Distinct == \A i, j \in DOMAIN Paths : Names(i) \cap Names(j) # {} => i = j

\* A live plugin binds a handler, and will unbind it
BoundBy(g, k) == \E p \in Live(g) : bound[g][k] = <<g, p.at>> /\ k \in Range(p.handlers)
Unbound(g, p) == Unbinding /\ g = task.gen /\ p.at = cur.at

\* What is bound is bound to a live plugin that knows of it, and what a plugin has
\* bound stays bound to it until it is unbound
BoundInv ==
    /\ \A g \in Gens : \A p \in Live(g) : Range(p.handlers) \subseteq Names(p.at)
    /\ \A g \in Gens : \A k \in Keys : bound[g][k] # None => BoundBy(g, k)
    /\ \A g \in Gens : \A p \in Live(g) :
           Unbound(g, p) \/ \A k \in Range(p.handlers) : bound[g][k] = <<g, p.at>>

IInv == TypeInv /\ GenInv /\ OrderInv /\ ErrorInv /\ ScopedInv /\ RunningInv

-----------------------------------------------------------------------------
(* Sequences and the task *)

LEMMA RangeAppend ==
    ASSUME NEW S, NEW s \in Seq(S), NEW e \in S
    PROVE  Append(s, e) \in Seq(S) /\ Range(Append(s, e)) = Range(s) \cup {e}
<1>1. /\ Append(s, e) \in Seq(S) /\ Len(Append(s, e)) = Len(s) + 1
      /\ \A i \in 1 .. Len(s) : Append(s, e)[i] = s[i]
      /\ Append(s, e)[Len(s) + 1] = e
  BY AppendProperties
<1>2. DOMAIN Append(s, e) = 1 .. Len(s) + 1 /\ DOMAIN s = 1 .. Len(s) /\ Len(s) \in Nat
  BY <1>1, LenProperties
<1> QED BY <1>1, <1>2 DEF Range

LEMMA RangeTail ==
    ASSUME NEW S, NEW s \in Seq(S), s # << >>
    PROVE  /\ Tail(s) \in Seq(S) /\ Head(s) = s[1] /\ 1 \in DOMAIN s
           /\ \A i \in DOMAIN Tail(s) : i + 1 \in DOMAIN s /\ Tail(s)[i] = s[i + 1]
           /\ Range(s) = {Head(s)} \cup Range(Tail(s))
<1>1. /\ Tail(s) \in Seq(S) /\ Len(Tail(s)) = Len(s) - 1 /\ Head(s) = s[1]
      /\ \A i \in 1 .. Len(Tail(s)) : Tail(s)[i] = s[i + 1]
  BY HeadTailProperties
<1>2. /\ DOMAIN Tail(s) = 1 .. Len(s) - 1 /\ DOMAIN s = 1 .. Len(s)
      /\ Len(s) \in Nat /\ Len(s) # 0
  BY <1>1, LenProperties, EmptySeq
<1>3. \A i \in DOMAIN Tail(s) : i + 1 \in DOMAIN s /\ Tail(s)[i] = s[i + 1]
  BY <1>1, <1>2
<1>4. \A i \in DOMAIN s : i = 1 \/ (i - 1 \in DOMAIN Tail(s) /\ Tail(s)[i - 1] = s[i])
  BY <1>1, <1>2
<1>5. Range(s) = {Head(s)} \cup Range(Tail(s))
  BY <1>1, <1>2, <1>3, <1>4 DEF Range
<1> QED BY <1>1, <1>2, <1>3, <1>5

LEMMA RangeElement ==
    ASSUME NEW S, NEW s \in Seq(S)
    PROVE  /\ \A i \in DOMAIN s : s[i] \in S
           /\ Range(s) \subseteq S
           /\ DOMAIN s = 1 .. Len(s) /\ Len(s) \in Nat
BY LenProperties, ElementOfSeq DEF Range

\* Taking one element out by its position keeps the others in their order.
LEMMA RemoveAtKeeps ==
    ASSUME NEW S, NEW s \in Seq(S), NEW k \in DOMAIN s
    PROVE  /\ RemoveAt(s, k) \in Seq(S)
           /\ DOMAIN RemoveAt(s, k) = 1 .. Len(s) - 1
           /\ \A i \in 1 .. Len(s) - 1 :
                  RemoveAt(s, k)[i] = s[IF i < k THEN i ELSE i + 1]
<1> DEFINE l == SubSeq(s, 1, k - 1)
           r == SubSeq(s, k + 1, Len(s))
<1>1. /\ k \in 1 .. Len(s) /\ Len(s) \in Nat /\ \A i \in 1 .. Len(s) : s[i] \in S
  BY RangeElement
<1>2. /\ l \in Seq(S) /\ Len(l) = k - 1 /\ \A i \in 1 .. k - 1 : l[i] = s[i]
  <2>1. /\ l \in Seq(S) /\ Len(l) = (IF 1 <= k - 1 THEN k - 1 - 1 + 1 ELSE 0)
        /\ \A i \in 1 .. k - 1 - 1 + 1 : l[i] = s[1 + i - 1]
    BY <1>1, SubSeqProperties
  <2> HIDE DEF l
  <2> QED BY <1>1, <2>1
<1>3. /\ r \in Seq(S) /\ Len(r) = Len(s) - k /\ \A i \in 1 .. Len(s) - k : r[i] = s[k + i]
  <2>1. /\ r \in Seq(S)
        /\ Len(r) = (IF k + 1 <= Len(s) THEN Len(s) - (k + 1) + 1 ELSE 0)
        /\ \A i \in 1 .. Len(s) - (k + 1) + 1 : r[i] = s[k + 1 + i - 1]
    BY <1>1, SubSeqProperties
  <2> HIDE DEF r
  <2> QED BY <1>1, <2>1
<1>4. RemoveAt(s, k) = l \o r
  BY DEF RemoveAt
<1> HIDE DEF l, r
<1>5. /\ l \o r \in Seq(S) /\ Len(l \o r) = Len(l) + Len(r)
      /\ \A i \in 1 .. Len(l) + Len(r) :
             (l \o r)[i] = IF i <= Len(l) THEN l[i] ELSE r[i - Len(l)]
  BY <1>2, <1>3, ConcatProperties
<1>6. DOMAIN (l \o r) = 1 .. Len(s) - 1
  BY <1>1, <1>2, <1>3, <1>5, LenProperties
<1>7. ASSUME NEW i \in 1 .. Len(s) - 1
      PROVE  (l \o r)[i] = s[IF i < k THEN i ELSE i + 1]
  <2>1. CASE i < k
    <3>1. (l \o r)[i] = l[i]
      BY <1>1, <1>2, <1>3, <1>5, <2>1
    <3> QED BY <1>1, <1>2, <2>1, <3>1
  <2>2. CASE ~(i < k)
    <3>1. (l \o r)[i] = r[i - (k - 1)]
      <4>1. i \in 1 .. Len(l) + Len(r) /\ ~(i <= Len(l))
        BY <1>1, <1>2, <1>3, <2>2
      <4>2. (l \o r)[i] = IF i <= Len(l) THEN l[i] ELSE r[i - Len(l)]
        BY <1>5, <4>1
      <4>3. (l \o r)[i] = r[i - Len(l)]
        BY <4>1, <4>2
      <4> QED BY <1>2, <4>3
    <3>2. r[i - (k - 1)] = s[k + (i - (k - 1))]
      BY <1>1, <1>3, <2>2
    <3>3. k + (i - (k - 1)) = i + 1
      BY <1>1
    <3> QED BY <2>2, <3>1, <3>2, <3>3
  <2> QED BY <2>1, <2>2
<1> QED BY <1>4, <1>5, <1>6, <1>7

LEMMA GotoFacts ==
    ASSUME TypeInv, task.step # "free", NEW step \in Steps \ {"extend", "free"}, Goto(step),
           task.at \in Nat
    PROVE  /\ task' \in Tasks
           /\ task'.step = step /\ task'.gen = task.gen /\ task'.at = task.at /\ task'.n = 1
<1>1. task \in Tasks
  BY DEF TypeInv
<1> DEFINE r == [task EXCEPT !.step = step, !.n = 1]
<1>2. task' = r
  BY DEF Goto
<1>3. r \in Tasks
  <2> DEFINE moved == [task EXCEPT !.step = step]
  <2>1. moved \in Tasks /\ r = [moved EXCEPT !.n = 1]
    BY <1>1 DEF Tasks
  <2> HIDE DEF moved
  <2>2. [moved EXCEPT !.n = 1] \in Tasks
    BY <2>1 DEF Tasks
  <2> QED BY <2>1, <2>2
<1>4. r.step = step /\ r.gen = task.gen /\ r.at = task.at /\ r.n = 1
  BY <1>1 DEF Tasks
<1> QED BY <1>2, <1>3, <1>4

LEMMA CountFacts ==
    ASSUME TypeInv, task.step # "free", task' = [task EXCEPT !.n = @ + 1]
    PROVE  /\ task' \in Tasks
           /\ task'.step = task.step /\ task'.gen = task.gen /\ task'.at = task.at
           /\ task'.n = task.n + 1
<1>1. task \in Tasks
  BY DEF TypeInv
<1> DEFINE r == [task EXCEPT !.n = task.n + 1]
<1>2. task' = r
  BY <1>1 DEF Tasks
<1>3. r \in Tasks
  BY <1>1 DEF Tasks
<1>4. r.step = task.step /\ r.gen = task.gen /\ r.at = task.at /\ r.n = task.n + 1
  BY <1>1 DEF Tasks
<1> QED BY <1>2, <1>3, <1>4

LEMMA NextFacts ==
    ASSUME TypeInv, task.step \in Busy,
           task' = [task EXCEPT !.step = "start", !.at = @ + 1, !.n = 1]
    PROVE  /\ task' \in Tasks
           /\ task'.step = "start" /\ task'.gen = task.gen /\ task'.at = task.at + 1
<1>1. task \in Tasks /\ task.at \in Nat
  BY DEF TypeInv, Busy, Starting
<1> DEFINE r == [task EXCEPT !.step = "start", !.at = task.at + 1, !.n = 1]
<1>2. task' = r
  BY <1>1 DEF Tasks
<1>3. r \in Tasks
  <2> DEFINE moved == [task EXCEPT !.step = "start"]
             next == [moved EXCEPT !.at = task.at + 1]
  <2>1. moved \in Tasks /\ r = [next EXCEPT !.n = 1] /\ moved.at = task.at
    BY <1>1 DEF Tasks, Steps, Building
  <2> HIDE DEF moved
  <2>2. next \in Tasks
    BY <1>1, <2>1 DEF Tasks
  <2> HIDE DEF next
  <2>3. [next EXCEPT !.n = 1] \in Tasks
    BY <2>2 DEF Tasks
  <2> QED BY <2>1, <2>3
<1>4. r.step = "start" /\ r.gen = task.gen /\ r.at = task.at + 1
  BY <1>1 DEF Tasks
<1> QED BY <1>2, <1>3, <1>4

\* What a plugin registers is what its manifest lists.
LEMMA DescribedFacts ==
    ASSUME TypeInv, OrderInv, task.step \in Busy
    PROVE  /\ task \in Tasks /\ task.at \in Nat /\ task.n \in 1 .. task.n /\ task.gen \in Gens
           /\ Owner \in Processes
           /\ task.n <= Len(Described.handlers) => Described.handlers[task.n].key \in Keys
           /\ task.n <= Len(Described.hooks) => Described.hooks[task.n] \in Hooks
<1>1. task \in Tasks /\ task.at \in Nat /\ task.n \in 1 .. task.n /\ task.gen \in Gens
  BY DEF TypeInv, Busy, Starting, Tasks
<1>2. cur.at \in DOMAIN Paths /\ cur.at \in Nat
  BY DEF OrderInv, TypeInv, Procs
<1>3. Paths[cur.at] \in Range(Paths)
  BY <1>2 DEF Range
<1>4. /\ Described.handlers \in Seq(Range(Described.handlers))
      /\ Described.hooks \in Seq(Range(Described.hooks))
  BY <1>3, PluginsAssumption DEF Described, Listed
<1>5. task.n <= Len(Described.handlers) => task.n \in DOMAIN Described.handlers
  BY <1>1, <1>4, LenProperties
<1>6. task.n <= Len(Described.hooks) => task.n \in DOMAIN Described.hooks
  BY <1>1, <1>4, LenProperties
<1> QED BY <1>1, <1>2, <1>3, <1>5, <1>6 DEF Owner, Processes, Keys, Hooks, Described, Range

\* Requests, and the calls of plugins, leave managers and registries alone.
Managed == <<served, builds, task, procs, cur, running, bound, scoped, nextScopedID>>
LEMMA RequestsManageNothing ==
    ASSUME UNCHANGED vars \/ \E c \in Clients : Serve(c) \/ Ask(c)
    PROVE  UNCHANGED Managed
BY DEF vars, Managed, Serve, Ask, RunHook, Returns, Broken, Store, Finished, Write, HostWrite,
       Handle, plugins, extension

\* A plugin's first hook is in the list once, and is what its remover takes out.
LEMMA RemovedHook ==
    ASSUME TypeInv, ScopedInv, RemoveHook
    PROVE  \E k \in DOMAIN scoped :
               /\ scoped[k].id = Head(cur.hooks)
               /\ scoped' = RemoveAt(scoped, k)
<1> DEFINE found == {i \in DOMAIN scoped : scoped[i].id = Head(cur.hooks)}
<1>1. /\ task.step \in Busy /\ cur.hooks # << >> /\ scoped' = Unregistered(Head(cur.hooks))
  BY DEF RemoveHook, Unbinding, Busy, Starting
<1>2. task.gen \in Gens /\ cur \in Live(task.gen)
  BY <1>1 DEF Live, TypeInv, Tasks, Busy, Starting
<1>3. 1 \in DOMAIN cur.hooks /\ Head(cur.hooks) = cur.hooks[1]
  BY <1>1, RangeTail DEF TypeInv, Procs
<1>4. PICK k \in DOMAIN scoped : scoped[k].id = Head(cur.hooks)
  <2>1. Removes(task.gen, cur)
    BY <1>2 DEF ScopedInv
  <2> HIDE DEF found
  <2> QED BY <1>3, <2>1 DEF Removes
<1>5. found = {k}
  BY <1>4 DEF ScopedInv
<1>6. k \in Nat
  BY RangeElement DEF TypeInv
<1>7. Min(found) = k
  BY <1>5, <1>6 DEF Min
<1>8. Unregistered(Head(cur.hooks)) = RemoveAt(scoped, k)
  BY <1>5, <1>7 DEF Unregistered
<1> QED BY <1>1, <1>4, <1>8

LEMMA TypeStep ==
    ASSUME TypeInv, OrderInv, ScopedInv, [Next]_vars
    PROVE  TypeInv'
<1> USE DEF Steps, Busy, Starting, Building, Stopping
<1>0. /\ MaxBuilds \in Nat /\ Gens = 0 .. MaxBuilds /\ Listed(Paths)
      /\ NoProc \in Procs /\ Free.step = "free" /\ Free.at = 0
  BY PluginsAssumption, EmptySeq DEF Gens, NoProc, Procs, Free
<1>1. CASE UNCHANGED vars \/ \E c \in Clients : Serve(c) \/ Ask(c)
  <2>1. UNCHANGED Managed
    BY <1>1, RequestsManageNothing
  <2> QED BY <2>1 DEF Managed, TypeInv
<1>2. ASSUME NEW db \in DOMAIN Extends, Begin(db)
      PROVE  TypeInv'
  <2>1. builds + 1 \in Gens /\ builds' = builds + 1
    BY <1>0, <1>2 DEF Begin, TypeInv
  <2>2. task' \in Tasks /\ task'.step = "extend"
    BY <1>2, <2>1 DEF Begin, Tasks
  <2> QED BY <1>2, <2>1, <2>2 DEF Begin, plugins, TypeInv
<1>3. CASE EnterBootstrap \/ Swap
  <2>1. task'.step \in {"free", "stop"} /\ (task' = Free \/ task' \in Tasks) /\ task'.at = 0
    BY <1>0, <1>3 DEF EnterBootstrap, Swap, TypeInv, Tasks, Free
  <2>2. served' \in Gens
    BY <1>0, <1>3 DEF EnterBootstrap, Swap, TypeInv, Tasks
  <2> QED BY <1>0, <1>3, <2>1, <2>2 DEF EnterBootstrap, Swap, plugins, extension, TypeInv
<1>4. CASE BuildFails
  BY <1>0, <1>4 DEF BuildFails, plugins, extension, TypeInv
<1>5. CASE Extend
  <2>1. task' \in Tasks /\ task'.step = "extend"
    BY <1>5, CountFacts DEF Extend
  <2> QED BY <1>5, <2>1 DEF Extend, plugins, TypeInv
<1>6. CASE Built
  <2>1. task \in Tasks
    BY <1>6 DEF Built, TypeInv
  <2>2. task' = [step |-> "start", gen |-> task.gen, at |-> 1, n |-> 1]
    BY <1>6, <2>1 DEF Built, Tasks
  <2>3. task' \in Tasks /\ task'.step = "start" /\ task'.at = 1
    BY <2>1, <2>2 DEF Tasks
  <2> QED BY <1>6, <2>3 DEF Built, plugins, extension, TypeInv
<1>7. CASE StartProcess \/ StartFails
  <2>1. /\ task \in Tasks /\ task.at \in Nat
        /\ \E step \in {"domains", "unbind"} : Goto(step)
    BY <1>7 DEF StartProcess, StartFails, TypeInv
  <2>2. task' \in Tasks /\ task'.step \in {"domains", "unbind"} /\ task'.at \in Nat
    BY <1>7, <2>1, GotoFacts DEF StartProcess, StartFails
  <2>3. cur' \in Procs
    BY <1>0, <1>7, <2>1 DEF StartProcess, StartFails, NoProc, Procs
  <2>4. running' \subseteq Processes
    BY <1>7, <2>1 DEF StartProcess, StartFails, TypeInv, Tasks, Processes
  <2> QED BY <1>7, <2>2, <2>3, <2>4 DEF StartProcess, StartFails, extension, TypeInv
<1>8. CASE DescribeFails \/ DomainFails \/ BadKind
  <2>1. task.step \in {"domains", "handlers"} /\ Erred
    BY <1>8 DEF DescribeFails, DomainFails, BadKind
  <2>2. task' \in Tasks /\ task'.step = "unbind" /\ task'.at \in Nat
    BY <2>1, GotoFacts DEF Erred, TypeInv
  <2>3. cur' \in Procs
    BY <2>1 DEF Erred, TypeInv, Procs
  <2> QED BY <2>1, <2>2, <2>3 DEF Erred, extension, TypeInv
<1>9. CASE ApplyDomain
  <2>1. task.step = "domains"
    BY <1>9 DEF ApplyDomain
  <2>2. Goto("handlers") \/ task' = [task EXCEPT !.n = @ + 1]
    BY <1>9 DEF ApplyDomain
  <2>3. task' \in Tasks /\ task'.step \in {"domains", "handlers"} /\ task'.at \in Nat
    BY <2>1, <2>2, GotoFacts, CountFacts DEF TypeInv
  <2> QED BY <1>9, <2>3 DEF ApplyDomain, extension, TypeInv
<1>10. CASE BindHandler
  <2>1. task.step = "handlers"
    BY <1>10 DEF BindHandler
  <2>2. CASE task.n <= Len(Described.handlers)
    <3> DEFINE key == Described.handlers[task.n].key
    <3>1. /\ bound' = [bound EXCEPT ![task.gen][key] = Owner]
          /\ cur' = [cur EXCEPT !.handlers = Append(@, key)]
          /\ task' = [task EXCEPT !.n = @ + 1]
      BY <1>10, <2>2 DEF BindHandler
    <3>2. key \in Keys /\ Owner \in Processes /\ task.gen \in Gens /\ task.at \in Nat
      BY <2>1, <2>2, DescribedFacts
    <3> HIDE DEF key
    <3>3. task' \in Tasks /\ task'.step = "handlers" /\ task'.at \in Nat
      BY <2>1, <3>1, <3>2, CountFacts
    <3>4. Append(cur.handlers, key) \in Seq(Keys)
      BY <3>2, AppendProperties DEF TypeInv, Procs
    <3>5. cur' \in Procs
      BY <3>1, <3>4 DEF TypeInv, Procs
    <3>6. bound' \in [Gens -> [Keys -> {None} \cup Processes]]
      BY <3>1, <3>2 DEF TypeInv
    <3> QED BY <1>10, <3>3, <3>5, <3>6 DEF BindHandler, extension, TypeInv
  <2>3. CASE ~(task.n <= Len(Described.handlers))
    <3>1. Goto("hooks") /\ UNCHANGED <<bound, cur>>
      BY <1>10, <2>3 DEF BindHandler
    <3>2. task' \in Tasks /\ task'.step = "hooks" /\ task'.at \in Nat
      BY <2>1, <3>1, GotoFacts DEF TypeInv
    <3> QED BY <1>10, <3>1, <3>2 DEF BindHandler, extension, TypeInv
  <2> QED BY <2>2, <2>3
<1>11. CASE RegisterScoped
  <2> DEFINE hook == Described.hooks[task.n]
             new == [pattern |-> hook.pattern, priority |-> hook.priority,
                     owner |-> Owner, id |-> nextScopedID + 1]
  <2>1. /\ task.step = "hooks" /\ task.n <= Len(Described.hooks)
        /\ nextScopedID' = nextScopedID + 1 /\ scoped' = Append(scoped, new)
        /\ cur' = [cur EXCEPT !.hooks = Append(@, nextScopedID + 1)]
        /\ task' = [task EXCEPT !.n = @ + 1]
    BY <1>11 DEF RegisterScoped
  <2>2. hook \in Hooks /\ Owner \in Processes
    BY <2>1, DescribedFacts
  <2>3. new \in ScopedHooks
    BY <2>2 DEF ScopedHooks, TypeInv
  <2>4. task' \in Tasks /\ task'.step = "hooks" /\ task'.at \in Nat
    BY <2>1, CountFacts DEF TypeInv
  <2> HIDE DEF new, hook
  <2>5. scoped' \in Seq(ScopedHooks)
    BY <2>1, <2>3, AppendProperties DEF TypeInv
  <2>6. Append(cur.hooks, nextScopedID + 1) \in Seq(Nat)
    BY AppendProperties DEF TypeInv, Procs
  <2>7. cur' \in Procs
    BY <2>1, <2>6 DEF TypeInv, Procs
  <2> QED BY <1>11, <2>1, <2>4, <2>5, <2>7 DEF RegisterScoped, TypeInv
<1>12. CASE Started
  <2>1. task.step = "hooks" /\ task.gen \in Gens /\ task.at \in Nat
    BY <1>12 DEF Started, TypeInv, Tasks
  <2>2. task' \in Tasks /\ task'.step = "start" /\ task'.at \in Nat
    BY <1>12, <2>1, NextFacts DEF Started
  <2>3. procs' \in [Gens -> Seq(Procs)]
    BY <1>12, <2>1 DEF Started, TypeInv
  <2> QED BY <1>0, <1>12, <2>2, <2>3 DEF Started, extension, TypeInv
<1>13. CASE StopNext
  <2>1. task.step = "stop" /\ task.gen \in Gens /\ task.at \in Nat
    BY <1>13 DEF StopNext, TypeInv, Tasks
  <2>2. CASE procs[task.gen] # << >>
    <3>1. /\ cur' = Head(procs[task.gen]) /\ Goto("stopping")
          /\ procs' = [procs EXCEPT ![task.gen] = Tail(procs[task.gen])]
      BY <1>13, <2>2 DEF StopNext
    <3>2. task' \in Tasks /\ task'.step = "stopping" /\ task'.at \in Nat
      BY <2>1, <3>1, GotoFacts
    <3>3. procs[task.gen] \in Seq(Procs)
      BY <2>1 DEF TypeInv
    <3>4. Head(procs[task.gen]) \in Procs /\ Tail(procs[task.gen]) \in Seq(Procs)
      BY <2>2, <3>3, HeadTailProperties
    <3>5. procs' \in [Gens -> Seq(Procs)]
      BY <3>1, <3>4 DEF TypeInv
    <3> QED BY <1>13, <3>1, <3>2, <3>4, <3>5 DEF StopNext, extension, TypeInv
  <2>3. CASE procs[task.gen] = << >>
    BY <1>0, <1>13, <2>3 DEF StopNext, extension, TypeInv
  <2> QED BY <2>2, <2>3
<1>14. CASE RemoveHook
  <2>1. /\ cur.hooks # << >> /\ scoped' = Unregistered(Head(cur.hooks))
        /\ cur' = [cur EXCEPT !.hooks = Tail(@)]
    BY <1>14 DEF RemoveHook
  <2>2. Tail(cur.hooks) \in Seq(Nat)
    BY <2>1, HeadTailProperties DEF TypeInv, Procs
  <2>3. cur' \in Procs
    BY <2>1, <2>2 DEF TypeInv, Procs
  <2>4. scoped' \in Seq(ScopedHooks)
    BY <1>14, RemovedHook, RemoveAtKeeps DEF TypeInv
  <2> QED BY <1>14, <2>3, <2>4 DEF RemoveHook, TypeInv
<1>15. CASE UnbindHandler
  <2>1. /\ cur.handlers # << >> /\ Unbinding
        /\ bound' = [bound EXCEPT ![task.gen][Head(cur.handlers)] = None]
        /\ cur' = [cur EXCEPT !.handlers = Tail(@)]
    BY <1>15 DEF UnbindHandler
  <2>2. Tail(cur.handlers) \in Seq(Keys)
    BY <2>1, HeadTailProperties DEF TypeInv, Procs
  <2>3. cur' \in Procs
    BY <2>1, <2>2 DEF TypeInv, Procs
  <2>4. bound' \in [Gens -> [Keys -> {None} \cup Processes]]
    BY <2>1 DEF TypeInv
  <2> QED BY <1>15, <2>3, <2>4 DEF UnbindHandler, extension, TypeInv
<1>16. CASE Kill
  <2>1. task.step \in {"unbind", "stopping"} /\ task.gen \in Gens /\ task.at \in Nat
    BY <1>16 DEF Kill, Unbinding, TypeInv, Tasks
  <2>2. /\ task' = [task EXCEPT !.step = "start", !.at = @ + 1, !.n = 1] \/ Goto("stop")
        /\ procs' = [procs EXCEPT ![task.gen] = Append(@, cur)] \/ UNCHANGED procs
    BY <1>16 DEF Kill
  <2>3. task' \in Tasks /\ task'.step \in {"start", "stop"} /\ task'.at \in Nat
    BY <2>1, <2>2, NextFacts, GotoFacts
  <2>4. procs' \in [Gens -> Seq(Procs)]
    <3>1. Append(procs[task.gen], cur) \in Seq(Procs)
      BY <2>1, AppendProperties DEF TypeInv
    <3> QED BY <2>1, <2>2, <3>1 DEF TypeInv
  <2> QED BY <1>0, <1>16, <2>3, <2>4 DEF Kill, extension, TypeInv
<1>17. ASSUME NEW g \in Gens, NEW i \in DOMAIN Paths, ProcessDies(g, i)
       PROVE  TypeInv'
  BY <1>17 DEF ProcessDies, extension, TypeInv
<1> QED BY <1>1, <1>2, <1>3, <1>4, <1>5, <1>6, <1>7, <1>8, <1>9, <1>10, <1>11, <1>12, <1>13,
           <1>14, <1>15, <1>16, <1>17 DEF Next, Manage

-----------------------------------------------------------------------------
(* Platforms and lists of plugins *)

\* Steps on the plugin at hand
Work == \/ StartProcess \/ StartFails \/ DescribeFails \/ DomainFails \/ BadKind
        \/ ApplyDomain \/ BindHandler \/ RegisterScoped \/ RemoveHook \/ UnbindHandler

LEMMA WorkFacts ==
    ASSUME TypeInv, Work
    PROVE  /\ UNCHANGED <<served, builds, procs>>
           /\ task'.gen = task.gen /\ task'.at = task.at
           /\ \/ task.step = "start" /\ task.at <= Len(Paths) /\ cur'.at = task.at
              \/ task.step \in Starting /\ cur'.at = cur.at
              \/ task.step = "stopping" /\ task'.step = "stopping" /\ cur'.at = cur.at
           /\ task.step # "stopping" => task'.step \in Starting
<1> USE DEF Steps, Busy, Starting, Building, Stopping
<1>1. CASE StartProcess \/ StartFails
  <2>1. /\ task.step = "start" /\ task.at \in Nat /\ task.at <= Len(Paths)
        /\ \E step \in {"domains", "unbind"} : Goto(step)
    BY <1>1 DEF StartProcess, StartFails, TypeInv
  <2>2. task'.gen = task.gen /\ task'.at = task.at /\ task'.step \in Starting
    BY <2>1, GotoFacts
  <2>3. cur'.at = task.at
    BY <1>1 DEF StartProcess, StartFails, NoProc
  <2> QED BY <1>1, <2>1, <2>2, <2>3 DEF StartProcess, StartFails
<1>2. CASE DescribeFails \/ DomainFails \/ BadKind
  <2>1. task.step \in {"domains", "handlers"} /\ Erred
    BY <1>2 DEF DescribeFails, DomainFails, BadKind
  <2>2. task'.gen = task.gen /\ task'.at = task.at /\ task'.step = "unbind"
    BY <2>1, GotoFacts DEF Erred, TypeInv
  <2>3. cur'.at = cur.at
    BY <2>1 DEF Erred, TypeInv, Procs
  <2> QED BY <2>1, <2>2, <2>3 DEF Erred
<1>3. CASE ApplyDomain \/ BindHandler \/ RegisterScoped
  <2>1. /\ task.step \in {"domains", "handlers", "hooks"}
        /\ UNCHANGED <<served, builds, procs>>
        /\ Goto("handlers") \/ Goto("hooks") \/ task' = [task EXCEPT !.n = @ + 1]
    BY <1>3 DEF ApplyDomain, BindHandler, RegisterScoped
  <2>2. task'.gen = task.gen /\ task'.at = task.at /\ task'.step \in Starting
    BY <2>1, GotoFacts, CountFacts DEF TypeInv
  <2>3. cur'.at = cur.at
    BY <1>3 DEF ApplyDomain, BindHandler, RegisterScoped, TypeInv, Procs
  <2> QED BY <2>1, <2>2, <2>3
<1>4. CASE RemoveHook \/ UnbindHandler
  BY <1>4 DEF RemoveHook, UnbindHandler, Unbinding, TypeInv, Procs
<1> QED BY <1>1, <1>2, <1>3, <1>4 DEF Work

\* Listing the plugin at hand, or going on without it
LEMMA KillFacts ==
    ASSUME TypeInv, Kill
    PROVE  /\ cur.hooks = << >> /\ cur.handlers = << >> /\ cur' = NoProc
           /\ running' = running \ {Owner} /\ UNCHANGED <<served, builds, bound, scoped, nextScopedID>>
           /\ task.gen \in Gens /\ task'.gen = task.gen
           /\ \/ /\ task.step = "unbind" /\ task'.step = "start" /\ task'.at = task.at + 1
                 /\ procs' = [procs EXCEPT ![task.gen] = Append(procs[task.gen], cur)]
              \/ /\ task.step = "stopping" /\ task'.step = "stop" /\ UNCHANGED procs
<1>1. task.step \in {"unbind", "stopping"} /\ task.gen \in Gens /\ task.at \in Nat
  BY DEF Kill, Unbinding, TypeInv, Tasks
<1>2. CASE task.step = "unbind"
  BY <1>1, <1>2, NextFacts DEF Kill, Busy, Starting, extension
<1>3. CASE task.step = "stopping"
  <2>1. Goto("stop")
    BY <1>3 DEF Kill
  <2>2. task'.gen = task.gen /\ task'.step = "stop"
    BY <1>1, <1>3, <2>1, GotoFacts DEF Steps, Stopping
  <2> QED BY <1>1, <1>3, <2>2 DEF Kill, extension
<1> QED BY <1>1, <1>2, <1>3

LEMMA StartedFacts ==
    ASSUME TypeInv, Started
    PROVE  /\ task.step = "hooks" /\ task.gen \in Gens /\ cur' = NoProc
           /\ UNCHANGED <<served, builds, running, bound, scoped, nextScopedID>>
           /\ task'.step = "start" /\ task'.gen = task.gen /\ task'.at = task.at + 1
           /\ procs' = [procs EXCEPT ![task.gen] = Append(procs[task.gen], cur)]
<1>1. task.step = "hooks" /\ task.gen \in Gens
  BY DEF Started, TypeInv, Tasks
<1> QED BY <1>1, NextFacts DEF Started, Busy, Starting, extension

LEMMA StopNextFacts ==
    ASSUME TypeInv, StopNext
    PROVE  /\ task.step = "stop" /\ task.gen \in Gens
           /\ UNCHANGED <<served, builds, running, bound, scoped, nextScopedID>>
           /\ \/ /\ procs[task.gen] # << >>
                 /\ cur' = Head(procs[task.gen])
                 /\ procs' = [procs EXCEPT ![task.gen] = Tail(procs[task.gen])]
                 /\ task'.step = "stopping" /\ task'.gen = task.gen
              \/ procs[task.gen] = << >> /\ task' = Free /\ UNCHANGED procs
<1>1. task.step = "stop" /\ task.gen \in Gens /\ task.at \in Nat
  BY DEF StopNext, TypeInv, Tasks
<1>2. Goto("stopping") => task'.step = "stopping" /\ task'.gen = task.gen
  BY <1>1, GotoFacts DEF Steps, Stopping
<1> QED BY <1>1, <1>2 DEF StopNext, extension

\* Steps between platforms and before the first plugin
LEMMA BetweenFacts ==
    ASSUME TypeInv, \/ BuildFails \/ Extend \/ Built \/ Swap \/ EnterBootstrap
                    \/ \E db \in DOMAIN Extends : Begin(db)
    PROVE  /\ UNCHANGED <<procs, cur, running, bound, scoped, nextScopedID>>
           /\ task.step \notin Busy /\ task'.step \notin Busy
           /\ task.step # "free" => task.gen \in Gens
           /\ \/ /\ task.step = "free" /\ task'.step = "extend" /\ UNCHANGED served
                 /\ builds < MaxBuilds /\ builds' = builds + 1 /\ task'.gen = builds'
              \/ task.step = "extend" /\ task' = Free /\ UNCHANGED <<served, builds>>
              \/ /\ task.step = "extend" /\ task'.gen = task.gen /\ UNCHANGED <<served, builds>>
                 /\ task'.step = "extend" \/ (task'.step = "start" /\ task'.at = 1)
              \/ /\ task.step = "start" /\ served' = task.gen /\ UNCHANGED builds
                 /\ \/ served = 0 /\ task' = Free
                    \/ served # 0 /\ task'.step = "stop" /\ task'.gen = served
              \/ /\ task.step = "free" /\ served # 0 /\ served' = 0 /\ UNCHANGED builds
                 /\ task'.step = "stop" /\ task'.gen = served
<1> USE DEF Busy, Starting, Free, plugins, extension
<1>1. task.step # "free" => task.gen \in Gens
  BY DEF TypeInv, Tasks
<1>2. CASE BuildFails \/ Swap \/ EnterBootstrap \/ \E db \in DOMAIN Extends : Begin(db)
  BY <1>1, <1>2 DEF BuildFails, Swap, EnterBootstrap, Begin
<1>3. CASE Extend
  BY <1>1, <1>3, CountFacts DEF Extend
<1>4. CASE Built
  <2>1. task' = [step |-> "start", gen |-> task.gen, at |-> 1, n |-> 1]
    BY <1>4 DEF Built, TypeInv, Tasks
  <2> QED BY <1>1, <1>4, <2>1 DEF Built
<1> QED BY <1>2, <1>3, <1>4

LEMMA GenStep ==
    ASSUME TypeInv, GenInv, [Next]_vars
    PROVE  GenInv'
<1> USE DEF Busy, Starting, Building, Stopping
<1>0. /\ Gens = 0 .. MaxBuilds /\ MaxBuilds \in Nat /\ served \in Gens /\ builds \in Gens
      /\ procs \in [Gens -> Seq(Procs)]
  BY PluginsAssumption DEF Gens, TypeInv
<1>1. CASE UNCHANGED Managed
  BY <1>1 DEF Managed, GenInv
<1>2. ASSUME NEW g \in Gens, NEW i \in DOMAIN Paths, ProcessDies(g, i)
      PROVE  GenInv'
  BY <1>2 DEF ProcessDies, GenInv
<1>3. CASE Work
  BY <1>3, WorkFacts DEF GenInv
<1>4. CASE Kill
  <2>1. \A g \in Gens \ {task.gen} : procs'[g] = procs[g]
    BY <1>0, <1>4, KillFacts
  <2>2. task.gen # 0
    BY <1>4, KillFacts DEF GenInv
  <2> QED BY <1>0, <1>4, <2>1, <2>2, KillFacts DEF GenInv
<1>5. CASE Started
  <2>1. \A g \in Gens \ {task.gen} : procs'[g] = procs[g]
    BY <1>0, <1>5, StartedFacts
  <2> QED BY <1>0, <1>5, <2>1, StartedFacts DEF GenInv
<1>6. CASE StopNext
  <2>1. /\ task.step = "stop" /\ task.gen \in Gens /\ task.gen # 0 /\ task.gen # served
        /\ task.gen \in 1 .. builds /\ UNCHANGED <<served, builds>>
    BY <1>6, StopNextFacts DEF GenInv
  <2>2. CASE procs[task.gen] # << >>
    <3>1. /\ procs' = [procs EXCEPT ![task.gen] = Tail(procs[task.gen])]
          /\ task'.step = "stopping" /\ task'.gen = task.gen
      BY <1>6, <2>2, StopNextFacts
    <3>2. \A g \in Gens \ {task.gen} : procs'[g] = procs[g]
      BY <1>0, <3>1
    <3> QED BY <1>0, <2>1, <3>1, <3>2 DEF GenInv
  <2>3. CASE procs[task.gen] = << >>
    <3>1. task' = Free /\ UNCHANGED procs
      BY <1>6, <2>3, StopNextFacts
    <3>2. \A g \in Gens : g = 0 \/ g # served => procs[g] = << >>
      BY <2>1, <2>3 DEF GenInv
    <3> QED BY <1>0, <2>1, <3>1, <3>2 DEF GenInv, Free
  <2> QED BY <2>2, <2>3
<1>7. CASE \/ BuildFails \/ Extend \/ Built \/ Swap \/ EnterBootstrap
           \/ \E db \in DOMAIN Extends : Begin(db)
  <2>1. task.step = "free" => task.gen = 0
    BY DEF TypeInv, Free
  <2>2. UNCHANGED procs /\ (task.step # "free" => task.gen \in Gens)
    BY <1>7, BetweenFacts
  <2>3. CASE /\ task.step = "free" /\ task'.step = "extend" /\ UNCHANGED served
             /\ builds < MaxBuilds /\ builds' = builds + 1 /\ task'.gen = builds'
    <3>1. task'.gen \in Gens /\ task'.gen \notin {0, served}
      BY <1>0, <2>3 DEF GenInv
    <3> QED BY <1>0, <2>1, <2>2, <2>3, <3>1 DEF GenInv
  <2>4. CASE task.step = "extend" /\ task' = Free /\ UNCHANGED <<served, builds>>
    BY <1>0, <2>2, <2>4 DEF GenInv, Free
  <2>5. CASE /\ task.step = "extend" /\ task'.gen = task.gen /\ UNCHANGED <<served, builds>>
             /\ task'.step = "extend" \/ (task'.step = "start" /\ task'.at = 1)
    BY <1>0, <2>2, <2>5 DEF GenInv
  <2>6. CASE /\ task.step = "start" /\ served' = task.gen /\ UNCHANGED builds
             /\ \/ served = 0 /\ task' = Free
                \/ served # 0 /\ task'.step = "stop" /\ task'.gen = served
    <3>1. task.gen = builds /\ task.gen # served /\ served \in 0 .. builds
      BY <1>0, <2>6 DEF GenInv
    <3>2. \A g \in Gens : g = 0 \/ g \notin {served, task.gen} => procs[g] = << >>
      BY DEF GenInv
    <3>3. CASE served = 0 /\ task' = Free
      BY <1>0, <2>2, <2>6, <3>1, <3>2, <3>3 DEF GenInv, Free
    <3>4. CASE served # 0 /\ task'.step = "stop" /\ task'.gen = served
      BY <1>0, <2>2, <2>6, <3>1, <3>2, <3>4 DEF GenInv
    <3> QED BY <2>6, <3>3, <3>4
  <2>7. CASE /\ task.step = "free" /\ served # 0 /\ served' = 0 /\ UNCHANGED builds
             /\ task'.step = "stop" /\ task'.gen = served
    BY <1>0, <2>1, <2>2, <2>7 DEF GenInv
  <2> QED BY <1>7, BetweenFacts, <2>3, <2>4, <2>5, <2>6, <2>7
<1> QED BY <1>1, <1>2, <1>3, <1>4, <1>5, <1>6, <1>7, RequestsManageNothing
       DEF Next, Manage, Work

\* A plugin whose start has ended, well or not, is the last of its manager's list.
LEMMA ListedNext ==
    ASSUME TypeInv, OrderInv, task.step \in Starting, task.gen \in Gens,
           procs' = [procs EXCEPT ![task.gen] = Append(procs[task.gen], cur)]
    PROVE  /\ \A g \in Gens \ {task.gen} : procs'[g] = procs[g]
           /\ DOMAIN procs'[task.gen] = DOMAIN procs[task.gen] \cup {Len(procs[task.gen]) + 1}
           /\ \A i \in DOMAIN procs[task.gen] : procs'[task.gen][i] = procs[task.gen][i]
           /\ procs'[task.gen][Len(procs[task.gen]) + 1] = cur
           /\ Len(procs[task.gen]) + 1 \notin DOMAIN procs[task.gen]
           /\ \A i \in DOMAIN procs'[task.gen] :
                  /\ procs'[task.gen][i].at \in DOMAIN Paths
                  /\ procs'[task.gen][i].at < task.at + 1
                  /\ \A j \in DOMAIN procs'[task.gen] :
                         procs'[task.gen][i].at = procs'[task.gen][j].at => i = j
<1> DEFINE s == procs[task.gen]
           t == procs'[task.gen]
<1>1. s \in Seq(Procs) /\ cur \in Procs /\ t = Append(s, cur)
      /\ \A g \in Gens \ {task.gen} : procs'[g] = procs[g]
  BY DEF TypeInv
<1>2. /\ cur.at = task.at /\ task.at \in DOMAIN Paths /\ task.at \in Nat
      /\ \A i \in DOMAIN s :
             /\ s[i].at \in DOMAIN Paths /\ s[i].at < task.at
             /\ \A j \in DOMAIN s : s[i].at = s[j].at => i = j
  <2>1. cur.at = task.at /\ cur.at \in DOMAIN Paths /\ cur.at \in Nat
    BY <1>1 DEF OrderInv, Busy, Starting, Procs
  <2> QED BY <2>1 DEF OrderInv
<1>3. \A i \in DOMAIN s : s[i].at \in Nat
  <2> HIDE DEF s, t
  <2>1. \A i \in DOMAIN s : s[i] \in Procs
    BY <1>1, RangeElement
  <2> QED BY <2>1 DEF Procs
<1> HIDE DEF s, t
<1>4. /\ DOMAIN s = 1 .. Len(s) /\ Len(s) \in Nat /\ DOMAIN t = 1 .. Len(s) + 1
      /\ \A i \in 1 .. Len(s) : t[i] = s[i]
      /\ t[Len(s) + 1] = cur
  BY <1>1, AppendProperties, LenProperties
<1>5. DOMAIN t = DOMAIN s \cup {Len(s) + 1} /\ Len(s) + 1 \notin DOMAIN s
  BY <1>4
<1>6. \A i \in DOMAIN t : t[i].at \in DOMAIN Paths /\ t[i].at < task.at + 1
  BY <1>2, <1>3, <1>4
<1>7. ASSUME NEW i \in DOMAIN t, NEW j \in DOMAIN t, t[i].at = t[j].at
      PROVE  i = j
  <2>1. CASE i \in DOMAIN s /\ j \in DOMAIN s
    BY <1>2, <1>4, <1>7, <2>1
  <2>2. CASE i = Len(s) + 1 \/ j = Len(s) + 1
    BY <1>2, <1>3, <1>4, <1>5, <1>7, <2>2
  <2> QED BY <1>5, <2>1, <2>2
<1> QED BY <1>1, <1>4, <1>5, <1>6, <1>7 DEF s, t

LEMMA OrderStep ==
    ASSUME TypeInv, GenInv, OrderInv, [Next]_vars
    PROVE  OrderInv'
<1> USE DEF Busy, Starting
<1>0. procs \in [Gens -> Seq(Procs)] /\ Len(Paths) \in Nat /\ DOMAIN Paths = 1 .. Len(Paths)
  BY PluginsAssumption, LenProperties DEF TypeInv, Listed
<1>1. CASE UNCHANGED Managed
  BY <1>1 DEF Managed, OrderInv
<1>2. ASSUME NEW g \in Gens, NEW i \in DOMAIN Paths, ProcessDies(g, i)
      PROVE  OrderInv'
  BY <1>2 DEF ProcessDies, OrderInv
<1>3. CASE Work
  <2>1. UNCHANGED procs /\ task'.gen = task.gen /\ task'.at = task.at
    BY <1>3, WorkFacts
  <2>2. CASE task.step = "start" /\ task.at <= Len(Paths) /\ cur'.at = task.at
    <3>1. task.at \in 1 .. Len(Paths) /\ task'.step \in Starting
      BY <1>0, <1>3, <2>2, WorkFacts DEF OrderInv
    <3>2. \A i \in DOMAIN procs[task.gen] :
              procs[task.gen][i].at < task.at /\ procs[task.gen][i].at \in Nat
      <4>1. procs[task.gen] \in Seq(Procs)
        BY <1>0, <2>2 DEF TypeInv, Tasks
      <4>2. \A i \in DOMAIN procs[task.gen] : procs[task.gen][i] \in Procs
        BY <4>1, RangeElement
      <4> QED BY <2>2, <4>2 DEF OrderInv, Procs
    <3>3. \A i \in DOMAIN procs[task.gen] : procs[task.gen][i].at # task.at
      BY <3>2, <3>1
    <3> QED BY <1>0, <2>1, <2>2, <3>1, <3>2, <3>3 DEF OrderInv
  <2>3. CASE task.step \in Starting /\ cur'.at = cur.at
    <3>1. task'.step \in Starting
      BY <1>3, <2>3, WorkFacts
    <3> QED BY <2>1, <2>3, <3>1 DEF OrderInv
  <2>4. CASE task.step = "stopping" /\ task'.step = "stopping" /\ cur'.at = cur.at
    BY <2>1, <2>4 DEF OrderInv
  <2> QED BY <1>3, <2>2, <2>3, <2>4, WorkFacts
<1>4. CASE Kill \/ Started
  <2>1. CASE task.step \in Starting
    <3>1. /\ task.gen \in Gens /\ task'.gen = task.gen
          /\ procs' = [procs EXCEPT ![task.gen] = Append(procs[task.gen], cur)]
          /\ task'.step = "start" /\ task'.at = task.at + 1
      BY <1>4, <2>1, KillFacts, StartedFacts
    <3>2. task.at \in 1 .. Len(Paths)
      BY <1>0, <2>1 DEF OrderInv
    <3>3. task'.at \in 1 .. Len(Paths) + 1
      BY <1>0, <3>1, <3>2
    <3>4. \A g \in Gens : \A i \in DOMAIN procs'[g] :
              /\ procs'[g][i].at \in DOMAIN Paths
              /\ \A j \in DOMAIN procs'[g] : procs'[g][i].at = procs'[g][j].at => i = j
      <4> SUFFICES ASSUME NEW g \in Gens
                   PROVE  \A i \in DOMAIN procs'[g] :
                              /\ procs'[g][i].at \in DOMAIN Paths
                              /\ \A j \in DOMAIN procs'[g] :
                                     procs'[g][i].at = procs'[g][j].at => i = j
        OBVIOUS
      <4>1. CASE g = task.gen
        BY <2>1, <3>1, <4>1, ListedNext
      <4>2. CASE g # task.gen
        <5>1. procs'[g] = procs[g]
          BY <2>1, <3>1, <4>2, ListedNext
        <5> QED BY <5>1 DEF OrderInv
      <4> QED BY <4>1, <4>2
    <3>5. \A i \in DOMAIN procs'[task'.gen] : procs'[task'.gen][i].at < task'.at
      BY <2>1, <3>1, ListedNext
    <3> QED BY <3>1, <3>3, <3>4, <3>5 DEF OrderInv
  <2>2. CASE task.step \notin Starting
    <3>1. task'.step = "stop" /\ UNCHANGED procs
      BY <1>4, <2>2, KillFacts, StartedFacts
    <3> QED BY <3>1 DEF OrderInv
  <2> QED BY <2>1, <2>2
<1>5. CASE StopNext
  <2>1. CASE procs[task.gen] = << >>
    <3>1. task' = Free /\ UNCHANGED procs
      BY <1>5, <2>1, StopNextFacts
    <3> QED BY <3>1 DEF OrderInv, Free
  <2>2. CASE procs[task.gen] # << >>
    <3> DEFINE s == procs[task.gen]
    <3>1. /\ cur' = Head(s) /\ procs' = [procs EXCEPT ![task.gen] = Tail(s)]
          /\ task'.step = "stopping" /\ task'.gen = task.gen /\ task.gen \in Gens
      BY <1>5, <2>2, StopNextFacts
    <3>2. s \in Seq(Procs)
      BY <1>0, <3>1
    <3>3. /\ 1 \in DOMAIN s /\ Head(s) = s[1]
          /\ \A i \in DOMAIN Tail(s) : i + 1 \in DOMAIN s /\ Tail(s)[i] = s[i + 1]
          /\ \A i \in DOMAIN Tail(s) : i \in Nat /\ i > 0
      <4>1. /\ Tail(s) \in Seq(Procs) /\ 1 \in DOMAIN s /\ Head(s) = s[1]
            /\ \A i \in DOMAIN Tail(s) : i + 1 \in DOMAIN s /\ Tail(s)[i] = s[i + 1]
        BY <2>2, <3>2, RangeTail
      <4> QED BY <4>1, LenProperties
    <3>4. procs'[task.gen] = Tail(s) /\ \A g \in Gens \ {task.gen} : procs'[g] = procs[g]
      BY <1>0, <3>1
    <3>5. \A i \in DOMAIN s : /\ s[i].at \in DOMAIN Paths
                             /\ \A j \in DOMAIN s : s[i].at = s[j].at => i = j
      BY <3>1 DEF OrderInv
    <3> HIDE DEF s
    <3>6. \A i \in DOMAIN Tail(s) : /\ Tail(s)[i].at \in DOMAIN Paths
                                   /\ Tail(s)[i].at # Head(s).at
      BY <3>3, <3>5
    <3>7. \A i, j \in DOMAIN Tail(s) : Tail(s)[i].at = Tail(s)[j].at => i = j
      BY <3>3, <3>5
    <3>8. cur'.at \in DOMAIN Paths
      BY <3>1, <3>3, <3>5
    <3>9. \A g \in Gens : \A i \in DOMAIN procs'[g] :
              /\ procs'[g][i].at \in DOMAIN Paths
              /\ \A j \in DOMAIN procs'[g] : procs'[g][i].at = procs'[g][j].at => i = j
      BY <3>4, <3>6, <3>7 DEF OrderInv
    <3>10. \A i \in DOMAIN procs'[task'.gen] : procs'[task'.gen][i].at # cur'.at
      BY <3>1, <3>4, <3>6
    <3> QED BY <3>1, <3>8, <3>9, <3>10 DEF OrderInv
  <2> QED BY <2>1, <2>2
<1>6. CASE \/ BuildFails \/ Extend \/ Built \/ Swap \/ EnterBootstrap
           \/ \E db \in DOMAIN Extends : Begin(db)
  <2>1. /\ UNCHANGED procs /\ task'.step \notin Busy
        /\ task'.step = "start" => task.step = "extend" /\ task'.gen = task.gen /\ task'.at = 1
    BY <1>6, BetweenFacts DEF Free
  <2>2. task'.step = "start" => procs[task'.gen] = << >>
    BY <2>1 DEF GenInv
  <2>3. 1 \in 1 .. Len(Paths) + 1
    BY <1>0
  <2> QED BY <2>1, <2>2, <2>3 DEF OrderInv
<1> QED BY <1>1, <1>2, <1>3, <1>4, <1>5, <1>6, RequestsManageNothing
       DEF Next, Manage, Work

LEMMA ErrorStep ==
    ASSUME TypeInv, OrderInv, ErrorInv, [Next]_vars
    PROVE  ErrorInv'
<1> USE DEF Busy, Starting
<1>0. procs \in [Gens -> Seq(Procs)] /\ cur \in Procs
  BY DEF TypeInv
<1>1. CASE UNCHANGED Managed
  BY <1>1 DEF Managed, ErrorInv
<1>2. ASSUME NEW g \in Gens, NEW i \in DOMAIN Paths, ProcessDies(g, i)
      PROVE  ErrorInv'
  BY <1>2 DEF ProcessDies, ErrorInv
<1>3. CASE StartProcess \/ StartFails
  <2>1. /\ cur'.hooks = << >> /\ cur'.handlers = << >> /\ task'.step \in {"domains", "unbind"}
        /\ cur'.error = (task'.step = "unbind") /\ UNCHANGED procs
    <3>1. task.step = "start" /\ task.at \in Nat
      BY <1>3 DEF StartProcess, StartFails, TypeInv
    <3>2. CASE StartProcess
      <4>1. Goto("domains") /\ cur' = [NoProc EXCEPT !.at = task.at] /\ UNCHANGED procs
        BY <3>2 DEF StartProcess
      <4>2. task'.step = "domains"
        BY <3>1, <4>1, GotoFacts DEF Steps, Building
      <4> QED BY <4>1, <4>2 DEF NoProc
    <3>3. CASE StartFails
      <4>1. /\ Goto("unbind") /\ cur' = [NoProc EXCEPT !.at = task.at, !.error = TRUE]
            /\ UNCHANGED procs
        BY <3>3 DEF StartFails
      <4>2. task'.step = "unbind"
        BY <3>1, <4>1, GotoFacts DEF Steps, Building
      <4> QED BY <4>1, <4>2 DEF NoProc
    <3> QED BY <1>3, <3>2, <3>3
  <2> QED BY <2>1 DEF ErrorInv
<1>4. CASE DescribeFails \/ DomainFails \/ BadKind
  <2>1. Erred /\ task.step \in {"domains", "handlers"}
    BY <1>4 DEF DescribeFails, DomainFails, BadKind
  <2>2. cur'.error /\ task'.step = "unbind" /\ UNCHANGED procs
    BY <1>0, <2>1, GotoFacts DEF Erred, Steps, Building, TypeInv, Procs
  <2> QED BY <2>2 DEF ErrorInv
<1>5. CASE ApplyDomain
  <2>1. /\ task.step = "domains" /\ UNCHANGED <<cur, procs>>
        /\ Goto("handlers") \/ task' = [task EXCEPT !.n = @ + 1]
    BY <1>5 DEF ApplyDomain
  <2>2. task'.step \in {"domains", "handlers"}
    BY <2>1, GotoFacts, CountFacts DEF Steps, Building, TypeInv
  <2> QED BY <2>1, <2>2 DEF ErrorInv
<1>6. CASE BindHandler
  <2>1. task.step = "handlers" /\ UNCHANGED procs
    BY <1>6 DEF BindHandler
  <2>2. CASE task.n <= Len(Described.handlers)
    <3>1. cur'.hooks = cur.hooks /\ cur'.error = cur.error /\ task'.step = "handlers"
      BY <1>0, <1>6, <2>1, <2>2, CountFacts DEF BindHandler, Procs
    <3> QED BY <2>1, <3>1 DEF ErrorInv
  <2>3. CASE ~(task.n <= Len(Described.handlers))
    <3>1. Goto("hooks") /\ UNCHANGED cur
      BY <1>6, <2>3 DEF BindHandler
    <3>2. task'.step = "hooks"
      BY <2>1, <3>1, GotoFacts DEF Steps, Building, TypeInv
    <3> QED BY <2>1, <3>1, <3>2 DEF ErrorInv
  <2> QED BY <2>2, <2>3
<1>7. CASE RegisterScoped
  <2>1. task.step = "hooks" /\ task'.step = "hooks" /\ cur'.error = cur.error /\ UNCHANGED procs
    BY <1>0, <1>7, CountFacts DEF RegisterScoped, Procs
  <2> QED BY <2>1 DEF ErrorInv
<1>8. CASE RemoveHook \/ UnbindHandler
  <2>1. /\ task.step \in {"unbind", "stopping"} /\ UNCHANGED <<task, procs>>
        /\ cur'.error = cur.error
    BY <1>0, <1>8 DEF RemoveHook, UnbindHandler, Unbinding, Procs
  <2> QED BY <2>1 DEF ErrorInv
<1>9. CASE Kill \/ Started
  <2>1. task'.step \in {"start", "stop"}
    BY <1>9, KillFacts, StartedFacts
  <2>2. CASE task.step \in Starting
    <3>1. /\ task.gen \in Gens
          /\ procs' = [procs EXCEPT ![task.gen] = Append(procs[task.gen], cur)]
          /\ cur.error => cur.hooks = << >> /\ cur.handlers = << >>
      BY <1>9, <2>2, KillFacts, StartedFacts DEF ErrorInv
    <3>2. \A i \in DOMAIN procs'[task.gen] : procs'[task.gen][i].error =>
              procs'[task.gen][i].hooks = << >> /\ procs'[task.gen][i].handlers = << >>
      BY <2>2, <3>1, ListedNext DEF ErrorInv
    <3>3. \A g \in Gens \ {task.gen} : procs'[g] = procs[g]
      BY <1>0, <3>1
    <3> QED BY <2>1, <3>2, <3>3 DEF ErrorInv
  <2>3. CASE task.step \notin Starting
    BY <1>9, <2>1, <2>3, KillFacts, StartedFacts DEF ErrorInv
  <2> QED BY <2>2, <2>3
<1>10. CASE StopNext
  <2>1. task.gen \in Gens
    BY <1>10, StopNextFacts
  <2>2. CASE procs[task.gen] = << >>
    BY <1>10, <2>2, StopNextFacts DEF ErrorInv, Free
  <2>3. CASE procs[task.gen] # << >>
    <3> DEFINE s == procs[task.gen]
    <3>1. /\ procs' = [procs EXCEPT ![task.gen] = Tail(s)] /\ task'.step = "stopping"
          /\ s \in Seq(Procs) /\ s # << >>
      BY <1>0, <1>10, <2>1, <2>3, StopNextFacts
    <3>2. \A i \in DOMAIN s : s[i].error => s[i].hooks = << >> /\ s[i].handlers = << >>
      BY <2>1 DEF ErrorInv
    <3>3. procs'[task.gen] = Tail(s) /\ \A g \in Gens \ {task.gen} : procs'[g] = procs[g]
      BY <1>0, <2>1, <3>1
    <3> HIDE DEF s
    <3>4. \A i \in DOMAIN Tail(s) : i + 1 \in DOMAIN s /\ Tail(s)[i] = s[i + 1]
      BY <3>1, RangeTail
    <3> QED BY <3>1, <3>2, <3>3, <3>4 DEF ErrorInv
  <2> QED BY <2>2, <2>3
<1>11. CASE \/ BuildFails \/ Extend \/ Built \/ Swap \/ EnterBootstrap
            \/ \E db \in DOMAIN Extends : Begin(db)
  <2>1. UNCHANGED procs /\ task'.step \notin Busy
    BY <1>11, BetweenFacts
  <2> QED BY <2>1 DEF ErrorInv
<1> QED BY <1>1, <1>2, <1>3, <1>4, <1>5, <1>6, <1>7, <1>8, <1>9, <1>10, <1>11,
           RequestsManageNothing DEF Next, Manage

-----------------------------------------------------------------------------
(* The plugins that may have something registered *)

\* Two plugins of one platform come from different positions of the list.
LEMMA OneOfEach ==
    ASSUME TypeInv, OrderInv, NEW g \in Gens, NEW p \in Live(g), NEW q \in Live(g), p.at = q.at
    PROVE  p = q
<1>1. CASE p \in Range(procs[g]) /\ q \in Range(procs[g])
  <2>1. PICK i \in DOMAIN procs[g] : p = procs[g][i]
    BY <1>1 DEF Range
  <2>2. PICK j \in DOMAIN procs[g] : q = procs[g][j]
    BY <1>1 DEF Range
  <2> QED BY <2>1, <2>2 DEF OrderInv
<1>2. CASE p \notin Range(procs[g]) \/ q \notin Range(procs[g])
  <2>1. ASSUME NEW r \in Range(procs[g]), task.step \in Busy, g = task.gen
        PROVE  r.at # cur.at
    BY <2>1 DEF Range, OrderInv
  <2> QED BY <1>2, <2>1 DEF Live
<1> QED BY <1>1, <1>2

\* Work on the plugin at hand is about no other plugin.
LEMMA LiveWork ==
    ASSUME TypeInv, Work, NEW g \in Gens
    PROVE  /\ Live(g)' = Range(procs[g]) \cup (IF g = task.gen THEN {cur'} ELSE {})
           /\ Live(g) = Range(procs[g]) \cup
                            (IF g = task.gen /\ task.step # "start" THEN {cur} ELSE {})
BY WorkFacts DEF Live, Busy, Starting

\* A plugin that is listed, or taken from the list to be unbound, stays the same.
LEMMA LiveKept ==
    ASSUME TypeInv, NEW g \in Gens,
           \/ BuildFails \/ Extend \/ Built \/ Swap \/ EnterBootstrap
           \/ \E db \in DOMAIN Extends : Begin(db)
           \/ Started \/ StopNext \/ (Kill /\ task.step = "unbind")
    PROVE  Live(g)' = Live(g) /\ UNCHANGED <<bound, scoped, nextScopedID>>
<1> USE DEF Busy, Starting
<1>0. procs \in [Gens -> Seq(Procs)] /\ cur \in Procs
  BY DEF TypeInv
<1>1. CASE \/ BuildFails \/ Extend \/ Built \/ Swap \/ EnterBootstrap
           \/ \E db \in DOMAIN Extends : Begin(db)
  BY <1>1, BetweenFacts DEF Live
<1>2. CASE Started \/ (Kill /\ task.step = "unbind")
  <2>1. /\ task.step \in {"hooks", "unbind"} /\ task.gen \in Gens /\ task'.step = "start"
        /\ procs' = [procs EXCEPT ![task.gen] = Append(procs[task.gen], cur)]
        /\ UNCHANGED <<bound, scoped, nextScopedID>>
    BY <1>2, StartedFacts, KillFacts
  <2>2. Range(Append(procs[task.gen], cur)) = Range(procs[task.gen]) \cup {cur}
    BY <1>0, <2>1, RangeAppend
  <2>3. procs'[g] = IF g = task.gen THEN Append(procs[task.gen], cur) ELSE procs[g]
    BY <1>0, <2>1
  <2> QED BY <2>1, <2>2, <2>3 DEF Live
<1>3. CASE StopNext
  <2>1. task.step = "stop" /\ task.gen \in Gens /\ UNCHANGED <<bound, scoped, nextScopedID>>
    BY <1>3, StopNextFacts
  <2>2. CASE procs[task.gen] = << >>
    BY <1>3, <2>1, <2>2, StopNextFacts DEF Live, Free
  <2>3. CASE procs[task.gen] # << >>
    <3>1. /\ cur' = Head(procs[task.gen]) /\ task'.step = "stopping" /\ task'.gen = task.gen
          /\ procs' = [procs EXCEPT ![task.gen] = Tail(procs[task.gen])]
      BY <1>3, <2>3, StopNextFacts
    <3>2. Range(procs[task.gen]) = {cur'} \cup Range(Tail(procs[task.gen]))
      BY <1>0, <2>1, <2>3, <3>1, RangeTail
    <3>3. procs'[g] = IF g = task.gen THEN Tail(procs[task.gen]) ELSE procs[g]
      BY <1>0, <2>1, <3>1
    <3> QED BY <2>1, <3>1, <3>2, <3>3 DEF Live
  <2> QED BY <2>2, <2>3
<1> QED BY <1>1, <1>2, <1>3

\* A stopped plugin is forgotten when nothing of it is left.
LEMMA LiveStopped ==
    ASSUME TypeInv, NEW g \in Gens, Kill, task.step = "stopping"
    PROVE  /\ \A p \in Live(g)' : p \in Live(g)
           /\ \A p \in Live(g) : p = cur \/ p \in Live(g)'
           /\ cur.hooks = << >> /\ cur.handlers = << >>
           /\ UNCHANGED <<bound, scoped, nextScopedID>>
BY KillFacts DEF Live, Busy, Starting

-----------------------------------------------------------------------------
(* The scoped hooks *)

\* The same plugin, as far as its hooks go
Alike(p, q) == p.at = q.at /\ p.hooks = q.hooks

LEMMA ScopedKept ==
    ASSUME TypeInv, ScopedInv, UNCHANGED <<scoped, nextScopedID>>,
           \A g \in Gens :
               /\ \A p \in Live(g)' : p.hooks = << >> \/ \E q \in Live(g) : Alike(p, q)
               /\ \A p \in Live(g) : p.hooks = << >> \/ \E q \in Live(g)' : Alike(p, q)
    PROVE  ScopedInv'
<1>1. ASSUME NEW i \in DOMAIN scoped
      PROVE  Removable(scoped[i])'
  <2>1. scoped[i].owner[1] \in Gens
    <3>1. scoped[i] \in ScopedHooks
      BY RangeElement DEF TypeInv
    <3> QED BY <3>1 DEF ScopedHooks, Processes
  <2>2. PICK p \in Live(scoped[i].owner[1]) :
            p.at = scoped[i].owner[2] /\ \E j \in DOMAIN p.hooks : p.hooks[j] = scoped[i].id
    BY DEF ScopedInv, Removable
  <2>3. p.hooks # << >>
    BY <2>2
  <2>4. PICK q \in Live(scoped[i].owner[1])' : Alike(p, q)
    BY <2>1, <2>3
  <2> QED BY <2>2, <2>4 DEF Removable, Alike
<1>2. ASSUME NEW g \in Gens, NEW p \in Live(g)'
      PROVE  Removes(g, p)'
  <2>1. CASE p.hooks = << >>
    BY <2>1 DEF Removes
  <2>2. CASE p.hooks # << >>
    <3>1. PICK q \in Live(g) : Alike(p, q)
      BY <2>2
    <3>2. Removes(g, q)
      BY DEF ScopedInv
    <3>3. p.at = q.at /\ p.hooks = q.hooks /\ scoped' = scoped
      BY <3>1 DEF Alike
    <3>4. \A i, j \in DOMAIN p.hooks : p.hooks[i] = p.hooks[j] => i = j
      BY <3>2, <3>3 DEF Removes
    <3>5. \A i \in DOMAIN p.hooks : \E j \in DOMAIN scoped' :
              scoped'[j].id = p.hooks[i] /\ scoped'[j].owner = <<g, p.at>>
      <4> SUFFICES ASSUME NEW i \in DOMAIN p.hooks
                   PROVE  \E j \in DOMAIN scoped' :
                              scoped'[j].id = p.hooks[i] /\ scoped'[j].owner = <<g, p.at>>
        OBVIOUS
      <4>1. i \in DOMAIN q.hooks /\ q.hooks[i] = p.hooks[i]
        BY <3>3
      <4>2. PICK j \in DOMAIN scoped : scoped[j].id = q.hooks[i] /\ scoped[j].owner = <<g, q.at>>
        BY <3>2, <4>1 DEF Removes
      <4>3. j \in DOMAIN scoped'
        BY <3>3
      <4>4. scoped'[j] = scoped[j]
        BY <3>3
      <4> QED BY <3>3, <4>1, <4>2, <4>3, <4>4
    <3> QED BY <3>4, <3>5 DEF Removes
  <2> QED BY <2>1, <2>2
<1> QED BY <1>1, <1>2 DEF ScopedInv

\* A live plugin that has the remover of a hook after a step
LEMMA RemovableNext ==
    ASSUME NEW i, NEW g, NEW p \in Live(g)', NEW j \in DOMAIN p.hooks,
           scoped'[i].owner[1] = g, p.at = scoped'[i].owner[2], p.hooks[j] = scoped'[i].id
    PROVE  Removable(scoped[i])'
BY DEF Removable, Live

\* Registering a hook: its id is new, and the plugin at hand gets the remover.
LEMMA RegisterStep ==
    ASSUME TypeInv, OrderInv, ScopedInv, RegisterScoped
    PROVE  ScopedInv'
<1> DEFINE id == nextScopedID + 1
           n == Len(scoped) + 1
<1>1. /\ task.step = "hooks" /\ nextScopedID' = id /\ id \in Nat /\ scoped \in Seq(ScopedHooks)
      /\ cur \in Procs /\ cur.hooks \in Seq(Nat) /\ nextScopedID \in Nat /\ task.gen \in Gens
  BY DEF RegisterScoped, TypeInv, Procs, Tasks
<1>2. PICK new : new.owner = Owner /\ new.id = id /\ scoped' = Append(scoped, new)
  BY DEF RegisterScoped
<1>3. cur' = [cur EXCEPT !.hooks = Append(cur.hooks, id)]
  BY <1>1 DEF RegisterScoped, Procs
<1>4. cur'.at = cur.at /\ cur'.hooks = Append(cur.hooks, id)
  BY <1>1, <1>3 DEF Procs
<1>5. Work /\ task.step # "start"
  BY <1>1 DEF Work
<1> HIDE DEF id
<1>6. /\ DOMAIN scoped = 1 .. Len(scoped) /\ Len(scoped) \in Nat
      /\ DOMAIN scoped' = 1 .. n /\ scoped'[n] = new
      /\ \A i \in DOMAIN scoped : scoped'[i] = scoped[i]
  BY <1>1, <1>2, AppendProperties, LenProperties
<1>7. DOMAIN scoped' = DOMAIN scoped \cup {n} /\ n \notin DOMAIN scoped
  BY <1>6
<1>8. \A i \in DOMAIN scoped : scoped[i].id \in Nat /\ scoped[i].owner[1] \in Gens
  <2>1. \A i \in DOMAIN scoped : scoped[i] \in ScopedHooks
    BY <1>1, RangeElement
  <2> QED BY <2>1 DEF ScopedHooks, Processes
<1>9. \A i \in DOMAIN scoped : scoped[i].id # id
  BY <1>1, <1>8 DEF ScopedInv, id
<1> DEFINE m == Len(cur.hooks) + 1
<1>10. /\ DOMAIN cur'.hooks = DOMAIN cur.hooks \cup {m} /\ m \notin DOMAIN cur.hooks
       /\ cur'.hooks[m] = id
       /\ \A i \in DOMAIN cur.hooks : cur'.hooks[i] = cur.hooks[i]
  <2>1. /\ DOMAIN cur.hooks = 1 .. Len(cur.hooks) /\ Len(cur.hooks) \in Nat
        /\ DOMAIN cur'.hooks = 1 .. m
    BY <1>1, <1>4, AppendProperties, LenProperties
  <2>2. cur'.hooks[m] = id /\ \A i \in 1 .. Len(cur.hooks) : cur'.hooks[i] = cur.hooks[i]
    BY <1>1, <1>4, AppendProperties
  <2> QED BY <2>1, <2>2
<1> HIDE DEF m, n
<1>11. \A g \in Gens :
           /\ g = task.gen => cur \in Live(g) /\ cur' \in Live(g)'
           /\ \A p \in Live(g) : (p = cur /\ g = task.gen) \/ p \in Live(g)'
           /\ \A p \in Live(g)' : (p = cur' /\ g = task.gen) \/ p \in Live(g)
  BY <1>5, LiveWork
<1>12. \A i \in DOMAIN scoped' : scoped'[i].id <= nextScopedID'
  BY <1>1, <1>2, <1>6, <1>7, <1>8 DEF ScopedInv, id
<1>13. \A i, j \in DOMAIN scoped' : scoped'[i].id = scoped'[j].id => i = j
  BY <1>2, <1>6, <1>7, <1>9 DEF ScopedInv
<1>14. ASSUME NEW i \in DOMAIN scoped'
       PROVE  Removable(scoped[i])'
  <2>1. CASE i = n
    <3>1. new.owner[1] = task.gen /\ new.owner[2] = cur'.at
      BY <1>2, <1>4 DEF Owner
    <3>2. m \in DOMAIN cur'.hooks /\ cur'.hooks[m] = new.id
      BY <1>2, <1>10
    <3> QED BY <1>1, <1>6, <1>11, <2>1, <3>1, <3>2, RemovableNext
  <2>2. CASE i # n
    <3>1. i \in DOMAIN scoped /\ scoped'[i] = scoped[i]
      BY <1>6, <1>7, <2>2
    <3>2. PICK g \in Gens : g = scoped[i].owner[1]
      BY <1>8, <3>1
    <3>3. PICK p \in Live(g) :
              p.at = scoped[i].owner[2] /\ \E j \in DOMAIN p.hooks : p.hooks[j] = scoped[i].id
      BY <3>1, <3>2 DEF ScopedInv, Removable
    <3>4. PICK j \in DOMAIN p.hooks : p.hooks[j] = scoped[i].id
      BY <3>3
    <3>5. CASE p = cur /\ g = task.gen
      <4>1. j \in DOMAIN cur'.hooks /\ cur'.hooks[j] = scoped[i].id /\ cur' \in Live(g)'
        BY <1>10, <1>11, <3>4, <3>5
      <4> QED BY <1>4, <3>1, <3>2, <3>3, <3>5, <4>1, RemovableNext
    <3>6. CASE p \in Live(g)'
      BY <3>1, <3>2, <3>3, <3>4, <3>6, RemovableNext
    <3> QED BY <1>11, <3>5, <3>6
  <2> QED BY <2>1, <2>2
<1>15. ASSUME NEW g \in Gens, NEW q \in Live(g), NEW i \in DOMAIN q.hooks
       PROVE  /\ q.hooks[i] # id
              /\ \E j \in DOMAIN scoped' :
                     scoped'[j].id = q.hooks[i] /\ scoped'[j].owner = <<g, q.at>>
  <2>1. PICK j \in DOMAIN scoped : scoped[j].id = q.hooks[i] /\ scoped[j].owner = <<g, q.at>>
    BY DEF ScopedInv, Removes
  <2>2. j \in DOMAIN scoped' /\ scoped'[j] = scoped[j] /\ scoped[j].id # id
    BY <1>6, <1>7, <1>9
  <2> QED BY <2>1, <2>2
<1>16. ASSUME NEW g \in Gens, NEW p \in Live(g)'
       PROVE  Removes(g, p)'
  <2>1. CASE p \in Live(g)
    <3>1. \A i, j \in DOMAIN p.hooks : p.hooks[i] = p.hooks[j] => i = j
      BY <2>1 DEF ScopedInv, Removes
    <3>2. \A i \in DOMAIN p.hooks : \E j \in DOMAIN scoped' :
              scoped'[j].id = p.hooks[i] /\ scoped'[j].owner = <<g, p.at>>
      BY <1>15, <2>1
    <3> QED BY <3>1, <3>2 DEF Removes
  <2>2. CASE p \notin Live(g)
    <3>1. p = cur' /\ g = task.gen
      BY <1>11, <2>2
    <3>2. \A i, j \in DOMAIN cur'.hooks : cur'.hooks[i] = cur'.hooks[j] => i = j
      <4>1. \A i, j \in DOMAIN cur.hooks : cur.hooks[i] = cur.hooks[j] => i = j
        BY <1>1, <1>11 DEF ScopedInv, Removes
      <4>2. \A i \in DOMAIN cur.hooks : cur.hooks[i] # id
        BY <1>1, <1>11, <1>15
      <4> QED BY <1>10, <4>1, <4>2
    <3>3. ASSUME NEW i \in DOMAIN cur'.hooks
          PROVE  \E j \in DOMAIN scoped' :
                     scoped'[j].id = cur'.hooks[i] /\ scoped'[j].owner = <<task.gen, cur'.at>>
      <4>1. CASE i = m
        <5>1. n \in DOMAIN scoped' /\ scoped'[n].id = cur'.hooks[i]
          BY <1>2, <1>6, <1>7, <1>10, <4>1
        <5> QED BY <1>2, <1>4, <1>6, <5>1 DEF Owner
      <4>2. CASE i # m
        <5>1. i \in DOMAIN cur.hooks /\ cur'.hooks[i] = cur.hooks[i]
          BY <1>10, <4>2
        <5>2. cur \in Live(task.gen)
          BY <1>1, <1>11
        <5>3. \E j \in DOMAIN scoped' :
                  scoped'[j].id = cur.hooks[i] /\ scoped'[j].owner = <<task.gen, cur.at>>
          BY <1>1, <1>15, <5>1, <5>2
        <5> QED BY <1>4, <5>1, <5>3
      <4> QED BY <4>1, <4>2
    <3> QED BY <3>1, <3>2, <3>3 DEF Removes
  <2> QED BY <2>1, <2>2
<1> QED BY <1>12, <1>13, <1>14, <1>16 DEF ScopedInv

\* Removing a hook: the remover takes out the plugin's own hook and no other.
LEMMA RemoveStep ==
    ASSUME TypeInv, OrderInv, ScopedInv, RemoveHook
    PROVE  ScopedInv'
<1>1. /\ task.step \in {"unbind", "stopping"} /\ cur.hooks # << >> /\ UNCHANGED nextScopedID
      /\ scoped \in Seq(ScopedHooks) /\ cur \in Procs /\ cur.hooks \in Seq(Nat)
      /\ task.gen \in Gens /\ cur' = [cur EXCEPT !.hooks = Tail(cur.hooks)]
  BY DEF RemoveHook, Unbinding, TypeInv, Procs, Tasks
<1>2. cur'.at = cur.at /\ cur'.hooks = Tail(cur.hooks)
  BY <1>1 DEF Procs
<1>3. /\ 1 \in DOMAIN cur.hooks /\ Head(cur.hooks) = cur.hooks[1]
      /\ \A i \in DOMAIN cur'.hooks : /\ i \in Nat /\ i > 0 /\ i + 1 \in DOMAIN cur.hooks
                                      /\ cur'.hooks[i] = cur.hooks[i + 1]
      /\ \A i \in DOMAIN cur.hooks : i = 1 \/ \E j \in DOMAIN cur'.hooks : i = j + 1
  <2>1. /\ 1 \in DOMAIN cur.hooks /\ Head(cur.hooks) = cur.hooks[1]
        /\ \A i \in DOMAIN cur'.hooks : /\ i + 1 \in DOMAIN cur.hooks
                                        /\ cur'.hooks[i] = cur.hooks[i + 1]
    BY <1>1, <1>2, RangeTail
  <2>2. /\ cur'.hooks \in Seq(Nat) /\ Len(cur'.hooks) = Len(cur.hooks) - 1
        /\ DOMAIN cur'.hooks = 1 .. Len(cur'.hooks) /\ DOMAIN cur.hooks = 1 .. Len(cur.hooks)
        /\ Len(cur.hooks) \in Nat
    BY <1>1, <1>2, HeadTailProperties, LenProperties
  <2>3. \A i \in DOMAIN cur.hooks : i = 1 \/ (i - 1 \in DOMAIN cur'.hooks /\ i = i - 1 + 1)
    BY <2>2
  <2>4. \A i \in DOMAIN cur'.hooks : i \in Nat /\ i > 0
    BY <2>2
  <2> QED BY <2>1, <2>3, <2>4
<1>4. Work /\ task.step # "start"
  BY <1>1 DEF Work
<1>5. PICK k \in DOMAIN scoped : scoped[k].id = cur.hooks[1] /\ scoped' = RemoveAt(scoped, k)
  BY <1>3, RemovedHook
<1>6. /\ DOMAIN scoped = 1 .. Len(scoped) /\ Len(scoped) \in Nat
      /\ DOMAIN scoped' = 1 .. Len(scoped) - 1
      /\ \A i \in DOMAIN scoped' : scoped'[i] = scoped[IF i < k THEN i ELSE i + 1]
  BY <1>1, <1>5, RemoveAtKeeps, LenProperties
<1> DEFINE was(i) == IF i < k THEN i ELSE i + 1
<1>7. \A i \in DOMAIN scoped' :
          was(i) \in DOMAIN scoped /\ was(i) # k /\ scoped'[i] = scoped[was(i)]
  BY <1>6
<1>8. \A i, j \in DOMAIN scoped' : was(i) = was(j) => i = j
  BY <1>6
<1>9. \A j \in DOMAIN scoped : j = k \/ \E i \in DOMAIN scoped' : scoped'[i] = scoped[j]
  <2> SUFFICES ASSUME NEW j \in DOMAIN scoped, j # k
               PROVE  \E i \in DOMAIN scoped' : scoped'[i] = scoped[j]
    OBVIOUS
  <2>1. CASE j < k
    BY <1>6, <2>1
  <2>2. CASE j > k
    <3>1. j - 1 \in DOMAIN scoped' /\ was(j - 1) = j
      BY <1>6, <2>2
    <3> QED BY <1>7, <3>1
  <2> QED BY <1>6, <2>1, <2>2
<1> HIDE DEF was
<1>10. \A g \in Gens :
           /\ g = task.gen => cur \in Live(g) /\ cur' \in Live(g)'
           /\ \A p \in Live(g) : (p = cur /\ g = task.gen) \/ p \in Live(g)'
           /\ \A p \in Live(g)' :
                  (p = cur' /\ g = task.gen)
                  \/ (p \in Live(g) /\ (g = task.gen => p \in Range(procs[g])))
  BY <1>4, LiveWork
<1>11. \A i \in DOMAIN scoped' : scoped'[i].id <= nextScopedID'
  BY <1>1, <1>7 DEF ScopedInv
<1>12. \A i, j \in DOMAIN scoped' : scoped'[i].id = scoped'[j].id => i = j
  BY <1>7, <1>8 DEF ScopedInv
<1>13. \A i \in DOMAIN scoped' : scoped'[i].id # cur.hooks[1]
  BY <1>5, <1>7 DEF ScopedInv
<1>14. ASSUME NEW i \in DOMAIN scoped'
       PROVE  Removable(scoped[i])'
  <2>1. PICK h \in ScopedHooks : h = scoped'[i] /\ Removable(h)
    <3>1. scoped'[i] \in ScopedHooks
      BY <1>1, <1>7, RangeElement
    <3> QED BY <1>7, <3>1 DEF ScopedInv
  <2>2. PICK g \in Gens : g = h.owner[1]
    BY DEF ScopedHooks, Processes
  <2>3. PICK p \in Live(g) : p.at = h.owner[2] /\ \E j \in DOMAIN p.hooks : p.hooks[j] = h.id
    BY <2>1, <2>2 DEF Removable
  <2>4. PICK j \in DOMAIN p.hooks : p.hooks[j] = h.id
    BY <2>3
  <2>5. CASE p = cur /\ g = task.gen
    <3>1. j # 1
      BY <1>13, <2>1, <2>4, <2>5
    <3>2. PICK l \in DOMAIN cur'.hooks : j = l + 1
      BY <1>3, <2>4, <2>5, <3>1
    <3>3. cur'.hooks[l] = h.id /\ cur' \in Live(g)'
      BY <1>3, <1>10, <2>4, <2>5, <3>2
    <3> QED BY <1>2, <2>1, <2>2, <2>3, <2>5, <3>3, RemovableNext
  <2>6. CASE p \in Live(g)'
    BY <2>1, <2>2, <2>3, <2>4, <2>6, RemovableNext
  <2> QED BY <1>10, <2>5, <2>6
<1>15. ASSUME NEW g \in Gens, NEW q \in Live(g), NEW i \in DOMAIN q.hooks,
              q.hooks[i] # cur.hooks[1]
       PROVE  \E j \in DOMAIN scoped' :
                  scoped'[j].id = q.hooks[i] /\ scoped'[j].owner = <<g, q.at>>
  <2>1. PICK j \in DOMAIN scoped : scoped[j].id = q.hooks[i] /\ scoped[j].owner = <<g, q.at>>
    BY DEF ScopedInv, Removes
  <2>2. j # k
    BY <1>5, <1>15, <2>1
  <2> QED BY <1>9, <2>1, <2>2
<1>16. ASSUME NEW g \in Gens, NEW q \in Live(g), NEW i \in DOMAIN q.hooks,
              q.hooks[i] = cur.hooks[1]
       PROVE  g = task.gen /\ q = cur
  <2>1. PICK j \in DOMAIN scoped : scoped[j].id = q.hooks[i] /\ scoped[j].owner = <<g, q.at>>
    BY DEF ScopedInv, Removes
  <2>2. PICK l \in DOMAIN scoped : scoped[l].id = cur.hooks[1]
                                   /\ scoped[l].owner = <<task.gen, cur.at>>
    <3>1. Removes(task.gen, cur)
      BY <1>1, <1>10 DEF ScopedInv
    <3> QED BY <1>3, <3>1 DEF Removes
  <2>3. j = l
    BY <1>16, <2>1, <2>2 DEF ScopedInv
  <2>4. g = task.gen /\ q.at = cur.at
    BY <2>1, <2>2, <2>3
  <2> QED BY <1>1, <1>10, <2>4, OneOfEach
<1>17. ASSUME NEW g \in Gens, NEW p \in Live(g)'
       PROVE  Removes(g, p)'
  <2>1. CASE p = cur' /\ g = task.gen
    <3>1. \A i, j \in DOMAIN cur.hooks : cur.hooks[i] = cur.hooks[j] => i = j
      BY <1>1, <1>10 DEF ScopedInv, Removes
    <3>2. \A i, j \in DOMAIN cur'.hooks : cur'.hooks[i] = cur'.hooks[j] => i = j
      BY <1>3, <3>1
    <3>3. ASSUME NEW i \in DOMAIN cur'.hooks
          PROVE  \E j \in DOMAIN scoped' :
                     scoped'[j].id = cur'.hooks[i] /\ scoped'[j].owner = <<g, cur'.at>>
      <4>1. i + 1 \in DOMAIN cur.hooks /\ cur'.hooks[i] = cur.hooks[i + 1] /\ i + 1 # 1
        BY <1>3
      <4>2. cur.hooks[i + 1] # cur.hooks[1]
        BY <1>3, <3>1, <4>1
      <4>3. cur \in Live(g) /\ cur'.at = cur.at
        BY <1>2, <1>10, <2>1
      <4>4. \E j \in DOMAIN scoped' :
                scoped'[j].id = cur.hooks[i + 1] /\ scoped'[j].owner = <<g, cur.at>>
        BY <1>15, <4>1, <4>2, <4>3
      <4> QED BY <4>1, <4>3, <4>4
    <3> QED BY <2>1, <3>2, <3>3 DEF Removes
  <2>2. CASE ~(p = cur' /\ g = task.gen)
    <3>1. p \in Live(g) /\ (g = task.gen => p \in Range(procs[g]))
      BY <1>10, <2>2
    <3>2. ~(g = task.gen /\ p = cur)
      <4>1. task.step \in Busy
        BY <1>1 DEF Busy, Starting
      <4>2. ASSUME NEW r \in Range(procs[task.gen])
            PROVE  r.at # cur.at
        BY <1>1, <4>1 DEF OrderInv, Range
      <4> QED BY <3>1, <4>2
    <3>3. \A i \in DOMAIN p.hooks : p.hooks[i] # cur.hooks[1]
      BY <1>16, <3>1, <3>2
    <3>4. \A i, j \in DOMAIN p.hooks : p.hooks[i] = p.hooks[j] => i = j
      BY <3>1 DEF ScopedInv, Removes
    <3>5. \A i \in DOMAIN p.hooks : \E j \in DOMAIN scoped' :
              scoped'[j].id = p.hooks[i] /\ scoped'[j].owner = <<g, p.at>>
      BY <1>15, <3>1, <3>3
    <3> QED BY <3>4, <3>5 DEF Removes
  <2> QED BY <2>1, <2>2
<1> QED BY <1>11, <1>12, <1>14, <1>17 DEF ScopedInv

LEMMA ScopedStep ==
    ASSUME TypeInv, OrderInv, ScopedInv, [Next]_vars
    PROVE  ScopedInv'
<1>0. procs \in [Gens -> Seq(Procs)] /\ cur \in Procs
  BY DEF TypeInv
<1>1. ASSUME UNCHANGED <<task, procs, cur, scoped, nextScopedID>>
      PROVE  ScopedInv'
  <2>1. \A g \in Gens : Live(g)' = Live(g)
    BY <1>1 DEF Live
  <2>2. \A p : Alike(p, p)
    BY DEF Alike
  <2> QED BY <1>1, <2>1, <2>2, ScopedKept
<1>2. ASSUME UNCHANGED Managed \/ \E g \in Gens, i \in DOMAIN Paths : ProcessDies(g, i)
      PROVE  ScopedInv'
  BY <1>1, <1>2 DEF Managed, ProcessDies, extension
<1>3. CASE \/ BuildFails \/ Extend \/ Built \/ Swap \/ EnterBootstrap
           \/ \E db \in DOMAIN Extends : Begin(db)
           \/ Started \/ StopNext \/ (Kill /\ task.step = "unbind")
  <2>1. \A g \in Gens : Live(g)' = Live(g)
    BY <1>3, LiveKept
  <2>2. UNCHANGED <<scoped, nextScopedID>>
    <3>1. 0 \in Gens
      BY PluginsAssumption DEF Gens
    <3> QED BY <1>3, <3>1, LiveKept
  <2>3. \A g \in Gens :
            /\ \A p \in Live(g)' : p.hooks = << >> \/ \E q \in Live(g) : Alike(p, q)
            /\ \A p \in Live(g) : p.hooks = << >> \/ \E q \in Live(g)' : Alike(p, q)
    BY <2>1 DEF Alike
  <2> QED BY <2>2, <2>3, ScopedKept
<1>4. CASE Kill /\ task.step = "stopping"
  <2>1. UNCHANGED <<scoped, nextScopedID>>
    BY <1>4, KillFacts
  <2>2. \A g \in Gens :
            /\ \A p \in Live(g)' : p.hooks = << >> \/ \E q \in Live(g) : Alike(p, q)
            /\ \A p \in Live(g) : p.hooks = << >> \/ \E q \in Live(g)' : Alike(p, q)
    BY <1>4, LiveStopped DEF Alike
  <2> QED BY <2>1, <2>2, ScopedKept
<1>5. CASE \/ StartProcess \/ StartFails \/ DescribeFails \/ DomainFails \/ BadKind
           \/ ApplyDomain \/ BindHandler \/ UnbindHandler
  <2>1. Work /\ UNCHANGED <<scoped, nextScopedID>>
    BY <1>5 DEF Work, StartProcess, StartFails, DescribeFails, DomainFails, BadKind, Erred,
                ApplyDomain, BindHandler, UnbindHandler, extension
  <2>2. \/ task.step = "start" /\ cur'.hooks = << >>
        \/ task.step # "start" /\ Alike(cur, cur') /\ Alike(cur', cur)
    BY <1>0, <1>5 DEF StartProcess, StartFails, DescribeFails, DomainFails, BadKind, Erred,
                      ApplyDomain, BindHandler, UnbindHandler, Unbinding, NoProc, Procs, Alike
  <2>3. ASSUME NEW g \in Gens
        PROVE  /\ \A p \in Live(g)' : p.hooks = << >> \/ \E q \in Live(g) : Alike(p, q)
               /\ \A p \in Live(g) : p.hooks = << >> \/ \E q \in Live(g)' : Alike(p, q)
    <3>1. /\ Live(g)' = Range(procs[g]) \cup (IF g = task.gen THEN {cur'} ELSE {})
          /\ Live(g) = Range(procs[g]) \cup
                           (IF g = task.gen /\ task.step # "start" THEN {cur} ELSE {})
      BY <2>1, LiveWork
    <3>2. \A p \in Range(procs[g]) : Alike(p, p)
      BY DEF Alike
    <3> QED BY <2>2, <3>1, <3>2
  <2> QED BY <2>1, <2>3, ScopedKept
<1>6. CASE RegisterScoped
  BY <1>6, RegisterStep
<1>7. CASE RemoveHook
  BY <1>7, RemoveStep
<1>8. Kill => task.step \in {"unbind", "stopping"}
  BY DEF Kill, Unbinding
<1> QED BY <1>2, <1>3, <1>4, <1>5, <1>6, <1>7, <1>8, RequestsManageNothing
       DEF Next, Manage

-----------------------------------------------------------------------------
(* The plugin processes *)

LEMMA RunningStep ==
    ASSUME TypeInv, OrderInv, ErrorInv, RunningInv, [Next]_vars
    PROVE  RunningInv'
<1> USE DEF Busy, Starting
<1>0. /\ procs \in [Gens -> Seq(Procs)] /\ running \subseteq Processes
      /\ \A o \in running : o[1] \in Gens
  BY DEF TypeInv, Processes
<1>1. CASE UNCHANGED Managed
  BY <1>1 DEF Managed, RunningInv, ProcsOf, Healthy, Owner
<1>2. ASSUME NEW g \in Gens, NEW i \in DOMAIN Paths, ProcessDies(g, i)
      PROVE  RunningInv'
  BY <1>2 DEF ProcessDies, RunningInv, ProcsOf, Healthy, Owner
<1>3. CASE \/ BuildFails \/ Extend \/ Built \/ Swap \/ EnterBootstrap
           \/ \E db \in DOMAIN Extends : Begin(db)
  BY <1>3, BetweenFacts DEF RunningInv, ProcsOf, Healthy
<1>4. CASE Work
  <2>1. UNCHANGED procs /\ task'.gen = task.gen /\ task'.step \in Busy
    BY <1>4, WorkFacts
  <2>2. \A g \in Gens : ProcsOf(g)' = ProcsOf(g)
    BY <2>1 DEF ProcsOf, Healthy
  <2>3. CASE task.step = "start"
    <3>1. running' \subseteq running \cup {Owner'}
      <4>1. StartProcess \/ StartFails
        BY <1>4, <2>3 DEF Work, DescribeFails, DomainFails, BadKind, ApplyDomain, BindHandler,
                          RegisterScoped, RemoveHook, UnbindHandler, Unbinding
      <4>2. cur'.at = task.at
        BY <1>4, <2>3, WorkFacts
      <4> QED BY <2>1, <4>1, <4>2 DEF StartProcess, StartFails, Owner
    <3>2. \A o \in running : o \in ProcsOf(o[1])'
      BY <1>0, <2>2, <2>3 DEF RunningInv
    <3> QED BY <2>1, <3>1, <3>2 DEF RunningInv
  <2>4. CASE task.step # "start"
    <3>1. UNCHANGED running
      BY <1>4, <2>4 DEF Work, StartProcess, StartFails, DescribeFails, DomainFails, BadKind, Erred,
                        ApplyDomain, BindHandler, RegisterScoped, RemoveHook, UnbindHandler
    <3>2. Owner' = Owner /\ task.step \in Busy
      BY <1>4, <2>1, <2>4, WorkFacts DEF Owner
    <3> QED BY <1>0, <2>1, <2>2, <3>1, <3>2 DEF RunningInv
  <2> QED BY <2>3, <2>4
<1>5. CASE Started \/ (Kill /\ task.step = "unbind")
  <2>1. /\ task.step \in {"hooks", "unbind"} /\ task.gen \in Gens
        /\ procs' = [procs EXCEPT ![task.gen] = Append(procs[task.gen], cur)]
        /\ running' \subseteq running
        /\ \A o \in running' : o = Owner => ~cur.error
    BY <1>5, StartedFacts, KillFacts DEF ErrorInv
  <2> DEFINE n == Len(procs[task.gen]) + 1
  <2>2. /\ \A g \in Gens \ {task.gen} : procs'[g] = procs[g]
        /\ DOMAIN procs'[task.gen] = DOMAIN procs[task.gen] \cup {n}
        /\ \A i \in DOMAIN procs[task.gen] : procs'[task.gen][i] = procs[task.gen][i]
        /\ procs'[task.gen][n] = cur
    BY <2>1, ListedNext
  <2> HIDE DEF n
  <2>3. \A g \in Gens : ProcsOf(g) \subseteq ProcsOf(g)'
    <3> SUFFICES ASSUME NEW g \in Gens, NEW o \in ProcsOf(g)
                 PROVE  o \in ProcsOf(g)'
      OBVIOUS
    <3>1. PICK i \in DOMAIN procs[g] : ~procs[g][i].error /\ o = <<g, procs[g][i].at>>
      BY DEF ProcsOf, Healthy
    <3>2. i \in DOMAIN procs'[g] /\ procs'[g][i] = procs[g][i]
      BY <2>2
    <3> QED BY <3>1, <3>2 DEF ProcsOf, Healthy
  <2>4. ASSUME NEW o \in running', o = Owner
        PROVE  o \in ProcsOf(o[1])'
    <3>1. ~cur.error /\ n \in DOMAIN procs'[task.gen] /\ procs'[task.gen][n] = cur
      BY <2>1, <2>2, <2>4
    <3>2. PICK g \in Gens : g = task.gen
      BY <2>1
    <3>3. <<g, cur.at>> \in ProcsOf(g)'
      BY <3>1, <3>2 DEF ProcsOf, Healthy
    <3>4. o[1] = g /\ o = <<g, cur.at>>
      BY <2>4, <3>2 DEF Owner
    <3> QED BY <3>3, <3>4
  <2> QED BY <1>0, <2>1, <2>3, <2>4 DEF RunningInv
<1>6. CASE Kill /\ task.step = "stopping"
  BY <1>6, KillFacts DEF RunningInv, ProcsOf, Healthy
<1>7. CASE StopNext
  <2>1. task.step = "stop" /\ task.gen \in Gens /\ UNCHANGED running
    BY <1>7, StopNextFacts
  <2>2. CASE procs[task.gen] = << >>
    BY <1>7, <2>1, <2>2, StopNextFacts DEF RunningInv, ProcsOf, Healthy
  <2>3. CASE procs[task.gen] # << >>
    <3> DEFINE s == procs[task.gen]
    <3>1. /\ cur' = Head(s) /\ procs' = [procs EXCEPT ![task.gen] = Tail(s)]
          /\ task'.step = "stopping" /\ task'.gen = task.gen
      BY <1>7, <2>3, StopNextFacts
    <3>2. /\ s \in Seq(Procs) /\ procs'[task.gen] = Tail(s)
          /\ \A g \in Gens \ {task.gen} : procs'[g] = procs[g]
      BY <1>0, <2>1, <3>1
    <3>3. Range(s) = {cur'} \cup Range(Tail(s))
      BY <2>3, <3>1, <3>2, RangeTail
    <3>4. ASSUME NEW o \in running, NEW g \in Gens, o \in ProcsOf(g)
          PROVE  o \in ProcsOf(g)' \/ o = Owner'
      <4>1. PICK p \in Range(procs[g]) : ~p.error /\ o = <<g, p.at>>
        BY <3>4 DEF ProcsOf, Healthy, Range
      <4>2. CASE g = task.gen /\ p = cur'
        BY <3>1, <4>1, <4>2 DEF Owner
      <4>3. CASE p \in Range(procs'[g])
        BY <4>1, <4>3 DEF ProcsOf, Healthy, Range
      <4> QED BY <3>2, <3>3, <4>2, <4>3
    <3> QED BY <1>0, <2>1, <3>1, <3>4 DEF RunningInv
  <2> QED BY <2>2, <2>3
<1>8. Kill => task.step \in {"unbind", "stopping"}
  BY DEF Kill, Unbinding
<1> QED BY <1>1, <1>2, <1>3, <1>4, <1>5, <1>6, <1>7, <1>8, RequestsManageNothing
       DEF Next, Manage, Work

-----------------------------------------------------------------------------
(* The theorem *)

LEMMA IInvHolds == Spec => []IInv
<1>1. Init => IInv
  <2> SUFFICES ASSUME Init
               PROVE  IInv
    OBVIOUS
  <2> USE DEF Init
  <2>1. /\ MaxBuilds \in Nat /\ Gens = 0 .. MaxBuilds /\ 0 \in Gens
        /\ task.step = "free" /\ task.gen = 0 /\ task.at = 0
        /\ \A g \in Gens : procs[g] = << >>
    BY PluginsAssumption DEF Gens, Free
  <2>2. TypeInv
    <3>1. NoProc \in Procs
      BY EmptySeq DEF NoProc, Procs
    <3>2. procs \in [Gens -> Seq(Procs)] /\ scoped \in Seq(ScopedHooks)
      BY EmptySeq
    <3> QED BY <2>1, <3>1, <3>2 DEF TypeInv
  <2>3. GenInv /\ OrderInv /\ ErrorInv /\ RunningInv
    BY <2>1 DEF GenInv, OrderInv, ErrorInv, RunningInv, Building, Stopping, Busy, Starting
  <2>4. ScopedInv
    BY <2>1 DEF ScopedInv, Live, Range, Busy, Starting
  <2> QED BY <2>2, <2>3, <2>4 DEF IInv
<1>2. IInv /\ [Next]_vars => IInv'
  BY TypeStep, GenStep, OrderStep, ErrorStep, ScopedStep, RunningStep DEF IInv
<1> QED BY <1>1, <1>2, PTL DEF Spec

\* Whatever fails or dies while plugins are started and stopped, for any plugins and
\* any number of platforms: when no build and no stop is under way, the scoped hooks
\* are, each once, those of the healthy plugins of the served platform, and no other
\* plugin process is left.
THEOREM NothingStaysBehind == Spec => []NothingLeftBehind
<1>1. IInv => NothingLeftBehind
  <2> SUFFICES ASSUME IInv, task.step = "free"
               PROVE  /\ running \subseteq ProcsOf(served)
                      /\ \A i, j \in DOMAIN scoped : scoped[i].id = scoped[j].id => i = j
                      /\ {[id |-> h.id, owner |-> h.owner] : h \in Range(scoped)}
                             = HooksOf(served)
    BY DEF NothingLeftBehind
  <2> USE DEF IInv
  <2>1. /\ \A g \in Gens : g # served => procs[g] = << >>
        /\ \A g \in Gens : Live(g) = Range(procs[g])
        /\ served \in Gens
    BY DEF GenInv, TypeInv, Free, Live, Busy, Starting
  <2>2. running \subseteq ProcsOf(served)
    <3> SUFFICES ASSUME NEW o \in running
                 PROVE  o \in ProcsOf(served)
      OBVIOUS
    <3>1. o[1] \in Gens /\ o \in ProcsOf(o[1])
      BY DEF TypeInv, Processes, RunningInv, Busy, Starting
    <3> QED BY <2>1, <3>1 DEF ProcsOf, Healthy
  <2>3. ASSUME NEW h \in Range(scoped)
        PROVE  [id |-> h.id, owner |-> h.owner] \in HooksOf(served)
    <3>1. h \in ScopedHooks /\ Removable(h)
      <4>1. \A i \in DOMAIN scoped : scoped[i] \in ScopedHooks /\ Removable(scoped[i])
        BY RangeElement DEF TypeInv, ScopedInv
      <4> QED BY <4>1 DEF Range
    <3>2. PICK g \in Gens : g = h.owner[1] /\ h.owner = <<g, h.owner[2]>>
      BY <3>1 DEF ScopedHooks, Processes
    <3>3. PICK p \in Live(g) : p.at = h.owner[2] /\ \E j \in DOMAIN p.hooks : p.hooks[j] = h.id
      BY <3>1, <3>2 DEF Removable
    <3>4. PICK i \in DOMAIN procs[g] : p = procs[g][i]
      BY <2>1, <3>3 DEF Range
    <3>5. g = served
      BY <2>1, <3>4
    <3>6. i \in Healthy(served)
      BY <3>2, <3>3, <3>4, <3>5 DEF ErrorInv, Healthy
    <3>7. h.id \in Range(procs[served][i].hooks)
      BY <3>3, <3>4, <3>5 DEF Range
    <3>8. h.owner = <<served, procs[served][i].at>>
      BY <3>2, <3>3, <3>4, <3>5
    <3>9. [id |-> h.id, owner |-> h.owner] \in
              {[id |-> id, owner |-> <<served, procs[served][i].at>>]
                   : id \in Range(procs[served][i].hooks)}
      BY <3>7, <3>8
    <3> QED BY <3>6, <3>9 DEF HooksOf
  <2>4. ASSUME NEW x \in HooksOf(served)
        PROVE  x \in {[id |-> h.id, owner |-> h.owner] : h \in Range(scoped)}
    <3>1. PICK i \in Healthy(served) :
              x \in {[id |-> id, owner |-> <<served, procs[served][i].at>>]
                         : id \in Range(procs[served][i].hooks)}
      BY DEF HooksOf
    <3> DEFINE p == procs[served][i]
    <3>2. PICK j \in DOMAIN p.hooks : x = [id |-> p.hooks[j], owner |-> <<served, p.at>>]
      BY <3>1 DEF Range
    <3>3. p \in Live(served)
      BY <2>1, <3>1 DEF Healthy, Range
    <3> HIDE DEF p
    <3>4. Removes(served, p)
      BY <2>1, <3>3 DEF ScopedInv
    <3>5. PICK k \in DOMAIN scoped :
              scoped[k].id = p.hooks[j] /\ scoped[k].owner = <<served, p.at>>
      BY <3>2, <3>4 DEF Removes
    <3> QED BY <3>2, <3>5 DEF Range
  <2>5. \A i, j \in DOMAIN scoped : scoped[i].id = scoped[j].id => i = j
    BY DEF ScopedInv
  <2> QED BY <2>2, <2>3, <2>4, <2>5
<1> QED BY <1>1, IInvHolds, PTL

-----------------------------------------------------------------------------
(* The handlers *)

\* The same plugin, as far as its handlers go
Same(p, q) == p.at = q.at /\ p.handlers = q.handlers

LEMMA BoundKept ==
    ASSUME BoundInv, UNCHANGED bound,
           \A g \in Gens :
               /\ \A p \in Live(g)' :
                      \/ p.handlers = << >>
                      \/ \E q \in Live(g) : Same(p, q) /\ (Unbound(g, q) => Unbound(g, p)')
               /\ \A p \in Live(g) : p.handlers = << >> \/ \E q \in Live(g)' : Same(p, q)
    PROVE  BoundInv'
<1>1. ASSUME NEW g \in Gens, NEW p \in Live(g)'
      PROVE  /\ Range(p.handlers) \subseteq Names(p.at)
             /\ Unbound(g, p)' \/ \A k \in Range(p.handlers) : bound'[g][k] = <<g, p.at>>
  <2>1. CASE p.handlers = << >>
    BY <2>1 DEF Range
  <2>2. CASE p.handlers # << >>
    <3>1. PICK q \in Live(g) : Same(p, q) /\ (Unbound(g, q) => Unbound(g, p)')
      BY <2>2
    <3>2. p.at = q.at /\ p.handlers = q.handlers /\ bound' = bound
      BY <3>1 DEF Same
    <3> QED BY <3>1, <3>2 DEF BoundInv
  <2> QED BY <2>1, <2>2
<1>2. ASSUME NEW g \in Gens, NEW k \in Keys, bound'[g][k] # None
      PROVE  BoundBy(g, k)'
  <2>1. PICK p \in Live(g) : bound[g][k] = <<g, p.at>> /\ k \in Range(p.handlers)
    BY <1>2 DEF BoundInv, BoundBy
  <2>2. p.handlers # << >>
    BY <2>1 DEF Range
  <2>3. PICK q \in Live(g)' : Same(p, q)
    BY <2>2
  <2> QED BY <2>1, <2>3 DEF Same, BoundBy
<1> QED BY <1>1, <1>2 DEF BoundInv

\* A handler is bound: no other plugin of the platform has named it.
LEMMA BindStep ==
    ASSUME Distinct, TypeInv, OrderInv, BoundInv, BindHandler, task.n <= Len(Described.handlers)
    PROVE  BoundInv'
<1>1. PICK key : key = Described.handlers[task.n].key
  OBVIOUS
<1>2. /\ task.step = "handlers" /\ bound' = [bound EXCEPT ![task.gen][key] = Owner]
      /\ cur' = [cur EXCEPT !.handlers = Append(@, key)]
      /\ task' = [task EXCEPT !.n = @ + 1]
  BY <1>1 DEF BindHandler
<1>3. /\ key \in Keys /\ task.gen \in Gens /\ cur.at \in DOMAIN Paths
      /\ task.gen = task'.gen /\ task'.step = "handlers"
  BY <1>1, <1>2, DescribedFacts, CountFacts DEF OrderInv, Busy, Starting
<1>4. key \in Names(cur.at)
  <2>1. Described.handlers \in Seq(Range(Described.handlers)) /\ task.n \in Nat \ {0}
    <3>1. Paths[cur.at] \in Range(Paths)
      BY <1>3 DEF Range
    <3> QED BY <1>2, <3>1, PluginsAssumption DEF Described, Listed, TypeInv, Tasks
  <2>2. task.n \in DOMAIN Described.handlers
    BY <2>1, LenProperties
  <2> QED BY <1>1, <2>2 DEF Names, Described
<1>5. cur'.at = cur.at /\ Range(cur'.handlers) = Range(cur.handlers) \cup {key}
  <2>1. cur'.at = cur.at /\ cur'.handlers = Append(cur.handlers, key)
    BY <1>2 DEF TypeInv, Procs
  <2> QED BY <1>3, <2>1, RangeAppend DEF TypeInv, Procs
<1>6. \A g \in Gens :
          /\ g = task.gen => cur \in Live(g) /\ cur' \in Live(g)'
          /\ \A p \in Live(g) : (p = cur /\ g = task.gen) \/ p \in Live(g)'
          /\ \A p \in Live(g)' :
                 (p = cur' /\ g = task.gen)
                 \/ (p \in Live(g) /\ (g = task.gen => p \in Range(procs[g])))
  <2>1. Work /\ task.step # "start"
    BY <1>2 DEF Work
  <2> QED BY <2>1, LiveWork
<1>7. ~Unbinding
  BY <1>2 DEF Unbinding
<1>8. \A g \in Gens, k \in Keys :
          bound'[g][k] = IF g = task.gen /\ k = key THEN <<g, cur.at>> ELSE bound[g][k]
  BY <1>2, <1>3 DEF TypeInv, Owner
<1>9. \A p \in Range(procs[task.gen]) : p.at \in DOMAIN Paths /\ p.at # cur.at
  BY <1>2, <1>3 DEF OrderInv, Busy, Starting, Range
<1>10. \A g \in Gens : \A p \in Live(g) : Range(p.handlers) \subseteq Keys
  <2>1. \A g \in Gens : \A p \in Live(g) : p \in Procs
    <3> SUFFICES ASSUME NEW g \in Gens, NEW p \in Live(g)
                 PROVE  p \in Procs
      OBVIOUS
    <3>1. procs[g] \in Seq(Procs) /\ cur \in Procs
      BY DEF TypeInv
    <3>2. Range(procs[g]) \subseteq Procs
      BY <3>1, RangeElement
    <3> QED BY <3>1, <3>2 DEF Live
  <2>2. \A p \in Procs : Range(p.handlers) \subseteq Keys
    BY RangeElement DEF Procs
  <2> QED BY <2>1, <2>2
<1>11. ASSUME NEW g \in Gens, NEW p \in Live(g)'
       PROVE  /\ Range(p.handlers) \subseteq Names(p.at)
              /\ \A k \in Range(p.handlers) : bound'[g][k] = <<g, p.at>>
  <2>1. CASE p = cur' /\ g = task.gen
    <3>1. Range(cur.handlers) \subseteq Names(cur.at) /\ Range(cur.handlers) \subseteq Keys
      BY <1>3, <1>6, <1>10 DEF BoundInv
    <3>2. \A k \in Range(cur.handlers) : bound[task.gen][k] = <<task.gen, cur.at>>
      BY <1>3, <1>6, <1>7 DEF BoundInv, Unbound
    <3>3. \A k \in Range(cur'.handlers) : bound'[g][k] = <<g, cur'.at>>
      BY <1>3, <1>5, <1>8, <2>1, <3>1, <3>2
    <3> QED BY <1>4, <1>5, <2>1, <3>1, <3>3
  <2>2. CASE ~(p = cur' /\ g = task.gen)
    <3>1. p \in Live(g) /\ (g = task.gen => p \in Range(procs[g]))
      BY <1>6, <2>2
    <3>2. /\ Range(p.handlers) \subseteq Names(p.at) /\ Range(p.handlers) \subseteq Keys
          /\ \A k \in Range(p.handlers) : bound[g][k] = <<g, p.at>>
      BY <1>7, <1>10, <3>1 DEF BoundInv, Unbound
    <3>3. g = task.gen => key \notin Range(p.handlers)
      BY <1>3, <1>4, <1>9, <3>1, <3>2 DEF Distinct
    <3> QED BY <1>8, <3>2, <3>3
  <2> QED BY <2>1, <2>2
<1>12. ASSUME NEW g \in Gens, NEW k \in Keys, bound'[g][k] # None
       PROVE  BoundBy(g, k)'
  <2>1. CASE g = task.gen /\ k = key
    <3>1. bound'[g][k] = <<g, cur'.at>> /\ k \in Range(cur'.handlers) /\ cur' \in Live(g)'
      BY <1>5, <1>6, <1>8, <2>1
    <3> QED BY <3>1 DEF BoundBy
  <2>2. CASE ~(g = task.gen /\ k = key)
    <3>1. bound'[g][k] = bound[g][k]
      BY <1>8, <2>2
    <3>2. PICK p \in Live(g) : bound[g][k] = <<g, p.at>> /\ k \in Range(p.handlers)
      BY <1>12, <3>1 DEF BoundInv, BoundBy
    <3>3. CASE p = cur /\ g = task.gen
      <4>1. cur' \in Live(g)' /\ k \in Range(cur'.handlers)
        BY <1>5, <1>6, <3>2, <3>3
      <4> QED BY <1>5, <3>1, <3>2, <3>3, <4>1 DEF BoundBy
    <3>4. CASE p \in Live(g)'
      BY <3>1, <3>2, <3>4 DEF BoundBy
    <3> QED BY <1>6, <3>3, <3>4
  <2> QED BY <2>1, <2>2
<1> QED BY <1>11, <1>12 DEF BoundInv

\* A handler is unbound by its key: it is that of the plugin at hand.
LEMMA UnbindStep ==
    ASSUME Distinct, TypeInv, OrderInv, BoundInv, UnbindHandler
    PROVE  BoundInv'
<1>1. PICK key : key = Head(cur.handlers)
  OBVIOUS
<1>2. /\ Unbinding /\ cur.handlers # << >> /\ bound' = [bound EXCEPT ![task.gen][key] = None]
      /\ cur' = [cur EXCEPT !.handlers = Tail(@)] /\ UNCHANGED <<task, procs>>
      /\ task.step \in Busy
  BY <1>1 DEF UnbindHandler, Unbinding, Busy, Starting
<1>3. /\ cur'.at = cur.at /\ cur'.handlers = Tail(cur.handlers)
      /\ Range(cur.handlers) = {key} \cup Range(cur'.handlers)
  <2>1. cur'.at = cur.at /\ cur'.handlers = Tail(cur.handlers) /\ cur.handlers \in Seq(Keys)
    BY <1>2 DEF TypeInv, Procs
  <2> QED BY <1>1, <1>2, <2>1, RangeTail
<1>4. \A g \in Gens :
          /\ g = task.gen => cur \in Live(g) /\ cur' \in Live(g)'
          /\ \A p \in Live(g) : (p = cur /\ g = task.gen) \/ p \in Live(g)'
          /\ \A p \in Live(g)' :
                 (p = cur' /\ g = task.gen)
                 \/ (p \in Live(g) /\ (g = task.gen => p \in Range(procs[g])))
  <2>1. Work /\ task.step # "start"
    BY <1>2 DEF Work, UnbindHandler, Unbinding
  <2> QED BY <2>1, LiveWork
<1>5. task.gen \in Gens /\ cur.at \in DOMAIN Paths
      /\ \A p \in Range(procs[task.gen]) : p.at \in DOMAIN Paths /\ p.at # cur.at
  <2>1. task.gen \in Gens
    BY <1>2 DEF TypeInv, Tasks, Busy, Starting
  <2> QED BY <1>2, <2>1 DEF OrderInv, Range
<1>6. Range(cur.handlers) \subseteq Names(cur.at) /\ key \in Names(cur.at)
  BY <1>3, <1>4, <1>5 DEF BoundInv
<1>7. \A g \in Gens, k \in Keys :
          bound'[g][k] = IF g = task.gen /\ k = key THEN None ELSE bound[g][k]
  BY <1>2, <1>5 DEF TypeInv
<1>8. ASSUME NEW g \in Gens, NEW p \in Live(g)'
      PROVE  /\ Range(p.handlers) \subseteq Names(p.at)
             /\ Unbound(g, p)' \/ \A k \in Range(p.handlers) : bound'[g][k] = <<g, p.at>>
  <2>1. CASE p = cur' /\ g = task.gen
    <3>1. Unbound(g, p)'
      BY <1>2, <2>1 DEF Unbound, Unbinding
    <3> QED BY <1>3, <1>6, <2>1, <3>1
  <2>2. CASE ~(p = cur' /\ g = task.gen)
    <3>1. p \in Live(g) /\ (g = task.gen => p \in Range(procs[g]))
      BY <1>4, <2>2
    <3>2. /\ Range(p.handlers) \subseteq Names(p.at)
          /\ \A k \in Range(p.handlers) : bound[g][k] = <<g, p.at>>
      BY <1>5, <3>1 DEF BoundInv, Unbound
    <3>3. Range(p.handlers) \subseteq Keys
      <4>1. procs[g] \in Seq(Procs) /\ cur \in Procs
        BY DEF TypeInv
      <4>2. Range(procs[g]) \subseteq Procs
        BY <4>1, RangeElement
      <4>3. p \in Procs
        BY <3>1, <4>1, <4>2 DEF Live
      <4> QED BY <4>3, RangeElement DEF Procs
    <3>4. g = task.gen => key \notin Range(p.handlers)
      BY <1>5, <1>6, <3>1, <3>2 DEF Distinct
    <3> QED BY <1>7, <3>2, <3>3, <3>4
  <2> QED BY <2>1, <2>2
<1>9. ASSUME NEW g \in Gens, NEW k \in Keys, bound'[g][k] # None
      PROVE  BoundBy(g, k)'
  <2>1. bound'[g][k] = bound[g][k] /\ ~(g = task.gen /\ k = key)
    BY <1>7, <1>9
  <2>2. PICK p \in Live(g) : bound[g][k] = <<g, p.at>> /\ k \in Range(p.handlers)
    BY <1>9, <2>1 DEF BoundInv, BoundBy
  <2>3. CASE p = cur /\ g = task.gen
    <3>1. cur' \in Live(g)' /\ k \in Range(cur'.handlers)
      BY <1>3, <1>4, <2>1, <2>2, <2>3
    <3> QED BY <1>3, <2>1, <2>2, <2>3, <3>1 DEF BoundBy
  <2>4. CASE p \in Live(g)'
    BY <2>1, <2>2, <2>4 DEF BoundBy
  <2> QED BY <1>4, <2>3, <2>4
<1> QED BY <1>8, <1>9 DEF BoundInv

LEMMA BoundStep ==
    ASSUME Distinct, TypeInv, OrderInv, BoundInv, [Next]_vars
    PROVE  BoundInv'
<1>0. cur \in Procs /\ \A p : Same(p, p)
  BY DEF TypeInv, Same
<1>1. ASSUME UNCHANGED <<task, procs, cur, bound>>
      PROVE  BoundInv'
  <2>1. \A g \in Gens : Live(g)' = Live(g) /\ \A p : Unbound(g, p)' = Unbound(g, p)
    BY <1>1 DEF Live, Unbound, Unbinding
  <2> QED BY <1>0, <1>1, <2>1, BoundKept
<1>2. ASSUME UNCHANGED Managed \/ \E g \in Gens, i \in DOMAIN Paths : ProcessDies(g, i)
      PROVE  BoundInv'
  BY <1>1, <1>2 DEF Managed, ProcessDies
<1>3. CASE \/ BuildFails \/ Extend \/ Built \/ Swap \/ EnterBootstrap
           \/ \E db \in DOMAIN Extends : Begin(db)
           \/ Started \/ StopNext
  <2>1. ~Unbinding
    BY <1>3, BetweenFacts, StartedFacts, StopNextFacts DEF Unbinding, Busy, Starting
  <2>2. \A g \in Gens : Live(g)' = Live(g) /\ UNCHANGED bound
    BY <1>3, LiveKept
  <2>3. UNCHANGED bound
    <3>1. 0 \in Gens
      BY PluginsAssumption DEF Gens
    <3> QED BY <2>2, <3>1
  <2> QED BY <1>0, <2>1, <2>2, <2>3, BoundKept DEF Unbound
<1>4. CASE Kill
  <2>1. cur.handlers = << >> /\ UNCHANGED bound /\ task.step \in {"unbind", "stopping"}
    BY <1>4, KillFacts
  <2>2. ASSUME NEW g \in Gens
        PROVE  /\ \A p \in Live(g)' : p \in Live(g)
               /\ \A p \in Live(g) : p = cur \/ p \in Live(g)'
    BY <1>4, <2>1, LiveKept, LiveStopped
  <2>3. ASSUME NEW g \in Gens, NEW p \in Live(g)', p.handlers # << >>
        PROVE  ~Unbound(g, p)
    <3>1. Unbound(g, p) => cur \in Live(g)
      BY <2>1 DEF Unbound, Live, Busy, Starting
    <3>2. Unbound(g, p) => p = cur
      BY <2>2, <3>1, OneOfEach DEF Unbound
    <3> QED BY <2>1, <2>3, <3>2
  <2> QED BY <1>0, <2>1, <2>2, <2>3, BoundKept
<1>5. CASE \/ StartProcess \/ StartFails \/ DescribeFails \/ DomainFails \/ BadKind
           \/ ApplyDomain \/ RegisterScoped \/ RemoveHook
           \/ (BindHandler /\ ~(task.n <= Len(Described.handlers)))
  <2>1. Work /\ UNCHANGED bound
    BY <1>5 DEF Work, StartProcess, StartFails, DescribeFails, DomainFails, BadKind, Erred,
                ApplyDomain, BindHandler, RegisterScoped, RemoveHook
  <2>2. \/ task.step = "start" /\ cur'.handlers = << >>
        \/ task.step # "start" /\ Same(cur, cur') /\ Same(cur', cur)
    BY <1>0, <1>5 DEF StartProcess, StartFails, DescribeFails, DomainFails, BadKind, Erred,
                      ApplyDomain, BindHandler, RegisterScoped, RemoveHook, Unbinding, NoProc,
                      Procs, Same
  <2>3. Unbinding => Unbinding' /\ task'.gen = task.gen /\ cur'.at = cur.at
    <3>1. CASE RemoveHook
      BY <1>0, <3>1 DEF RemoveHook, Unbinding, Procs
    <3>2. CASE ~RemoveHook
      BY <1>5, <3>2 DEF StartProcess, StartFails, DescribeFails, DomainFails, BadKind,
                        ApplyDomain, BindHandler, RegisterScoped, Unbinding
    <3> QED BY <3>1, <3>2
  <2>4. ASSUME NEW g \in Gens
        PROVE  /\ \A p \in Live(g)' :
                      \/ p.handlers = << >>
                      \/ \E q \in Live(g) : Same(p, q) /\ (Unbound(g, q) => Unbound(g, p)')
               /\ \A p \in Live(g) : p.handlers = << >> \/ \E q \in Live(g)' : Same(p, q)
    <3>1. /\ Live(g)' = Range(procs[g]) \cup (IF g = task.gen THEN {cur'} ELSE {})
          /\ Live(g) = Range(procs[g]) \cup
                           (IF g = task.gen /\ task.step # "start" THEN {cur} ELSE {})
      BY <2>1, LiveWork
    <3>2. \A p, q : Same(p, q) => (Unbound(g, q) => Unbound(g, p)')
      BY <2>3 DEF Unbound, Same
    <3> QED BY <1>0, <2>2, <3>1, <3>2
  <2> QED BY <2>1, <2>4, BoundKept
<1>6. CASE BindHandler /\ task.n <= Len(Described.handlers)
  BY <1>6, BindStep
<1>7. CASE UnbindHandler
  BY <1>7, UnbindStep
<1> QED BY <1>2, <1>3, <1>4, <1>5, <1>6, <1>7, RequestsManageNothing DEF Next, Manage

\* When no two plugins name the same handler: exactly the handlers of the healthy
\* plugins of the served platform are bound, each to its own plugin, whatever has
\* failed and whatever platforms were built and stopped before.
THEOREM HealthyPluginsAnswer == Distinct => (Spec => []HealthyAnswer)
<1> SUFFICES ASSUME Distinct PROVE Spec => []HealthyAnswer
  OBVIOUS
<1>1. Init => BoundInv
  <2> SUFFICES ASSUME Init
               PROVE  BoundInv
    OBVIOUS
  <2>1. \A g \in Gens : Live(g) = {} /\ \A k \in Keys : bound[g][k] = None
    BY DEF Init, Live, Free, Range, Busy, Starting
  <2> QED BY <2>1 DEF BoundInv
<1>2. IInv /\ BoundInv /\ [Next]_vars => BoundInv'
  BY BoundStep DEF IInv
<1>3. IInv /\ BoundInv => HealthyAnswer
  <2> SUFFICES ASSUME IInv, BoundInv, served # 0, task.step = "free", NEW k \in Keys
               PROVE  LET owners == {i \in Healthy(served) :
                                         k \in Range(procs[served][i].handlers)}
                      IN  IF owners = {} THEN bound[served][k] = None
                          ELSE bound[served][k] \in
                                   {<<served, procs[served][i].at>> : i \in owners}
    BY DEF HealthyAnswer
  <2> DEFINE owners == {i \in Healthy(served) : k \in Range(procs[served][i].handlers)}
  <2>1. served \in Gens /\ Live(served) = Range(procs[served]) /\ ~Unbinding
    BY DEF IInv, TypeInv, Live, Unbinding, Busy, Starting
  <2>2. CASE owners = {}
    <3>1. ASSUME bound[served][k] # None
          PROVE  FALSE
      <4>1. PICK p \in Range(procs[served]) : k \in Range(p.handlers)
        BY <2>1, <3>1 DEF BoundInv, BoundBy
      <4>2. PICK i \in DOMAIN procs[served] : p = procs[served][i]
        BY DEF Range
      <4>3. ~procs[served][i].error
        BY <2>1, <4>1, <4>2 DEF IInv, ErrorInv, Range
      <4> QED BY <2>2, <4>1, <4>2, <4>3 DEF Healthy
    <3> QED BY <2>2, <3>1
  <2>3. CASE owners # {}
    <3>1. PICK i \in owners : TRUE
      BY <2>3
    <3>2. procs[served][i] \in Live(served) /\ k \in Range(procs[served][i].handlers)
      BY <2>1, <3>1 DEF Healthy, Range
    <3>3. bound[served][k] = <<served, procs[served][i].at>>
      BY <2>1, <3>2 DEF BoundInv, Unbound
    <3> QED BY <2>3, <3>1, <3>3
  <2> QED BY <2>2, <2>3
<1> QED BY <1>1, <1>2, <1>3, IInvHolds, PTL DEF Spec
=============================================================================
