--------------------------- MODULE SurfaceProofs ---------------------------
(***************************************************************************)
(* What an app puts before its users, for any releases, documents, addons    *)
(* and policies: the theorems of Surface.                                    *)
(***************************************************************************)
EXTENDS Surface, LayersProofs

-----------------------------------------------------------------------------
(* Types *)

LEMMA DefaultsDomain == \A spec : DOMAIN ApplyDefaults(spec) = DOMAIN spec
  <1> SUFFICES ASSUME NEW spec PROVE DOMAIN ApplyDefaults(spec) = DOMAIN spec
    OBVIOUS
  <1>1. PICK models : ApplyDefaults(spec) = [spec EXCEPT !.models = models]
    BY DEF ApplyDefaults
  <1> QED
    BY <1>1

LEMMA BaseDomain == \A r : DOMAIN Base(r) = Parts
  <1> SUFFICES ASSUME NEW r PROVE DOMAIN Base(r) = Parts
    OBVIOUS
  <1>1. PICK F : ApplyDefaults([p \in Parts |-> F[p]]) = Base(r)
    BY DEF Base, Decode
  <1> QED
    BY <1>1, DefaultsDomain

LEMMA EffectiveDomain ==
    ASSUME NEW base, DOMAIN base = Parts, NEW l
    PROVE  DOMAIN Effective(base, l) = Parts
  BY DEF Effective, Merge

LEMMA PrintedDomain == \A spec : DOMAIN Printed(spec) = Parts
  BY DEF Printed

LEMMA MarshalledDomain == \A full, base : DOMAIN Marshalled(Subtract(full, base)) = Parts
  BY DEF Marshalled, Subtract

\* What a mount changes
LEMMA MountDomain ==
    ASSUME NEW spec, NEW l, NEW doc, Mount(spec, l, doc)
    PROVE  /\ layer' = l /\ served' = spec /\ fields' = RootFields(spec) /\ broken' = FALSE
           /\ Distinct(fields')
  BY DEF Mount, Mounts

LEMMA TypeInit == Init => TypeOK
  <1> SUFFICES ASSUME Init PROVE TypeOK
    OBVIOUS
  <1>1. DOMAIN layer = Parts /\ DOMAIN served = Parts /\ DOMAIN printed = Parts
    BY BaseDomain, PrintedDomain DEF Init, NoLayer
  <1>2. Distinct(fields)
    BY DEF Init, Mounts
  <1> QED
    BY <1>1, <1>2 DEF Init, TypeOK

LEMMA TypeStep == TypeOK /\ [Next]_vars => TypeOK'
  <1> SUFFICES ASSUME TypeOK, [Next]_vars PROVE TypeOK'
    OBVIOUS
  <1>1. ASSUME NEW r \in Releases, Boot(r) PROVE TypeOK'
    <2>1. /\ release' = r /\ broken' \in BOOLEAN /\ UNCHANGED <<layer, printed, addon, rights>>
      BY <1>1 DEF Boot
    <2>2. PICK spec : /\ served' = spec /\ (spec = Base(r) \/ spec = Effective(Base(r), layer))
                      /\ up' = Mounts(r, spec)
                      /\ fields' = IF up' THEN RootFields(spec) ELSE {}
      BY <1>1 DEF Boot
    <2>3. DOMAIN spec = Parts
      BY <2>2, BaseDomain, EffectiveDomain
    <2>4. up' \in BOOLEAN /\ (up' => Distinct(fields'))
      BY <2>2 DEF Mounts
    <2> QED
      BY <2>1, <2>2, <2>3, <2>4 DEF TypeOK
  <1>2. CASE GetDomain
    BY <1>2, PrintedDomain DEF GetDomain, TypeOK
  <1>3. ASSUME NEW add \in Additions, Apply(add) PROVE TypeOK'
    <2>1. PICK doc, l : /\ l = Marshalled(Subtract(doc, Base(release)))
                        /\ \/ Mount(Effective(Base(release), l), l, doc)
                           \/ Unmount(Effective(Base(release), l))
                        /\ UNCHANGED <<release, up, printed, addon, rights>>
      BY <1>3 DEF Apply
    <2>2. DOMAIN l = Parts /\ DOMAIN Effective(Base(release), l) = Parts
      BY <2>1, MarshalledDomain, BaseDomain, EffectiveDomain
    <2>3. CASE Mount(Effective(Base(release), l), l, doc)
      BY <2>1, <2>2, <2>3, MountDomain DEF TypeOK
    <2>4. CASE Unmount(Effective(Base(release), l))
      BY <2>1, <2>4 DEF Unmount, TypeOK
    <2> QED
      BY <2>1, <2>3, <2>4
  <1>4. CASE Delete
    <2>1. DOMAIN NoLayer = Parts
      BY DEF NoLayer
    <2>2. /\ layer' = NoLayer /\ served' = Base(release) /\ broken' = FALSE
          /\ Distinct(fields') /\ UNCHANGED <<release, up, printed, addon, rights>>
      BY <1>4, MountDomain DEF Delete
    <2>3. DOMAIN Base(release) = Parts
      BY BaseDomain
    <2> QED
      BY <2>1, <2>2, <2>3 DEF TypeOK
  <1>5. CASE Install
    BY <1>5 DEF Install, TypeOK
  <1>6. ASSUME NEW r \in Rights, SetPolicy(r) PROVE TypeOK'
    BY <1>6 DEF SetPolicy, TypeOK
  <1>7. CASE UNCHANGED vars
    BY <1>7 DEF vars, TypeOK
  <1> QED
    BY <1>1, <1>2, <1>3, <1>4, <1>5, <1>6, <1>7 DEF Next

\* The state has the types that TypeOK gives it.
THEOREM TypeCorrect == Spec => []TypeOK
  BY TypeInit, TypeStep, PTL DEF Spec

-----------------------------------------------------------------------------
(* Menus *)

\* The shell knows the view of every menu item that is served.
ViewsInv == MenuViews(Items(served)) \subseteq tracked

LEMMA TrackedViews ==
    ASSUME NEW spec, NEW registered, NEW contributions
    PROVE  MenuViews(Items(spec)) \subseteq
               Tracked(spec, registered, MenuCatalog(Items(spec), contributions))
  BY DEF MenuViews, MenuCatalog, Tracked

LEMMA ViewsStep == ViewsInv /\ [Next]_vars => ViewsInv'
  <1> SUFFICES ASSUME ViewsInv, [Next]_vars PROVE ViewsInv'
    OBVIOUS
  <1>1. ASSUME NEW r \in Releases, Boot(r) PROVE ViewsInv'
    <2>1. PICK spec : served' = spec
                      /\ tracked' = Tracked(spec, {}, MenuCatalog(Items(spec), Contributed))
      BY <1>1 DEF Boot
    <2>2. MenuViews(Items(spec)) \subseteq tracked'
      BY <2>1, TrackedViews
    <2> QED
      BY <2>1, <2>2 DEF ViewsInv, Items
  <1>2. ASSUME NEW spec, NEW l, NEW doc, Mount(spec, l, doc) PROVE ViewsInv'
    <2>1. served' = spec /\ tracked' = tracked \cup Mounting(spec)
      BY <1>2 DEF Mount
    <2>2. MenuViews(Items(spec)) \subseteq tracked'
      <3>1. CASE spec = served
        BY <2>1, <3>1 DEF ViewsInv
      <3>2. CASE spec # served
        BY <2>1, <3>2, TrackedViews DEF Mounting
      <3> QED
        BY <3>1, <3>2
    <2> QED
      BY <2>1, <2>2 DEF ViewsInv, Items
  <1>3. ASSUME NEW spec, Unmount(spec) PROVE ViewsInv'
    <2>1. served' = served /\ tracked' = tracked \cup Mounting(spec)
      BY <1>3 DEF Unmount
    <2> QED
      BY <2>1 DEF ViewsInv, Items, MenuViews
  <1>4. ASSUME NEW add \in Additions, Apply(add) PROVE ViewsInv'
    BY <1>2, <1>3, <1>4 DEF Apply
  <1>5. CASE Delete
    BY <1>2, <1>5 DEF Delete
  <1>6. CASE UNCHANGED <<served, tracked>>
    BY <1>6 DEF ViewsInv, Items, MenuViews
  <1>7. GetDomain \/ Install \/ (\E r \in Rights : SetPolicy(r)) \/ UNCHANGED vars
            => UNCHANGED <<served, tracked>>
    BY DEF GetDomain, Install, SetPolicy, vars
  <1> QED
    BY <1>1, <1>4, <1>5, <1>6, <1>7 DEF Next

\* A user who is shown a menu item of the app's own that leads to a view is shown the
\* app in the shell: an item is shown only if its view is open, and the view is known.
THEOREM MenusAreReachable == Spec => []MenuReachable
  <1>1. Init => ViewsInv
    <2> SUFFICES ASSUME Init PROVE ViewsInv
      OBVIOUS
    <2>1. tracked = Tracked(served, {}, Items(served))
      BY DEF Init
    <2> QED
      BY <2>1 DEF ViewsInv, Tracked
  <1>2. ViewsInv => MenuReachable
    <2> SUFFICES ASSUME ViewsInv, served.nav, Reachable(Items(served)) PROVE FilterShellNav(served)
      BY DEF MenuReachable
    <2>1. PICK item \in FilterMenuCatalog(Items(served)) : item.view # None
      BY DEF Reachable
    <2>2. item \in Items(served) /\ Open(item.view)
      BY <2>1 DEF FilterMenuCatalog, Kept
    <2>3. item.view \in tracked
      BY <2>1, <2>2 DEF ViewsInv, MenuViews
    <2> QED
      BY <2>2, <2>3 DEF FilterShellNav
  <1> QED
    BY <1>1, <1>2, ViewsStep, PTL DEF Spec

-----------------------------------------------------------------------------
(* Guards and the registry *)

\* Registering keeps what is registered and adds what is described.
LEMMA RegisteredKeeps ==
    ASSUME NEW reg, NEW descs
    PROVE  LET new == Registered(reg, descs)
           IN  /\ \A r \in DOMAIN reg : r \in DOMAIN new /\ reg[r] \subseteq new[r]
               /\ \A d \in descs : d.resource \in DOMAIN new /\ d.columns \subseteq new[d.resource]
  <1> DEFINE new == Registered(reg, descs)
             Columns(r) == UNION {d.columns : d \in {e \in descs : e.resource = r}}
  <1>1. DOMAIN new = DOMAIN reg \cup {d.resource : d \in descs}
    BY DEF Registered
  <1>2. \A r \in DOMAIN new :
            new[r] = IF r \notin DOMAIN reg THEN Columns(r)
                     ELSE IF \E d \in descs : d.resource = r THEN reg[r] \cup Columns(r) ELSE reg[r]
    BY <1>1 DEF Registered, MergeFields
  <1> HIDE DEF new
  <1>3. \A r \in DOMAIN reg : r \in DOMAIN new /\ reg[r] \subseteq new[r]
    BY <1>1, <1>2
  <1>4. ASSUME NEW d \in descs PROVE d.resource \in DOMAIN new /\ d.columns \subseteq new[d.resource]
    <2>1. d.columns \subseteq Columns(d.resource)
      OBVIOUS
    <2> HIDE DEF Columns
    <2> QED
      BY <1>1, <1>2, <2>1
  <1> QED
    BY <1>3, <1>4 DEF new

LEMMA OperationKeeps ==
    ASSUME NEW reg, NEW descs
    PROVE  LET new == RegisterOperation(reg, descs)
           IN  /\ \A r \in DOMAIN reg : r \in DOMAIN new /\ reg[r] \subseteq new[r]
               /\ \A d \in descs : d.resource \in DOMAIN new /\ d.columns \subseteq new[d.resource]
  <1>1. PICK mid : mid = Registered(reg, descs)
    OBVIOUS
  <1>2. PICK rest : rest = {[d EXCEPT !.columns = {}] : d \in descs}
    OBVIOUS
  <1>3. RegisterOperation(reg, descs) = Registered(mid, rest)
    BY <1>1, <1>2 DEF RegisterOperation
  <1> QED
    BY <1>1, <1>3, RegisteredKeeps

Called(f) == f.of[1] \in {"query", "command"}
KindOf(f) == IF f.root = "query" THEN "query" ELSE "command"

\* The fields of a query and of a command, and of which of them the guard is
LEMMA QueryField ==
    ASSUME NEW spec, NEW n, NEW f \in QueryFields(spec, n)
    PROVE  /\ Called(f) /\ f.root = "query" /\ f.guard = <<"query", Pascal[n], "read">>
           /\ \E g \in QueryFields(spec, n) : g.name = Pascal[n]
           /\ \/ f.of = <<"query", n>>
              \/ \E suffix \in {"Count", "Groups"} :
                     f.of = <<"query", n, suffix>> /\ f.name = Pascal[n] \o suffix
  <1> DEFINE q == spec.queries[n][1]
  <1>1. CASE q.binds = {}
    BY <1>1 DEF QueryFields, Field, Called
  <1>2. CASE q.binds # {}
    <2>1. PICK b \in q.binds :
              \/ \E columns, model : f = Field(Pascal[n], "query", <<"query", n>>,
                                              <<"query", Pascal[n], "read">>, model, columns)
              \/ \E suffix \in {"Count", "Groups"} : \E model :
                     f = Field(Pascal[n] \o suffix, "query", <<"query", n, suffix>>,
                               <<"query", Pascal[n], "read">>, model, {})
      BY <1>2 DEF QueryFields
    <2>2. \E g \in QueryFields(spec, n) : g.name = Pascal[n]
      <3>1. Field(Pascal[n], "query", <<"query", n>>, <<"query", Pascal[n], "read">>,
                  Bound(spec, b), ReturnType(spec.models[b.model])) \in QueryFields(spec, n)
        BY <1>2 DEF QueryFields
      <3> QED
        BY <3>1 DEF Field
    <2>3. Called(f) /\ f.root = "query" /\ f.guard = <<"query", Pascal[n], "read">>
      BY <2>1 DEF Field, Called
    <2>4. \/ f.of = <<"query", n>>
          \/ \E suffix \in {"Count", "Groups"} :
                 f.of = <<"query", n, suffix>> /\ f.name = Pascal[n] \o suffix
      BY <2>1 DEF Field
    <2> QED
      BY <2>2, <2>3, <2>4
  <1> QED
    BY <1>1, <1>2

LEMMA CommandField ==
    ASSUME NEW spec, NEW n, NEW f \in CommandFields(spec, n)
    PROVE  /\ f.of = <<"command", n>> /\ f.root = "mutation" /\ f.name = Pascal[n]
           /\ f.guard = <<"command", Pascal[n], "execute">>
  <1>1. PICK model, columns : f = Field(Pascal[n], "mutation", <<"command", n>>,
                                        <<"command", Pascal[n], "execute">>, model, columns)
    BY DEF CommandFields
  <1> QED
    BY <1>1 DEF Field

\* The fields of the models ask for a session and name the model they are about.
LEMMA ModelField ==
    ASSUME NEW spec, NEW n, NEW f \in ModelFields(spec, n)
    PROVE  /\ f.guard = Session
           /\ \E verb \in {"list", "get", "create", "update", "delete"} : f.model = <<n, verb>>
           /\ \/ f.of[1] \in {"list", "get", "create", "update", "delete"}
              \/ f.of[1] \in {"count", "groups"} /\ f.name \in {Pascal[n] \o "sCount", Pascal[n] \o "sGroups"}
  <1>1. \/ \E verb \in {"list", "get"} : \E name :
              f = Field(name, "query", <<verb, n>>, Session, <<n, verb>>, {})
        \/ f = Field(Pascal[n] \o "sCount", "query", <<"count", n>>, Session, <<n, "list">>, {})
        \/ f = Field(Pascal[n] \o "sGroups", "query", <<"groups", n>>, Session, <<n, "list">>, {})
        \/ \E verb \in {"create", "update", "delete"} : \E name :
              f = Field(name, "mutation", <<verb, n>>, Session, <<n, verb>>, {})
    BY DEF ModelFields
  <1> QED
    BY <1>1 DEF Field

\* A field is one every app has, of a model, of a query or of a command.
LEMMA RootField ==
    ASSUME NEW spec, NEW f \in RootFields(spec)
    PROVE  \/ f \in Basics
           \/ \E n \in DOMAIN spec.models : f \in ModelFields(spec, n)
           \/ \E n \in DOMAIN spec.queries :
                  f \in QueryFields(spec, n) /\ QueryFields(spec, n) \subseteq RootFields(spec)
           \/ \E n \in DOMAIN spec.commands : f \in CommandFields(spec, n)
  <1>1. CASE HasCQRS(spec)
    <2>1. RootFields(spec) = Basics
              \cup (UNION {QueryFields(spec, n) : n \in DOMAIN spec.queries})
              \cup (UNION {CommandFields(spec, n) : n \in DOMAIN spec.commands})
      BY <1>1 DEF RootFields, Of
    <2>2. \A n \in DOMAIN spec.queries : QueryFields(spec, n) \subseteq RootFields(spec)
      BY <2>1
    <2>3. \/ f \in Basics
          \/ \E n \in DOMAIN spec.queries : f \in QueryFields(spec, n)
          \/ \E n \in DOMAIN spec.commands : f \in CommandFields(spec, n)
      BY <2>1
    <2> QED
      BY <2>2, <2>3
  <1>2. CASE ~HasCQRS(spec)
    BY <1>2 DEF RootFields
  <1> QED
    BY <1>1, <1>2

LEMMA BasicField ==
    ASSUME NEW f \in Basics
    PROVE  /\ f.of = <<"basics">> /\ f.columns = {} /\ f.model = None /\ f.root = "query"
           /\ f.name \in {"Ping", "Views", "Menus", "ViewSlots"}
           /\ f.guard \in {Session, <<"query", "Ping", "read">>}
           /\ f.guard # Session => f.name = "Ping"
  BY DEF Basics, Field, Session

\* What the registry must hold of a field
Covered(f, reg) ==
    f.guard # Session =>
        /\ <<f.guard[1], f.guard[2]>> \in DOMAIN reg
        /\ <<f.guard[1], f.name>> \in DOMAIN reg
        /\ f.columns \subseteq reg[<<f.guard[1], f.name>>]

Ping == <<"query", "Ping">>

\* The registry that knows the resources every app has covers the fields of a
\* specification once its operations are registered.
LEMMA MountCovers ==
    ASSUME NEW spec, NEW reg, Ping \in DOMAIN reg
    PROVE  \A f \in RootFields(spec) :
               Covered(f, RegisterOperation(reg, OperationResources(RootFields(spec))))
  <1> DEFINE descs == OperationResources(RootFields(spec))
  <1>1. PICK new : new = RegisterOperation(reg, descs)
    OBVIOUS
  <1>2. /\ \A r \in DOMAIN reg : r \in DOMAIN new /\ reg[r] \subseteq new[r]
        /\ \A d \in descs : d.resource \in DOMAIN new /\ d.columns \subseteq new[d.resource]
    <2> HIDE DEF descs
    <2> QED
      BY <1>1, OperationKeeps
  <1>3. ASSUME NEW f \in RootFields(spec), Called(f)
        PROVE  /\ <<KindOf(f), f.name>> \in DOMAIN new
               /\ f.columns \subseteq new[<<KindOf(f), f.name>>]
    <2>1. Descriptor(KindOf(f), f.name, f.columns) \in descs
      BY <1>3 DEF OperationResources, Called, KindOf
    <2> HIDE DEF descs
    <2> QED
      BY <1>2, <2>1 DEF Descriptor
  <1> HIDE DEF descs
  <1>4. ASSUME NEW f \in RootFields(spec), f.guard # Session PROVE Covered(f, new)
    <2>1. CASE f \in Basics
      <3>1. f.guard = <<"query", "Ping", "read">> /\ f.name = "Ping" /\ f.columns = {}
        BY <1>4, <2>1, BasicField
      <3> QED
        BY <1>2, <3>1 DEF Covered, Ping
    <2>2. ASSUME NEW n, f \in ModelFields(spec, n) PROVE FALSE
      BY <1>4, <2>2, ModelField
    <2>3. ASSUME NEW n, f \in QueryFields(spec, n), QueryFields(spec, n) \subseteq RootFields(spec)
          PROVE  Covered(f, new)
      <3>1. Called(f) /\ f.root = "query" /\ f.guard = <<"query", Pascal[n], "read">>
        BY <2>3, QueryField
      <3>2. PICK g \in QueryFields(spec, n) : g.name = Pascal[n]
        BY <2>3, QueryField
      <3>3. Called(g) /\ g.root = "query" /\ g \in RootFields(spec)
        BY <2>3, QueryField
      <3> QED
        BY <1>3, <3>1, <3>2, <3>3 DEF Covered, KindOf
    <2>4. ASSUME NEW n, f \in CommandFields(spec, n) PROVE Covered(f, new)
      <3>1. /\ Called(f) /\ f.root = "mutation" /\ f.name = Pascal[n]
            /\ f.guard = <<"command", Pascal[n], "execute">>
        BY <2>4, CommandField DEF Called
      <3> QED
        BY <1>3, <3>1 DEF Covered, KindOf
    <2> QED
      BY <2>1, <2>2, <2>3, <2>4, RootField
  <1> QED
    BY <1>1, <1>4 DEF Covered, descs

\* The registry always knows the resources every app has, and covers the fields.
CoverInv == Ping \in DOMAIN registry /\ \A f \in fields : Covered(f, registry)

LEMMA PingDescribed == \A reg, views : Ping \in DOMAIN Registered(reg, AppResources(views))
  <1> SUFFICES ASSUME NEW reg, NEW views
               PROVE  Ping \in DOMAIN Registered(reg, AppResources(views))
    OBVIOUS
  <1>1. Descriptor("query", "Ping", {}) \in AppResources(views)
    BY DEF AppResources
  <1>2. Descriptor("query", "Ping", {}).resource = Ping
    BY DEF Descriptor, Ping
  <1> QED
    BY <1>1, <1>2, RegisteredKeeps

LEMMA CoveredStays ==
    ASSUME NEW f, NEW reg, NEW new, Covered(f, reg),
           \A r \in DOMAIN reg : r \in DOMAIN new /\ reg[r] \subseteq new[r]
    PROVE  Covered(f, new)
  BY DEF Covered

LEMMA CoverInit == Init => CoverInv
  <1> SUFFICES ASSUME Init PROVE CoverInv
    OBVIOUS
  <1>1. PICK reg : /\ reg = Registered([r \in {} |-> {}], AppResources(tracked))
                   /\ registry = RegisterOperation(reg, OperationResources(fields))
                   /\ fields = RootFields(served)
    BY DEF Init
  <1>2. Ping \in DOMAIN reg
    BY <1>1, PingDescribed
  <1> QED
    BY <1>1, <1>2, MountCovers, OperationKeeps DEF CoverInv

LEMMA CoverStep == CoverInv /\ [Next]_vars => CoverInv'
  <1> SUFFICES ASSUME CoverInv, [Next]_vars PROVE CoverInv'
    OBVIOUS
  <1>1. ASSUME NEW spec, NEW reg, Ping \in DOMAIN reg, fields' \in {RootFields(spec), {}},
               registry' = RegisterOperation(reg, OperationResources(fields'))
        PROVE  CoverInv'
    <2>1. Ping \in DOMAIN registry'
      BY <1>1, OperationKeeps
    <2>2. CASE fields' = {}
      BY <2>1, <2>2 DEF CoverInv
    <2>3. CASE fields' = RootFields(spec)
      <3>1. \A f \in RootFields(spec) : Covered(f, registry')
        BY <1>1, <2>3, MountCovers
      <3> QED
        BY <2>1, <2>3, <3>1 DEF CoverInv
    <2> QED
      BY <1>1, <2>2, <2>3
  <1>2. ASSUME NEW r \in Releases, Boot(r) PROVE CoverInv'
    <2>1. PICK spec, views : /\ fields' = IF up' THEN RootFields(spec) ELSE {}
                             /\ registry' = RegisterOperation(
                                    Registered([x \in {} |-> {}], AppResources(views)),
                                    OperationResources(fields'))
      BY <1>2 DEF Boot
    <2>2. Ping \in DOMAIN Registered([x \in {} |-> {}], AppResources(views))
      BY PingDescribed
    <2> QED
      BY <1>1, <2>1, <2>2
  <1>3. ASSUME NEW spec, NEW l, NEW doc, Mount(spec, l, doc) PROVE CoverInv'
    <2>1. PICK reg : /\ reg = Registered(registry, AppResources(Mounting(spec)))
                     /\ fields' = RootFields(spec)
                     /\ registry' = RegisterOperation(reg, OperationResources(fields'))
      BY <1>3 DEF Mount
    <2> QED
      BY <1>1, <2>1, PingDescribed
  <1>4. ASSUME NEW spec, Unmount(spec) PROVE CoverInv'
    <2>1. PICK reg, descs : /\ reg = Registered(registry, AppResources(Mounting(spec)))
                            /\ registry' = RegisterOperation(reg, descs)
                            /\ fields' = fields
      BY <1>4 DEF Unmount
    <2>2. \A r \in DOMAIN registry : r \in DOMAIN reg /\ registry[r] \subseteq reg[r]
      BY <2>1, RegisteredKeeps
    <2>3. \A r \in DOMAIN reg : r \in DOMAIN registry' /\ reg[r] \subseteq registry'[r]
      BY <2>1, OperationKeeps
    <2>4. PICK old, new : old = registry /\ new = registry'
      OBVIOUS
    <2>5. \A r \in DOMAIN old : r \in DOMAIN new /\ old[r] \subseteq new[r]
      BY <2>2, <2>3, <2>4
    <2>6. \A f \in fields : Covered(f, new)
      BY <2>4, <2>5, CoveredStays DEF CoverInv
    <2> QED
      BY <2>1, <2>4, <2>5, <2>6 DEF CoverInv
  <1>5. ASSUME NEW add \in Additions, Apply(add) PROVE CoverInv'
    BY <1>3, <1>4, <1>5 DEF Apply
  <1>6. CASE Delete
    BY <1>3, <1>6 DEF Delete
  <1>7. CASE UNCHANGED <<fields, registry>>
    BY <1>7 DEF CoverInv, Covered
  <1>8. GetDomain \/ Install \/ (\E r \in Rights : SetPolicy(r)) \/ UNCHANGED vars
            => UNCHANGED <<fields, registry>>
    BY DEF GetDomain, Install, SetPolicy, vars
  <1> QED
    BY <1>2, <1>5, <1>6, <1>7, <1>8 DEF Next

\* For every root field behind a guard there is a resource that a policy can name, with
\* every column or argument of the field, after any mounts, failed ones included.
THEOREM GrantsCover == Spec => []GrantsCoverFields
  <1>1. CoverInv => GrantsCoverFields
    BY DEF CoverInv, Covered, GrantsCoverFields
  <1> QED
    BY <1>1, CoverInit, CoverStep, PTL DEF Spec

-----------------------------------------------------------------------------
(* Names and the catalog *)

\* Names of declarations are known names.
NamesInv ==
    /\ release \in Releases /\ Loads(release)
    /\ Known(layer) /\ Known(served) /\ Known(printed)

LEMMA MergeNames ==
    ASSUME NEW base, NEW l, Known(base), Known(l)
    PROVE  Known(Merge(base, l))
  <1>1. /\ Merge(base, l).models = MergedModels(base.models, l.models)
        /\ Merge(base, l).queries = Over(base.queries, l.queries)
        /\ Merge(base, l).commands = Over(base.commands, l.commands)
    BY MergePart DEF NamedParts
  <1>2. DOMAIN Merge(base, l) = Parts
    BY DEF Merge
  <1> QED
    BY <1>1, <1>2 DEF Known, MergedModels, Over

LEMMA MarshalledNames ==
    ASSUME NEW spec, Known(spec)
    PROVE  Known(Marshalled(spec)) /\ Known(Printed(spec))
  <1>1. "models" \in Parts /\ "models" \notin BaseParts
        /\ "queries" \in Parts \ BaseParts /\ "commands" \in Parts \ BaseParts
    BY DEF Parts, BaseParts, NamedParts
  <1> DEFINE models == [n \in DOMAIN spec.models |-> [spec.models[n] EXCEPT !.presets = {}]]
  <1>2. Marshalled(spec) = [spec EXCEPT !.models = models] /\ DOMAIN models = DOMAIN spec.models
    BY DEF Marshalled
  <1> HIDE DEF models
  <1>3. Known(Marshalled(spec))
    BY <1>1, <1>2 DEF Known
  <1>4. /\ DOMAIN Printed(spec) = Parts
        /\ \A p \in Parts \ BaseParts : Printed(spec)[p] = Marshalled(spec)[p]
    BY DEF Printed
  <1>5. Known(Printed(spec))
    BY <1>1, <1>3, <1>4 DEF Known
  <1> QED
    BY <1>3, <1>5

LEMMA SubtractNames ==
    ASSUME NEW full, NEW base, Known(full)
    PROVE  Known(Subtract(full, base))
  <1>1. /\ Subtract(full, base).models = ExtraModels(full.models, base.models)
        /\ Subtract(full, base).queries = Extra(full.queries, base.queries)
        /\ Subtract(full, base).commands = Extra(full.commands, base.commands)
    BY SubtractPart DEF NamedParts
  <1>2. DOMAIN Subtract(full, base) = Parts
    BY DEF Subtract
  <1> QED
    BY <1>1, <1>2 DEF Known, ExtraModels, Extra

LEMMA DefaultsNames ==
    ASSUME NEW spec, Known(spec)
    PROVE  Known(ApplyDefaults(spec))
  <1> DEFINE models == [n \in DOMAIN spec.models |-> DefaultedModel(spec.models[n])]
  <1>1. ApplyDefaults(spec) = [spec EXCEPT !.models = models] /\ DOMAIN models = DOMAIN spec.models
    BY DEF ApplyDefaults
  <1> HIDE DEF models
  <1>2. "models" \in Parts /\ "queries" \in Parts /\ "commands" \in Parts
    BY DEF Parts, NamedParts
  <1> QED
    BY <1>1, <1>2 DEF Known

LEMMA EditedNames ==
    ASSUME NEW doc, NEW add, Known(doc), Known(add)
    PROVE  Known(Edited(doc, add))
  <1>1. /\ DOMAIN Edited(doc, add) = Parts
        /\ \A p \in {"models", "queries", "commands"} :
               DOMAIN Edited(doc, add)[p] = DOMAIN doc[p] \cup DOMAIN add[p]
    BY DEF Edited, Parts, NamedParts, TextParts, SetParts
  <1> QED
    BY <1>1 DEF Known

LEMMA NoLayerKnown == Known(NoLayer)
  BY DEF Known, NoLayer, Nothing, Parts, NamedParts, TextParts, SetParts

LEMMA EffectiveNames ==
    ASSUME NEW base, NEW l, Known(base), Known(l)
    PROVE  Known(Effective(base, l))
  BY MergeNames DEF Effective

LEMMA NamesInit == Init => NamesInv
  BY SurfaceAssumption, MarshalledNames, NoLayerKnown DEF Init, NamesInv

LEMMA NamesStep == NamesInv /\ [Next]_vars => NamesInv'
  <1> SUFFICES ASSUME NamesInv, [Next]_vars PROVE NamesInv'
    OBVIOUS
  <1>1. PICK base : base = Base(release) /\ Known(base)
    BY SurfaceAssumption DEF NamesInv
  <1>2. ASSUME NEW r \in Releases, Boot(r) PROVE NamesInv'
    <2>1. /\ release' = r /\ Loads(r) /\ UNCHANGED <<layer, printed>>
          /\ served' \in {Base(r), Effective(Base(r), layer)}
      BY <1>2 DEF Boot
    <2>2. Known(Base(r)) /\ Known(Effective(Base(r), layer))
      BY <2>1, SurfaceAssumption, EffectiveNames DEF NamesInv
    <2> QED
      BY <2>1, <2>2 DEF NamesInv, Known
  <1>3. CASE GetDomain
    <2>1. printed' = Printed(served) /\ UNCHANGED <<release, layer, served>>
      BY <1>3 DEF GetDomain
    <2>2. Known(Printed(served))
      BY MarshalledNames DEF NamesInv
    <2> QED
      BY <2>1, <2>2 DEF NamesInv, Known
  <1>4. ASSUME NEW add \in Additions, Apply(add) PROVE NamesInv'
    <2>1. PICK doc : doc = ApplyDefaults(Edited(printed, add))
      OBVIOUS
    <2>2. PICK l : l = Marshalled(Subtract(doc, base))
      OBVIOUS
    <2>3. /\ Mount(Effective(base, l), l, doc) \/ Unmount(Effective(base, l))
          /\ UNCHANGED <<release, printed>>
      BY <1>1, <1>4, <2>1, <2>2 DEF Apply
    <2>4. Known(doc)
      BY <2>1, SurfaceAssumption, EditedNames, DefaultsNames DEF NamesInv
    <2>5. Known(l)
      BY <2>2, <2>4, SubtractNames, MarshalledNames
    <2>6. Known(Effective(base, l))
      BY <1>1, <2>5, EffectiveNames
    <2>7. \/ layer' = l /\ served' = Effective(base, l)
          \/ UNCHANGED <<layer, served>>
      BY <2>3 DEF Mount, Unmount
    <2> QED
      BY <2>3, <2>5, <2>6, <2>7 DEF NamesInv, Known
  <1>5. CASE Delete
    <2>1. layer' = NoLayer /\ served' = base /\ UNCHANGED <<release, printed>>
      BY <1>1, <1>5 DEF Delete, Mount
    <2> QED
      BY <1>1, <2>1, NoLayerKnown DEF NamesInv, Known
  <1>6. CASE UNCHANGED <<release, layer, served, printed>>
    BY <1>6 DEF NamesInv, Known
  <1>7. Install \/ (\E r \in Rights : SetPolicy(r)) \/ UNCHANGED vars
            => UNCHANGED <<release, layer, served, printed>>
    BY DEF Install, SetPolicy, vars
  <1> QED
    BY <1>2, <1>3, <1>4, <1>5, <1>6, <1>7 DEF Next

\* The root fields are those of what is served, or none.
FieldsInv == fields \in {RootFields(served), {}}

LEMMA FieldsStep == FieldsInv /\ [Next]_vars => FieldsInv'
  <1> SUFFICES ASSUME FieldsInv, [Next]_vars PROVE FieldsInv'
    OBVIOUS
  <1>1. ASSUME NEW r \in Releases, Boot(r) PROVE FieldsInv'
    <2>1. PICK spec : served' = spec /\ fields' \in {RootFields(spec), {}}
      BY <1>1 DEF Boot
    <2> QED
      BY <2>1 DEF FieldsInv
  <1>2. ASSUME NEW spec, NEW l, NEW doc, Mount(spec, l, doc) PROVE FieldsInv'
    BY <1>2, MountDomain DEF FieldsInv
  <1>3. CASE UNCHANGED <<fields, served>>
    BY <1>3 DEF FieldsInv
  <1>4. ASSUME NEW add \in Additions, Apply(add) PROVE FieldsInv'
    BY <1>2, <1>3, <1>4 DEF Apply, Unmount
  <1>5. CASE Delete
    BY <1>2, <1>5 DEF Delete
  <1>6. GetDomain \/ Install \/ (\E r \in Rights : SetPolicy(r)) \/ UNCHANGED vars
            => UNCHANGED <<fields, served>>
    BY DEF GetDomain, Install, SetPolicy, vars
  <1> QED
    BY <1>1, <1>3, <1>4, <1>5, <1>6 DEF Next

\* The catalog lists every field that would answer the user without a record being
\* looked at: an operation is looked up by what guards it, and no other field of an app
\* has a name that is left out.
THEOREM CatalogLists == Spec => []CatalogComplete
  <1>1. Init => FieldsInv
    BY DEF Init, FieldsInv
  <1>2. NamesInv /\ FieldsInv => CatalogComplete
    <2> SUFFICES ASSUME NamesInv, NEW f \in RootFields(served), Answers(f), f \in fields,
                        ~DecidedLater(f)
                 PROVE  f \in Catalog
      BY DEF CatalogComplete, FieldsInv
    <2> USE DEF Session
    <2>1. CASE f \in Basics
      <3>1. ~SpecOperation(f) /\ f.name \notin Hidden
        BY <2>1, BasicField DEF SpecOperation, Hidden
      <3> QED
        BY <3>1 DEF Catalog
    <2>2. ASSUME NEW n \in DOMAIN served.models, f \in ModelFields(served, n) PROVE f \in Catalog
      <3>1. n \in DOMAIN Pascal
        BY DEF NamesInv, Known
      <3>2. f.model # None
        <4>1. PICK verb \in {"list", "get", "create", "update", "delete"} : f.model = <<n, verb>>
          BY <2>2, ModelField
        <4>2. <<n, verb>> # None
          BY <3>1, SurfaceAssumption
        <4> QED
          BY <4>1, <4>2
      <3>3. Granted(CatalogResource(f))
        <4>1. PICK verb \in {"list", "get", "create", "update", "delete"} : f.model = <<n, verb>>
          BY <2>2, ModelField
        <4>2. f.guard = Session /\ Serves(f.model)
          BY <2>2, <3>2, ModelField DEF Answers
        <4>3. verb \notin {"get", "update", "delete"} /\ ~Barred(f.model)
          BY <3>2, <4>1, <4>2 DEF DecidedLater
        <4>4. Granted(ModelResource(f.model))
          <5>1. CASE verb = "list"
            BY <4>1, <4>2, <4>3, <5>1 DEF Serves
          <5>2. CASE verb = "create"
            BY <4>1, <4>2, <5>2 DEF Serves
          <5> QED
            BY <4>3, <5>1, <5>2
        <4> QED
          BY <4>2, <4>4 DEF CatalogResource
      <3>4. ~SpecOperation(f) => f.name \in {Pascal[n] \o "sCount", Pascal[n] \o "sGroups"}
        BY <2>2, ModelField DEF SpecOperation
      <3>5. ~SpecOperation(f) => f.name \notin Hidden
        BY <3>1, <3>4, SurfaceAssumption
      <3> QED
        BY <3>3, <3>5 DEF Catalog
    <2>3. ASSUME NEW n \in DOMAIN served.queries, f \in QueryFields(served, n) PROVE f \in Catalog
      <3>1. n \in DOMAIN Pascal
        BY DEF NamesInv, Known
      <3>2. f.guard = <<"query", Pascal[n], "read">> /\ f.guard # Session
        BY <2>3, QueryField
      <3>3. Granted(CatalogResource(f))
        BY <3>2 DEF Answers, CatalogResource
      <3>4. SpecOperation(f) \/ \E suffix \in {"Count", "Groups"} : f.name = Pascal[n] \o suffix
        <4>1. CASE f.of = <<"query", n>>
          <5>1. f.of[1] = "query" /\ Len(f.of) = 2
            BY <4>1
          <5> QED
            BY <5>1 DEF SpecOperation
        <4> QED
          BY <2>3, <4>1, QueryField
      <3>5. ~SpecOperation(f) => f.name \notin Hidden
        BY <3>1, <3>4, SurfaceAssumption
      <3> QED
        BY <3>3, <3>5 DEF Catalog
    <2>4. ASSUME NEW n, f \in CommandFields(served, n) PROVE f \in Catalog
      <3>1. f.guard # Session /\ SpecOperation(f)
        BY <2>4, CommandField DEF SpecOperation
      <3> QED
        BY <3>1 DEF Answers, CatalogResource, Catalog
    <2> QED
      BY <2>1, <2>2, <2>3, <2>4, RootField
  <1> QED
    BY <1>1, <1>2, NamesInit, NamesStep, FieldsStep, PTL DEF Spec

-----------------------------------------------------------------------------
(* What is served, told from the documents *)

\* A specification in which every name is declared once
Document(spec) == spec = [p \in Parts |-> spec[p]] /\ OnceSpec(spec)

\* One function in three forms: what a layer has been made of comes back on any base.
LEMMA OverIsBeyond ==
    ASSUME NEW doc, NEW was, NEW now, Once(doc)
    PROVE  Over(now, Extra(doc, was)) = Beyond(doc, was, now)
  <1>1. DOMAIN Extra(doc, was) = DOMAIN doc \ DOMAIN was
    BY DEF Extra
  <1>2. \A n \in DOMAIN doc \ DOMAIN was : <<Head(Extra(doc, was)[n])>> = doc[n]
    BY OnceValue DEF Extra
  <1> QED
    BY <1>1, <1>2 DEF Over, Beyond

LEMMA BeyondNothing ==
    ASSUME NEW doc, NEW was, NEW now, now = [n \in DOMAIN now |-> now[n]],
           DOMAIN doc \subseteq DOMAIN was
    PROVE  Beyond(doc, was, now) = now
  BY DEF Beyond

LEMMA ModelAsAuthored ==
    ASSUME NEW dm, NEW bm, NEW nm, IsModel(dm), IsModel(nm), Once(dm.fields), Once(nm.fields),
           SubtractsModel(dm, bm)
    PROVE  /\ MergedModel(nm, ExtraModel(dm, bm)) = ModelBeyond(dm, bm, nm)
           /\ ~Adds(ExtraModel(dm, bm)) => nm = ModelBeyond(dm, bm, nm)
  <1> DEFINE lm == ExtraModel(dm, bm)
  <1>1. /\ lm.search = (IF dm.search = bm.search THEN None ELSE dm.search)
        /\ lm.fields = Extra(dm.fields, bm.fields)
    BY DEF ExtraModel
  <1>2. Over(nm.fields, lm.fields) = Beyond(dm.fields, bm.fields, nm.fields)
    BY <1>1, OverIsBeyond
  <1>3. (IF lm.search = None THEN nm.search ELSE lm.search)
            = (IF dm.search # bm.search THEN dm.search ELSE nm.search)
    BY <1>1 DEF SubtractsModel
  <1> HIDE DEF lm
  <1>4. MergedModel(nm, lm) = ModelBeyond(dm, bm, nm)
    BY <1>2, <1>3 DEF MergedModel, ModelBeyond, IsModel
  <1>5. ASSUME ~Adds(lm) PROVE nm = ModelBeyond(dm, bm, nm)
    <2>1. DOMAIN dm.fields \subseteq DOMAIN bm.fields /\ dm.search = bm.search
      BY <1>1, <1>5 DEF Adds, Extra, SubtractsModel
    <2>2. Beyond(dm.fields, bm.fields, nm.fields) = nm.fields
      BY <2>1, BeyondNothing, OnceIsFunction
    <2> QED
      BY <2>1, <2>2 DEF ModelBeyond, IsModel
  <1> QED
    BY <1>4, <1>5 DEF lm

LEMMA NewModelAsAuthored ==
    ASSUME NEW dm, NEW nm, IsModel(dm), IsModel(nm), Once(dm.fields)
    PROVE  MergedModel(nm, dm)
               = ModelBeyond(dm, [dm EXCEPT !.search = None, !.fields = Nothing], nm)
  <1>1. PICK bm : bm = [dm EXCEPT !.search = None, !.fields = Nothing]
    OBVIOUS
  <1>2. bm.search = None /\ bm.fields = Nothing /\ DOMAIN Nothing = {}
    BY <1>1 DEF IsModel, Nothing
  <1>3. Over(nm.fields, dm.fields) = Beyond(dm.fields, bm.fields, nm.fields)
    <2>1. Extra(dm.fields, bm.fields) = dm.fields
      BY <1>2, OnceIsFunction DEF Extra
    <2> QED
      BY <2>1, OverIsBeyond
  <1> QED
    BY <1>1, <1>2, <1>3 DEF MergedModel, ModelBeyond, IsModel

\* The models of a stored layer
LEMMA StoredModels ==
    ASSUME NEW doc, NEW was, Document(doc), Document(was)
    PROVE  LET l == Marshalled(Subtract(doc, was))
           IN  /\ \A p \in Parts \ {"models"} : l[p] = Subtract(doc, was)[p]
               /\ DOMAIN l.models = {n \in DOMAIN doc.models :
                      n \notin DOMAIN was.models \/ Adds(ExtraModel(doc.models[n], was.models[n]))}
               /\ \A n \in DOMAIN l.models :
                      l.models[n] = IF n \in DOMAIN was.models
                                    THEN ExtraModel(doc.models[n], was.models[n])
                                    ELSE [doc.models[n] EXCEPT !.presets = {}]
  <1> DEFINE sub == Subtract(doc, was)
             l == Marshalled(sub)
             models == [n \in DOMAIN sub.models |-> [sub.models[n] EXCEPT !.presets = {}]]
  <1>1. l = [sub EXCEPT !.models = models] /\ DOMAIN sub = Parts
    BY DEF Marshalled, Subtract
  <1>2. sub.models = ExtraModels(doc.models, was.models)
    BY SubtractPart
  <1>3. l.models = models /\ \A p \in Parts \ {"models"} : l[p] = sub[p]
    BY <1>1, PartsApart
  <1>4. ASSUME NEW dm, NEW bm
        PROVE  [ExtraModel(dm, bm) EXCEPT !.presets = {}] = ExtraModel(dm, bm)
    <2>1. PICK m : m = ExtraModel(dm, bm)
      OBVIOUS
    <2>2. IsModel(m) /\ m.presets = {}
      BY <2>1 DEF ExtraModel, IsModel
    <2>3. [m EXCEPT !.presets = {}] = m
      BY <2>2 DEF IsModel
    <2> QED
      BY <2>1, <2>3
  <1> HIDE DEF sub, l
  <1>5. DOMAIN l.models = {n \in DOMAIN doc.models :
            n \notin DOMAIN was.models \/ Adds(ExtraModel(doc.models[n], was.models[n]))}
    BY <1>2, <1>3 DEF ExtraModels
  <1>6. ASSUME NEW n \in DOMAIN l.models
        PROVE  l.models[n] = IF n \in DOMAIN was.models
                             THEN ExtraModel(doc.models[n], was.models[n])
                             ELSE [doc.models[n] EXCEPT !.presets = {}]
    <2>1. sub.models[n] = IF n \in DOMAIN was.models
                          THEN ExtraModel(doc.models[n], was.models[n]) ELSE doc.models[n]
      BY <1>2, <1>5 DEF ExtraModels
    <2>2. l.models[n] = [sub.models[n] EXCEPT !.presets = {}]
      BY <1>3
    <2> QED
      BY <1>4, <2>1, <2>2
  <1> QED
    BY <1>3, <1>5, <1>6 DEF sub, l

LEMMA EveryPart ==
    \A p \in Parts : \/ p \in TextParts \/ p \in SetParts \/ p \in NamedParts
                     \/ p \in BaseParts \/ p = "models"
  BY DEF Parts

LEMMA WholePart ==
    ASSUME NEW doc, NEW was, NEW now
    PROVE  /\ \A p \in TextParts :
                  Whole(doc, was, now)[p] = IF doc[p] # was[p] THEN doc[p] ELSE now[p]
           /\ \A p \in SetParts : Whole(doc, was, now)[p] = now[p] \cup (doc[p] \ was[p])
           /\ \A p \in NamedParts : Whole(doc, was, now)[p] = Beyond(doc[p], was[p], now[p])
           /\ \A p \in BaseParts : Whole(doc, was, now)[p] = now[p]
           /\ Whole(doc, was, now).models = ModelsBeyond(doc.models, was.models, now.models)
  <1>1. ASSUME NEW p \in TextParts
        PROVE  Whole(doc, was, now)[p] = IF doc[p] # was[p] THEN doc[p] ELSE now[p]
    BY PartsApart DEF Whole
  <1>2. ASSUME NEW p \in SetParts PROVE Whole(doc, was, now)[p] = now[p] \cup (doc[p] \ was[p])
    BY PartsApart DEF Whole
  <1>3. ASSUME NEW p \in NamedParts PROVE Whole(doc, was, now)[p] = Beyond(doc[p], was[p], now[p])
    BY PartsApart DEF Whole
  <1>4. ASSUME NEW p \in BaseParts PROVE Whole(doc, was, now)[p] = now[p]
    BY PartsApart DEF Whole
  <1>5. Whole(doc, was, now).models = ModelsBeyond(doc.models, was.models, now.models)
    BY PartsApart DEF Whole
  <1> QED
    BY <1>1, <1>2, <1>3, <1>4, <1>5

LEMMA ModelsAsAuthored ==
    ASSUME NEW doc, NEW was, NEW now, Document(doc), Document(was), Document(now),
           Subtracts(doc, was), DOMAIN was.models \subseteq DOMAIN now.models
    PROVE  MergedModels(now.models, Marshalled(Subtract(doc, was)).models) = Whole(doc, was, now).models
  <1> DEFINE l == Marshalled(Subtract(doc, was))
             merged == MergedModels(now.models, l.models)
             whole == Whole(doc, was, now).models
  <1>1. /\ DOMAIN l.models = {n \in DOMAIN doc.models :
                n \notin DOMAIN was.models \/ Adds(ExtraModel(doc.models[n], was.models[n]))}
        /\ \A n \in DOMAIN l.models :
               l.models[n] = IF n \in DOMAIN was.models
                             THEN ExtraModel(doc.models[n], was.models[n])
                             ELSE [doc.models[n] EXCEPT !.presets = {}]
    BY StoredModels
  <1>2. whole = [n \in DOMAIN now.models \cup (DOMAIN doc.models \ DOMAIN was.models) |->
                    IF n \notin DOMAIN now.models
                    THEN [doc.models[n] EXCEPT !.presets = {}]
                    ELSE IF n \in DOMAIN doc.models
                         THEN ModelBeyond(doc.models[n],
                                 IF n \in DOMAIN was.models THEN was.models[n]
                                 ELSE [doc.models[n] EXCEPT !.search = None, !.fields = Nothing],
                                 now.models[n])
                         ELSE now.models[n]]
    <2>1. whole = ModelsBeyond(doc.models, was.models, now.models)
      BY WholePart
    <2> HIDE DEF whole, l
    <2> QED
      BY <2>1, Zenon DEF ModelsBeyond
  <1> HIDE DEF l, whole
  <1>3. merged = [n \in DOMAIN now.models \cup DOMAIN l.models |->
                     IF n \notin DOMAIN l.models THEN now.models[n]
                     ELSE IF n \notin DOMAIN now.models THEN l.models[n]
                     ELSE MergedModel(now.models[n], l.models[n])]
    BY DEF MergedModels
  <1> HIDE DEF merged
  <1>4. DOMAIN merged = DOMAIN whole
    BY <1>1, <1>2, <1>3
  <1>5. ASSUME NEW n \in DOMAIN whole PROVE merged[n] = whole[n]
    <2>1. \A spec \in {doc, was, now} : n \in DOMAIN spec.models =>
              IsModel(spec.models[n]) /\ Once(spec.models[n].fields)
      BY DEF Document, OnceSpec
    <2>2. CASE n \notin DOMAIN now.models
      BY <1>1, <1>2, <1>3, <1>4, <2>2
    <2>3. CASE n \in DOMAIN now.models /\ n \notin DOMAIN doc.models
      BY <1>1, <1>2, <1>3, <1>4, <2>3
    <2>4. CASE n \in DOMAIN now.models /\ n \in DOMAIN doc.models /\ n \in DOMAIN was.models
      <3>1. SubtractsModel(doc.models[n], was.models[n])
        BY <2>4 DEF Subtracts
      <3>2. whole[n] = ModelBeyond(doc.models[n], was.models[n], now.models[n])
        BY <1>2, <2>4
      <3>3. merged[n] = IF Adds(ExtraModel(doc.models[n], was.models[n]))
                        THEN MergedModel(now.models[n], ExtraModel(doc.models[n], was.models[n]))
                        ELSE now.models[n]
        BY <1>1, <1>3, <2>4
      <3> QED
        BY <2>1, <2>4, <3>1, <3>2, <3>3, ModelAsAuthored
    <2>5. CASE n \in DOMAIN now.models /\ n \in DOMAIN doc.models /\ n \notin DOMAIN was.models
      <3>1. PICK lm : lm = [doc.models[n] EXCEPT !.presets = {}]
        OBVIOUS
      <3>2. SameModel(lm, doc.models[n])
        BY <2>1, <2>5, <3>1 DEF SameModel, IsModel
      <3>3. merged[n] = MergedModel(now.models[n], lm)
        BY <1>1, <1>3, <2>5, <3>1
      <3>4. merged[n] = MergedModel(now.models[n], doc.models[n])
        BY <3>2, <3>3, MergeSame
      <3>5. whole[n] = ModelBeyond(doc.models[n],
                           [doc.models[n] EXCEPT !.search = None, !.fields = Nothing], now.models[n])
        BY <1>2, <2>5
      <3> QED
        BY <2>1, <2>5, <3>4, <3>5, NewModelAsAuthored
    <2> QED
      BY <2>2, <2>3, <2>4, <2>5
  <1>6. merged = [n \in DOMAIN merged |-> merged[n]] /\ whole = [n \in DOMAIN whole |-> whole[n]]
    BY <1>2, <1>3
  <1> QED
    BY <1>4, <1>5, <1>6 DEF merged, whole, l

LEMMA WholeIsFunction ==
    \A doc, was, now : Whole(doc, was, now) = [p \in Parts |-> Whole(doc, was, now)[p]]
  <1> SUFFICES ASSUME NEW doc, NEW was, NEW now
               PROVE  Whole(doc, was, now) = [p \in Parts |-> Whole(doc, was, now)[p]]
    OBVIOUS
  <1>1. PICK F : [p \in Parts |-> F[p]] = Whole(doc, was, now)
    BY DEF Whole
  <1> QED
    BY <1>1

\* A document accepted on one base, stacked on another as the layer stored for it
LEMMA WholeAsAuthored ==
    ASSUME NEW doc, NEW was, NEW now, Document(doc), Document(was), Document(now),
           Subtracts(doc, was), \A p \in TextParts : doc[p] # None,
           DOMAIN was.models \subseteq DOMAIN now.models
    PROVE  Merge(now, Marshalled(Subtract(doc, was))) = Whole(doc, was, now)
  <1> DEFINE l == Marshalled(Subtract(doc, was))
             merged == Merge(now, l)
             whole == Whole(doc, was, now)
  <1>1. \A p \in Parts \ {"models"} : l[p] = Subtract(doc, was)[p]
    BY StoredModels
  <1>2. merged.models = whole.models
    BY MergePart, ModelsAsAuthored
  <1> HIDE DEF l
  <1>3. ASSUME NEW p \in TextParts PROVE merged[p] = whole[p]
    <2>1. l[p] = IF doc[p] = was[p] THEN None ELSE doc[p]
      BY <1>1, PartsApart, SubtractPart
    <2>2. merged[p] = IF l[p] = None THEN now[p] ELSE l[p]
      BY MergePart
    <2>3. whole[p] = IF doc[p] # was[p] THEN doc[p] ELSE now[p]
      BY WholePart
    <2> HIDE DEF merged, whole
    <2> QED
      BY <2>1, <2>2, <2>3
  <1>4. ASSUME NEW p \in SetParts PROVE merged[p] = whole[p]
    <2>1. l[p] = doc[p] \ was[p]
      BY <1>1, PartsApart, SubtractPart
    <2>2. merged[p] = now[p] \cup l[p] /\ whole[p] = now[p] \cup (doc[p] \ was[p])
      BY MergePart, WholePart
    <2> QED
      BY <2>1, <2>2
  <1>5. ASSUME NEW p \in NamedParts PROVE merged[p] = whole[p]
    <2>1. l[p] = Extra(doc[p], was[p])
      BY <1>1, PartsApart, SubtractPart
    <2>2. Over(now[p], l[p]) = Beyond(doc[p], was[p], now[p])
      BY <2>1, OverIsBeyond DEF Document, OnceSpec
    <2> QED
      BY <2>2, MergePart, WholePart
  <1>6. ASSUME NEW p \in BaseParts PROVE merged[p] = whole[p]
    BY MergePart, WholePart
  <1>7. merged = [p \in Parts |-> merged[p]] /\ whole = [p \in Parts |-> whole[p]]
    BY WholeIsFunction DEF Merge
  <1> HIDE DEF merged, whole
  <1>8. \A p \in Parts : merged[p] = whole[p]
    BY <1>2, <1>3, <1>4, <1>5, <1>6, EveryPart
  <1> QED
    BY <1>7, <1>8 DEF merged, whole, l

LEMMA PrintedPart ==
    ASSUME NEW spec, Document(spec)
    PROVE  /\ \A p \in BaseParts : Printed(spec)[p] = Nothing
           /\ \A p \in Parts \ (BaseParts \cup {"models"}) : Printed(spec)[p] = spec[p]
           /\ Printed(spec).models
                  = [n \in DOMAIN spec.models |-> [spec.models[n] EXCEPT !.presets = {}]]
  <1>1. PICK models : models = [n \in DOMAIN spec.models |-> [spec.models[n] EXCEPT !.presets = {}]]
    OBVIOUS
  <1>2. Marshalled(spec) = [spec EXCEPT !.models = models] /\ DOMAIN spec = Parts
    BY <1>1 DEF Marshalled, Document
  <1>3. /\ Marshalled(spec).models = models
        /\ \A p \in Parts \ {"models"} : Marshalled(spec)[p] = spec[p]
    BY <1>2, PartsApart
  <1>4. \A p \in Parts : Printed(spec)[p] = IF p \in BaseParts THEN Nothing ELSE Marshalled(spec)[p]
    BY DEF Printed
  <1>5. ASSUME NEW p \in BaseParts PROVE Printed(spec)[p] = Nothing
    BY <1>4, PartsApart
  <1>6. ASSUME NEW p \in Parts \ (BaseParts \cup {"models"}) PROVE Printed(spec)[p] = spec[p]
    BY <1>3, <1>4
  <1>7. Printed(spec).models = models
    BY <1>3, <1>4, PartsApart
  <1> QED
    BY <1>1, <1>5, <1>6, <1>7

\* Nothing authored, nothing beyond the base
LEMMA WholeOfPrint ==
    ASSUME NEW was, NEW now, Document(was), Document(now)
    PROVE  Whole(Printed(was), was, now) = now
  <1> DEFINE doc == Printed(was)
             whole == Whole(doc, was, now)
  <1>1. ASSUME NEW p \in TextParts \cup SetParts \cup NamedParts PROVE doc[p] = was[p]
    <2>1. p \in Parts \ (BaseParts \cup {"models"})
      BY PartsApart
    <2> QED
      BY <2>1, PrintedPart
  <1>2. doc.models = [n \in DOMAIN was.models |-> [was.models[n] EXCEPT !.presets = {}]]
    BY PrintedPart
  <1>3. DOMAIN doc.models = DOMAIN was.models
    BY <1>2
  <1> HIDE DEF doc
  <1>4. ASSUME NEW p \in TextParts \cup SetParts \cup BaseParts PROVE whole[p] = now[p]
    <2>1. CASE p \in TextParts
      BY <1>1, <2>1, WholePart
    <2>2. CASE p \in SetParts
      <3>1. whole[p] = now[p] \cup (was[p] \ was[p])
        BY <1>1, <2>2, WholePart
      <3> QED
        BY <3>1
    <2>3. CASE p \in BaseParts
      BY <2>3, WholePart
    <2> QED
      BY <2>1, <2>2, <2>3
  <1>5. ASSUME NEW p \in NamedParts PROVE whole[p] = now[p]
    <2>1. Beyond(doc[p], was[p], now[p]) = now[p]
      BY <1>1, BeyondNothing, OnceIsFunction DEF Document, OnceSpec
    <2> QED
      BY <2>1, WholePart
  <1>6. whole.models = now.models
    <2>1. whole.models = [n \in DOMAIN now.models |->
                             IF n \in DOMAIN doc.models
                             THEN ModelBeyond(doc.models[n], was.models[n], now.models[n])
                             ELSE now.models[n]]
      <3>1. whole.models = ModelsBeyond(doc.models, was.models, now.models)
        BY WholePart
      <3>2. DOMAIN now.models \cup (DOMAIN doc.models \ DOMAIN was.models) = DOMAIN now.models
        BY <1>3
      <3> HIDE DEF whole
      <3> QED
        BY <1>3, <3>1, <3>2 DEF ModelsBeyond
    <2>2. ASSUME NEW n \in DOMAIN now.models, n \in DOMAIN doc.models
          PROVE  ModelBeyond(doc.models[n], was.models[n], now.models[n]) = now.models[n]
      <3>1. IsModel(was.models[n]) /\ IsModel(now.models[n]) /\ Once(now.models[n].fields)
        BY <1>3, <2>2 DEF Document, OnceSpec
      <3>2. doc.models[n].search = was.models[n].search /\ doc.models[n].fields = was.models[n].fields
        BY <1>2, <1>3, <2>2, <3>1 DEF IsModel
      <3>3. Beyond(doc.models[n].fields, was.models[n].fields, now.models[n].fields)
                = now.models[n].fields
        BY <3>1, <3>2, BeyondNothing, OnceIsFunction
      <3> QED
        BY <3>1, <3>2, <3>3 DEF ModelBeyond, IsModel
    <2>3. IsModels(now.models)
      BY DEF Document, OnceSpec
    <2> QED
      BY <2>1, <2>2, <2>3 DEF IsModels
  <1>7. whole = [p \in Parts |-> whole[p]] /\ now = [p \in Parts |-> now[p]]
    BY WholeIsFunction DEF Document
  <1> HIDE DEF whole
  <1>8. \A p \in Parts : whole[p] = now[p]
    BY <1>4, <1>5, <1>6, EveryPart
  <1> QED
    BY <1>7, <1>8 DEF whole, doc

LEMMA MergeNothing ==
    ASSUME NEW base, Document(base)
    PROVE  Merge(base, NoLayer) = base
  <1> DEFINE merged == Merge(base, NoLayer)
  <1>1. /\ \A p \in TextParts : NoLayer[p] = None
        /\ \A p \in SetParts : NoLayer[p] = {}
        /\ \A p \in NamedParts : NoLayer[p] = Nothing
        /\ NoLayer.models = Nothing
    BY PartsApart DEF NoLayer
  <1>2. DOMAIN Nothing = {}
    BY DEF Nothing
  <1>3. ASSUME NEW p \in TextParts \cup SetParts \cup BaseParts PROVE merged[p] = base[p]
    <2>1. CASE p \in TextParts
      BY <1>1, <2>1, MergePart
    <2>2. CASE p \in SetParts
      <3>1. merged[p] = base[p] \cup NoLayer[p]
        BY <2>2, MergePart
      <3> QED
        BY <1>1, <2>2, <3>1
    <2>3. CASE p \in BaseParts
      BY <2>3, MergePart
    <2> QED
      BY <2>1, <2>2, <2>3
  <1>4. ASSUME NEW p \in NamedParts PROVE merged[p] = base[p]
    <2>1. base[p] = [n \in DOMAIN base[p] |-> base[p][n]]
      BY OnceIsFunction DEF Document, OnceSpec
    <2>2. Over(base[p], Nothing) = base[p]
      BY <1>2, <2>1 DEF Over
    <2> QED
      BY <1>1, <2>2, MergePart
  <1>5. merged.models = base.models
    <2>1. MergedModels(base.models, Nothing) = base.models
      BY <1>2 DEF MergedModels, Document, OnceSpec, IsModels
    <2> QED
      BY <1>1, <2>1, MergePart
  <1>6. merged = [p \in Parts |-> merged[p]] /\ base = [p \in Parts |-> base[p]]
    BY DEF Merge, Document
  <1> HIDE DEF merged
  <1>7. \A p \in Parts : merged[p] = base[p]
    BY <1>3, <1>4, <1>5, EveryPart
  <1> QED
    BY <1>6, <1>7 DEF merged

-----------------------------------------------------------------------------
(* Documents stay documents *)

LEMMA OnceOver ==
    ASSUME NEW base, NEW more, Once(base), Once(more)
    PROVE  Once(Over(base, more))
  <1>1. PICK decls : decls = Over(base, more)
    OBVIOUS
  <1>2. \A n \in DOMAIN decls : decls[n] = IF n \in DOMAIN base THEN base[n] ELSE <<Head(more[n])>>
    BY <1>1 DEF Over
  <1>3. ASSUME NEW n \in DOMAIN decls PROVE decls[n] = <<decls[n][1]>>
    <2>1. CASE n \in DOMAIN base
      BY <1>2, <2>1, OnceValue
    <2>2. CASE n \notin DOMAIN base
      <3>1. PICK x : decls[n] = <<x>>
        BY <1>2, <2>2
      <3> QED
        BY <3>1
    <2> QED
      BY <2>1, <2>2
  <1>4. decls = [n \in DOMAIN decls |-> decls[n]]
    BY <1>1 DEF Over
  <1> QED
    BY <1>1, <1>3, <1>4 DEF Once

LEMMA OnceExtra ==
    ASSUME NEW full, NEW base, Once(full)
    PROVE  Once(Extra(full, base))
  <1>1. \A n \in DOMAIN full : full[n] = <<full[n][1]>>
    BY OnceValue
  <1> QED
    BY <1>1 DEF Extra, Once

LEMMA MergedIsModel ==
    ASSUME NEW m, NEW lm, IsModel(m), IsModel(lm), Once(m.fields), Once(lm.fields)
    PROVE  IsModel(MergedModel(m, lm)) /\ Once(MergedModel(m, lm).fields)
  <1>1. PICK decls, search : decls = Over(m.fields, lm.fields)
                             /\ search = IF lm.search = None THEN m.search ELSE lm.search
    OBVIOUS
  <1>2. PICK mm : mm = [m EXCEPT !.search = search, !.fields = decls]
    OBVIOUS
  <1>3. MergedModel(m, lm) = mm
    BY <1>1, <1>2 DEF MergedModel
  <1>4. IsModel(mm) /\ mm.fields = decls
    BY <1>2 DEF IsModel
  <1> QED
    BY <1>1, <1>3, <1>4, OnceOver

LEMMA MergeIsDocument ==
    ASSUME NEW base, NEW more, Document(base), Document(more)
    PROVE  Document(Merge(base, more))
  <1>1. PICK merged : merged = Merge(base, more)
    OBVIOUS
  <1>2. merged = [p \in Parts |-> merged[p]]
    BY <1>1 DEF Merge
  <1>3. ASSUME NEW p \in NamedParts PROVE Once(merged[p])
    <2>1. merged[p] = Over(base[p], more[p])
      BY <1>1, MergePart
    <2>2. Once(base[p]) /\ Once(more[p])
      BY DEF Document, OnceSpec
    <2> QED
      BY <2>1, <2>2, OnceOver
  <1>4. merged.models = MergedModels(base.models, more.models)
    BY <1>1, MergePart
  <1>5. IsModels(merged.models)
    BY <1>4 DEF MergedModels, IsModels
  <1>6. ASSUME NEW n \in DOMAIN merged.models
        PROVE  IsModel(merged.models[n]) /\ Once(merged.models[n].fields)
    <2>1. \A spec \in {base, more} : n \in DOMAIN spec.models =>
              IsModel(spec.models[n]) /\ Once(spec.models[n].fields)
      BY DEF Document, OnceSpec
    <2>2. n \in DOMAIN base.models \/ n \in DOMAIN more.models
      BY <1>4 DEF MergedModels
    <2>3. CASE n \notin DOMAIN more.models
      BY <1>4, <2>1, <2>2, <2>3 DEF MergedModels
    <2>4. CASE n \in DOMAIN more.models /\ n \notin DOMAIN base.models
      BY <1>4, <2>1, <2>4 DEF MergedModels
    <2>5. CASE n \in DOMAIN more.models /\ n \in DOMAIN base.models
      <3>1. merged.models[n] = MergedModel(base.models[n], more.models[n])
        BY <1>4, <2>5 DEF MergedModels
      <3> QED
        BY <2>1, <2>5, <3>1, MergedIsModel
    <2> QED
      BY <2>3, <2>4, <2>5
  <1>7. Document(merged)
    BY <1>2, <1>3, <1>5, <1>6 DEF Document, OnceSpec
  <1> QED
    BY <1>1, <1>7

LEMMA StoredIsDocument ==
    ASSUME NEW doc, NEW was, Document(doc), Document(was)
    PROVE  Document(Marshalled(Subtract(doc, was)))
  <1>1. PICK l : l = Marshalled(Subtract(doc, was))
    OBVIOUS
  <1>2. /\ \A p \in Parts \ {"models"} : l[p] = Subtract(doc, was)[p]
        /\ DOMAIN l.models \subseteq DOMAIN doc.models
        /\ \A n \in DOMAIN l.models :
               l.models[n] = IF n \in DOMAIN was.models
                             THEN ExtraModel(doc.models[n], was.models[n])
                             ELSE [doc.models[n] EXCEPT !.presets = {}]
    BY <1>1, StoredModels
  <1>3. \A p \in NamedParts : Once(l[p])
    <2> SUFFICES ASSUME NEW p \in NamedParts PROVE Once(l[p])
      OBVIOUS
    <2>1. l[p] = Extra(doc[p], was[p])
      BY <1>2, PartsApart, SubtractPart
    <2> QED
      BY <2>1, OnceExtra DEF Document, OnceSpec
  <1>4. ASSUME NEW n \in DOMAIN l.models PROVE IsModel(l.models[n]) /\ Once(l.models[n].fields)
    <2>1. IsModel(doc.models[n]) /\ Once(doc.models[n].fields)
      BY <1>2, <1>4 DEF Document, OnceSpec
    <2>2. CASE n \in DOMAIN was.models
      <3>1. l.models[n] = ExtraModel(doc.models[n], was.models[n])
        BY <1>2, <1>4, <2>2
      <3>2. \A dm, bm : IsModel(ExtraModel(dm, bm))
                        /\ ExtraModel(dm, bm).fields = Extra(dm.fields, bm.fields)
        BY DEF ExtraModel, IsModel
      <3> QED
        BY <2>1, <3>1, <3>2, OnceExtra
    <2>3. CASE n \notin DOMAIN was.models
      <3>1. l.models[n] = [doc.models[n] EXCEPT !.presets = {}]
        BY <1>2, <2>3
      <3> QED
        BY <2>1, <3>1 DEF IsModel
    <2> QED
      BY <2>2, <2>3
  <1>5. PICK sub, models : /\ l = [sub EXCEPT !.models = [n \in DOMAIN models |-> models[n]]]
                           /\ sub = [p \in Parts |-> sub[p]]
    <2>1. PICK sub : sub = Subtract(doc, was)
      OBVIOUS
    <2>2. sub = [p \in Parts |-> sub[p]]
      BY <2>1 DEF Subtract
    <2>3. PICK models : models = [n \in DOMAIN sub.models |-> [sub.models[n] EXCEPT !.presets = {}]]
      OBVIOUS
    <2>4. models = [n \in DOMAIN models |-> models[n]]
      BY <2>3
    <2>5. l = [sub EXCEPT !.models = models]
      BY <1>1, <2>1, <2>3 DEF Marshalled
    <2> QED
      BY <2>2, <2>4, <2>5
  <1>6. l = [p \in Parts |-> l[p]] /\ IsModels(l.models)
    BY <1>5, PartsApart DEF IsModels
  <1>7. Document(l)
    BY <1>3, <1>4, <1>6 DEF Document, OnceSpec
  <1> QED
    BY <1>1, <1>7

LEMMA OnceNothing == Once(Nothing)
  BY DEF Once, Nothing

LEMMA PrintIsDocument ==
    ASSUME NEW spec, Document(spec)
    PROVE  Document(Printed(spec))
  <1>1. PICK doc : doc = Printed(spec)
    OBVIOUS
  <1>2. doc = [p \in Parts |-> doc[p]]
    <2>1. PICK F : [p \in Parts |-> F[p]] = Printed(spec)
      BY DEF Printed
    <2> QED
      BY <1>1, <2>1
  <1>3. ASSUME NEW p \in NamedParts PROVE Once(doc[p])
    <2>1. p \in Parts \ (BaseParts \cup {"models"})
      BY PartsApart
    <2>2. doc[p] = spec[p]
      BY <1>1, <2>1, PrintedPart
    <2> QED
      BY <2>2 DEF Document, OnceSpec
  <1>4. doc.models = [n \in DOMAIN spec.models |-> [spec.models[n] EXCEPT !.presets = {}]]
    BY <1>1, PrintedPart
  <1>5. ASSUME NEW n \in DOMAIN doc.models PROVE IsModel(doc.models[n]) /\ Once(doc.models[n].fields)
    <2>1. IsModel(spec.models[n]) /\ Once(spec.models[n].fields)
      BY <1>4, <1>5 DEF Document, OnceSpec
    <2>2. doc.models[n] = [spec.models[n] EXCEPT !.presets = {}]
      BY <1>4, <1>5
    <2> QED
      BY <2>1, <2>2 DEF IsModel
  <1>6. IsModels(doc.models)
    BY <1>4 DEF IsModels
  <1>7. Document(doc)
    BY <1>2, <1>3, <1>5, <1>6 DEF Document, OnceSpec
  <1> QED
    BY <1>1, <1>7

LEMMA DefaultsIsDocument ==
    ASSUME NEW spec, Document(spec)
    PROVE  Document(ApplyDefaults(spec))
  <1>1. PICK doc : doc = ApplyDefaults(spec)
    OBVIOUS
  <1>2. PICK models : models = [n \in DOMAIN spec.models |-> DefaultedModel(spec.models[n])]
    OBVIOUS
  <1>3. doc = [spec EXCEPT !.models = models]
    BY <1>1, <1>2 DEF ApplyDefaults
  <1>4. doc = [p \in Parts |-> doc[p]] /\ doc.models = models
    BY <1>3, PartsApart DEF Document
  <1>5. ASSUME NEW p \in NamedParts PROVE Once(doc[p])
    <2>1. doc[p] = spec[p]
      BY <1>3, PartsApart DEF Document
    <2> QED
      BY <2>1 DEF Document, OnceSpec
  <1>6. ASSUME NEW n \in DOMAIN models PROVE IsModel(models[n]) /\ Once(models[n].fields)
    <2>1. PICK m : m = spec.models[n]
      OBVIOUS
    <2>2. IsModel(m) /\ Once(m.fields)
      BY <1>2, <1>6, <2>1 DEF Document, OnceSpec
    <2>3. models[n] = [m EXCEPT !.fields = DefaultedFields(m.fields)]
      BY <1>2, <1>6, <2>1 DEF DefaultedModel
    <2>4. IsModel(models[n]) /\ models[n].fields = DefaultedFields(m.fields)
      BY <2>2, <2>3 DEF IsModel
    <2>5. ASSUME NEW f \in DOMAIN m.fields
          PROVE  DefaultedFields(m.fields)[f] = <<DefaultedFields(m.fields)[f][1]>>
      <3>1. m.fields[f] = <<m.fields[f][1]>> /\ DOMAIN m.fields[f] = {1}
        BY <2>2, OnceValue
      <3>2. DefaultedFields(m.fields)[f] = [i \in DOMAIN m.fields[f] |-> Defaulted(m.fields[f][i])]
        BY DEF DefaultedFields
      <3>3. DefaultedFields(m.fields)[f] = [i \in {1} |-> Defaulted(m.fields[f][1])]
        BY <3>1, <3>2
      <3>4. \A x : [i \in {1} |-> x] = <<x>>
        OBVIOUS
      <3>5. \A x : <<x>>[1] = x
        OBVIOUS
      <3> QED
        BY <3>3, <3>4, <3>5
    <2>6. Once(DefaultedFields(m.fields))
      <3>1. PICK decls : decls = DefaultedFields(m.fields)
        OBVIOUS
      <3>2. decls = [f \in DOMAIN m.fields |-> decls[f]]
        BY <3>1 DEF DefaultedFields
      <3>3. \A f \in DOMAIN m.fields : decls[f] = <<decls[f][1]>>
        BY <2>5, <3>1
      <3> QED
        BY <3>1, <3>2, <3>3 DEF Once
    <2> QED
      BY <2>4, <2>6
  <1>7. IsModels(models)
    BY <1>2 DEF IsModels
  <1>8. Document(doc)
    BY <1>4, <1>5, <1>6, <1>7 DEF Document, OnceSpec
  <1> QED
    BY <1>1, <1>8

LEMMA NoLayerIsDocument == Document(NoLayer)
  <1>1. \A p \in NamedParts : NoLayer[p] = Nothing
    BY PartsApart DEF NoLayer
  <1>2. NoLayer.models = Nothing /\ DOMAIN Nothing = {}
    BY PartsApart DEF NoLayer, Nothing
  <1>3. NoLayer = [p \in Parts |-> NoLayer[p]]
    BY DEF NoLayer
  <1>4. IsModels(Nothing)
    BY DEF IsModels, Nothing
  <1> QED
    BY <1>1, <1>2, <1>3, <1>4, OnceNothing DEF Document, OnceSpec

LEMMA EditIsDocument ==
    ASSUME NEW doc, NEW add, Document(doc), Document(add)
    PROVE  Document(Edited(doc, add))
  <1> DEFINE Rewritten(d, a) == [n \in DOMAIN d \cup DOMAIN a |-> IF n \in DOMAIN a THEN a[n] ELSE d[n]]
             Model(m, a) == [a EXCEPT !.fields = Rewritten(m.fields, a.fields),
                                      !.search = IF a.search = None THEN m.search ELSE a.search]
             edit == Edited(doc, add)
  <1>1. \A d, a : Once(d) /\ Once(a) => Once(Rewritten(d, a))
    <2> SUFFICES ASSUME NEW d, NEW a, Once(d), Once(a) PROVE Once(Rewritten(d, a))
      OBVIOUS
    <2>1. PICK decls : decls = Rewritten(d, a)
      OBVIOUS
    <2>2. decls = [n \in DOMAIN d \cup DOMAIN a |-> decls[n]]
      BY <2>1
    <2>3. ASSUME NEW n \in DOMAIN d \cup DOMAIN a PROVE decls[n] = <<decls[n][1]>>
      BY <2>1, <2>3, OnceValue
    <2> QED
      BY <2>1, <2>2, <2>3 DEF Once
  <1>2. \A p \in NamedParts : edit[p] = Rewritten(doc[p], add[p])
    BY PartsApart DEF Edited
  <1>3. edit.models = [n \in DOMAIN doc.models \cup DOMAIN add.models |->
                          IF n \notin DOMAIN add.models THEN doc.models[n]
                          ELSE IF n \notin DOMAIN doc.models THEN add.models[n]
                          ELSE Model(doc.models[n], add.models[n])]
    BY PartsApart DEF Edited
  <1>4. edit = [p \in Parts |-> edit[p]]
    <2>1. PICK F : [p \in Parts |-> F[p]] = edit
      BY DEF Edited
    <2> QED
      BY <2>1
  <1>5. \A m, a : IsModel(m) /\ IsModel(a) /\ Once(m.fields) /\ Once(a.fields)
                      => IsModel(Model(m, a)) /\ Once(Model(m, a).fields)
    <2> SUFFICES ASSUME NEW m, NEW a, IsModel(m), IsModel(a), Once(m.fields), Once(a.fields)
                 PROVE  IsModel(Model(m, a)) /\ Once(Model(m, a).fields)
      OBVIOUS
    <2>1. PICK decls, search : decls = Rewritten(m.fields, a.fields)
                               /\ search = IF a.search = None THEN m.search ELSE a.search
      OBVIOUS
    <2>2. PICK mm : mm = [a EXCEPT !.fields = decls, !.search = search]
      OBVIOUS
    <2>3. Model(m, a) = mm
      BY <2>1, <2>2
    <2>4. IsModel(mm) /\ mm.fields = decls
      BY <2>2 DEF IsModel
    <2>5. Once(decls)
      BY <1>1, <2>1
    <2> HIDE DEF Model
    <2> QED
      BY <2>3, <2>4, <2>5
  <1> HIDE DEF edit, Model, Rewritten
  <1>6. \A p \in NamedParts : Once(edit[p])
    BY <1>1, <1>2 DEF Document, OnceSpec
  <1>7. ASSUME NEW n \in DOMAIN edit.models
        PROVE  IsModel(edit.models[n]) /\ Once(edit.models[n].fields)
    <2>1. n \in DOMAIN doc.models \cup DOMAIN add.models
      BY <1>3
    <2>2. \A spec \in {doc, add} : n \in DOMAIN spec.models =>
              IsModel(spec.models[n]) /\ Once(spec.models[n].fields)
      BY DEF Document, OnceSpec
    <2>3. CASE n \notin DOMAIN add.models
      BY <1>3, <2>1, <2>2, <2>3
    <2>4. CASE n \notin DOMAIN doc.models
      BY <1>3, <2>1, <2>2, <2>4
    <2>5. CASE n \in DOMAIN add.models /\ n \in DOMAIN doc.models
      <3>1. edit.models[n] = Model(doc.models[n], add.models[n])
        BY <1>3, <2>5
      <3> QED
        BY <1>5, <2>2, <2>5, <3>1
    <2> QED
      BY <2>3, <2>4, <2>5
  <1>8. IsModels(edit.models)
    BY <1>3 DEF IsModels
  <1> QED
    BY <1>4, <1>6, <1>7, <1>8 DEF Document, OnceSpec, edit

-----------------------------------------------------------------------------
(* What is served *)

\* The documents name everything once.  Nothing in the code asks it of the fields of
\* a model; of everything else validation does.
DeclaredOnce ==
    /\ \A r \in Releases : Loads(r) => Document(Base(r))
    /\ \A add \in Additions : Document(add)

\* No release drops a model another one has.
NoneDropped ==
    \A r, s \in Releases :
        Loads(r) /\ Loads(s) => DOMAIN Base(r).models \subseteq DOMAIN Base(s).models

\* The stored layer is what the document accepted last has beyond its base
StoredAsAuthored ==
    \/ layer = NoLayer /\ authored.doc = Printed(authored.base)
    \/ /\ layer = Marshalled(Subtract(authored.doc, authored.base))
       /\ Subtracts(authored.doc, authored.base)
       /\ \A p \in TextParts : authored.doc[p] # None

\* What is served is that layer on the base of the running release, or, when it does
\* not apply there, the base
ServedAsStored ==
    IF broken THEN served = Base(release) /\ ~Applies(Base(release), layer)
              ELSE served = Effective(Base(release), layer)

WholeInv ==
    /\ release \in Releases /\ Loads(release)
    /\ authored.release \in Releases /\ Loads(authored.release)
    /\ authored.base = Base(authored.release)
    /\ Document(authored.doc) /\ Document(served) /\ Document(printed)
    /\ Applies(authored.base, layer)
    /\ StoredAsAuthored
    /\ broken \in BOOLEAN /\ ServedAsStored

LEMMA EffectiveIsMerge ==
    ASSUME NEW base, NEW l, Document(base)
    PROVE  Effective(base, l) = Merge(base, l)
  BY MergeNothing DEF Effective

LEMMA WholeInit == DeclaredOnce /\ Init => WholeInv
  <1> SUFFICES ASSUME DeclaredOnce, Init PROVE WholeInv
    OBVIOUS
  <1>1. release \in Releases /\ Loads(release) /\ Document(Base(release))
    BY DEF Init, DeclaredOnce
  <1>2. Document(Printed(Base(release)))
    BY <1>1, PrintIsDocument
  <1>3. /\ authored.doc = Printed(Base(release)) /\ authored.base = Base(release)
        /\ authored.release = release
    BY DEF Init
  <1>4. layer = NoLayer /\ broken = FALSE /\ served = Base(release) /\ printed = Printed(Base(release))
    BY DEF Init
  <1>5. Applies(authored.base, layer) /\ ServedAsStored
    BY <1>4 DEF Applies, ServedAsStored, Effective
  <1>6. StoredAsAuthored
    BY <1>3, <1>4 DEF StoredAsAuthored
  <1> QED
    BY <1>1, <1>2, <1>3, <1>4, <1>5, <1>6 DEF WholeInv

LEMMA WholeStep == DeclaredOnce /\ WholeInv /\ [Next]_vars => WholeInv'
  <1> SUFFICES ASSUME DeclaredOnce, WholeInv, [Next]_vars PROVE WholeInv'
    OBVIOUS
  <1> DEFINE base == Base(release)
  <1>1. \A r \in Releases : Loads(r) => Document(Base(r))
    BY DEF DeclaredOnce
  <1>2. Document(layer)
    <2>1. CASE layer = NoLayer
      BY <2>1, NoLayerIsDocument
    <2>2. CASE layer # NoLayer
      <3>1. layer = Marshalled(Subtract(authored.doc, authored.base))
        BY <2>2 DEF WholeInv, StoredAsAuthored
      <3>2. Document(authored.doc) /\ Document(authored.base)
        BY <1>1 DEF WholeInv
      <3> QED
        BY <3>1, <3>2, StoredIsDocument
    <2> QED
      BY <2>1, <2>2
  <1>3. ASSUME NEW r \in Releases, Boot(r) PROVE WholeInv'
    <2>1. /\ Loads(r) /\ release' = r /\ UNCHANGED <<layer, authored, printed>>
          /\ broken' = ~Applies(Base(r), layer)
          /\ served' = IF Applies(Base(r), layer) THEN Effective(Base(r), layer) ELSE Base(r)
      BY <1>3 DEF Boot
    <2>2. Document(Base(r)) /\ Document(Merge(Base(r), layer))
      BY <1>1, <1>2, <2>1, MergeIsDocument
    <2>3. Document(served')
      BY <2>1, <2>2, EffectiveIsMerge
    <2>4. broken' \in BOOLEAN /\ ServedAsStored'
      BY <2>1 DEF ServedAsStored, Applies
    <2>5. StoredAsAuthored'
      BY <2>1 DEF WholeInv, StoredAsAuthored
    <2>6. Applies(authored.base, layer)'
      BY <2>1 DEF WholeInv, Applies
    <2> QED
      BY <2>1, <2>3, <2>4, <2>5, <2>6 DEF WholeInv
  <1>4. ASSUME UNCHANGED <<release, layer, broken, authored, served>>, Document(printed')
        PROVE  WholeInv'
    <2>1. StoredAsAuthored' /\ ServedAsStored' /\ Applies(authored.base, layer)'
      BY <1>4 DEF WholeInv, StoredAsAuthored, ServedAsStored, Applies
    <2> QED
      BY <1>4, <2>1 DEF WholeInv
  <1>5. CASE GetDomain
    <2>1. Document(Printed(served))
      BY PrintIsDocument DEF WholeInv
    <2> QED
      BY <1>4, <1>5, <2>1 DEF GetDomain
  <1>6. ASSUME NEW l, NEW doc, Document(doc), Applies(base, l),
               Mount(Effective(base, l), l, doc), Document(Effective(base, l)),
               UNCHANGED <<release, printed>>,
               \/ l = NoLayer /\ doc = Printed(base)
               \/ /\ l = Marshalled(Subtract(doc, base)) /\ Subtracts(doc, base)
                  /\ \A p \in TextParts : doc[p] # None
        PROVE  WholeInv'
    <2>1. /\ layer' = l /\ broken' = FALSE /\ served' = Effective(base, l)
          /\ authored' = [doc |-> doc, base |-> base, release |-> release]
      BY <1>6 DEF Mount
    <2>2. authored'.doc = doc /\ authored'.base = base /\ authored'.release = release
      BY <2>1
    <2>3. StoredAsAuthored'
      BY <1>6, <2>1, <2>2 DEF StoredAsAuthored
    <2>4. ServedAsStored'
      BY <1>6, <2>1 DEF ServedAsStored
    <2>5. Applies(authored.base, layer)'
      BY <1>6, <2>1, <2>2 DEF Applies
    <2> QED
      BY <1>6, <2>1, <2>2, <2>3, <2>4, <2>5 DEF WholeInv
  <1>7. ASSUME NEW add \in Additions, Apply(add) PROVE WholeInv'
    <2>1. PICK doc, l : /\ doc = ApplyDefaults(Edited(printed, add))
                        /\ l = Marshalled(Subtract(doc, base))
                        /\ ParsesDoc(Edited(printed, add)) /\ Subtracts(doc, base) /\ Applies(base, l)
                        /\ Mount(Effective(base, l), l, doc) \/ Unmount(Effective(base, l))
                        /\ UNCHANGED <<release, printed>>
      BY <1>7 DEF Apply
    <2>2. Document(base) /\ Document(doc)
      BY <1>1, <2>1, EditIsDocument, DefaultsIsDocument DEF WholeInv, DeclaredOnce
    <2>3. Document(Effective(base, l))
      BY <2>1, <2>2, StoredIsDocument, MergeIsDocument, EffectiveIsMerge
    <2>4. \A p \in TextParts : doc[p] # None
      BY <2>1 DEF ParsesDoc, Valid, ValidTexts, TextParts
    <2>5. CASE Mount(Effective(base, l), l, doc)
      BY <1>6, <2>1, <2>2, <2>3, <2>4, <2>5
    <2>6. CASE Unmount(Effective(base, l))
      BY <1>4, <2>1, <2>6 DEF Unmount, WholeInv
    <2> QED
      BY <2>1, <2>5, <2>6
  <1>8. CASE Delete
    <2>1. Document(base) /\ Document(Printed(base))
      BY <1>1, PrintIsDocument DEF WholeInv
    <2>2. Effective(base, NoLayer) = base /\ Applies(base, NoLayer)
      BY DEF Effective, Applies
    <2>3. Mount(Effective(base, NoLayer), NoLayer, Printed(base)) /\ UNCHANGED <<release, printed>>
      BY <1>8, <2>2 DEF Delete
    <2> QED
      BY <1>6, <2>1, <2>2, <2>3
  <1>9. Install \/ (\E r \in Rights : SetPolicy(r)) \/ UNCHANGED vars
            => UNCHANGED <<release, layer, broken, authored, served, printed>>
    BY DEF Install, SetPolicy, vars
  <1>10. UNCHANGED <<release, layer, broken, authored, served, printed>> => WholeInv'
    BY <1>4 DEF WholeInv
  <1> QED
    BY <1>3, <1>5, <1>7, <1>8, <1>9, <1>10 DEF Next

\* What is served is what the documents say, for any releases and documents that
\* name everything once, when no release drops a model: then an author's document had
\* a model that the layer stored for it no longer has.
THEOREM ServedIsAuthored ==
    DeclaredOnce /\ NoneDropped => (Spec => []ServedAsAuthored)
  <1> SUFFICES ASSUME DeclaredOnce, NoneDropped PROVE Spec => []ServedAsAuthored
    OBVIOUS
  <1>1. WholeInv => ServedAsAuthored
    <2> SUFFICES ASSUME WholeInv PROVE ServedAsAuthored
      OBVIOUS
    <2>1. CASE broken
      <3>1. served = Base(release) /\ ~Applies(Base(release), layer)
        BY <2>1 DEF WholeInv, ServedAsStored
      <3>2. release # authored.release
        BY <3>1 DEF WholeInv
      <3> QED
        BY <2>1, <3>1, <3>2 DEF ServedAsAuthored
    <2>2. CASE ~broken
      <3>1. PICK now, was, doc : now = Base(release) /\ was = authored.base /\ doc = authored.doc
        OBVIOUS
      <3>2. Document(doc) /\ Document(was) /\ Document(now)
        BY <3>1 DEF WholeInv, DeclaredOnce
      <3>3. served = Effective(now, layer)
        BY <2>2, <3>1 DEF WholeInv, ServedAsStored
      <3>4. CASE layer = NoLayer /\ doc = Printed(was)
        <4>1. served = now
          BY <3>3, <3>4 DEF Effective
        <4>2. Whole(doc, was, now) = now
          BY <3>2, <3>4, WholeOfPrint
        <4> QED
          BY <2>2, <3>1, <4>1, <4>2 DEF ServedAsAuthored, Expected
      <3>5. CASE /\ layer = Marshalled(Subtract(doc, was)) /\ Subtracts(doc, was)
                 /\ \A p \in TextParts : doc[p] # None
        <4>1. DOMAIN was.models \subseteq DOMAIN now.models
          BY <3>1 DEF WholeInv, NoneDropped
        <4>2. Merge(now, layer) = Whole(doc, was, now)
          BY <3>2, <3>5, <4>1, WholeAsAuthored
        <4>3. served = Whole(doc, was, now)
          BY <3>2, <3>3, <4>2, EffectiveIsMerge
        <4> QED
          BY <2>2, <3>1, <4>3 DEF ServedAsAuthored, Expected
      <3> QED
        BY <3>1, <3>4, <3>5 DEF WholeInv, StoredAsAuthored
    <2> QED
      BY <2>1, <2>2
  <1>2. Init => WholeInv
    BY WholeInit
  <1>3. WholeInv /\ [Next]_vars => WholeInv'
    BY WholeStep
  <1> QED
    BY <1>1, <1>2, <1>3, PTL DEF Spec
=============================================================================
