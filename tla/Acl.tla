------------------------------- MODULE Acl -------------------------------
(***************************************************************************)
(* The policy evaluation of packages/sdk-go/acl: how the policy rows of a   *)
(* principal's roles become a decision about one call, a field mask, a      *)
(* filter for listings, and how a filter or a query domain is applied, in   *)
(* memory and in SQL.  The module has no state; Records keeps the rows.     *)
(*                                                                          *)
(* Texts stand for the stored values.  What the code compares about them    *)
(* is given by constants: their lower-case form, which text occurs in       *)
(* which, and their order.  A list of rows is a set of entries; where the   *)
(* code depends on the order of the list the entry carries its time of      *)
(* update, by which the store lists the rows.                               *)
(***************************************************************************)
EXTENDS Integers, FiniteSets, Sequences, SequencesExt

CONSTANTS
    Fields,   \* the stored fields of the model
    Texts,    \* the values a field can have
    Empty,    \* the empty text
    Nil,      \* what the code sees of a field that a record does not have
    Fold,     \* the lower-case form of a text
    Holding,  \* the pairs <<t, s>> of texts such that s occurs in t, case folded
    Rank,     \* the order of texts
    Star,      \* "*", for every resource, action or field
    NoRecord  \* a check without a record

UserId == "$user.id"
Wild == {"like", "like%"}
CallKinds == {"query", "command", "view"}

(***************************************************************************)
(* Conditions and domains                                                   *)
(***************************************************************************)
Left(c, rec, user) ==
    IF c.field = UserId THEN user
    ELSE IF c.field \in DOMAIN rec THEN rec[c.field] ELSE Nil

Right(c, user) == {IF v = UserId THEN user ELSE v : v \in c.value}

Equal(a, b) == Fold[a] = Fold[b]

\* one condition against a record, in memory; "like%" is a pattern written with
\* wild cards, which this side trims
Satisfies(c, rec, user) ==
    LET l == Left(c, rec, user)
        r == Right(c, user)
    IN  \/ c.op \in {"=", "in"} /\ \E v \in r : Equal(l, v)
        \/ c.op \in {"!=", "not in"} /\ \A v \in r : ~Equal(l, v)
        \/ c.op = ">" /\ \E v \in r : Rank[l] > Rank[v]
        \/ c.op \in Wild /\ \E v \in r : <<l, v>> \in Holding
        \/ c.op = "is set" /\ l \notin {Empty, Nil}
        \/ c.op = "is not set" /\ l \in {Empty, Nil}

\* the same condition in the WHERE clause the code writes for it: equality is
\* exact, ILIKE without wild cards compares the whole text
SqlSatisfies(c, row, user) ==
    LET l == row[c.field]
        r == Right(c, user)
    IN  \/ c.op \in {"=", "in"} /\ l \in r
        \/ c.op \in {"!=", "not in"} /\ l \notin r
        \/ c.op = ">" /\ \E v \in r : Rank[l] > Rank[v]
        \/ c.op = "like" /\ \E v \in r : Equal(l, v)
        \/ c.op = "like%" /\ \E v \in r : <<l, v>> \in Holding
        \/ c.op = "is set" /\ l # Empty
        \/ c.op = "is not set" /\ l = Empty

\* a column of the model, and no variable of the principal, on the left
Compiles(c) == c.field \in Fields

Match(domain, rec, user) == \A c \in domain : Satisfies(c, rec, user)
SqlMatch(domain, row, user) == \A c \in domain : SqlSatisfies(c, row, user)

(***************************************************************************)
(* Query domains: prefix notation with "&", "|" and "!"; the nodes left on  *)
(* the stack are an implicit conjunction.  The conditions that hold are     *)
(* given by the caller, so that one definition serves memory and SQL.       *)
(***************************************************************************)
Arity(token) == CASE token.op = "!" -> 1 [] token.op \in {"&", "|"} -> 2 [] OTHER -> 0

Push(token, stack, holding) ==
    IF stack = <<Nil>> \/ Len(stack) < Arity(token) THEN <<Nil>>
    ELSE LET rest == SubSeq(stack, Arity(token) + 1, Len(stack))
         IN  CASE token.op = "!" -> <<~stack[1]>> \o rest
               [] token.op = "&" -> <<stack[1] /\ stack[2]>> \o rest
               [] token.op = "|" -> <<stack[1] \/ stack[2]>> \o rest
               [] OTHER -> <<token \in holding>> \o rest

Stack(expr, holding) ==
    FoldRight(LAMBDA token, stack : Push(token, stack, holding), expr, << >>)

Leaves(expr) == {c \in ToSet(expr) : Arity(c) = 0}

\* an operator without its operands does not parse
Parses(expr) == Stack(expr, {}) # <<Nil>>

ExprMatch(expr, rec) ==
    Stack(expr, {c \in Leaves(expr) : Satisfies(c, rec, Empty)}) \in Seq({TRUE})

ExprCompiles(expr) == \A c \in Leaves(expr) : Compiles(c)

SqlExprMatch(expr, row) ==
    Stack(expr, {c \in Leaves(expr) : SqlSatisfies(c, row, Empty)}) \in Seq({TRUE})

(***************************************************************************)
(* Policies                                                                 *)
(***************************************************************************)
MatchResource(pattern, want) ==
    pattern \in {<<Star, Star>>, <<want[1], Star>>, want}

MatchAction(actions, want) == actions = {} \/ Star \in actions \/ want \in actions

FilterMatch(entries, resource, action) ==
    {e \in entries : /\ e.active
                     /\ MatchResource(e.resource, resource)
                     /\ e.kind \in CallKinds \/ MatchAction(e.actions, action)}

\* an entry without fields is about every field
Covers(e, f) == f \in (IF e.fields = {} THEN {Star} ELSE e.fields)

\* without a record an entry that has a domain does not count
Applies(e, rec, user) ==
    e.domain = {} \/ (rec # NoRecord /\ Match(e.domain, rec, user))

\* the order of decisions: by priority, then deny before allow
Before(a, b) ==
    \/ a.priority > b.priority
    \/ a.priority = b.priority /\ a.effect = "deny" /\ b.effect = "allow"

\* the order of DeniedFields: by priority, ties as the rows were listed
ListedBefore(a, b) ==
    a.priority > b.priority \/ (a.priority = b.priority /\ a.at > b.at)

\* the effect of the first entry that names f, in either order
EffectOn(entries, f, order) ==
    LET named == {e \in entries : Covers(e, f)}
        Precedes(a, b) == IF order = "listed" THEN ListedBefore(a, b) ELSE Before(a, b)
    IN  IF named = {} THEN "none"
        ELSE (CHOOSE e \in named : \A o \in named : ~Precedes(o, e)).effect

AllowedField(entries, f) ==
    LET own == EffectOn(entries, f, "decided")
    IN  IF own = "none" THEN EffectOn(entries, Star, "decided") = "allow"
        ELSE own = "allow"

Named(entries) == (UNION {e.fields : e \in entries}) \ {Star}

\* an allow for every field counts even after a deny that won
HasAllow(entries) ==
    \/ \E e \in entries : e.effect = "allow" /\ Covers(e, Star)
    \/ \E f \in Named(entries) : EffectOn(entries, f, "decided") = "allow"

\* Star stands for the nil list, which callers read as "all fields"; an empty
\* list of allowed fields is nil as well
MaskFrom(entries) ==
    LET allowed == {f \in Named(entries) : EffectOn(entries, f, "decided") = "allow"}
    IN  IF EffectOn(entries, Star, "decided") = "allow" \/ allowed = {} THEN Star
        ELSE allowed

Applying(entries, resource, action, rec, user) ==
    {e \in FilterMatch(entries, resource, action) : Applies(e, rec, user)}

\* touched is the set of fields a write names; a read names none
Evaluate(entries, resource, action, rec, touched, user) ==
    LET apply == Applying(entries, resource, action, rec, user)
    IN  [allowed |-> IF touched = {} THEN HasAllow(apply)
                     ELSE \A f \in touched : AllowedField(apply, f),
         mask |-> MaskFrom(apply)]

\* menus and views are visible unless a policy says otherwise
EvaluateCatalog(entries, resource, user) ==
    \/ FilterMatch(entries, resource, "read") = {}
    \/ Evaluate(entries, resource, "read", NoRecord, {}, user).allowed

DeniedFields(entries, resource, action, rec, user) ==
    LET apply == Applying(entries, resource, action, rec, user)
    IN  {f \in Fields : /\ EffectOn(apply, Star, "listed") = "allow"
                        /\ EffectOn(apply, f, "listed") = "deny"}

MaskRecord(rec, mask, denied) ==
    [f \in {g \in DOMAIN rec : (mask = Star \/ g \in mask) /\ g \notin denied}
        |-> rec[f]]

\* the fields of a write that its grant does not cover
Forbidden(touched, mask, denied) ==
    {f \in touched : f \in denied \/ (mask # Star /\ f \notin mask)}

(***************************************************************************)
(* The filter of a listing                                                  *)
(***************************************************************************)
DenyAll == [denyAll |-> TRUE, unrestricted |-> FALSE, allow |-> {}, deny |-> {}]
Unrestricted == [DenyAll EXCEPT !.denyAll = FALSE, !.unrestricted = TRUE]

BugBuildListFilter(entries, resource, action) ==
    LET matched == FilterMatch(entries, resource, action)
        whole   == {e \in matched : Covers(e, Star)}
        allows  == {e \in whole : e.effect = "allow"}
        denies  == whole \ allows
    IN  IF whole = {} /\ matched # {} THEN Unrestricted
        ELSE IF allows = {} \/ (\E e \in denies : e.domain = {}) THEN DenyAll
        ELSE IF denies = {} /\ (\E e \in allows : e.domain = {}) THEN Unrestricted
        ELSE [denyAll |-> FALSE, unrestricted |-> FALSE,
              allow |-> {e.domain : e \in allows} \ {{}},
              deny |-> {e.domain : e \in denies}]

\* only entries about the whole record count; priorities do not
BuildListFilter(entries, resource, action) ==
    LET matched == FilterMatch(entries, resource, action)
        whole   == {e \in matched : Covers(e, Star)}
        allows  == {e \in whole : e.effect = "allow"}
        denies  == whole \ allows
    IN  IF whole = {} /\ \E e \in matched : e.effect = "allow" THEN Unrestricted
        ELSE IF allows = {} \/ (\E e \in denies : e.domain = {}) THEN DenyAll
        ELSE IF denies = {} /\ (\E e \in allows : e.domain = {}) THEN Unrestricted
        ELSE [denyAll |-> FALSE, unrestricted |-> FALSE,
              allow |-> {e.domain : e \in allows} \ {{}},
              deny |-> {e.domain : e \in denies}]

\* the filter in memory
RecordPassesFilter(filter, rec, user) ==
    /\ ~filter.denyAll
    /\ \/ filter.unrestricted
       \/ /\ \A d \in filter.deny : ~Match(d, rec, user)
          /\ filter.allow = {} \/ \E d \in filter.allow : Match(d, rec, user)

FilterCompiles(filter) ==
    \A d \in filter.allow \cup filter.deny : \A c \in d : Compiles(c)

\* the filter in SQL
CompileListFilter(filter, row, user) ==
    /\ ~filter.denyAll
    /\ \/ filter.unrestricted
       \/ /\ \A d \in filter.deny : ~SqlMatch(d, row, user)
          /\ filter.allow = {} \/ \E d \in filter.allow : SqlMatch(d, row, user)
=============================================================================
