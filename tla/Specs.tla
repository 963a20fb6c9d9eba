-------------------------------- MODULE Specs --------------------------------
(***************************************************************************)
(* How a specification comes about (packages/sdk-go/appspec: load.go,        *)
(* spec.go, security.go): the files of an app are read and joined, defaults  *)
(* are filled in, and the result is validated.  The documents of the domain  *)
(* API go the same way, without files.                                       *)
(*                                                                          *)
(* A release is what an app ships: app.yaml with its models written out or   *)
(* included from other files, lists of policy files, and the names of the    *)
(* page files found below views/.  A file is an element of its "files": the  *)
(* items of its list of models and the other keys of the document.  A file   *)
(* that is not there, or outside the directory of the app, is no element.    *)
(***************************************************************************)
EXTENDS Layers, FiniteSets

CONSTANTS
    Canonical,  \* the canonical type of every type an author may write
    Column,     \* the column type of every stored canonical type
    Lower       \* the lower-case form of the name of a query or command

Relations == {"many2one", "one2many", "many2many"}
CallKinds == {"query", "command", "view"}

(***************************************************************************)
(* Fields: types and defaults                                               *)
(***************************************************************************)
CanonicalType(f) ==
    IF /\ f.type = "enum" \/ f.values # << >>
       /\ Canonical[f.type] \in {"enum", "string"}
    THEN "enum" ELSE Canonical[f.type]

Stored(f) == CanonicalType(f) # "one2many"

Defaulted(f) ==
    LET type == IF f.type # "" THEN Canonical[f.type]
                ELSE IF f.values # << >> THEN "enum"
                ELSE IF f.relation # None THEN "many2one" ELSE "string"
    IN  [f EXCEPT !.type = type,
                  !.default = IF /\ type = "enum" /\ @ = None
                                 /\ f.values # << >> /\ ~f.required
                              THEN Head(f.values) ELSE @]

DefaultedFields(decls) ==
    [n \in DOMAIN decls |-> [i \in DOMAIN decls[n] |-> Defaulted(decls[n][i])]]

DefaultedModel(m) == [m EXCEPT !.fields = DefaultedFields(@)]

ApplyDefaults(spec) == [spec EXCEPT !.models = [n \in DOMAIN @ |-> DefaultedModel(@[n])]]

ValidField(f) ==
    /\ CanonicalType(f) = "enum" => f.values # << >>
    /\ CanonicalType(f) \in Relations => f.relation # None
    /\ IsInjective(f.values)
    /\ f.values # << >> /\ f.default # None => Contains(f.values, f.default)
    /\ f.readonly /\ f.required => f.default # None

\* the last declaration of a name is the one the diff and the columns go by;
\* a stored column keeps its type
Retypes(prev, next) ==
    \E m \in DOMAIN prev.models \cap DOMAIN next.models :
        LET old == prev.models[m].fields
            new == next.models[m].fields
        IN  \E n \in DOMAIN old \cap DOMAIN new :
                /\ Stored(Last(old[n])) /\ Stored(Last(new[n]))
                /\ Column[CanonicalType(Last(old[n]))] # Column[CanonicalType(Last(new[n]))]

(***************************************************************************)
(* Files.  Reading threads one set of the files seen through the whole tree, *)
(* so a file is read once: a second way to it is refused as a cycle is.      *)
(***************************************************************************)
\* an include names a file, or a directory with a specification in it
Target(release, ref) ==
    IF ref \in DOMAIN release.files THEN ref
    ELSE IF ref \in DOMAIN release.dirs /\ release.dirs[ref] # << >>
         THEN Head(release.dirs[ref]) ELSE None

\* It is one walk through the items: those of a file that is included come in the
\* place of the include.  "todo" holds what is still to be read, the next item first.
Start(release) ==
    [ok |-> TRUE, seen |-> {release.root}, models |-> << >>, todo |-> release.models]

ResolveItem(release, acc) ==
    LET item == Head(acc.todo)
        file == Target(release, item.include)
        next == [acc EXCEPT !.todo = Tail(@)]
    IN  IF ~acc.ok \/ acc.todo = << >> THEN acc
        ELSE IF item.include = None
             THEN [next EXCEPT !.models = Append(@, item.model), !.ok = item.model.name # None]
        ELSE IF \/ file = None
                \/ file \in acc.seen
                \/ release.files[file].other # {}
             THEN [acc EXCEPT !.ok = FALSE]
        ELSE [next EXCEPT !.seen = @ \cup {file}, !.todo = release.files[file].models \o @]

\* as many steps as there are items, no file being read twice
ResolveModels(release) ==
    LET items == Len(release.models)
            + MapThenSumSet(LAMBDA f : Len(release.files[f].models), DOMAIN release.files)
    IN  FoldLeft(LAMBDA acc, i : ResolveItem(release, acc), Start(release), [i \in 1..items |-> i])

Resolved(release) == ResolveModels(release)

\* every policy file once; lists are appended, so a name may come twice
LoadableFiles(release) ==
    /\ IsInjective(release.security)
    /\ \A i \in DOMAIN release.security : release.security[i] \in DOMAIN release.policies

Joined(f, g) ==
    [n \in DOMAIN f \cup DOMAIN g |->
        (IF n \in DOMAIN f THEN f[n] ELSE << >>) \o (IF n \in DOMAIN g THEN g[n] ELSE << >>)]

MergeSecurity(release, part) ==
    FoldLeft(LAMBDA f, file : Joined(f, release.policies[file][part]), Nothing, release.security)

\* two files of one name, in different folders, are one page name
DiscoverPages(release) == IsInjective(release.pages)

Decode(release) ==
    LET models == Resolved(release).models
    IN  ApplyDefaults(
        [p \in Parts |->
            CASE p = "models" -> [m \in {models[i].name : i \in DOMAIN models} |->
                                     models[CHOOSE i \in DOMAIN models : models[i].name = m].decl]
              [] p \in {"roles", "entries"} -> MergeSecurity(release, p)
              [] p = "pages" -> ToSet(release.pages)
              [] OTHER -> release[p]])

(***************************************************************************)
(* Validation                                                               *)
(***************************************************************************)
\* a text is not empty
ValidTexts(spec) == spec.title # None /\ spec.summary # None

ValidModel(m) ==
    /\ \A n \in DOMAIN m.fields : \A i \in DOMAIN m.fields[n] : ValidField(m.fields[n][i])
    /\ \A p, q \in m.presets : p.id = q.id => p = q
    /\ \A p \in m.presets : p.uses \subseteq DOMAIN m.fields

\* an operation binds at most one model, one there is; its name is unique among
\* queries and commands, case folded
ValidOperations(spec) ==
    LET Names == {<<k, n>> : k \in {"queries"}, n \in DOMAIN spec.queries}
                     \cup {<<k, n>> : k \in {"commands"}, n \in DOMAIN spec.commands}
    IN  /\ \A o, q \in Names : Lower[o[2]] = Lower[q[2]] => o = q
        /\ \A o \in Names :
               /\ Len(spec[o[1]][o[2]]) = 1
               /\ Cardinality(spec[o[1]][o[2]][1].binds) <= 1
               /\ \A b \in spec[o[1]][o[2]][1].binds : b.model \in DOMAIN spec.models

\* the menu items are given with the item they are under
ValidMenus(spec, pagesFromDisk) ==
    \A i \in DOMAIN spec.menus :
        LET item == spec.menus[i]
        IN  /\ \A j \in DOMAIN spec.menus : spec.menus[j].id = item.id => i = j
            /\ item.view = None => \E j \in DOMAIN spec.menus : spec.menus[j].parent = item.id
            /\ item.view # None /\ pagesFromDisk => item.view \in spec.pages

\* an entry has a name of its own for each role it is for; what is only called has no actions
ValidSecurity(spec) ==
    /\ \A r \in DOMAIN spec.roles : Len(spec.roles[r]) = 1
    /\ \A n \in DOMAIN spec.entries :
           /\ \A i, j \in DOMAIN spec.entries[n] :
                  spec.entries[n][i].role = spec.entries[n][j].role => i = j
           /\ \A i \in DOMAIN spec.entries[n] :
                  /\ spec.entries[n][i].kind \notin {"menu", "nav"}
                  /\ spec.entries[n][i].kind \in CallKinds => spec.entries[n][i].actions = {}

Valid(spec, pagesFromDisk) ==
    /\ ValidTexts(spec)
    /\ \A m \in DOMAIN spec.models : ValidModel(spec.models[m])
    /\ ValidOperations(spec)
    /\ ValidMenus(spec, pagesFromDisk)
    /\ ValidSecurity(spec)

\* a release loads: every include resolves, no model name comes twice, and the
\* joined specification is valid, its menus showing pages there are
Loads(release) ==
    /\ Resolved(release).ok
    /\ IsInjective([i \in DOMAIN Resolved(release).models |-> Resolved(release).models[i].name])
    /\ LoadableFiles(release)
    /\ DiscoverPages(release)
    /\ Valid(Decode(release), TRUE)

\* a document of the domain API: no files, the menus it may have are never shown
ParsesDoc(doc) == Valid(ApplyDefaults(doc), FALSE)

=============================================================================
