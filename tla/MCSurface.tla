------------------------------ MODULE MCSurface ------------------------------
(***************************************************************************)
(* Instances of Surface.  The app keeps notes.  Its first release has only   *)
(* their model, with a page and no queries; the second includes it from a    *)
(* directory, gives it a field an author may have given it before, and       *)
(* declares a query, a command of its own, and policies.                     *)
(***************************************************************************)
EXTENDS Surface

MCCanonical == [t \in {"string", "int", "date", "bool", "enum", "many2one", "one2many"} |-> t]
MCColumn == [t \in {"string", "date", "enum", "many2one"} |-> "TEXT"]
                @@ [t \in {"int"} |-> "BIGINT"] @@ [t \in {"bool"} |-> "BOOLEAN"]
MCLower == [n \in {"notes", "close", "mine", "ping"} |-> n]
MCPascal == [note |-> "Note", tag |-> "Tag", notes |-> "Notes", close |-> "Close",
             mine |-> "Mine", ping |-> "Ping"]

F(type) == [type |-> type, required |-> FALSE, readonly |-> FALSE, default |-> None,
            values |-> << >>, relation |-> None]
Declared(decls, index) ==
    [internal |-> FALSE, virtual |-> FALSE, search |-> index, presets |-> {}, fields |-> decls]

Text == [text |-> <<F("")>>]
Due(type) == [due |-> <<F(type)>>]

Query(binds) == <<[binds |-> binds, returns |-> None, args |-> {}]>>
Lists(m) == {[verb |-> "list", model |-> m]}
Entry(role) == [role |-> role, kind |-> "query", actions |-> {}]

Here(name, decl) == [include |-> None, model |-> [name |-> name, decl |-> decl]]
There(ref) == [include |-> ref, model |-> None]

First ==
    [NoLayer EXCEPT !.title = "Notes", !.summary = "Notes",
        !.menus = <<[id |-> "main", view |-> None, component |-> FALSE, parent |-> None],
                    [id |-> "board", view |-> "Board", component |-> FALSE, parent |-> "main"]>>,
        !.nav = TRUE, !.pages = <<"Board">>,
        !.models = <<Here("note", Declared(Text, None))>>]
    @@ [root |-> "app.yaml", files |-> Nothing, dirs |-> Nothing, security |-> << >>,
        policies |-> Nothing, handlers |-> {}, registered |-> {}]

Second ==
    [First EXCEPT !.models = <<There("notes")>>,
        !.dirs = [notes |-> <<"spec.yaml">>],
        !.files = ("spec.yaml" :> [models |-> <<Here("note", Declared(Text @@ Due("date"), None))>>,
                                   other |-> {}]),
        !.queries = [notes |-> Query(Lists("note"))],
        !.commands = [close |-> <<[binds |-> {}, returns |-> "note", args |-> {"id"}]>>],
        !.handlers = {"close"}, !.registered = {"tag"},
        !.security = <<"acl.yaml">>,
        !.policies = ("acl.yaml" :> [roles |-> [clerk |-> <<"clerk">>],
                                     entries |-> [read |-> <<Entry("clerk")>>]])]

\* a file is reached on two ways
Diamond ==
    [Second EXCEPT !.models = <<There("notes"), There("spec.yaml")>>]

\* the model is gone
Without == [First EXCEPT !.models = <<Here("tag", Declared(Text, None))>>, !.title = "Tags"]

MCReleases == {First, Second, Diamond}
MCDropping == {First, Without}

AddDate == [NoLayer EXCEPT !.models = [note |-> Declared(Due("date"), None)]]
AddInt == [NoLayer EXCEPT !.models = [note |-> Declared(Due("int"), None)]]
AddQueries ==
    [NoLayer EXCEPT !.queries = [mine |-> Query(Lists("note"))],
                    !.entries = [mine |-> <<Entry("clerk")>>]]
Tag == [Declared(Text, None) EXCEPT !.presets = {[id |-> "all", uses |-> {"text"}]}]
AddModel ==
    [NoLayer EXCEPT !.title = "Memos", !.depends = {"crm"},
                    !.models = [note |-> Declared(Nothing, "notes"), tag |-> Tag]]
AddPing == [NoLayer EXCEPT !.queries = [ping |-> Query(Lists("note"))]]

MCAdditions == {AddDate, AddInt, AddQueries, AddModel, AddPing}

\* the parent of the first comes after it
MCAddon == <<[id |-> "totals", view |-> "Totals", component |-> TRUE, parent |-> "reports"],
             [id |-> "reports", view |-> "Reports", component |-> TRUE, parent |-> "main"]>>

\* one who reads the notes, one who runs two operations and has notes of their own
Calls(n) == {<<"query", n, "read">>, <<"model", "note", "read">>}
MCRights ==
    {[closed |-> {"NoteList", "NoteForm", "TagList", "TagForm", "Reports"},
      granted |-> Calls("Notes"), own |-> {<<"model", "note", "read">>}, barred |-> {"tag"}],
     [closed |-> {"Board", "NoteList", "NoteForm"},
      granted |-> {<<"query", "Mine", "read">>, <<"command", "Close", "execute">>},
      own |-> {<<"model", "note", action>> : action \in {"read", "update"}}, barred |-> {}]}
==============================================================================
