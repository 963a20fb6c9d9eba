----------------------------- MODULE MCPlugins -----------------------------
(***************************************************************************)
(* notes has a document, a handler and two hooks, mail a handler and two    *)
(* hooks that run earlier, bad a handler of a kind that does not exist      *)
(* after two that do.  One handler comes from an init() function, and the   *)
(* apps of the second database have two `extends`.                          *)
(***************************************************************************)
EXTENDS Plugins

P(app, phase) == [app |-> app, model |-> Star, phase |-> phase]
Hook(pattern, priority) == [pattern |-> pattern, priority |-> priority]
H(pattern, priority, id) == [pattern |-> pattern, priority |-> priority, owner |-> None, id |-> id]

MCPoints == {[app |-> "notes", model |-> "note"], [app |-> "core", model |-> "user"]}
MCRegistered == <<H(P(Star, "after"), 100, -1)>>
MCExtends == <<<< >>, <<H(P(Star, "after"), 50, -2), H(P("core", "after"), 20, -3)>>>>
MCPaths == <<"notes", "bad", "mail">>
MCManifest ==
    [notes |-> [domains |-> 1,
                handlers |-> <<[key |-> "noteCount", kind |-> "query"]>>,
                hooks |-> <<Hook([app |-> "notes", model |-> "note", phase |-> "before"], 100),
                            Hook(P(Star, "after"), 100)>>],
     mail |-> [domains |-> 0,
               handlers |-> <<[key |-> "send", kind |-> "command"]>>,
               hooks |-> <<Hook(P("notes", "before"), 10), Hook(P("notes", "after"), 10)>>],
     bad |-> [domains |-> 0,
              handlers |-> <<[key |-> "lost", kind |-> "query"], [key |-> "gone", kind |-> "query"],
                            [key |-> "oops", kind |-> "job"]>>,
              hooks |-> << >>]]

\* bad names a handler of notes as well
MCClash == [MCManifest EXCEPT !.bad.handlers[1].key = "noteCount"]
=============================================================================
