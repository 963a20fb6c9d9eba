------------------------------ MODULE Overlays ------------------------------
(***************************************************************************)
(* What the domain API promises to one author, without how: every app is    *)
(* shown as its base with the layer kept for it.  A change is shown all at  *)
(* once or not at all, and kept next; when the process ends in between, the *)
(* app comes back without it.  A layer that no longer fits the code of its  *)
(* app is reported at the start and the app is shown without it.            *)
(***************************************************************************)
CONSTANTS
    Apps,        \* all apps
    Mounted,     \* those the process mounts
    Layers,      \* layers, NoLayer among them
    Codes,       \* versions of the code of apps
    NoLayer,
    NoChange,
    Hidden,         \* what is shown of an app that runs nothing, or of a process that is down
    Stack(_, _, _)  \* what is shown of an app, given the code of all and a layer

VARIABLES
    up,       \* the process answers
    base,     \* the versions of the code
    head,     \* the layer kept for each app
    shown,    \* what users are shown of each app
    change,   \* the change that is shown and not kept yet, with its app
    reported  \* apps whose layer did not fit when the process started

vars == <<up, base, head, shown, change, reported>>

NothingShown == \A a \in Apps : shown'[a] = Hidden

Init ==
    /\ ~up
    /\ head = [a \in Apps |-> NoLayer]
    /\ shown = [a \in Apps |-> Hidden]
    /\ change = NoChange
    /\ reported = {}

Start ==
    /\ ~up /\ up'
    /\ reported' \subseteq Apps
    /\ \A a \in Apps :
           shown'[a] = IF a \notin Mounted THEN Hidden
                       ELSE Stack(base, a, IF a \in reported' THEN NoLayer ELSE head[a])
    /\ UNCHANGED <<base, head, change>>

Show(a, layer) ==
    /\ up /\ change = NoChange
    /\ change' = [app |-> a, layer |-> layer]
    /\ shown' = IF a \in Mounted THEN [shown EXCEPT ![a] = Stack(base, a, layer)] ELSE shown
    /\ UNCHANGED <<up, base, head, reported>>

Keep ==
    /\ up /\ change # NoChange
    /\ head' = [head EXCEPT ![change.app] = change.layer]
    /\ reported' = reported \ {change.app}
    /\ change' = NoChange
    /\ UNCHANGED <<up, base, shown>>

Stop ==
    /\ up /\ ~up'
    /\ NothingShown
    /\ change' = NoChange /\ reported' = {}
    /\ UNCHANGED <<base, head>>

Deploy ==
    /\ ~up
    /\ base' \in [DOMAIN base -> Codes]
    /\ UNCHANGED <<up, head, shown, change, reported>>

Next ==
    \/ Start
    \/ \E a \in Apps, layer \in Layers : Show(a, layer)
    \/ Keep
    \/ Stop
    \/ Deploy

Spec == Init /\ [][Next]_vars
=============================================================================
