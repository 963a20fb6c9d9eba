----------------------------- MODULE DomainsView -----------------------------
(***************************************************************************)
(* The domain pipeline as its one author sees it: Domains implements         *)
(* Overlays when calls come one after another.                              *)
(***************************************************************************)
EXTENDS Domains

CONSTANT NoChange

ASSUME NoChangeAssumption == NoChange \notin Requests

\* An app as its users meet it: its definition, the root fields that answer for
\* it, the columns its services know
Surface(spec, fields, services) == [spec |-> spec, fields |-> fields, services |-> services]

\* engine.NewCompiled/newDynamic with Merge: code, or nothing, under a layer
StackOn(versions, a, layer) ==
    LET own == IF a \in DOMAIN versions THEN Content[versions[a]] ELSE Blank
        spec == IF layer = NoLayer THEN own ELSE Merge(own, Content[layer])
    IN  Surface(spec, spec.fields, spec.cols)

Hidden == Surface(Blank, {}, {})

Up == boot.phase = "up"
InMount(a, phases) == \E c \in Callers : lock = c /\ Target(c) = a /\ call[c].pc \in phases

\* While a mount is under way, and while it is rolled back, the change is not
\* made: the app counts as what was saved, or, when it is being unmounted, as
\* what it still owns
ShownOf(a) ==
    IF ~Up THEN Hidden
    ELSE IF InMount(a, {"remount", "secure", "rollback"})
         THEN Surface(saved.state.spec, saved.state.owned, saved.state.services)
    ELSE IF InMount(a, {"unmount"})
         THEN Surface(mounted[a].spec, mounted[a].owned, mounted[a].services)
    ELSE Surface(mounted[a].spec, {f \in Fields : root[f] = a}, mounted[a].services)

\* A change is shown from the end of its mount on; Store keeps it
Change ==
    IF \E c \in Callers : At(c, "append")
    THEN LET c == CHOOSE d \in Callers : At(d, "append") IN Request(c)
    ELSE NoChange

Author == INSTANCE Overlays WITH
    Mounted <- Dynamic \cup {CompiledOrder[i] : i \in DOMAIN CompiledOrder},
    Codes <- CodeDocs,
    Stack <- StackOn,
    up <- Up,
    base <- code,
    head <- [a \in Apps |-> HeadOf(a, "overlay")],
    shown <- [a \in Apps |-> ShownOf(a)],
    change <- Change,
    reported <- IF Up THEN errors ELSE {}

\* For calls that come one after another the pipeline is atomic: of the steps of
\* an apply, a revert, a delete or an import (reading the head, validating,
\* dropping fields, creating columns, registering, seeding policies, storing,
\* and all of the ways back) users see one that changes the app and one that
\* keeps the change; a refused or rolled back call changes nothing they can see,
\* and a restart brings back what was kept.  (applyLayer, swapLocked,
\* mountNewLocked, unmountLocked, resolveCompiled, LoadAll)
AtomicToAuthor == Author!Spec
=============================================================================
