------------------------------- MODULE Layers -------------------------------
(***************************************************************************)
(* The layer algebra of packages/sdk-go/appspec: what a complete document    *)
(* adds on top of the base an app ships (Subtract), how such a layer is      *)
(* stacked on a base, the one it was made for or a later one (Merge), and    *)
(* what of a layer its stored text keeps (MarshalDomain).                    *)
(*                                                                          *)
(* A specification is a record.  A list of names is a set.  A list of named  *)
(* declarations (queries, commands, roles, policy entries, the fields of a   *)
(* model) is a function from a name to the sequence of its declarations: a   *)
(* list may declare a name more than once where validation lets it (a field, *)
(* or a policy entry for another role), and the code then compares with the  *)
(* last one.  Models are a function from a name to the model: their names    *)
(* are unique in every document the code accepts.                            *)
(*                                                                          *)
(* Merge and Subtract return an error or a value: the error is the negation  *)
(* of a predicate (Merges, Subtracts), the value an operator of its own.     *)
(***************************************************************************)
EXTENDS Naturals, Sequences, SequencesExt

CONSTANT None  \* no title, no summary, no search index

SetParts == {"depends", "provides", "uses", "disable"}
NamedParts == {"queries", "commands", "roles", "entries"}
TextParts == {"title", "summary"}

\* what comes from the base alone: nav, menus, pages, locales, keymap
BaseParts == {"menus", "pages", "nav"}

Parts == SetParts \cup NamedParts \cup TextParts \cup BaseParts \cup {"models"}

Nothing == [n \in {} |-> << >>]

NoLayer == [p \in Parts |-> IF p \in TextParts THEN None
                            ELSE IF p \in SetParts THEN {} ELSE Nothing]

(***************************************************************************)
(* Lists of declarations                                                    *)
(***************************************************************************)
\* what a layer repeats is what is there already
Agree(base, layer) ==
    \A n \in DOMAIN layer : \A i \in DOMAIN layer[n] :
        layer[n][i] = IF n \in DOMAIN base THEN Last(base[n]) ELSE Head(layer[n])

Over(base, layer) ==
    [n \in DOMAIN base \cup DOMAIN layer |->
        IF n \in DOMAIN base THEN base[n] ELSE <<Head(layer[n])>>]

\* a document has everything of the base, unchanged
Keeps(full, base) ==
    \A n \in DOMAIN base :
        n \in DOMAIN full /\ \A i \in DOMAIN base[n] : base[n][i] = Last(full[n])

Extra(full, base) == [n \in DOMAIN full \ DOMAIN base |-> full[n]]

(***************************************************************************)
(* Models: the flags and the search index come from the base, except that a  *)
(* layer may give an index to a model without one                            *)
(***************************************************************************)
MergesModel(m, lm) ==
    /\ lm.internal => m.internal
    /\ lm.virtual => m.virtual
    /\ lm.search \in {None, m.search} \/ m.search = None
    /\ Agree(m.fields, lm.fields)

MergedModel(m, lm) ==
    [m EXCEPT !.search = IF lm.search = None THEN @ ELSE lm.search,
              !.fields = Over(@, lm.fields)]

SubtractsModel(fm, bm) ==
    /\ fm.internal = bm.internal
    /\ fm.virtual = bm.virtual
    /\ fm.search = bm.search \/ bm.search = None
    /\ Keeps(fm.fields, bm.fields)

ExtraModel(fm, bm) ==
    [internal |-> FALSE, virtual |-> FALSE, presets |-> {},
     search |-> IF fm.search = bm.search THEN None ELSE fm.search,
     fields |-> Extra(fm.fields, bm.fields)]

Adds(lm) == DOMAIN lm.fields # {} \/ lm.search # None

(***************************************************************************)
(* Merge                                                                    *)
(***************************************************************************)
Merges(base, layer) ==
    /\ \A n \in DOMAIN base.models \cap DOMAIN layer.models :
           MergesModel(base.models[n], layer.models[n])
    /\ \A p \in NamedParts : Agree(base[p], layer[p])

MergedModels(base, layer) ==
    [n \in DOMAIN base \cup DOMAIN layer |->
        IF n \notin DOMAIN layer THEN base[n]
        ELSE IF n \notin DOMAIN base THEN layer[n]
        ELSE MergedModel(base[n], layer[n])]

\* a plausible slip: the text of the base wins
BugMergedPart(p, base, layer) ==
    CASE p \in TextParts -> IF base = None THEN layer ELSE base
      [] p \in SetParts -> base \cup layer
      [] p \in NamedParts -> Over(base, layer)
      [] p = "models" -> MergedModels(base, layer)
      [] p \in BaseParts -> base

MergedPart(p, base, layer) ==
    CASE p \in TextParts -> IF layer = None THEN base ELSE layer
      [] p \in SetParts -> base \cup layer
      [] p \in NamedParts -> Over(base, layer)
      [] p = "models" -> MergedModels(base, layer)
      [] p \in BaseParts -> base

Merge(base, layer) == [p \in Parts |-> MergedPart(p, base[p], layer[p])]

(***************************************************************************)
(* Subtract                                                                 *)
(***************************************************************************)
Subtracts(full, base) ==
    /\ \A p \in SetParts : base[p] \subseteq full[p]
    /\ \A n \in DOMAIN base.models :
           n \in DOMAIN full.models /\ SubtractsModel(full.models[n], base.models[n])
    /\ \A p \in NamedParts : Keeps(full[p], base[p])

\* a plausible slip: a model is left out when it has no new field, whatever its index
BugExtraModels(full, base) ==
    [n \in {m \in DOMAIN full : m \notin DOMAIN base \/
                DOMAIN ExtraModel(full[m], base[m]).fields # {}} |->
        IF n \in DOMAIN base THEN ExtraModel(full[n], base[n]) ELSE full[n]]

ExtraModels(full, base) ==
    [n \in {m \in DOMAIN full : m \notin DOMAIN base \/ Adds(ExtraModel(full[m], base[m]))} |->
        IF n \in DOMAIN base THEN ExtraModel(full[n], base[n]) ELSE full[n]]

ExtraPart(p, full, base) ==
    CASE p \in TextParts -> IF full = base THEN None ELSE full
      [] p \in SetParts -> full \ base
      [] p \in NamedParts -> Extra(full, base)
      [] p = "models" -> ExtraModels(full, base)
      [] p \in BaseParts -> Nothing

Subtract(full, base) == [p \in Parts |-> ExtraPart(p, full[p], base[p])]

\* the text of a layer has no filter and no chart presets; nothing is stored for
\* a layer that adds nothing
Marshalled(layer) ==
    [layer EXCEPT !.models = [n \in DOMAIN @ |-> [@[n] EXCEPT !.presets = {}]]]

=============================================================================
