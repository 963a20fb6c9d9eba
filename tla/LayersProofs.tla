---------------------------- MODULE LayersProofs ----------------------------
(***************************************************************************)
(* What the layer algebra guarantees for every pair of specifications: a    *)
(* document is its base plus its layer again, stacking a layer never changes *)
(* or drops anything of the base, and never loses anything of the layer.     *)
(***************************************************************************)
EXTENDS Layers, TLAPS

\* Every name is declared once: no field twice, no policy entry for two roles
Once(decls) == decls = [n \in DOMAIN decls |-> <<decls[n][1]>>]

IsModel(m) ==
    m = [internal |-> m.internal, virtual |-> m.virtual, search |-> m.search,
         presets |-> m.presets, fields |-> m.fields]

IsModels(models) == models = [n \in DOMAIN models |-> models[n]]

OnceSpec(spec) ==
    /\ \A p \in NamedParts : Once(spec[p])
    /\ IsModels(spec.models)
    /\ \A n \in DOMAIN spec.models : IsModel(spec.models[n]) /\ Once(spec.models[n].fields)

(***************************************************************************)
(* Lists of declarations                                                    *)
(***************************************************************************)
LEMMA OnceValue ==
    ASSUME NEW decls, Once(decls), NEW n \in DOMAIN decls
    PROVE  /\ decls[n] = <<decls[n][1]>>
           /\ Last(decls[n]) = decls[n][1]
           /\ Head(decls[n]) = decls[n][1]
           /\ DOMAIN decls[n] = {1}
<1>1. decls[n] = <<decls[n][1]>>
  BY DEF Once
<1>2. \A x : Last(<<x>>) = x /\ Head(<<x>>) = x /\ DOMAIN <<x>> = {1}
  BY DEF Last
<1> QED BY <1>1, <1>2

LEMMA OnceIsFunction ==
    ASSUME NEW decls, Once(decls)
    PROVE  decls = [n \in DOMAIN decls |-> decls[n]]
BY DEF Once

LEMMA ListRoundTrip ==
    ASSUME NEW full, NEW base, Once(full), Once(base), Keeps(full, base)
    PROVE  /\ Agree(base, Extra(full, base))
           /\ Over(base, Extra(full, base)) = full
<1> DEFINE layer == Extra(full, base)
<1>1. DOMAIN layer = DOMAIN full \ DOMAIN base
  BY DEF Extra
<1>2. \A n \in DOMAIN layer : layer[n] = full[n]
  BY DEF Extra
<1>3. DOMAIN base \subseteq DOMAIN full
  BY DEF Keeps
<1>4. Agree(base, layer)
  <2> SUFFICES ASSUME NEW n \in DOMAIN layer, NEW i \in DOMAIN layer[n]
               PROVE  layer[n][i] = Head(layer[n])
    BY <1>1 DEF Agree
  <2>1. n \in DOMAIN full /\ layer[n] = full[n]
    BY <1>1, <1>2
  <2> QED BY <2>1, OnceValue
<1>5. DOMAIN Over(base, layer) = DOMAIN full
  BY <1>1, <1>3 DEF Over
<1>6. ASSUME NEW n \in DOMAIN full
      PROVE  Over(base, layer)[n] = full[n]
  <2>1. n \in DOMAIN base \cup DOMAIN layer
    BY <1>1
  <2>2. CASE n \in DOMAIN base
    <3>1. 1 \in DOMAIN base[n] /\ base[n] = <<base[n][1]>>
      BY <2>2, OnceValue
    <3>2. base[n][1] = full[n][1]
      BY <2>2, <3>1, OnceValue DEF Keeps
    <3>3. base[n] = full[n]
      BY <3>1, <3>2, OnceValue
    <3> QED BY <2>1, <2>2, <3>3 DEF Over
  <2>3. CASE n \notin DOMAIN base
    <3>1. layer[n] = full[n]
      BY <1>1, <1>2, <2>3
    <3>2. Over(base, layer)[n] = <<Head(layer[n])>>
      BY <2>1, <2>3 DEF Over
    <3> QED BY <3>1, <3>2, OnceValue
  <2> QED BY <2>2, <2>3
<1>7. Over(base, layer) = [n \in DOMAIN full |-> full[n]]
  <2>1. Over(base, layer) = [n \in DOMAIN Over(base, layer) |-> Over(base, layer)[n]]
    BY DEF Over
  <2> QED BY <1>5, <1>6, <2>1
<1> QED BY <1>4, <1>7, OnceIsFunction

LEMMA OverKeeps ==
    ASSUME NEW base, NEW layer
    PROVE  /\ DOMAIN base \subseteq DOMAIN Over(base, layer)
           /\ \A n \in DOMAIN base : Over(base, layer)[n] = base[n]
BY DEF Over

LEMMA OverHasLayer ==
    ASSUME NEW base, NEW layer, Once(base), Once(layer), Agree(base, layer)
    PROVE  \A n \in DOMAIN layer : n \in DOMAIN Over(base, layer)
                                   /\ Over(base, layer)[n] = layer[n]
<1> SUFFICES ASSUME NEW n \in DOMAIN layer
             PROVE  n \in DOMAIN Over(base, layer) /\ Over(base, layer)[n] = layer[n]
  OBVIOUS
<1>1. n \in DOMAIN Over(base, layer)
  BY DEF Over
<1>2. CASE n \in DOMAIN base
  <2>1. 1 \in DOMAIN layer[n] /\ layer[n] = <<layer[n][1]>>
    BY OnceValue
  <2>2. layer[n][1] = Last(base[n])
    BY <1>2, <2>1 DEF Agree
  <2>3. base[n] = layer[n]
    BY <1>2, <2>1, <2>2, OnceValue
  <2> QED BY <1>1, <1>2, <2>3 DEF Over
<1>3. CASE n \notin DOMAIN base
  <2>1. Over(base, layer)[n] = <<Head(layer[n])>>
    BY <1>3 DEF Over
  <2> QED BY <1>1, <2>1, OnceValue
<1> QED BY <1>2, <1>3

(***************************************************************************)
(* Models                                                                   *)
(***************************************************************************)
LEMMA ModelRoundTrip ==
    ASSUME NEW fm, NEW bm, IsModel(fm), IsModel(bm), Once(fm.fields), Once(bm.fields),
           SubtractsModel(fm, bm)
    PROVE  LET lm == ExtraModel(fm, bm)
               mm == MergedModel(bm, lm)
           IN  /\ MergesModel(bm, lm)
               /\ mm.internal = fm.internal /\ mm.virtual = fm.virtual
               /\ mm.search = fm.search /\ mm.fields = fm.fields
<1> DEFINE lm == ExtraModel(fm, bm)
           mm == MergedModel(bm, lm)
<1>1. /\ ~lm.internal /\ ~lm.virtual
      /\ lm.search = (IF fm.search = bm.search THEN None ELSE fm.search)
      /\ lm.fields = Extra(fm.fields, bm.fields)
  BY DEF ExtraModel
<1>2. Agree(bm.fields, lm.fields) /\ Over(bm.fields, lm.fields) = fm.fields
  BY <1>1, ListRoundTrip DEF SubtractsModel
<1>3. MergesModel(bm, lm)
  BY <1>1, <1>2 DEF MergesModel, SubtractsModel
<1>4. /\ mm.internal = bm.internal /\ mm.virtual = bm.virtual
      /\ mm.search = (IF lm.search = None THEN bm.search ELSE lm.search)
      /\ mm.fields = Over(bm.fields, lm.fields)
  BY DEF MergedModel, IsModel
<1> QED BY <1>1, <1>2, <1>3, <1>4 DEF SubtractsModel

\* A model as far as a layer's text has it: without filter and chart presets
SameModel(m, k) ==
    /\ m.internal = k.internal /\ m.virtual = k.virtual
    /\ m.search = k.search /\ m.fields = k.fields

LEMMA SameWhenNothingAdded ==
    ASSUME NEW fm, NEW bm, IsModel(fm), IsModel(bm), Once(fm.fields), Once(bm.fields),
           SubtractsModel(fm, bm), ~Adds(ExtraModel(fm, bm))
    PROVE  SameModel(bm, fm)
<1>1. DOMAIN Extra(fm.fields, bm.fields) = {}
  BY DEF Adds, ExtraModel
<1>2. (IF fm.search = bm.search THEN None ELSE fm.search) = None
  BY DEF Adds, ExtraModel
<1>3. Over(bm.fields, Extra(fm.fields, bm.fields)) = bm.fields
  <2>1. Over(bm.fields, Extra(fm.fields, bm.fields)) = [n \in DOMAIN bm.fields |-> bm.fields[n]]
    BY <1>1 DEF Over
  <2> QED BY <2>1, OnceIsFunction
<1>4. fm.fields = bm.fields
  BY <1>3, ListRoundTrip DEF SubtractsModel
<1>5. fm.search = bm.search
  BY <1>2 DEF SubtractsModel
<1> QED BY <1>4, <1>5 DEF SameModel, SubtractsModel

(***************************************************************************)
(* Specifications                                                           *)
(***************************************************************************)
LEMMA PartsApart ==
    /\ "models" \in Parts /\ "models" \notin SetParts /\ "models" \notin NamedParts
    /\ "models" \notin TextParts
    /\ SetParts \subseteq Parts /\ NamedParts \subseteq Parts /\ TextParts \subseteq Parts
    /\ BaseParts \subseteq Parts
    /\ SetParts \cap NamedParts = {} /\ SetParts \cap TextParts = {} /\ NamedParts \cap TextParts = {}
    /\ BaseParts \cap (SetParts \cup NamedParts \cup TextParts \cup {"models"}) = {}
BY DEF Parts, SetParts, NamedParts, TextParts, BaseParts

LEMMA MergePart ==
    ASSUME NEW base, NEW layer
    PROVE  /\ \A p \in TextParts :
                  Merge(base, layer)[p] = IF layer[p] = None THEN base[p] ELSE layer[p]
           /\ \A p \in SetParts : Merge(base, layer)[p] = base[p] \cup layer[p]
           /\ \A p \in NamedParts : Merge(base, layer)[p] = Over(base[p], layer[p])
           /\ \A p \in BaseParts : Merge(base, layer)[p] = base[p]
           /\ Merge(base, layer).models = MergedModels(base.models, layer.models)
<1>1. \A p \in Parts : Merge(base, layer)[p] = MergedPart(p, base[p], layer[p])
  BY DEF Merge
<1>2. ASSUME NEW p \in TextParts
      PROVE  Merge(base, layer)[p] = IF layer[p] = None THEN base[p] ELSE layer[p]
  BY <1>1, PartsApart DEF MergedPart
<1>3. ASSUME NEW p \in SetParts PROVE Merge(base, layer)[p] = base[p] \cup layer[p]
  BY <1>1, PartsApart DEF MergedPart
<1>4. ASSUME NEW p \in NamedParts PROVE Merge(base, layer)[p] = Over(base[p], layer[p])
  BY <1>1, PartsApart DEF MergedPart
<1>5. ASSUME NEW p \in BaseParts PROVE Merge(base, layer)[p] = base[p]
  BY <1>1, PartsApart DEF MergedPart
<1>6. Merge(base, layer).models = MergedModels(base.models, layer.models)
  BY <1>1, PartsApart DEF MergedPart
<1> QED BY <1>2, <1>3, <1>4, <1>5, <1>6

LEMMA SubtractPart ==
    ASSUME NEW full, NEW base
    PROVE  LET layer == Subtract(full, base)
           IN  /\ \A p \in TextParts : layer[p] = IF full[p] = base[p] THEN None ELSE full[p]
               /\ \A p \in SetParts : layer[p] = full[p] \ base[p]
               /\ \A p \in NamedParts : layer[p] = Extra(full[p], base[p])
               /\ layer.models = ExtraModels(full.models, base.models)
<1> DEFINE layer == Subtract(full, base)
<1>1. \A p \in Parts : layer[p] = ExtraPart(p, full[p], base[p])
  BY DEF Subtract
<1>2. ASSUME NEW p \in TextParts PROVE layer[p] = IF full[p] = base[p] THEN None ELSE full[p]
  BY <1>1, PartsApart DEF ExtraPart
<1>3. ASSUME NEW p \in SetParts PROVE layer[p] = full[p] \ base[p]
  BY <1>1, PartsApart DEF ExtraPart
<1>4. ASSUME NEW p \in NamedParts PROVE layer[p] = Extra(full[p], base[p])
  BY <1>1, PartsApart DEF ExtraPart
<1>5. layer.models = ExtraModels(full.models, base.models)
  BY <1>1, PartsApart DEF ExtraPart
<1> QED BY <1>2, <1>3, <1>4, <1>5

LEMMA MarshalledPart ==
    ASSUME NEW layer, layer = [p \in Parts |-> layer[p]], IsModels(layer.models),
           \A n \in DOMAIN layer.models : IsModel(layer.models[n])
    PROVE  LET stored == Marshalled(layer)
           IN  /\ \A p \in Parts \ {"models"} : stored[p] = layer[p]
               /\ DOMAIN stored.models = DOMAIN layer.models
               /\ \A n \in DOMAIN layer.models : SameModel(stored.models[n], layer.models[n])
<1> DEFINE stored == Marshalled(layer)
           texts == [n \in DOMAIN layer.models |-> [layer.models[n] EXCEPT !.presets = {}]]
<1>1. stored = [layer EXCEPT !.models = texts]
  BY DEF Marshalled
<1>2. \A p \in Parts \ {"models"} : stored[p] = layer[p]
  BY <1>1, PartsApart
<1>3. stored.models = texts
  BY <1>1, PartsApart
<1>4. ASSUME NEW n \in DOMAIN layer.models PROVE SameModel(stored.models[n], layer.models[n])
  <2>1. stored.models[n] = [layer.models[n] EXCEPT !.presets = {}]
    BY <1>3
  <2> QED BY <2>1 DEF SameModel, IsModel
<1> QED BY <1>2, <1>3, <1>4

\* What Merge makes of a layer does not depend on the presets of its models
LEMMA MergeSame ==
    ASSUME NEW bm, NEW lm, NEW km, SameModel(km, lm)
    PROVE  /\ MergesModel(bm, km) <=> MergesModel(bm, lm)
           /\ MergedModel(bm, km) = MergedModel(bm, lm)
BY DEF SameModel, MergesModel, MergedModel

LEMMA ModelsOfSubtract ==
    ASSUME NEW full, NEW base, OnceSpec(full), OnceSpec(base)
    PROVE  LET layer == Subtract(full, base)
           IN  /\ layer = [p \in Parts |-> layer[p]]
               /\ IsModels(layer.models)
               /\ \A n \in DOMAIN layer.models :
                      /\ IsModel(layer.models[n])
                      /\ n \in DOMAIN full.models
                      /\ n \in DOMAIN base.models =>
                             layer.models[n] = ExtraModel(full.models[n], base.models[n])
                      /\ n \notin DOMAIN base.models => layer.models[n] = full.models[n]
               /\ \A n \in DOMAIN full.models \ DOMAIN layer.models :
                      /\ n \in DOMAIN base.models
                      /\ ~Adds(ExtraModel(full.models[n], base.models[n]))
<1> DEFINE layer == Subtract(full, base)
           adds == {n \in DOMAIN full.models : n \notin DOMAIN base.models
                                                  \/ Adds(ExtraModel(full.models[n], base.models[n]))}
<1>1. layer = [p \in Parts |-> layer[p]]
  BY DEF Subtract
<1>2. layer.models = [n \in adds |-> IF n \in DOMAIN base.models
                                     THEN ExtraModel(full.models[n], base.models[n])
                                     ELSE full.models[n]]
  BY SubtractPart DEF ExtraModels
<1>3. DOMAIN layer.models = adds
  BY <1>2
<1>4. IsModels(layer.models)
  BY <1>2 DEF IsModels
<1>5. ASSUME NEW n \in adds
      PROVE  /\ IsModel(layer.models[n])
             /\ n \in DOMAIN base.models =>
                    layer.models[n] = ExtraModel(full.models[n], base.models[n])
             /\ n \notin DOMAIN base.models => layer.models[n] = full.models[n]
  <2>1. CASE n \in DOMAIN base.models
    <3>1. layer.models[n] = ExtraModel(full.models[n], base.models[n])
      BY <1>2, <2>1
    <3>2. IsModel(ExtraModel(full.models[n], base.models[n]))
      BY DEF ExtraModel, IsModel
    <3> QED BY <2>1, <3>1, <3>2
  <2>2. CASE n \notin DOMAIN base.models
    <3>1. layer.models[n] = full.models[n]
      BY <1>2, <2>2
    <3>2. IsModel(full.models[n])
      BY DEF OnceSpec
    <3> QED BY <2>2, <3>1, <3>2
  <2> QED BY <2>1, <2>2
<1> QED BY <1>1, <1>3, <1>4, <1>5

LEMMA ModelsRoundTrip ==
    ASSUME NEW full, NEW base, OnceSpec(full), OnceSpec(base), Subtracts(full, base)
    PROVE  LET stored == Marshalled(Subtract(full, base))
               merged == MergedModels(base.models, stored.models)
           IN  /\ \A n \in DOMAIN base.models \cap DOMAIN stored.models :
                      MergesModel(base.models[n], stored.models[n])
               /\ DOMAIN merged = DOMAIN full.models
               /\ \A n \in DOMAIN full.models : SameModel(merged[n], full.models[n])
<1> DEFINE layer == Subtract(full, base)
           stored == Marshalled(layer)
           merged == MergedModels(base.models, stored.models)
<1>1. /\ DOMAIN stored.models = DOMAIN layer.models
      /\ \A n \in DOMAIN layer.models : SameModel(stored.models[n], layer.models[n])
  BY ModelsOfSubtract, MarshalledPart
<1>2. DOMAIN base.models \subseteq DOMAIN full.models
  BY DEF Subtracts
<1>3. ASSUME NEW n \in DOMAIN base.models
      PROVE  /\ IsModel(full.models[n]) /\ Once(full.models[n].fields)
             /\ IsModel(base.models[n]) /\ Once(base.models[n].fields)
             /\ SubtractsModel(full.models[n], base.models[n])
  BY <1>2 DEF OnceSpec, Subtracts
<1>4. ASSUME NEW n \in DOMAIN base.models \cap DOMAIN stored.models
      PROVE  /\ MergesModel(base.models[n], stored.models[n])
             /\ SameModel(MergedModel(base.models[n], stored.models[n]), full.models[n])
  <2>1. layer.models[n] = ExtraModel(full.models[n], base.models[n])
    BY <1>1, ModelsOfSubtract
  <2>2. /\ MergesModel(base.models[n], layer.models[n])
        /\ SameModel(MergedModel(base.models[n], layer.models[n]), full.models[n])
    BY <1>3, <2>1, ModelRoundTrip DEF SameModel
  <2>3. SameModel(stored.models[n], layer.models[n])
    BY <1>1
  <2> QED BY <2>2, <2>3, MergeSame
<1>5. DOMAIN merged = DOMAIN base.models \cup DOMAIN stored.models
  BY DEF MergedModels
<1>6. DOMAIN full.models \subseteq DOMAIN base.models \cup DOMAIN layer.models
  BY ModelsOfSubtract
<1>7. DOMAIN layer.models \subseteq DOMAIN full.models
  BY ModelsOfSubtract
<1>8. DOMAIN merged = DOMAIN full.models
  BY <1>1, <1>2, <1>5, <1>6, <1>7
<1>9. ASSUME NEW n \in DOMAIN full.models
      PROVE  SameModel(merged[n], full.models[n])
  <2>1. CASE n \notin DOMAIN stored.models
    <3>1. n \in DOMAIN base.models /\ ~Adds(ExtraModel(full.models[n], base.models[n]))
      BY <1>1, <2>1, ModelsOfSubtract
    <3>2. merged[n] = base.models[n]
      BY <1>5, <1>8, <2>1 DEF MergedModels
    <3> QED BY <1>3, <3>1, <3>2, SameWhenNothingAdded
  <2>2. CASE n \in DOMAIN stored.models /\ n \in DOMAIN base.models
    <3>1. merged[n] = MergedModel(base.models[n], stored.models[n])
      BY <1>5, <1>8, <2>2 DEF MergedModels
    <3> QED BY <1>4, <2>2, <3>1
  <2>3. CASE n \in DOMAIN stored.models /\ n \notin DOMAIN base.models
    <3>1. merged[n] = stored.models[n]
      BY <1>5, <1>8, <2>3 DEF MergedModels
    <3>2. layer.models[n] = full.models[n] /\ SameModel(stored.models[n], layer.models[n])
      BY <1>1, <2>3, ModelsOfSubtract
    <3> QED BY <3>1, <3>2
  <2> QED BY <2>1, <2>2, <2>3
<1> QED BY <1>4, <1>8, <1>9

(***************************************************************************)
(* The theorems                                                             *)
(***************************************************************************)
\* A document an author submits is served as submitted: the layer the engine takes
\* out of it and stores stacks on the same base without a conflict, and gives the
\* document again, but for the presets of models and the parts only code has.
\* The document declares every name once and has its texts.  (appspec.Subtract,
\* MarshalDomain, Merge, as Domains.Apply uses them)
THEOREM DocumentComesBack ==
    ASSUME NEW full, NEW base, OnceSpec(full), OnceSpec(base),
           \A p \in TextParts : full[p] # None,
           Subtracts(full, base)
    PROVE  LET stored == Marshalled(Subtract(full, base))
           IN  /\ Merges(base, stored)
               /\ \A p \in SetParts \cup NamedParts \cup TextParts :
                      Merge(base, stored)[p] = full[p]
               /\ DOMAIN Merge(base, stored).models = DOMAIN full.models
               /\ \A n \in DOMAIN full.models :
                      SameModel(Merge(base, stored).models[n], full.models[n])
<1> DEFINE layer == Subtract(full, base)
           stored == Marshalled(layer)
<1>1. \A p \in Parts \ {"models"} : stored[p] = layer[p]
  BY ModelsOfSubtract, MarshalledPart
<1>2. \A p \in SetParts \cup NamedParts \cup TextParts : stored[p] = layer[p]
  BY <1>1, PartsApart
<1>3. ASSUME NEW p \in NamedParts
      PROVE  Agree(base[p], stored[p]) /\ Merge(base, stored)[p] = full[p]
  <2>1. stored[p] = Extra(full[p], base[p])
    BY <1>2, SubtractPart
  <2>2. Once(full[p]) /\ Once(base[p]) /\ Keeps(full[p], base[p])
    BY DEF OnceSpec, Subtracts
  <2>3. Merge(base, stored)[p] = Over(base[p], stored[p])
    BY MergePart
  <2> QED BY <2>1, <2>2, <2>3, ListRoundTrip
<1>4. ASSUME NEW p \in SetParts PROVE Merge(base, stored)[p] = full[p]
  <2>1. stored[p] = full[p] \ base[p] /\ base[p] \subseteq full[p]
    BY <1>2, SubtractPart DEF Subtracts
  <2>2. Merge(base, stored)[p] = base[p] \cup stored[p]
    BY MergePart
  <2> QED BY <2>1, <2>2
<1>5. ASSUME NEW p \in TextParts PROVE Merge(base, stored)[p] = full[p]
  <2>1. stored[p] = IF full[p] = base[p] THEN None ELSE full[p]
    BY <1>2, SubtractPart
  <2>2. full[p] # None
    OBVIOUS
  <2>3. Merge(base, stored)[p] = IF stored[p] = None THEN base[p] ELSE stored[p]
    BY MergePart
  <2> QED BY <2>1, <2>2, <2>3
<1>6. Merges(base, stored)
  BY <1>3, ModelsRoundTrip DEF Merges
<1>7. Merge(base, stored).models = MergedModels(base.models, stored.models)
  BY MergePart
<1> QED BY <1>3, <1>4, <1>5, <1>6, <1>7, ModelsRoundTrip

\* Stacking a layer takes nothing away from the base and changes nothing of it but
\* the texts and the search index of a model that has none, whatever the layer was
\* made for: what code of the app relies on is there.  (appspec.Merge,
\* mergeModels, mergeList)
THEOREM BaseIsKept ==
    ASSUME NEW base, NEW layer, Merges(base, layer),
           \A n \in DOMAIN base.models : IsModel(base.models[n])
    PROVE  LET spec == Merge(base, layer)
           IN  /\ \A p \in BaseParts : spec[p] = base[p]
               /\ \A p \in SetParts : base[p] \subseteq spec[p]
               /\ \A p \in NamedParts : \A n \in DOMAIN base[p] :
                      n \in DOMAIN spec[p] /\ spec[p][n] = base[p][n]
               /\ \A n \in DOMAIN base.models :
                      LET m == base.models[n]
                          s == spec.models[n]
                      IN  /\ n \in DOMAIN spec.models
                          /\ s.internal = m.internal /\ s.virtual = m.virtual
                          /\ s.presets = m.presets
                          /\ m.search # None => s.search = m.search
                          /\ \A f \in DOMAIN m.fields :
                                 f \in DOMAIN s.fields /\ s.fields[f] = m.fields[f]
<1> DEFINE spec == Merge(base, layer)
<1>1. \A p \in BaseParts : spec[p] = base[p]
  BY MergePart
<1>2. \A p \in SetParts : base[p] \subseteq spec[p]
  BY MergePart
<1>3. ASSUME NEW p \in NamedParts, NEW n \in DOMAIN base[p]
      PROVE  n \in DOMAIN spec[p] /\ spec[p][n] = base[p][n]
  <2>1. spec[p] = Over(base[p], layer[p])
    BY MergePart
  <2> QED BY <2>1, OverKeeps
<1>4. ASSUME NEW n \in DOMAIN base.models
      PROVE  LET m == base.models[n]
                 s == spec.models[n]
             IN  /\ n \in DOMAIN spec.models
                 /\ s.internal = m.internal /\ s.virtual = m.virtual
                 /\ s.presets = m.presets
                 /\ m.search # None => s.search = m.search
                 /\ \A f \in DOMAIN m.fields :
                        f \in DOMAIN s.fields /\ s.fields[f] = m.fields[f]
  <2> DEFINE m == base.models[n]
             s == spec.models[n]
             lm == layer.models[n]
  <2>1. spec.models = MergedModels(base.models, layer.models)
    BY MergePart
  <2>2. n \in DOMAIN spec.models
    BY <2>1 DEF MergedModels
  <2>3. CASE n \notin DOMAIN layer.models
    <3>1. s = m
      BY <2>1, <2>3 DEF MergedModels
    <3> QED BY <2>2, <3>1
  <2>4. CASE n \in DOMAIN layer.models
    <3>1. s = MergedModel(m, lm)
      BY <2>1, <2>4 DEF MergedModels
    <3>2. MergesModel(m, lm)
      BY <2>4 DEF Merges
    <3>3. /\ s.internal = m.internal /\ s.virtual = m.virtual /\ s.presets = m.presets
          /\ s.search = (IF lm.search = None THEN m.search ELSE lm.search)
          /\ s.fields = Over(m.fields, lm.fields)
      BY <3>1 DEF MergedModel, IsModel
    <3>4. m.search # None => s.search = m.search
      BY <3>2, <3>3 DEF MergesModel
    <3>5. \A f \in DOMAIN m.fields : f \in DOMAIN s.fields /\ s.fields[f] = m.fields[f]
      BY <3>3, OverKeeps
    <3> QED BY <2>2, <3>3, <3>4, <3>5
  <2> QED BY <2>3, <2>4
<1> QED BY <1>1, <1>2, <1>3, <1>4

\* Stacking a layer on any base it does not contradict loses nothing of the layer:
\* after an upgrade the author's declarations are there as they were stored, and a
\* layer that would have to give one up is refused.  (appspec.Merge under
\* resolveCompiled)
THEOREM LayerIsKept ==
    ASSUME NEW base, NEW layer, OnceSpec(base), OnceSpec(layer), Merges(base, layer)
    PROVE  LET spec == Merge(base, layer)
           IN  /\ \A p \in SetParts : layer[p] \subseteq spec[p]
               /\ \A p \in TextParts : layer[p] # None => spec[p] = layer[p]
               /\ \A p \in NamedParts : \A n \in DOMAIN layer[p] :
                      n \in DOMAIN spec[p] /\ spec[p][n] = layer[p][n]
               /\ \A n \in DOMAIN layer.models :
                      LET lm == layer.models[n]
                          s == spec.models[n]
                      IN  /\ n \in DOMAIN spec.models
                          /\ lm.search # None => s.search = lm.search
                          /\ \A f \in DOMAIN lm.fields :
                                 f \in DOMAIN s.fields /\ s.fields[f] = lm.fields[f]
<1> DEFINE spec == Merge(base, layer)
<1>1. \A p \in SetParts : layer[p] \subseteq spec[p]
  BY MergePart
<1>2. \A p \in TextParts : layer[p] # None => spec[p] = layer[p]
  BY MergePart
<1>3. ASSUME NEW p \in NamedParts, NEW n \in DOMAIN layer[p]
      PROVE  n \in DOMAIN spec[p] /\ spec[p][n] = layer[p][n]
  <2>1. spec[p] = Over(base[p], layer[p])
    BY MergePart
  <2>2. Once(base[p]) /\ Once(layer[p]) /\ Agree(base[p], layer[p])
    BY DEF OnceSpec, Merges
  <2> QED BY <2>1, <2>2, OverHasLayer
<1>4. ASSUME NEW n \in DOMAIN layer.models
      PROVE  LET lm == layer.models[n]
                 s == spec.models[n]
             IN  /\ n \in DOMAIN spec.models
                 /\ lm.search # None => s.search = lm.search
                 /\ \A f \in DOMAIN lm.fields :
                        f \in DOMAIN s.fields /\ s.fields[f] = lm.fields[f]
  <2> DEFINE m == base.models[n]
             lm == layer.models[n]
             s == spec.models[n]
  <2>1. spec.models = MergedModels(base.models, layer.models)
    BY MergePart
  <2>2. n \in DOMAIN spec.models
    BY <2>1 DEF MergedModels
  <2>3. CASE n \notin DOMAIN base.models
    <3>1. s = lm
      BY <2>1, <2>3 DEF MergedModels
    <3> QED BY <2>2, <3>1
  <2>4. CASE n \in DOMAIN base.models
    <3>1. s = MergedModel(m, lm)
      BY <2>1, <2>4 DEF MergedModels
    <3>2. IsModel(m) /\ Once(m.fields) /\ Once(lm.fields)
      BY <2>4 DEF OnceSpec
    <3>3. Agree(m.fields, lm.fields)
      BY <2>4 DEF Merges, MergesModel
    <3>4. /\ s.search = (IF lm.search = None THEN m.search ELSE lm.search)
          /\ s.fields = Over(m.fields, lm.fields)
      BY <3>1, <3>2 DEF MergedModel, IsModel
    <3> QED BY <2>2, <3>2, <3>3, <3>4, OverHasLayer
  <2> QED BY <2>3, <2>4
<1> QED BY <1>1, <1>2, <1>3, <1>4
=============================================================================
