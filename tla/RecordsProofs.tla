---------------------------- MODULE RecordsProofs ----------------------------
(***************************************************************************)
(* Proofs about module Records, for any records, callers, policies, hooks   *)
(* and bounds.                                                              *)
(***************************************************************************)
EXTENDS Records, FiniteSetTheorems, TLAPS

-----------------------------------------------------------------------------
(* The inductive invariant *)

\* The value of a field as the declaration wants it
Declared(f, v) == v \in Valid[f] /\ (HooksFill /\ f \in Required => v # Empty)

ValidVals ==
    {v \in [Fields -> UNION {Valid[f] : f \in Fields}] : \A f \in Fields : Declared(f, v[f])}

Rows == {NoRow} \cup [vals : ValidVals, deleted : BOOLEAN, exists : {TRUE}]

\* What is about to be written is nil or as declared, and is what the caller or a
\* hook asked for
ReadyToWrite(r) ==
    \A f \in Fields \cap DOMAIN r.fields :
        f \in r.asked /\ (r.fields[f] = Nil \/ Declared(f, r.fields[f]))

\* A row that was loaded is there, though it may be deleted by now
CallInv(r, table) ==
    /\ DOMAIN r = DOMAIN Idle
    /\ r.pc \in {"authorize", "write"} => r.id \in Ids
    /\ r.pc = "authorize" => r.op # "create"
    /\ r.pc \in {"authorize", "write"} /\ r.op # "create" => table[r.id].exists
    /\ r.pc = "write" /\ r.op # "delete" => ReadyToWrite(r)

IInv ==
    /\ rows \in [Ids -> Rows]
    /\ DOMAIN call = Callers
    /\ \A c \in Callers : CallInv(call[c], rows)

-----------------------------------------------------------------------------
(* Lemmas *)

\* What leaves Validated is nil or as declared, field by field, if the required
\* fields of what came in were filled.
LEMMA ValidatedIsDeclared ==
    ASSUME NEW p, NEW asked, HasRequired(p), NEW h \in Validated(p, asked),
           DOMAIN p \cap Fields \subseteq asked
    PROVE  ReadyToWrite(h)
  <1>1. PICK w \in HookWrites :
           /\ h = [fields |-> Hooked(w, p), asked |-> asked \cup DOMAIN w.sets]
           /\ ValidateSpecFields(Hooked(w, p))
    BY DEF Validated
  <1>2. /\ DOMAIN Hooked(w, p) \subseteq DOMAIN w.sets \cup DOMAIN p
        /\ \A x \in DOMAIN Hooked(w, p) :
              Hooked(w, p)[x] = IF x \in DOMAIN w.sets THEN w.sets[x] ELSE p[x]
    BY DEF Hooked, SetBy
  <1> SUFFICES ASSUME NEW f \in Fields \cap DOMAIN h.fields, h.fields[f] # Nil
               PROVE  f \in h.asked /\ Declared(f, h.fields[f])
    BY <1>1, <1>2 DEF ReadyToWrite
  <1>3. f \in DOMAIN w.sets \cup DOMAIN p /\ h.fields[f] \in Valid[f]
    BY <1>1, <1>2 DEF ValidateSpecFields
  <1>4. CASE f \in DOMAIN w.sets
    BY <1>1, <1>2, <1>3, <1>4 DEF Declared, HooksFill
  <1>5. CASE f \notin DOMAIN w.sets
    BY <1>1, <1>2, <1>3, <1>5 DEF Declared, HasRequired
  <1> QED
    BY <1>3, <1>4, <1>5

\* A step that leaves the rows alone and one call in order keeps the invariant.
LEMMA CallChanges ==
    ASSUME IInv, NEW c \in Callers, NEW r, CallInv(r, rows),
           call' = [call EXCEPT ![c] = r], rows' = rows
    PROVE  IInv'
  BY DEF IInv

\* What a row was keeps its calls in order, if no row goes.
LEMMA RowsKeepCalls ==
    ASSUME NEW r, NEW old, NEW new, CallInv(r, old),
           \A id \in Ids : old[id].exists => new[id].exists
    PROVE  CallInv(r, new)
  BY DEF CallInv

\* A call that has left the two steps before its write is in order.
LEMMA AfterWrite ==
    ASSUME NEW r, NEW table, DOMAIN r = DOMAIN Idle, r.pc \notin {"authorize", "write"}
    PROVE  CallInv(r, table)
  BY DEF CallInv

LEMMA IdleShape == DOMAIN Idle = {"pc", "op", "id", "asked", "fields", "rec", "todo"}
                   /\ Idle.pc = "idle"
  BY DEF Idle

-----------------------------------------------------------------------------
(* The steps *)

LEMMA BeginCreateStep ==
    ASSUME IInv, NEW c \in Callers, BeginCreate(c)
    PROVE  IInv'
  <1>1. PICK id \in Ids, in \in CreateWith :
           /\ HasRequired(NormalizeFields(in, TRUE))
           /\ \E h \in Validated(NormalizeFields(in, TRUE), Fields) :
                Start(c, [Idle EXCEPT !.pc = "write", !.op = "create", !.id = id,
                                      !.asked = h.asked, !.fields = h.fields])
           /\ UNCHANGED rows
    BY DEF BeginCreate, tableVars
  <1> DEFINE p == NormalizeFields(in, TRUE)
  <1>2. PICK h \in Validated(p, Fields) :
           Start(c, [Idle EXCEPT !.pc = "write", !.op = "create", !.id = id,
                                 !.asked = h.asked, !.fields = h.fields])
    BY <1>1
  <1> DEFINE r == [Idle EXCEPT !.pc = "write", !.op = "create", !.id = id,
                               !.asked = h.asked, !.fields = h.fields]
  <1>3. DOMAIN p = Fields
    BY DEF NormalizeFields
  <1>4. ReadyToWrite(h)
    <2> HIDE DEF p
    <2> QED
      BY <1>1, <1>2, <1>3, ValidatedIsDeclared DEF p
  <1>5. /\ DOMAIN r = DOMAIN Idle /\ r.pc = "write" /\ r.op = "create" /\ r.id = id
        /\ r.asked = h.asked /\ r.fields = h.fields
    BY DEF Idle
  <1>6. CallInv(r, rows)
    BY <1>4, <1>5 DEF CallInv, ReadyToWrite
  <1>7. call' = [call EXCEPT ![c] = r]
    BY <1>2 DEF Start
  <1> HIDE DEF r
  <1> QED
    BY <1>1, <1>6, <1>7, CallChanges

LEMMA BeginChangeStep ==
    ASSUME IInv, NEW c \in Callers, BeginChange(c)
    PROVE  IInv'
  <1>1. PICK id \in Ids, op \in {"update", "delete"}, in \in UpdateWith \cup {<< >>} :
           /\ Live(id)
           /\ Start(c, [Idle EXCEPT !.pc = "authorize", !.op = op, !.id = id,
                                    !.asked = DOMAIN in, !.fields = in,
                                    !.rec = rows[id].vals])
           /\ UNCHANGED rows
    BY DEF BeginChange, tableVars
  <1> DEFINE r == [Idle EXCEPT !.pc = "authorize", !.op = op, !.id = id,
                               !.asked = DOMAIN in, !.fields = in, !.rec = rows[id].vals]
  <1>2. DOMAIN r = DOMAIN Idle /\ r.pc = "authorize" /\ r.op = op /\ r.id = id
    BY DEF Idle
  <1>3. CallInv(r, rows)
    BY <1>1, <1>2 DEF CallInv, Live
  <1>4. call' = [call EXCEPT ![c] = r]
    BY <1>1 DEF Start
  <1> HIDE DEF r
  <1> QED
    BY <1>1, <1>3, <1>4, CallChanges

LEMMA AuthorizeUpdateStep ==
    ASSUME IInv, NEW c \in Callers, AuthorizeUpdate(c)
    PROVE  IInv'
  <1> DEFINE in == call[c].fields
             p == NormalizeFields(in, FALSE)
  <1>1. /\ call[c].pc = "authorize" /\ call[c].op = "update" /\ HasRequired(p)
        /\ UNCHANGED rows
    BY DEF AuthorizeUpdate, Authorized, tableVars
  <1>2. PICK h \in Validated(p, DOMAIN in \ Readonly) :
           call' = [call EXCEPT ![c].pc = "write", ![c].rec = NoRecord,
                                ![c].fields = h.fields, ![c].asked = h.asked]
    BY DEF AuthorizeUpdate
  <1> DEFINE r == [call[c] EXCEPT !.pc = "write", !.rec = NoRecord,
                                  !.fields = h.fields, !.asked = h.asked]
  <1>3. DOMAIN p \subseteq DOMAIN in \ Readonly
    BY DEF NormalizeFields, Given
  <1>4. ReadyToWrite(h)
    <2> HIDE DEF p, in
    <2> QED
      BY <1>1, <1>2, <1>3, ValidatedIsDeclared
  <1>5. CallInv(call[c], rows) /\ DOMAIN call = Callers
    BY DEF IInv
  <1>6. /\ DOMAIN r = DOMAIN Idle /\ r.pc = "write" /\ r.op = call[c].op /\ r.id = call[c].id
        /\ r.asked = h.asked /\ r.fields = h.fields
    BY <1>5, IdleShape DEF CallInv
  <1>7. CallInv(r, rows)
    BY <1>1, <1>4, <1>5, <1>6 DEF CallInv, ReadyToWrite
  <1>8. call' = [call EXCEPT ![c] = r]
    BY <1>2, <1>5
  <1> HIDE DEF r
  <1> QED
    BY <1>1, <1>7, <1>8, CallChanges

LEMMA AuthorizeDeleteStep ==
    ASSUME IInv, NEW c \in Callers, AuthorizeDelete(c)
    PROVE  IInv'
  <1> DEFINE r == [call[c] EXCEPT !.pc = "write", !.rec = NoRecord]
  <1>1. /\ call[c].pc = "authorize" /\ call[c].op = "delete" /\ UNCHANGED rows
        /\ call' = [call EXCEPT ![c].pc = "write", ![c].rec = NoRecord]
    BY DEF AuthorizeDelete, tableVars
  <1>2. CallInv(call[c], rows) /\ DOMAIN call = Callers
    BY DEF IInv
  <1>3. DOMAIN r = DOMAIN Idle /\ r.pc = "write" /\ r.op = call[c].op /\ r.id = call[c].id
    BY <1>2, IdleShape DEF CallInv
  <1>4. CallInv(r, rows)
    BY <1>1, <1>2, <1>3 DEF CallInv
  <1>5. call' = [call EXCEPT ![c] = r]
    BY <1>1, <1>2
  <1> HIDE DEF r
  <1> QED
    BY <1>1, <1>4, <1>5, CallChanges

\* A call that does not write, and goes where it has nothing to write
LEMMA PassingStep ==
    ASSUME IInv, NEW c \in Callers, rows' = rows,
           \/ call' = call
           \/ \E r : /\ call' = [call EXCEPT ![c] = r]
                     /\ DOMAIN r = DOMAIN Idle /\ r.pc \notin {"authorize", "write"}
    PROVE  IInv'
  <1>1. CASE call' = call
    BY <1>1 DEF IInv
  <1>2. CASE \E r : /\ call' = [call EXCEPT ![c] = r]
                    /\ DOMAIN r = DOMAIN Idle /\ r.pc \notin {"authorize", "write"}
    BY <1>2, AfterWrite, CallChanges
  <1> QED
    BY <1>1, <1>2

LEMMA EndStep ==
    ASSUME IInv, NEW c \in Callers,
           \/ Refused(c) \/ RefusedByHook(c) \/ WriteFails(c)
           \/ NotIndexed(c) \/ RemoteFails(c) \/ ReindexDone(c)
    PROVE  IInv'
  <1>1. rows' = rows /\ call' = [call EXCEPT ![c] = Idle]
    BY DEF Refused, RefusedByHook, WriteFails, NotIndexed, RemoteFails, ReindexDone, Finish,
           tableVars
  <1> QED
    BY <1>1, IdleShape, PassingStep

LEMMA IndexStep ==
    ASSUME IInv, NEW c \in Callers,
           Reread(c) \/ SyncMemory(c) \/ SyncRemote(c) \/ ReindexOne(c) \/ ReindexSearchModel(c)
    PROVE  IInv'
  <1>1. rows' = rows
    BY DEF Reread, SyncMemory, SyncRemote, ReindexOne, ReindexSearchModel, tableVars
  <1>2. DOMAIN call = Callers /\ DOMAIN call[c] = DOMAIN Idle
    BY DEF IInv, CallInv
  <1> DEFINE Passes(r) == DOMAIN r = DOMAIN Idle /\ r.pc \notin {"authorize", "write"}
  <1>3. CASE Reread(c)
    <2> DEFINE r == [call[c] EXCEPT !.pc = "memory", !.rec = rows[call[c].id].vals]
    <2>1. Passes(r)
      BY <1>2, IdleShape
    <2>2. call' = [call EXCEPT ![c] = Idle] \/ call' = [call EXCEPT ![c] = r]
      BY <1>2, <1>3 DEF Reread, Finish
    <2> HIDE DEF r
    <2> QED
      BY <1>1, <2>1, <2>2, IdleShape, PassingStep
  <1>4. CASE SyncMemory(c)
    <2> DEFINE doc == IF call[c].op = "delete" THEN NoDoc ELSE BuildDocument(call[c].rec)
               r == [call[c] EXCEPT !.pc = "remote", !.fields = doc, !.rec = NoRecord]
    <2> HIDE DEF doc
    <2>1. Passes(r)
      BY <1>2, IdleShape
    <2>2. call' = [call EXCEPT ![c] = r]
      BY <1>2, <1>4 DEF SyncMemory, doc
    <2> HIDE DEF r
    <2> QED
      BY <1>1, <2>1, <2>2, PassingStep
  <1>5. CASE SyncRemote(c)
    <2> DEFINE r == [call[c] EXCEPT !.pc = "memory", !.fields = << >>]
    <2>1. Passes(r)
      BY <1>2, IdleShape
    <2>2. call' = [call EXCEPT ![c] = Idle] \/ call' = [call EXCEPT ![c] = r]
      BY <1>2, <1>5 DEF SyncRemote, Finish
    <2> HIDE DEF r
    <2> QED
      BY <1>1, <2>1, <2>2, IdleShape, PassingStep
  <1>6. CASE ReindexOne(c)
    <2>1. PICK id \in call[c].todo :
             call' = [call EXCEPT ![c].pc = "remote", ![c].id = id, ![c].todo = @ \ {id},
                                  ![c].fields = BuildDocument(call[c].rec[id])]
      BY <1>6 DEF ReindexOne
    <2> DEFINE doc == BuildDocument(call[c].rec[id])
               r == [call[c] EXCEPT !.pc = "remote", !.id = id, !.todo = @ \ {id},
                                    !.fields = doc]
    <2>2. call' = [call EXCEPT ![c] = r]
      BY <1>2, <2>1
    <2> HIDE DEF doc
    <2>3. Passes(r)
      BY <1>2, IdleShape
    <2> HIDE DEF r
    <2> QED
      BY <1>1, <2>2, <2>3, PassingStep
  <1>7. CASE ReindexSearchModel(c)
    <2> DEFINE found == {id \in Ids : Live(id)}
               vals == [id \in Ids |-> rows[id].vals]
               r == [Idle EXCEPT !.pc = "memory", !.op = "reindex", !.todo = found, !.rec = vals]
    <2>1. call' = [call EXCEPT ![c] = r] \/ call' = call
      BY <1>7 DEF ReindexSearchModel, Start
    <2> HIDE DEF found, vals
    <2>2. Passes(r)
      BY IdleShape DEF Idle
    <2> HIDE DEF r
    <2> QED
      BY <1>1, <2>1, <2>2, PassingStep
  <1> QED
    BY <1>3, <1>4, <1>5, <1>6, <1>7

\* A row that exists has all its fields.
LEMMA ExistingRow ==
    ASSUME NEW row \in Rows, row.exists
    PROVE  row \in [vals : ValidVals, deleted : BOOLEAN, exists : {TRUE}]
  <1>1. NoRow.exists = FALSE
    BY DEF NoRow
  <1>2. row # NoRow
    BY <1>1
  <1> QED
    BY <1>2 DEF Rows

LEMMA LiveRow ==
    ASSUME IInv, NEW id \in Ids, Live(id)
    PROVE  rows[id].vals \in ValidVals /\ rows \in [Ids -> Rows]
  <1>1. rows \in [Ids -> Rows] /\ rows[id] \in Rows /\ rows[id].exists
    BY DEF IInv, Live
  <1>2. rows[id] \in [vals : ValidVals, deleted : BOOLEAN, exists : {TRUE}]
    BY <1>1, ExistingRow
  <1> QED
    BY <1>1, <1>2

\* A write of one row, after which its call has nothing to write
LEMMA WriteKeeps ==
    ASSUME IInv, NEW c \in Callers, NEW id \in Ids, NEW row \in Rows,
           rows' = [rows EXCEPT ![id] = row], rows[id].exists => row.exists,
           NEW r, call' = [call EXCEPT ![c] = r],
           DOMAIN r = DOMAIN Idle, r.pc \notin {"authorize", "write"}
    PROVE  IInv'
  <1>1. rows' \in [Ids -> Rows]
    BY DEF IInv
  <1>2. \A i \in Ids : rows[i].exists => rows'[i].exists
    BY DEF IInv
  <1>3. ASSUME NEW d \in Callers PROVE CallInv(call'[d], rows')
    <2>1. CASE d = c
      BY <2>1, AfterWrite DEF IInv
    <2>2. CASE d # c
      BY <1>2, <2>2, RowsKeepCalls DEF IInv
    <2> QED
      BY <2>1, <2>2
  <1> QED
    BY <1>1, <1>3 DEF IInv

\* What Written makes of a call
LEMMA WrittenCall ==
    ASSUME IInv, NEW c \in Callers, NEW pc, pc \notin {"authorize", "write"}, Written(c, pc)
    PROVE  \E r : /\ call' = [call EXCEPT ![c] = r]
                  /\ DOMAIN r = DOMAIN Idle /\ r.pc \notin {"authorize", "write"}
  <1> DEFINE r == [call[c] EXCEPT !.pc = pc, !.fields = << >>, !.asked = {}]
  <1>1. DOMAIN call = Callers /\ DOMAIN call[c] = DOMAIN Idle
    BY DEF IInv, CallInv
  <1>2. DOMAIN r = DOMAIN Idle /\ r.pc = pc
    BY <1>1, IdleShape
  <1>3. call' = [call EXCEPT ![c] = r]
    BY <1>1 DEF Written
  <1> HIDE DEF r
  <1> QED
    BY <1>2, <1>3

LEMMA InsertRecordStep ==
    ASSUME IInv, NEW c \in Callers, InsertRecord(c)
    PROVE  IInv'
  <1> DEFINE vals == [f \in Fields |-> call[c].fields[f]]
  <1>1. /\ call[c].pc = "write" /\ call[c].op = "create" /\ Written(c, "reread")
        /\ rows' = [rows EXCEPT ![call[c].id] = Row(vals)]
    BY DEF InsertRecord
  <1>2. call[c].id \in Ids /\ ReadyToWrite(call[c])
        /\ \A f \in Fields : f \in DOMAIN call[c].fields /\ call[c].fields[f] # Nil
    BY <1>1 DEF InsertRecord, Takes, Columns, IInv, CallInv
  <1>3. \A f \in Fields : Declared(f, vals[f])
    BY <1>2 DEF ReadyToWrite
  <1>4. vals \in ValidVals
    BY <1>3 DEF ValidVals, Declared
  <1> HIDE DEF vals
  <1>5. Row(vals) \in Rows /\ Row(vals).exists
    BY <1>4 DEF Row, Rows
  <1> QED
    BY <1>1, <1>2, <1>5, WrittenCall, WriteKeeps

LEMMA UpdateRecordStep ==
    ASSUME IInv, NEW c \in Callers, UpdateRecord(c)
    PROVE  IInv'
  <1> DEFINE id == call[c].id
             old == rows[id]
             vals == [f \in Fields |-> IF f \in DOMAIN call[c].fields THEN call[c].fields[f]
                                       ELSE old.vals[f]]
             row == [old EXCEPT !.vals = vals]
  <1>1. call[c].pc = "write" /\ call[c].op = "update" /\ Written(c, "reread")
    BY DEF UpdateRecord
  <1>2. id \in Ids /\ old.exists /\ ReadyToWrite(call[c]) /\ rows \in [Ids -> Rows]
        /\ \A f \in Fields \cap DOMAIN call[c].fields : call[c].fields[f] # Nil
    BY <1>1 DEF UpdateRecord, Takes, Columns, IInv, CallInv
  <1>3. rows' = [rows EXCEPT ![id] = row]
    BY <1>2 DEF UpdateRecord
  <1>4. old \in [vals : ValidVals, deleted : BOOLEAN, exists : {TRUE}]
    BY <1>2, ExistingRow
  <1>5. \A f \in Fields : Declared(f, vals[f])
    BY <1>2, <1>4 DEF ReadyToWrite, ValidVals
  <1>6. vals \in ValidVals
    BY <1>5 DEF ValidVals, Declared
  <1> HIDE DEF vals
  <1>7. row \in Rows /\ row.exists
    BY <1>4, <1>6 DEF Rows
  <1> HIDE DEF row, old, id
  <1> QED
    BY <1>1, <1>2, <1>3, <1>7, WrittenCall, WriteKeeps

LEMMA SoftDeleteRecordStep ==
    ASSUME IInv, NEW c \in Callers, SoftDeleteRecord(c)
    PROVE  IInv'
  <1> DEFINE id == call[c].id
             old == rows[id]
             row == [old EXCEPT !.deleted = TRUE]
  <1>1. call[c].pc = "write" /\ call[c].op = "delete" /\ Written(c, "memory")
    BY DEF SoftDeleteRecord
  <1>2. id \in Ids /\ old.exists /\ rows \in [Ids -> Rows]
    BY <1>1 DEF IInv, CallInv
  <1>3. rows' = [rows EXCEPT ![id] = row]
    BY <1>2 DEF SoftDeleteRecord
  <1>4. old \in [vals : ValidVals, deleted : BOOLEAN, exists : {TRUE}]
    BY <1>2, ExistingRow
  <1>5. row \in Rows /\ row.exists
    BY <1>4 DEF Rows
  <1> HIDE DEF row, old, id
  <1> QED
    BY <1>1, <1>2, <1>3, <1>5, WrittenCall, WriteKeeps

LEMMA OtherStep ==
    ASSUME IInv,
           \/ SeedPolicy \/ \E seed \in Seeds : DisableEntry(seed.name)
           \/ UpdateSearchModelConfig \/ Restart
    PROVE  IInv'
  <1>1. CASE Restart
    BY <1>1, IdleShape, AfterWrite DEF Restart, IInv, tableVars
  <1>2. CASE UpdateSearchModelConfig
    BY <1>2 DEF UpdateSearchModelConfig, IInv, tableVars
  <1>3. CASE SeedPolicy \/ \E seed \in Seeds : DisableEntry(seed.name)
    BY <1>3 DEF SeedPolicy, DisableEntry, IInv
  <1> QED
    BY <1>1, <1>2, <1>3

-----------------------------------------------------------------------------
(* The theorems *)

LEMMA InvInit == Init => IInv
  BY IdleShape, AfterWrite DEF Init, IInv, Rows

\* The invariant is inductive.
LEMMA InvStep == IInv /\ [Next]_vars => IInv'
  <1> SUFFICES ASSUME IInv, [Next]_vars PROVE IInv'
    OBVIOUS
  <1>1. ASSUME NEW c \in Callers, CallStep(c) PROVE IInv'
    BY <1>1, BeginCreateStep, BeginChangeStep, AuthorizeUpdateStep, AuthorizeDeleteStep,
       EndStep, IndexStep, InsertRecordStep, UpdateRecordStep, SoftDeleteRecordStep DEF CallStep
  <1>2. CASE UNCHANGED vars
    BY <1>2 DEF vars, IInv
  <1> QED
    BY <1>1, <1>2, OtherStep DEF Next

LEMMA InvHolds == Spec => []IInv
  BY InvInit, InvStep, PTL DEF Spec

\* Whatever hooks set and in whatever order calls load, write and delete, what is
\* stored is as the model declares it.
THEOREM StoredRecordsAreValid == Spec => []StoredIsValid
  <1>1. IInv => StoredIsValid
    <2> SUFFICES ASSUME IInv, NEW id \in Ids, Live(id)
                 PROVE  /\ \A f \in Fields : rows[id].vals[f] \in Valid[f]
                        /\ HooksFill => \A f \in Required : rows[id].vals[f] # Empty
      BY DEF StoredIsValid
    <2>1. rows[id].vals \in ValidVals
      BY LiveRow
    <2> QED
      BY <2>1, RecordsAssumption DEF ValidVals, Declared
  <1> QED
    BY <1>1, InvHolds, PTL

\* Only InsertRecord, UpdateRecord and SoftDeleteRecord write rows.
LEMMA OnlyWritesChangeRows ==
    ASSUME [Next]_vars
    PROVE  rows' = rows \/ \E c \in Callers :
               InsertRecord(c) \/ UpdateRecord(c) \/ SoftDeleteRecord(c)
  <1>1. ASSUME NEW c \in Callers, CallStep(c),
               ~(InsertRecord(c) \/ UpdateRecord(c) \/ SoftDeleteRecord(c))
        PROVE  rows' = rows
    BY <1>1 DEF CallStep, BeginCreate, BeginChange, ReindexSearchModel, Refused, RefusedByHook,
                AuthorizeUpdate, AuthorizeDelete, WriteFails, Reread, NotIndexed, SyncMemory,
                SyncRemote, RemoteFails, ReindexOne, ReindexDone, tableVars
  <1>2. ASSUME \/ SeedPolicy \/ \E seed \in Seeds : DisableEntry(seed.name)
               \/ UpdateSearchModelConfig \/ Restart \/ UNCHANGED vars
        PROVE  rows' = rows
    BY <1>2 DEF SeedPolicy, DisableEntry, UpdateSearchModelConfig, Restart, tableVars, vars
  <1> QED
    BY <1>1, <1>2 DEF Next

\* Whatever other calls do between the loading and the writing of a record, a write
\* changes no field but those its caller or a hook asked for.
THEOREM WritesMerge == Spec => UpdatesMerge
  <1> DEFINE Merges(id, f) ==
               rows'[id].exists /\ rows'[id].vals[f] # rows[id].vals[f] =>
                   \E c \in Callers :
                       Writing(c, id) /\ call'[c].pc # "write" /\ f \in call[c].asked
             Step == \A id \in Ids : Live(id) => \A f \in Fields : Merges(id, f)
  <1>1. IInv /\ [Next]_vars => Step
    <2> SUFFICES ASSUME IInv, [Next]_vars, NEW id \in Ids, Live(id), NEW f \in Fields,
                        rows'[id].vals[f] # rows[id].vals[f]
                 PROVE  \E c \in Callers :
                           Writing(c, id) /\ call'[c].pc # "write" /\ f \in call[c].asked
      OBVIOUS
    <2>1. rows \in [Ids -> Rows] /\ rows[id].vals \in ValidVals
      BY LiveRow
    <2>2. PICK c \in Callers : InsertRecord(c) \/ UpdateRecord(c) \/ SoftDeleteRecord(c)
      BY OnlyWritesChangeRows
    <2>3. call[c].pc = "write" /\ call[c].id \in Ids /\ call'[c].pc # "write"
      <3>1. call[c].pc = "write" /\ (Written(c, "reread") \/ Written(c, "memory"))
        BY <2>2 DEF InsertRecord, UpdateRecord, SoftDeleteRecord
      <3>2. call'[c].pc # "write"
        BY <3>1, WrittenCall DEF IInv
      <3> QED
        BY <3>1, <3>2 DEF IInv, CallInv
    <2>4. CASE InsertRecord(c)
      <3>1. id = call[c].id
        BY <2>1, <2>3, <2>4 DEF InsertRecord
      <3>2. f \in call[c].asked
        BY <2>4 DEF InsertRecord, Takes, Columns, IInv, CallInv, ReadyToWrite
      <3> QED
        BY <2>3, <3>1, <3>2 DEF Writing
    <2>5. CASE UpdateRecord(c)
      <3>1. id = call[c].id
        BY <2>1, <2>3, <2>5 DEF UpdateRecord
      <3>2. f \in DOMAIN call[c].fields
        BY <2>1, <2>3, <2>5, <3>1 DEF UpdateRecord, Rows, NoRow, Live
      <3>3. f \in call[c].asked
        BY <2>5, <3>2 DEF UpdateRecord, IInv, CallInv, ReadyToWrite
      <3> QED
        BY <2>3, <3>1, <3>3 DEF Writing
    <2>6. CASE SoftDeleteRecord(c)
      BY <2>1, <2>3, <2>6 DEF SoftDeleteRecord, Rows, NoRow
    <2> QED
      BY <2>2, <2>4, <2>5, <2>6
  <1>2. IInv /\ [Next]_vars => [Step]_vars
    BY <1>1
  <1> QED
    BY <1>2, InvHolds, PTL DEF Spec, UpdatesMerge

-----------------------------------------------------------------------------
(* The search index *)

CallShape(c) ==
    /\ call[c].todo \subseteq Ids
    /\ call[c].op # "reindex" => call[c].todo = {}
    /\ call[c].op = "reindex" => call[c].pc \in {"memory", "remote"}
    /\ call[c].pc = "authorize" => call[c].op \in {"update", "delete"}
    /\ call[c].pc = "reread" => call[c].op \in {"create", "update"}
    /\ call[c].pc = "memory" => call[c].op \in {"create", "update", "delete", "reindex"}
    /\ call[c].pc \in {"reread", "remote"} => call[c].id \in Ids
    /\ call[c].pc = "memory" /\ call[c].op # "reindex" => call[c].id \in Ids

\* What a call that is alone on a record knows of it, up to the document it is
\* about to write to Typesense
Knows(c, id) ==
    /\ id \in call[c].todo => Live(id) /\ call[c].rec[id] = rows[id].vals
    /\ id = call[c].id =>
          /\ call[c].op \in {"update", "delete"} /\ call[c].pc \in {"authorize", "write"} => Live(id)
          /\ call[c].pc = "reread" => Live(id)
          /\ call[c].pc = "memory" /\ call[c].op \in {"create", "update"} =>
                Live(id) /\ call[c].rec = rows[id].vals
          /\ call[c].pc = "memory" /\ call[c].op = "delete" => ~Live(id)
          /\ call[c].pc = "remote" => memory[id] = Indexed(id) /\ call[c].fields = Indexed(id)

\* It has written the row, or one of the indexes, and not both indexes
Dirty(c, id) ==
    /\ id = call[c].id
    /\ call[c].pc \in {"reread", "remote"} \/ (call[c].pc = "memory" /\ call[c].op # "reindex")

InStep(id) == memory[id] = Indexed(id) /\ remote[id] = Indexed(id)

Good(c, id) ==
    /\ c \in Busy(id) => Knows(c, id)
    /\ id \notin missed /\ ~Dirty(c, id) => InStep(id)

SearchInv ==
    /\ memory = [id \in Ids |-> memory[id]] /\ remote = [id \in Ids |-> remote[id]]
    /\ \A c \in Callers : CallShape(c)
    /\ \A id \in Ids \ crossed :
          /\ \A c \in Busy(id) : Good(c, id) /\ Busy(id) = {c}
          /\ Busy(id) = {} /\ id \notin missed => InStep(id)

\* Nothing that concerns a record changes
Same(id) ==
    /\ rows'[id] = rows[id] /\ memory'[id] = memory[id] /\ remote'[id] = remote[id]
    /\ Indexed(id)' = Indexed(id)
    /\ id \in missed => id \in missed'

\* One call moves
Moves(c) ==
    /\ DOMAIN call' = Callers /\ \A d \in Callers \ {c} : call'[d] = call[d]
    /\ memory' = [id \in Ids |-> memory'[id]] /\ remote' = [id \in Ids |-> remote'[id]]
    /\ crossed \subseteq crossed'

\* A step of one call keeps the invariant, if it does for the records it is on.
LEMMA SearchKeeps ==
    ASSUME IInv, SearchInv, NEW c \in Callers, Moves(c), CallShape(c)',
           \A id \in Ids \ crossed' :
               /\ c \in Busy(id)' => c \in Busy(id) \/ Busy(id) = {}
               /\ c \in Busy(id) \/ c \in Busy(id)' => Good(c, id)'
               /\ c \in Busy(id) \/ c \in Busy(id)' \/ Same(id)
    PROVE  SearchInv'
  <1>1. ASSUME NEW d \in Callers PROVE CallShape(d)'
    <2>1. CASE d = c
      BY <2>1
    <2>2. CASE d # c
      BY <2>2 DEF CallShape, Moves, SearchInv
    <2> QED
      BY <2>1, <2>2
  <1>2. ASSUME NEW id \in Ids \ crossed'
        PROVE  /\ \A d \in Busy(id)' : Good(d, id)' /\ Busy(id)' = {d}
               /\ Busy(id)' = {} /\ id \notin missed' => InStep(id)'
    <2>1. id \in Ids \ crossed
      BY <1>2 DEF Moves
    <2>2. \A d \in Callers \ {c} : d \in Busy(id)' <=> d \in Busy(id)
      BY DEF Moves, Busy
    <2>3. Busy(id) \subseteq Callers /\ Busy(id)' \subseteq Callers
      BY DEF Busy
    <2>4. \A d \in Busy(id) : Busy(id) = {d}
      BY <2>1 DEF SearchInv
    <2>5. CASE c \in Busy(id)'
      <3>1. Busy(id) \subseteq {c}
        BY <1>2, <2>4, <2>5
      <3>2. Busy(id)' = {c}
        BY <2>2, <2>3, <2>5, <3>1
      <3> QED
        BY <1>2, <2>5, <3>2
    <2>6. CASE c \notin Busy(id)' /\ c \in Busy(id)
      <3>1. Busy(id)' = {}
        BY <2>2, <2>3, <2>4, <2>6
      <3>2. ~Dirty(c, id)'
        BY <2>6 DEF Dirty, Busy
      <3> QED
        BY <1>2, <2>6, <3>1, <3>2 DEF Good
    <2>7. CASE c \notin Busy(id)' /\ c \notin Busy(id)
      <3>1. Same(id) /\ Busy(id)' = Busy(id)
        BY <1>2, <2>2, <2>3, <2>7
      <3>2. InStep(id) => InStep(id)'
        BY <3>1 DEF Same, InStep
      <3>3. ASSUME NEW d \in Busy(id) PROVE Good(d, id)'
        <4>1. call'[d] = call[d] /\ Good(d, id)
          BY <2>1, <2>3, <2>7, <3>3 DEF Moves, SearchInv
        <4>2. Knows(d, id)'
          BY <3>1, <3>3, <4>1 DEF Same, Knows, Good, Live
        <4>3. Dirty(d, id)' <=> Dirty(d, id)
          BY <4>1 DEF Dirty
        <4> QED
          BY <3>1, <3>2, <4>1, <4>2, <4>3 DEF Good, Same
      <3>4. Busy(id) = {} /\ id \notin missed => InStep(id)
        BY <2>1 DEF SearchInv
      <3> QED
        BY <2>4, <3>1, <3>2, <3>3, <3>4 DEF Same
    <2> QED
      BY <2>5, <2>6, <2>7
  <1> QED
    BY <1>1, <1>2 DEF SearchInv, Moves

\* Where the rows and the indexes stay as they are, so does all that concerns a record.
LEMMA NothingChanges ==
    ASSUME SearchInv, UNCHANGED <<rows, memory, remote, config>>, missed \subseteq missed'
    PROVE  /\ \A id \in Ids : Same(id) /\ (InStep(id) => InStep(id)') /\ Live(id)' = Live(id)
           /\ memory' = [id \in Ids |-> memory'[id]] /\ remote' = [id \in Ids |-> remote'[id]]
  BY DEF SearchInv, Same, InStep, Indexed, Live, BuildDocument

\* A call that ends, or goes on to its write, with the indexes as they were
LEMMA QuietMove ==
    ASSUME IInv, SearchInv, NEW c \in Callers, UNCHANGED <<rows, memory, remote, config, crossed>>,
           DOMAIN call' = Callers, \A d \in Callers \ {c} : call'[d] = call[d], CallShape(c)',
           \/ call'[c].pc = "idle"
           \/ call'[c].pc # "idle" /\ call'[c].id = call[c].id /\ call'[c].todo = call[c].todo
              /\ call[c].pc # "idle",
           missed \subseteq missed',
           \A id \in Ids \ crossed : c \in Busy(id) /\ Good(c, id) =>
               /\ call'[c].pc # "idle" => Knows(c, id)'
               /\ Dirty(c, id) => id \in missed' \/ Dirty(c, id)'
    PROVE  SearchInv'
  <1>1. Moves(c)
    BY NothingChanges DEF Moves
  <1>2. ASSUME NEW id \in Ids \ crossed'
        PROVE  /\ c \in Busy(id)' => c \in Busy(id)
               /\ c \in Busy(id) => Good(c, id)'
               /\ Same(id)
    <2>1. c \in Busy(id)' => c \in Busy(id)
      BY DEF Busy
    <2>2. c \in Busy(id)' => call'[c].pc # "idle"
      BY DEF Busy
    <2>3. ASSUME c \in Busy(id) PROVE Good(c, id)'
      <3>1. Good(c, id)
        BY <1>2, <2>3 DEF SearchInv
      <3>2. InStep(id) => InStep(id)'
        BY NothingChanges
      <3> QED
        BY <1>2, <2>2, <2>3, <3>1, <3>2 DEF Good
    <2> QED
      BY <2>1, <2>3, NothingChanges
  <1> QED
    BY <1>1, <1>2, SearchKeeps

LEMMA IdleParts ==
    /\ Idle.pc = "idle" /\ Idle.op = "none" /\ Idle.id = "none" /\ Idle.todo = {}
    /\ DOMAIN Idle = {"pc", "op", "id", "asked", "fields", "rec", "todo"}
  BY DEF Idle

\* Calls that end before they wrote, or when all is written
LEMMA SearchEnds ==
    ASSUME IInv, SearchInv, NEW c \in Callers,
           \/ Refused(c) \/ RefusedByHook(c) \/ WriteFails(c)
           \/ NotIndexed(c) \/ RemoteFails(c) \/ ReindexDone(c)
    PROVE  SearchInv'
  <1>1. /\ call' = [call EXCEPT ![c] = Idle]
        /\ UNCHANGED <<rows, memory, remote, config, crossed>>
    BY DEF Refused, RefusedByHook, WriteFails, NotIndexed, RemoteFails, ReindexDone, Finish,
           tableVars, indexVars, history
  <1>2. /\ call'[c] = Idle /\ DOMAIN call' = Callers
        /\ \A d \in Callers \ {c} : call'[d] = call[d]
    BY <1>1 DEF IInv
  <1>3. CallShape(c)' /\ call'[c].pc = "idle"
    BY <1>2, IdleParts DEF CallShape
  <1>4. missed \subseteq missed'
    BY DEF Refused, RefusedByHook, WriteFails, NotIndexed, RemoteFails, ReindexDone, history
  <1>5. ASSUME NEW id \in Ids, Dirty(c, id) PROVE id \in missed'
    BY <1>5 DEF Dirty, Refused, RefusedByHook, WriteFails, NotIndexed, RemoteFails, ReindexDone
  <1> QED
    BY <1>1, <1>2, <1>3, <1>4, <1>5, QuietMove

\* Calls that are authorized go on to their write.
LEMMA SearchAuthorized ==
    ASSUME IInv, SearchInv, NEW c \in Callers, AuthorizeUpdate(c) \/ AuthorizeDelete(c)
    PROVE  SearchInv'
  <1>1. /\ call[c].pc = "authorize" /\ call[c].op \in {"update", "delete"}
        /\ UNCHANGED <<rows, memory, remote, config, crossed, missed>>
    BY DEF AuthorizeUpdate, AuthorizeDelete, tableVars, indexVars, history
  <1>2. DOMAIN call = Callers /\ DOMAIN call[c] = DOMAIN Idle
    BY DEF IInv, CallInv
  <1>3. /\ call'[c].pc = "write" /\ call'[c].id = call[c].id /\ call'[c].op = call[c].op
        /\ call'[c].todo = call[c].todo
        /\ DOMAIN call' = Callers /\ \A d \in Callers \ {c} : call'[d] = call[d]
    <2>1. CASE AuthorizeDelete(c)
      BY <1>2, <2>1, IdleParts DEF AuthorizeDelete
    <2>2. CASE AuthorizeUpdate(c)
      <3>1. PICK h : call' = [call EXCEPT ![c].pc = "write", ![c].rec = NoRecord,
                                          ![c].fields = h.fields, ![c].asked = h.asked]
        BY <2>2 DEF AuthorizeUpdate
      <3> QED
        BY <1>2, <3>1, IdleParts
    <2> QED
      BY <2>1, <2>2
  <1>4. CallShape(c) /\ call[c].todo = {}
    BY <1>1 DEF SearchInv, CallShape
  <1>5. CallShape(c)'
    BY <1>1, <1>3, <1>4 DEF CallShape
  <1>6. \A id \in Ids \ crossed : c \in Busy(id) /\ Good(c, id) => Knows(c, id)' /\ ~Dirty(c, id)
    BY <1>1, <1>3, <1>4 DEF Good, Knows, Dirty, Live
  <1> QED
    BY <1>1, <1>3, <1>5, <1>6, QuietMove

\* A create that was undone by another call ends; otherwise the record is read again
\* as it is.
LEMMA SearchReread ==
    ASSUME IInv, SearchInv, NEW c \in Callers, Reread(c)
    PROVE  SearchInv'
  <1>1. /\ call[c].pc = "reread" /\ UNCHANGED <<rows, memory, remote, config, crossed, missed>>
    BY DEF Reread, tableVars, indexVars, history
  <1>2. DOMAIN call = Callers /\ DOMAIN call[c] = DOMAIN Idle
    BY DEF IInv, CallInv
  <1>3. /\ call[c].id \in Ids /\ call[c].op \in {"create", "update"} /\ call[c].todo = {}
    BY <1>1 DEF SearchInv, CallShape
  <1>4. CASE Finish(c)
    <2>1. call[c].id \in crossed
      <3>1. ~Live(call[c].id) \/ call'[c].pc = "memory"
        BY <1>1, <1>2, IdleParts DEF Reread
      <3>2. call'[c].pc = "idle"
        BY <1>2, <1>4, IdleParts DEF Finish
      <3>3. c \in Busy(call[c].id)
        BY <1>1 DEF Busy
      <3> QED
        BY <1>1, <1>3, <3>1, <3>2, <3>3 DEF SearchInv, Good, Knows
    <2>2. /\ call'[c] = Idle /\ DOMAIN call' = Callers
          /\ \A d \in Callers \ {c} : call'[d] = call[d]
      BY <1>2, <1>4 DEF Finish
    <2>3. CallShape(c)' /\ call'[c].pc = "idle"
      BY <2>2, IdleParts DEF CallShape
    <2>4. \A id \in Ids \ crossed : ~Dirty(c, id)
      BY <2>1 DEF Dirty
    <2> QED
      BY <1>1, <2>2, <2>3, <2>4, QuietMove
  <1>5. CASE call' = [call EXCEPT ![c].pc = "memory", ![c].rec = rows[call[c].id].vals]
    <2>1. /\ call'[c].pc = "memory" /\ call'[c].id = call[c].id /\ call'[c].op = call[c].op
          /\ call'[c].todo = call[c].todo /\ call'[c].rec = rows[call[c].id].vals
          /\ DOMAIN call' = Callers /\ \A d \in Callers \ {c} : call'[d] = call[d]
      BY <1>2, <1>5, IdleParts
    <2>2. CallShape(c)'
      BY <1>3, <2>1 DEF CallShape
    <2>3. \A id \in Ids \ crossed : c \in Busy(id) /\ Good(c, id) =>
              Knows(c, id)' /\ (Dirty(c, id) => Dirty(c, id)')
      BY <1>1, <1>3, <2>1 DEF Good, Knows, Dirty, Live
    <2> QED
      BY <1>1, <2>1, <2>2, <2>3, QuietMove
  <1> QED
    BY <1>4, <1>5 DEF Reread

\* A call that writes the row is the only one that knows of it.
LEMMA SearchWrites ==
    ASSUME IInv, SearchInv, NEW c \in Callers,
           InsertRecord(c) \/ UpdateRecord(c) \/ SoftDeleteRecord(c)
    PROVE  SearchInv'
  <1>1. /\ call[c].pc = "write" /\ UNCHANGED <<memory, remote, config, crossed, missed>>
        /\ DOMAIN call = Callers /\ DOMAIN call[c] = DOMAIN Idle /\ call[c].id \in Ids
    BY DEF InsertRecord, UpdateRecord, SoftDeleteRecord, indexVars, history, IInv, CallInv
  <1>2. /\ call[c].todo = {}
        /\ \/ InsertRecord(c) /\ call[c].op = "create" /\ Written(c, "reread")
           \/ UpdateRecord(c) /\ call[c].op = "update" /\ Written(c, "reread")
           \/ SoftDeleteRecord(c) /\ call[c].op = "delete" /\ Written(c, "memory")
    BY <1>1 DEF InsertRecord, UpdateRecord, SoftDeleteRecord, SearchInv, CallShape
  <1>3. /\ call'[c].pc = (IF call[c].op = "delete" THEN "memory" ELSE "reread")
        /\ call'[c].id = call[c].id /\ call'[c].op = call[c].op /\ call'[c].todo = {}
        /\ DOMAIN call' = Callers /\ \A d \in Callers \ {c} : call'[d] = call[d]
    BY <1>1, <1>2, IdleParts DEF Written
  <1>4. CallShape(c)'
    BY <1>1, <1>2, <1>3 DEF CallShape
  <1>5. \A id \in Ids \ {call[c].id} : rows'[id] = rows[id]
    BY DEF InsertRecord, UpdateRecord, SoftDeleteRecord, IInv
  <1>6. Moves(c)
    BY <1>1, <1>3 DEF Moves, SearchInv
  <1>7. \A id \in Ids : c \in Busy(id) <=> id = call[c].id
    BY <1>1, <1>2 DEF Busy
  <1>8. \A id \in Ids : c \in Busy(id)' <=> id = call[c].id
    BY <1>3 DEF Busy
  <1>9. \A id \in Ids \ {call[c].id} : Same(id)
    BY <1>1, <1>5 DEF Same, Indexed, Live, BuildDocument
  <1>10. call[c].id \notin crossed => Good(c, call[c].id)'
    <2>1. call[c].id \notin crossed => Knows(c, call[c].id)
      BY <1>1, <1>7 DEF SearchInv, Good
    <2>2. CASE InsertRecord(c) /\ call[c].op = "create"
      <3>1. Live(call[c].id)'
        BY <1>1, <1>3, <2>2 DEF InsertRecord, Live, Row, IInv
      <3> QED
        BY <1>3, <2>2, <3>1 DEF Good, Knows, Dirty
    <2>3. CASE UpdateRecord(c) /\ call[c].op = "update"
      <3>1. call[c].id \notin crossed => Live(call[c].id)
        BY <1>1, <2>1, <2>3 DEF Knows
      <3>2. Live(call[c].id) => Live(call[c].id)'
        <4>1. ASSUME Live(call[c].id) PROVE Live(call[c].id)'
          <5>1. rows \in [Ids -> Rows] /\ rows[call[c].id] \in Rows /\ rows[call[c].id].exists
            BY <1>1, <4>1 DEF IInv, Live
          <5>2. rows[call[c].id] \in [vals : ValidVals, deleted : BOOLEAN, exists : {TRUE}]
            BY <5>1, ExistingRow
          <5>3. /\ rows'[call[c].id].exists = rows[call[c].id].exists
                /\ rows'[call[c].id].deleted = rows[call[c].id].deleted
            BY <1>1, <2>3, <5>1, <5>2 DEF UpdateRecord
          <5> QED
            BY <1>3, <4>1, <5>3 DEF Live
        <4> QED
          BY <4>1
      <3> QED
        BY <1>3, <2>3, <3>1, <3>2 DEF Good, Knows, Dirty
    <2>4. CASE SoftDeleteRecord(c) /\ call[c].op = "delete"
      <3>1. ~Live(call[c].id)'
        <4>1. rows \in [Ids -> Rows] /\ rows[call[c].id] \in Rows /\ rows[call[c].id].exists
          BY <1>1, <2>4 DEF IInv, CallInv
        <4>2. rows[call[c].id] \in [vals : ValidVals, deleted : BOOLEAN, exists : {TRUE}]
          BY <4>1, ExistingRow
        <4>3. rows'[call[c].id].deleted = TRUE
          BY <1>1, <2>4, <4>1, <4>2 DEF SoftDeleteRecord
        <4> QED
          BY <1>3, <4>3 DEF Live
      <3> QED
        BY <1>3, <2>4, <3>1 DEF Good, Knows, Dirty
    <2> QED
      BY <1>2, <2>2, <2>3, <2>4
  <1> QED
    BY <1>1, <1>3, <1>4, <1>6, <1>7, <1>8, <1>9, <1>10, SearchKeeps

\* The document a call writes to the memory index is that of the row.
LEMMA SearchMemory ==
    ASSUME IInv, SearchInv, NEW c \in Callers, SyncMemory(c)
    PROVE  SearchInv'
  <1> DEFINE doc == IF call[c].op = "delete" THEN NoDoc ELSE BuildDocument(call[c].rec)
  <1>1. /\ call[c].pc = "memory" /\ call[c].op # "reindex"
        /\ UNCHANGED <<rows, config, remote, crossed, missed>>
        /\ memory' = [memory EXCEPT ![call[c].id] = doc]
        /\ call' = [call EXCEPT ![c].pc = "remote", ![c].fields = doc, ![c].rec = NoRecord]
    BY DEF SyncMemory, tableVars, history
  <1>2. DOMAIN call = Callers /\ DOMAIN call[c] = DOMAIN Idle
    BY DEF IInv, CallInv
  <1>3. /\ call[c].op \in {"create", "update", "delete"} /\ call[c].todo = {}
        /\ call[c].id \in Ids
    BY <1>1 DEF SearchInv, CallShape
  <1> HIDE DEF doc
  <1>4. /\ call'[c].pc = "remote" /\ call'[c].id = call[c].id /\ call'[c].op = call[c].op
        /\ call'[c].todo = {} /\ call'[c].fields = doc
        /\ DOMAIN call' = Callers /\ \A d \in Callers \ {c} : call'[d] = call[d]
    BY <1>1, <1>2, <1>3, IdleParts
  <1>5. CallShape(c)'
    BY <1>3, <1>4 DEF CallShape
  <1>6. /\ memory' = [id \in Ids |-> memory'[id]] /\ remote' = [id \in Ids |-> remote'[id]]
        /\ memory'[call[c].id] = doc
        /\ \A id \in Ids \ {call[c].id} : memory'[id] = memory[id]
    BY <1>1, <1>3 DEF SearchInv
  <1>7. \A id \in Ids : /\ c \in Busy(id) <=> id = call[c].id
                        /\ c \in Busy(id)' <=> id = call[c].id
    BY <1>1, <1>3, <1>4 DEF Busy
  <1>8. \A id \in Ids : Indexed(id)' = Indexed(id)
    BY <1>1 DEF Indexed, Live, BuildDocument
  <1>9. ASSUME call[c].id \notin crossed PROVE Good(c, call[c].id)'
    <2>1. Knows(c, call[c].id)
      BY <1>3, <1>7, <1>9 DEF SearchInv, Good
    <2>2. doc = Indexed(call[c].id)
      BY <1>1, <1>3, <2>1 DEF Knows, Indexed, doc
    <2> QED
      BY <1>3, <1>4, <1>6, <1>8, <2>2 DEF Good, Knows, Dirty
  <1>10. \A id \in Ids \ {call[c].id} : Same(id)
    BY <1>1, <1>6, <1>8 DEF Same
  <1>11. Moves(c)
    BY <1>1, <1>4, <1>6 DEF Moves
  <1>12. ASSUME NEW id \in Ids \ crossed'
         PROVE  /\ c \in Busy(id)' => c \in Busy(id)
                /\ c \in Busy(id) => Good(c, id)'
                /\ c \in Busy(id) \/ Same(id)
    <2>1. CASE id = call[c].id
      <3>1. Good(c, call[c].id)'
        BY <1>1, <1>9, <1>12, <2>1
      <3>2. Good(c, id)'
        BY <2>1, <3>1, <1>1, <1>4 DEF Good, Knows, Dirty, Busy, InStep, Live, Indexed, BuildDocument
      <3> QED
        BY <1>7, <2>1, <3>2
    <2>2. CASE id # call[c].id
      BY <1>7, <1>10, <2>2
    <2> QED
      BY <2>1, <2>2
  <1> QED
    BY <1>5, <1>11, <1>12, SearchKeeps

\* With the write to Typesense both indexes agree with the row.
LEMMA SearchRemote ==
    ASSUME IInv, SearchInv, NEW c \in Callers, SyncRemote(c)
    PROVE  SearchInv'
  <1>1. /\ call[c].pc = "remote" /\ UNCHANGED <<rows, config, memory, crossed>>
        /\ remote' = [remote EXCEPT ![call[c].id] = call[c].fields]
        /\ missed' = missed \ {call[c].id}
    BY DEF SyncRemote, tableVars
  <1>2. DOMAIN call = Callers /\ DOMAIN call[c] = DOMAIN Idle
    BY DEF IInv, CallInv
  <1>3. CallShape(c) /\ call[c].id \in Ids
    BY <1>1 DEF SearchInv, CallShape
  <1>4. /\ DOMAIN call' = Callers /\ \A d \in Callers \ {c} : call'[d] = call[d]
        /\ \/ call'[c] = Idle
           \/ /\ call[c].op = "reindex" /\ call'[c].op = "reindex" /\ call'[c].pc = "memory"
              /\ call'[c].id = call[c].id /\ call'[c].todo = call[c].todo
              /\ call'[c].rec = call[c].rec
    BY <1>2, IdleParts DEF SyncRemote, Finish
  <1>5. CallShape(c)'
    BY <1>3, <1>4, IdleParts DEF CallShape
  <1>6. /\ memory' = [id \in Ids |-> memory'[id]] /\ remote' = [id \in Ids |-> remote'[id]]
        /\ remote'[call[c].id] = call[c].fields
        /\ \A id \in Ids \ {call[c].id} : remote'[id] = remote[id]
    BY <1>1, <1>3 DEF SearchInv
  <1>7. \A id \in Ids : /\ c \in Busy(id)' => c \in Busy(id)
                        /\ c \in Busy(id) <=> id \in {call[c].id} \cup call[c].todo
    BY <1>1, <1>4, IdleParts DEF Busy
  <1>8. \A id \in Ids : Indexed(id)' = Indexed(id) /\ Live(id)' = Live(id)
    BY <1>1 DEF Indexed, Live, BuildDocument
  <1>9. ~Dirty(c, call[c].id)' /\ \A id \in Ids : ~Dirty(c, id)'
    BY <1>4, IdleParts DEF Dirty
  <1>10. ASSUME NEW id \in Ids \ crossed, c \in Busy(id) PROVE Good(c, id)'
    <2>1. Good(c, id) /\ Knows(c, id)
      BY <1>10 DEF SearchInv, Good
    <2>2. c \in Busy(id)' => Knows(c, id)'
      BY <1>1, <1>4, <1>8, <2>1, IdleParts DEF Knows, Busy
    <2>3. CASE id = call[c].id
      <3>1. memory[id] = Indexed(id) /\ call[c].fields = Indexed(id)
        BY <1>1, <2>1, <2>3 DEF Knows
      <3> QED
        BY <1>1, <1>6, <1>8, <2>2, <2>3, <3>1 DEF Good, InStep
    <2>4. CASE id # call[c].id
      BY <1>1, <1>6, <1>8, <2>1, <2>2, <2>4 DEF Good, InStep, Dirty
    <2> QED
      BY <2>3, <2>4
  <1>11. \A id \in Ids : id = call[c].id \/ Same(id)
    BY <1>1, <1>6, <1>8 DEF Same
  <1>12. Moves(c)
    BY <1>1, <1>4, <1>6 DEF Moves
  <1> QED
    BY <1>1, <1>5, <1>7, <1>10, <1>11, <1>12, SearchKeeps

\* Reindexing takes one row of its list after the other.
LEMMA SearchReindexOne ==
    ASSUME IInv, SearchInv, NEW c \in Callers, ReindexOne(c)
    PROVE  SearchInv'
  <1>1. /\ call[c].pc = "memory" /\ call[c].op = "reindex"
        /\ UNCHANGED <<rows, config, remote, crossed, missed>>
    BY DEF ReindexOne, tableVars, history
  <1>2. PICK id \in call[c].todo :
           /\ memory' = [memory EXCEPT ![id] = BuildDocument(call[c].rec[id])]
           /\ call' = [call EXCEPT ![c].pc = "remote", ![c].id = id, ![c].todo = @ \ {id},
                                   ![c].fields = BuildDocument(call[c].rec[id])]
    BY DEF ReindexOne
  <1>3. DOMAIN call = Callers /\ DOMAIN call[c] = DOMAIN Idle
    BY DEF IInv, CallInv
  <1>4. CallShape(c) /\ call[c].todo \subseteq Ids /\ id \in Ids
    BY <1>1, <1>2 DEF SearchInv, CallShape
  <1> DEFINE doc == BuildDocument(call[c].rec[id])
             r == [call[c] EXCEPT !.pc = "remote", !.id = id, !.todo = @ \ {id}, !.fields = doc]
  <1>5. call' = [call EXCEPT ![c] = r] /\ memory' = [memory EXCEPT ![id] = doc]
    BY <1>2, <1>3
  <1> HIDE DEF doc
  <1>6. /\ r.pc = "remote" /\ r.id = id /\ r.op = call[c].op /\ r.todo = call[c].todo \ {id}
        /\ r.rec = call[c].rec /\ r.fields = doc
    BY <1>3, IdleParts
  <1> HIDE DEF r
  <1>7. /\ call'[c].pc = "remote" /\ call'[c].id = id /\ call'[c].op = "reindex"
        /\ call'[c].todo = call[c].todo \ {id} /\ call'[c].rec = call[c].rec
        /\ call'[c].fields = doc
        /\ DOMAIN call' = Callers /\ \A d \in Callers \ {c} : call'[d] = call[d]
    BY <1>1, <1>3, <1>5, <1>6
  <1>8. CallShape(c)'
    BY <1>4, <1>7 DEF CallShape
  <1>9. /\ memory' = [i \in Ids |-> memory'[i]] /\ remote' = [i \in Ids |-> remote'[i]]
        /\ memory'[id] = doc /\ \A i \in Ids \ {id} : memory'[i] = memory[i]
    BY <1>1, <1>4, <1>5 DEF SearchInv
  <1>10. \A i \in Ids : /\ c \in Busy(i)' => c \in Busy(i)
                        /\ i = id => c \in Busy(i)
    BY <1>1, <1>2, <1>7 DEF Busy
  <1>11. \A i \in Ids : Indexed(i)' = Indexed(i) /\ Live(i)' = Live(i)
    BY <1>1 DEF Indexed, Live, BuildDocument
  <1>12. ASSUME NEW i \in Ids \ crossed, c \in Busy(i) PROVE Good(c, i)'
    <2>1. Good(c, i) /\ Knows(c, i)
      BY <1>12 DEF SearchInv, Good
    <2>2. CASE i = id
      <3>1. doc = Indexed(id)
        BY <1>2, <2>1, <2>2 DEF Knows, Indexed, doc
      <3> QED
        BY <1>7, <1>9, <1>11, <2>2, <3>1 DEF Good, Knows, Dirty
    <2>3. CASE i # id
      <3>1. Knows(c, i)'
        BY <1>1, <1>7, <1>11, <2>1, <2>3 DEF Knows
      <3> QED
        BY <1>1, <1>9, <1>11, <2>1, <2>3, <3>1 DEF Good, InStep, Dirty
    <2> QED
      BY <2>2, <2>3
  <1>13. \A i \in Ids : i = id \/ Same(i)
    BY <1>1, <1>9, <1>11 DEF Same
  <1>14. Moves(c)
    BY <1>1, <1>7, <1>9 DEF Moves
  <1> QED
    BY <1>1, <1>8, <1>10, <1>12, <1>13, <1>14, SearchKeeps

\* A call that starts is alone on its records, or they count as crossed.
LEMMA StartMove ==
    ASSUME IInv, SearchInv, NEW c \in Callers, UNCHANGED <<rows, memory, remote>>,
           missed \cap Ids \subseteq missed',
           config' = config \/ (missed' = Ids /\ \A id \in Ids : Live(id) => id \in call'[c].todo),
           call[c].pc = "idle", call'[c].pc # "idle", DOMAIN call' = Callers,
           \A d \in Callers \ {c} : call'[d] = call[d],
           crossed' = crossed \cup {id \in {call'[c].id} \cup call'[c].todo :
                                       id \in Ids /\ Busy(id) # {}},
           CallShape(c)',
           \A id \in Ids : Busy(id) = {} /\ c \in Busy(id)' => Knows(c, id)' /\ ~Dirty(c, id)'
    PROVE  SearchInv'
  <1>1. Moves(c)
    BY DEF Moves, SearchInv
  <1>2. ASSUME NEW id \in Ids \ crossed'
        PROVE  /\ c \in Busy(id)' => Busy(id) = {}
               /\ c \notin Busy(id)
               /\ c \in Busy(id)' => Good(c, id)'
               /\ c \in Busy(id)' \/ Same(id)
    <2>1. c \in Busy(id)' <=> id \in {call'[c].id} \cup call'[c].todo
      BY DEF Busy
    <2>2. c \in Busy(id)' => Busy(id) = {}
      BY <1>2, <2>1
    <2>3. c \notin Busy(id)
      BY DEF Busy
    <2>4. Live(id)' = Live(id)
      BY DEF Live
    <2>5. CASE config' = config
      <3>1. Indexed(id)' = Indexed(id)
        BY <2>4, <2>5 DEF Indexed, BuildDocument
      <3>2. InStep(id) => InStep(id)'
        BY <3>1 DEF InStep
      <3>3. c \in Busy(id)' /\ id \notin missed' => InStep(id)
        BY <1>2, <2>2 DEF SearchInv
      <3> QED
        BY <1>2, <2>2, <2>3, <3>1, <3>2, <3>3 DEF Good, Same
    <2>6. CASE missed' = Ids /\ \A i \in Ids : Live(i) => i \in call'[c].todo
      <3>1. ~(c \in Busy(id)') => Indexed(id)' = Indexed(id)
        BY <1>2, <2>1, <2>4, <2>6 DEF Indexed
      <3> QED
        BY <1>2, <2>2, <2>3, <2>6, <3>1 DEF Good, Same
    <2> QED
      BY <2>5, <2>6
  <1> QED
    BY <1>1, <1>2, SearchKeeps

LEMMA SearchBegins ==
    ASSUME IInv, SearchInv, NEW c \in Callers, BeginCreate(c) \/ BeginChange(c)
    PROVE  SearchInv'
  <1>1. UNCHANGED <<rows, memory, remote, config, missed>>
    <2>1. CASE BeginCreate(c)
      BY <2>1, Zenon DEF BeginCreate, tableVars, indexVars
    <2>2. CASE BeginChange(c)
      BY <2>2, Zenon DEF BeginChange, tableVars, indexVars
    <2> QED
      BY <2>1, <2>2
  <1>2. PICK r : /\ Start(c, r) /\ r.todo = {} /\ r.id \in Ids
                 /\ \/ r.pc = "write" /\ r.op = "create"
                    \/ r.pc = "authorize" /\ r.op \in {"update", "delete"} /\ Live(r.id)
    <2>1. CASE BeginCreate(c)
      <3>1. PICK id \in Ids, in \in CreateWith :
               \E h \in Validated(NormalizeFields(in, TRUE), Fields) :
                  Start(c, [Idle EXCEPT !.pc = "write", !.op = "create", !.id = id,
                                        !.asked = h.asked, !.fields = h.fields])
        BY <2>1, Zenon DEF BeginCreate
      <3>2. PICK h \in Validated(NormalizeFields(in, TRUE), Fields) :
               Start(c, [Idle EXCEPT !.pc = "write", !.op = "create", !.id = id,
                                     !.asked = h.asked, !.fields = h.fields])
        BY <3>1
      <3> DEFINE r == [Idle EXCEPT !.pc = "write", !.op = "create", !.id = id,
                                   !.asked = h.asked, !.fields = h.fields]
      <3>3. r.pc = "write" /\ r.op = "create" /\ r.id = id /\ r.todo = Idle.todo
        BY DEF Idle
      <3>4. Start(c, r)
        BY <3>2
      <3> HIDE DEF r
      <3> QED
        BY <3>3, <3>4, IdleParts
    <2>2. CASE BeginChange(c)
      <3>1. PICK id \in Ids, op \in {"update", "delete"}, in \in UpdateWith \cup {<< >>} :
               /\ Live(id)
               /\ Start(c, [Idle EXCEPT !.pc = "authorize", !.op = op, !.id = id,
                                        !.asked = DOMAIN in, !.fields = in,
                                        !.rec = rows[id].vals])
        BY <2>2 DEF BeginChange
      <3> DEFINE r == [Idle EXCEPT !.pc = "authorize", !.op = op, !.id = id,
                                   !.asked = DOMAIN in, !.fields = in, !.rec = rows[id].vals]
      <3>2. r.pc = "authorize" /\ r.op = op /\ r.id = id /\ r.todo = Idle.todo
        BY DEF Idle
      <3>3. Start(c, r)
        BY <3>1
      <3> HIDE DEF r
      <3> QED
        BY <3>1, <3>2, <3>3, IdleParts
    <2> QED
      BY <2>1, <2>2
  <1>3. /\ call[c].pc = "idle" /\ call'[c] = r /\ DOMAIN call' = Callers
        /\ \A d \in Callers \ {c} : call'[d] = call[d]
        /\ crossed' = crossed \cup {id \in {r.id} \cup r.todo : id \in Ids /\ Busy(id) # {}}
    BY <1>2 DEF Start, IInv
  <1>4. CallShape(c)'
    BY <1>2, <1>3 DEF CallShape
  <1>5. \A id \in Ids : c \in Busy(id)' => Knows(c, id)' /\ ~Dirty(c, id)'
    <2>1. \A id \in Ids : Live(id)' = Live(id)
      BY <1>1 DEF Live
    <2> QED
      BY <1>2, <1>3, <2>1 DEF Knows, Dirty
  <1> QED
    BY <1>1, <1>2, <1>3, <1>4, <1>5, StartMove

\* When all that is indexed is outdated, only records that no call is on are left.
LEMMA SearchLost ==
    ASSUME missed' = Ids, \A id \in Ids \ crossed' : Busy(id)' = {},
           memory' = [id \in Ids |-> memory'[id]], remote' = [id \in Ids |-> remote'[id]],
           \A c \in Callers : CallShape(c)'
    PROVE  SearchInv'
  BY DEF SearchInv

LEMMA SearchSettings ==
    ASSUME IInv, SearchInv, UpdateSearchModelConfig
    PROVE  SearchInv'
  <1>1. /\ missed' = Ids /\ crossed' = crossed \cup {id \in Ids : Busy(id) # {}}
        /\ UNCHANGED <<memory, remote, call>>
    BY DEF UpdateSearchModelConfig
  <1>2. \A id \in Ids : Busy(id)' = Busy(id)
    BY <1>1 DEF Busy
  <1>3. \A c \in Callers : CallShape(c)'
    BY <1>1 DEF CallShape, SearchInv
  <1>4. /\ memory' = [id \in Ids |-> memory'[id]] /\ remote' = [id \in Ids |-> remote'[id]]
    BY <1>1 DEF SearchInv
  <1> QED
    BY <1>1, <1>2, <1>3, <1>4, SearchLost

LEMMA SearchRestarts ==
    ASSUME IInv, SearchInv, Restart
    PROVE  SearchInv'
  <1>1. /\ missed' = Ids /\ call' = [c \in Callers |-> Idle] /\ remote' = remote
        /\ memory' = [id \in Ids |-> NoDoc]
    BY DEF Restart
  <1>2. \A id \in Ids : Busy(id)' = {}
    BY <1>1, IdleParts DEF Busy
  <1>3. \A c \in Callers : CallShape(c)'
    BY <1>1, IdleParts DEF CallShape
  <1>4. /\ memory' = [id \in Ids |-> memory'[id]] /\ remote' = [id \in Ids |-> remote'[id]]
    BY <1>1 DEF SearchInv
  <1> QED
    BY <1>1, <1>2, <1>3, <1>4, SearchLost

\* Reindexing starts with every live record, as it is.
LEMMA SearchReindexes ==
    ASSUME IInv, SearchInv, NEW c \in Callers, ReindexSearchModel(c)
    PROVE  SearchInv'
  <1>1. UNCHANGED <<rows, memory, remote>>
    BY DEF ReindexSearchModel, tableVars
  <1>2. \/ UNCHANGED <<config, missed>>
        \/ missed' = Ids
    BY DEF ReindexSearchModel, EnsureFieldIndexed
  <1>3. CASE /\ ~(saved' = config' \/ config' = config) /\ UNCHANGED call
             /\ crossed' = crossed \cup {id \in Ids : Busy(id) # {}}
    <2>1. missed' = Ids
      BY <1>2, <1>3
    <2>2. \A id \in Ids : Busy(id)' = Busy(id)
      BY <1>3 DEF Busy
    <2>3. \A d \in Callers : CallShape(d)'
      BY <1>3 DEF CallShape, SearchInv
    <2>4. /\ memory' = [id \in Ids |-> memory'[id]] /\ remote' = [id \in Ids |-> remote'[id]]
      BY <1>1 DEF SearchInv
    <2> QED
      BY <1>3, <2>1, <2>2, <2>3, <2>4, SearchLost
  <1>4. CASE Start(c, [Idle EXCEPT !.pc = "memory", !.op = "reindex",
                                   !.todo = {id \in Ids : Live(id)},
                                   !.rec = [id \in Ids |-> rows[id].vals]])
    <2> DEFINE found == {id \in Ids : Live(id)}
               vals == [id \in Ids |-> rows[id].vals]
               r == [Idle EXCEPT !.pc = "memory", !.op = "reindex", !.todo = found, !.rec = vals]
    <2>1. Start(c, r)
      BY <1>4
    <2>2. found \subseteq Ids /\ (\A id \in Ids : id \in found <=> Live(id))
          /\ \A id \in Ids : vals[id] = rows[id].vals
      OBVIOUS
    <2> HIDE DEF found, vals
    <2>3. r.pc = "memory" /\ r.op = "reindex" /\ r.todo = found /\ r.rec = vals /\ r.id = "none"
      BY DEF Idle
    <2> HIDE DEF r
    <2>4. /\ call[c].pc = "idle" /\ call'[c] = r /\ DOMAIN call' = Callers
          /\ \A d \in Callers \ {c} : call'[d] = call[d]
          /\ crossed' = crossed \cup {id \in {r.id} \cup r.todo : id \in Ids /\ Busy(id) # {}}
      BY <2>1 DEF Start, IInv
    <2>5. CallShape(c)'
      BY <2>2, <2>3, <2>4 DEF CallShape
    <2>6. \A id \in Ids : c \in Busy(id)' => Knows(c, id)' /\ ~Dirty(c, id)'
      <3>1. \A id \in Ids : Live(id)' = Live(id)
        BY <1>1 DEF Live
      <3> QED
        BY <1>1, <2>2, <2>3, <2>4, <3>1 DEF Knows, Dirty
    <2>7. missed \cap Ids \subseteq missed'
      BY <1>2
    <2> QED
      BY <1>1, <1>2, <2>2, <2>3, <2>4, <2>5, <2>6, <2>7, StartMove
  <1> QED
    BY <1>3, <1>4 DEF ReindexSearchModel

LEMMA SearchInit == Init => SearchInv
  <1> SUFFICES ASSUME Init PROVE SearchInv
    OBVIOUS
  <1>1. /\ rows = [id \in Ids |-> NoRow] /\ memory = [id \in Ids |-> NoDoc] /\ remote = memory
        /\ call = [c \in Callers |-> Idle]
    BY DEF Init
  <1>2. \A id \in Ids : Busy(id) = {}
    BY <1>1, IdleParts DEF Busy
  <1>3. \A c \in Callers : CallShape(c)
    BY <1>1, IdleParts DEF CallShape
  <1>4. NoRow.exists = FALSE
    BY DEF NoRow
  <1>5. \A id \in Ids : InStep(id)
    BY <1>1, <1>4 DEF InStep, Indexed, Live
  <1> QED
    BY <1>1, <1>2, <1>3, <1>5 DEF SearchInv

LEMMA SearchStays ==
    ASSUME SearchInv, UNCHANGED <<rows, memory, remote, config, call, crossed, missed>>
    PROVE  SearchInv'
  <1>1. \A id \in Ids : /\ Busy(id)' = Busy(id) /\ Live(id)' = Live(id)
                        /\ Indexed(id)' = Indexed(id)
    BY DEF Busy, Indexed, Live, BuildDocument
  <1>2. \A c \in Callers, id \in Ids : /\ Knows(c, id)' <=> Knows(c, id)
                                       /\ Dirty(c, id)' <=> Dirty(c, id)
    BY <1>1 DEF Knows, Dirty
  <1>3. \A c \in Callers, id \in Ids : Good(c, id)' <=> Good(c, id)
    BY <1>1, <1>2 DEF Good, InStep
  <1>4. \A c \in Callers : CallShape(c)' <=> CallShape(c)
    BY DEF CallShape
  <1>5. \A id \in Ids : InStep(id)' <=> InStep(id)
    BY <1>1 DEF InStep
  <1>6. \A id \in Ids : Busy(id) \subseteq Callers
    BY DEF Busy
  <1> QED
    BY <1>1, <1>3, <1>4, <1>5, <1>6 DEF SearchInv

LEMMA SearchStep == IInv /\ SearchInv /\ [Next]_vars => SearchInv'
  <1> SUFFICES ASSUME IInv, SearchInv, [Next]_vars PROVE SearchInv'
    OBVIOUS
  <1>1. ASSUME NEW c \in Callers, CallStep(c) PROVE SearchInv'
    BY <1>1, SearchBegins, SearchReindexes, SearchEnds, SearchAuthorized, SearchReread,
       SearchWrites, SearchMemory, SearchRemote, SearchReindexOne DEF CallStep
  <1>2. CASE SeedPolicy \/ (\E seed \in Seeds : DisableEntry(seed.name)) \/ UNCHANGED vars
    BY <1>2, SearchStays DEF SeedPolicy, DisableEntry, indexVars, history, vars
  <1> QED
    BY <1>1, <1>2, SearchSettings, SearchRestarts DEF Next

LEMMA SearchHolds == Spec => []SearchInv
  BY SearchInit, SearchStep, InvHolds, PTL DEF Spec

\* With a limit that is not too small a search answers with all it finds.
LEMMA CutAll ==
    ASSUME NEW found \in SUBSET Ids, NEW hits \in Cut(found, Cardinality(Ids))
    PROVE  hits = found
  <1>1. IsFiniteSet(Ids) /\ IsFiniteSet(found) /\ hits \subseteq found
    BY RecordsAssumption, FS_Subset DEF Cut
  <1>2. /\ Cardinality(found) \in Nat /\ Cardinality(Ids) \in Nat
        /\ Cardinality(found) <= Cardinality(Ids)
    BY <1>1, FS_Subset, FS_CardinalityType
  <1>3. Cardinality(hits) = Cardinality(found)
    BY <1>2 DEF Cut
  <1> QED
    BY <1>1, <1>3, FS_Subset

\* Whichever index answers, and whatever other calls have done, a search finds a
\* record that no call is on, and no update of which was lost, exactly if its row says so.
THEOREM SearchFindsWhatIsStored == Spec => []SearchExact
  <1>1. SearchInv => SearchExact
    <2> SUFFICES ASSUME SearchInv, NEW id \in Ids, NEW q \in Texts \ {Empty}, Quiet(id),
                        id \notin crossed \cup missed,
                        NEW answer \in Query(q, TRUE, Cardinality(Ids))
                 PROVE  id \in answer.ids <=> IF answer.by = "memory" THEN Holds(Indexed(id), q)
                                                                     ELSE Matches(Indexed(id), q)
      BY DEF SearchExact
    <2> DEFINE Here == {i \in Ids : memory[i] # NoDoc /\ Holds(memory[i], q)}
               There == {i \in Ids : remote[i] # NoDoc /\ Matches(remote[i], q)}
    <2>1. memory[id] = Indexed(id) /\ remote[id] = Indexed(id)
      BY DEF SearchInv, Quiet, InStep
    <2>2. Cardinality(Ids) \in Nat /\ Cardinality(Ids) > 0
      <3>1. IsFiniteSet(Ids) /\ Cardinality(Ids) \in Nat
        BY RecordsAssumption, FS_CardinalityType
      <3>2. Cardinality(Ids) # 0
        BY <3>1, FS_EmptySet
      <3> QED
        BY <3>1, <3>2
    <2>3. \/ answer.by = "memory" /\ answer.ids \in Cut(Here, Cardinality(Ids))
          \/ answer.by = "typesense" /\ answer.ids \in Cut(There, Cardinality(Ids))
      BY <2>2 DEF Query, AsQueryMiddleware, QueryTypesense, MemoryQuery, By
    <2>4. \/ answer.by = "memory" /\ answer.ids = Here
          \/ answer.by = "typesense" /\ answer.ids = There
      BY <2>3, CutAll
    <2>5. ~Holds(NoDoc, q) /\ ~Matches(NoDoc, q)
      BY DEF Holds, Matches, NoDoc
    <2> QED
      BY <2>1, <2>4, <2>5
  <1> QED
    BY <1>1, SearchHolds, PTL

-----------------------------------------------------------------------------
(* Lists and pages *)

\* The policy rows have the columns of the table.
Priorities == -MaxInteger - 1 .. MaxInteger

PolicyRow(e) ==
    /\ DOMAIN e = PolicyFields \cup {"active", "at"}
    /\ e.effect \in {"allow", "deny"} /\ e.priority \in Priorities

EntriesInv == \A e \in entries : PolicyRow(e)

LEMMA PriorityType ==
    MaxInteger \in Int /\ \A p \in Priorities : p \in Int /\ p <= MaxInteger
  <1>1. MaxInteger \in Int
    BY DEF MaxInteger
  <1> QED
    BY <1>1 DEF Priorities

LEMMA StoredEntry ==
    ASSUME NEW p \in Booted \cup Seeds, NEW active, NEW at
    PROVE  PolicyRow(Stored(p, active, at))
  <1>1. /\ DOMAIN p = PolicyFields /\ p.effect \in {"allow", "deny"} /\ p.priority \in Priorities
    BY RecordsAssumption DEF Priorities
  <1>2. /\ DOMAIN Stored(p, active, at) = {"active", "at"} \cup PolicyFields
        /\ \A f \in PolicyFields : Stored(p, active, at)[f] = p[f]
    BY <1>1 DEF Stored, SetBy, PolicyFields
  <1>3. "effect" \in PolicyFields /\ "priority" \in PolicyFields
    BY DEF PolicyFields
  <1> QED
    BY <1>1, <1>2, <1>3 DEF PolicyRow

LEMMA EntriesHold == Spec => []EntriesInv
  <1>1. Init => EntriesInv
    <2> SUFFICES ASSUME Init, NEW e \in entries PROVE PolicyRow(e)
      BY DEF EntriesInv
    <2>1. PICK policy \in Booted : e = Stored(policy, TRUE, 0)
      BY DEF Init
    <2> QED
      BY <2>1, StoredEntry
  <1>2. ASSUME EntriesInv, [Next]_vars PROVE EntriesInv'
    <2>1. CASE SeedPolicy
      <3>1. PICK seed \in Seeds : entries' = (entries \ SameEntry(seed)) \cup {Seeded(seed)}
        BY <2>1 DEF SeedPolicy, EnsureEntry
      <3> QED
        BY <1>2, <3>1, StoredEntry DEF EntriesInv, Seeded
    <2>2. ASSUME NEW seed \in Seeds, DisableEntry(seed.name) PROVE EntriesInv'
      <3>1. ASSUME NEW e \in entries'
            PROVE  \E o \in entries : /\ DOMAIN e = DOMAIN o
                                      /\ e.effect = o.effect /\ e.priority = o.priority
        <4>1. PICK o \in entries :
                 e = o \/ e = [o EXCEPT !.active = FALSE, !.at = clock + 1]
          BY <2>2, <3>1 DEF DisableEntry
        <4>2. "effect" \in DOMAIN o /\ "priority" \in DOMAIN o
          BY <1>2 DEF EntriesInv, PolicyRow, PolicyFields
        <4> QED
          BY <4>1, <4>2
      <3> QED
        BY <1>2, <3>1 DEF EntriesInv, PolicyRow
    <2>3. CASE entries' = entries
      BY <1>2, <2>3 DEF EntriesInv
    <2>4. ASSUME NEW c \in Callers, CallStep(c) PROVE entries' = entries
      BY <2>4 DEF CallStep, BeginCreate, BeginChange, ReindexSearchModel, Refused, RefusedByHook,
                  AuthorizeUpdate, AuthorizeDelete, InsertRecord, UpdateRecord,
                  SoftDeleteRecord, WriteFails, Reread, NotIndexed, SyncMemory, SyncRemote,
                  RemoteFails, ReindexOne, ReindexDone, tableVars
    <2>5. UpdateSearchModelConfig \/ Restart \/ UNCHANGED vars => entries' = entries
      BY DEF UpdateSearchModelConfig, Restart, tableVars, vars
    <2> QED
      BY <1>2, <2>1, <2>2, <2>3, <2>4, <2>5 DEF Next
  <1> QED
    BY <1>1, <1>2, PTL DEF Spec

\* Of some policy rows one has the highest priority.
LEMMA HighestPriority ==
    ASSUME NEW some, \A e \in some : PolicyRow(e), some # {}
    PROVE  \E m \in some : \A e \in some : m.priority >= e.priority
  <1> DEFINE Below(e) == MaxInteger - e.priority
             depths == {Below(e) : e \in some}
  <1>1. \A e \in some : e.priority \in Int /\ Below(e) \in Nat
    BY PriorityType DEF PolicyRow
  <1>2. depths \subseteq Nat /\ depths # {}
    BY <1>1
  <1>3. PICK d \in depths : \A n \in depths : <<n, d>> \notin OpToRel(<, Nat)
    <2> HIDE DEF depths
    <2> QED
      BY <1>2, WFMin, NatLessThanWellFounded, Zenon
  <1>4. \A n \in depths : ~(n < d)
    BY <1>2, <1>3 DEF OpToRel
  <1>5. PICK m \in some : d = Below(m)
    OBVIOUS
  <1>6. \A e \in some : ~(Below(e) < Below(m))
    BY <1>4, <1>5
  <1>7. \A e \in some : m.priority >= e.priority
    BY <1>1, <1>6, PriorityType
  <1> QED
    BY <1>7

\* A row that no deny on the field stands up to decides it.
LEMMA AllowDecides ==
    ASSUME EntriesInv, NEW some \in SUBSET entries, NEW f, NEW e \in some,
           e.effect = "allow", Covers(e, f),
           \A d \in some : d.effect = "deny" /\ Covers(d, f) => Before(e, d)
    PROVE  EffectOn(some, f, "decided") = "allow"
  <1> DEFINE named == {o \in some : Covers(o, f)}
             Precedes(a, b) == IF "decided" = "listed" THEN ListedBefore(a, b) ELSE Before(a, b)
             First(m) == \A o \in named : ~Precedes(o, m)
  <1>1. PICK m \in named : \A o \in named : m.priority >= o.priority
    BY HighestPriority DEF EntriesInv
  <1>2. \A o \in some : /\ o.priority \in Int /\ o.effect \in {"allow", "deny"}
    BY PriorityType DEF EntriesInv, PolicyRow
  <1>3. First(m)
    <2> SUFFICES ASSUME NEW o \in named, Precedes(o, m) PROVE FALSE
      OBVIOUS
    <2>1. o.priority = m.priority /\ o.effect = "deny"
      BY <1>1, <1>2 DEF Before
    <2>2. Before(e, o) /\ e \in named
      BY <2>1
    <2>3. e.priority > o.priority
      BY <2>2 DEF Before
    <2> QED
      BY <1>1, <1>2, <2>1, <2>2, <2>3
  <1>4. \A x \in named : First(x) => x.effect = "allow"
    BY <1>2
  <1>5. (CHOOSE x \in named : First(x)).effect = "allow"
    <2> DEFINE x == CHOOSE y \in named : First(y)
    <2>1. x \in named /\ First(x)
      BY <1>1, <1>3
    <2> HIDE DEF x
    <2>2. x.effect = "allow"
      BY <1>4, <2>1
    <2> QED
      BY <2>2 DEF x
  <1>6. named # {}
    BY <1>1
  <1>7. EffectOn(some, f, "decided") =
            IF named = {} THEN "none" ELSE (CHOOSE x \in named : First(x)).effect
    BY DEF EffectOn
  <1> QED
    BY <1>5, <1>6, <1>7

\* Where nothing has to be decided row by row, every row is allowed.
LEMMA UnrestrictedAllows ==
    ASSUME EntriesInv, FieldGrantsStand, NEW user, NEW rec, ListDomain(user).unrestricted
    PROVE  Can(user, "read", rec, {}).allowed
  <1> DEFINE own == ListEntriesForUser(user)
             matched == FilterMatch(own, Resource, "read")
             apply == Applying(own, Resource, "read", rec, user)
             whole == {e \in matched : Covers(e, Star)}
             allows == {e \in whole : e.effect = "allow"}
  <1>1. /\ own \subseteq entries /\ matched \subseteq own /\ apply \subseteq matched
        /\ \A e \in matched : e.active
        /\ \A e \in matched : e.domain = {} => e \in apply
    BY DEF ListEntriesForUser, FilterMatch, Applying, Applies
  <1>2. \/ whole = {} /\ \E e \in matched : e.effect = "allow"
        \/ \E e \in allows : e.domain = {}
    <2>1. ~DenyAll.unrestricted
      BY DEF DenyAll
    <2> QED
      BY <2>1 DEF ListDomain, BuildListFilter
  <1>3. HasAllow(apply)
    <2>1. CASE \E e \in allows : e.domain = {}
      BY <1>1, <2>1 DEF HasAllow
    <2>2. CASE whole = {} /\ \E e \in matched : e.effect = "allow"
      <3>1. PICK e \in matched : e.effect = "allow" /\ ~Covers(e, Star)
        BY <2>2
      <3>2. PICK f \in e.fields :
               /\ e.domain = {}
               /\ \A d \in entries : d.active /\ d.effect = "deny" /\ Covers(d, f) => Before(e, d)
        BY <1>1, <3>1 DEF FieldGrantsStand
      <3>3. e \in apply /\ Covers(e, f) /\ f # Star
        BY <1>1, <3>1, <3>2 DEF Covers
      <3>7. f \in Named(apply)
        BY <3>2, <3>3 DEF Named
      <3>4. \A d \in apply : d.effect = "deny" /\ Covers(d, f) => Before(e, d)
        BY <1>1, <3>2
      <3>5. apply \in SUBSET entries
        BY <1>1
      <3> HIDE DEF apply
      <3>6. EffectOn(apply, f, "decided") = "allow"
        BY <3>1, <3>3, <3>4, <3>5, AllowDecides
      <3> QED
        BY <3>6, <3>7 DEF HasAllow
    <2> QED
      BY <1>2, <2>1, <2>2
  <1> QED
    BY <1>3 DEF Can, Evaluate

\* No list and no page shows a record that the same client could not get, however the
\* decision is made: in SQL, in memory or row by row.
THEOREM ListsShowWhatGetGives == Spec => []ListIsGettable
  <1>1. EntriesInv => ListIsGettable
    <2> SUFFICES ASSUME EntriesInv, FieldGrantsStand, NEW user \in DOMAIN RolesOf
                 PROVE  \A failed \in BOOLEAN, expr \in Queries, q \in Searches :
                           List(user, failed) \cup ListPage(user, expr, q, failed)
                               \subseteq {id \in Ids : Get(user, id)}
      BY DEF ListIsGettable
    <2>1. ASSUME NEW failed \in BOOLEAN, NEW id \in List(user, failed)
          PROVE  id \in Ids /\ Get(user, id)
      BY <2>1 DEF List, Get, MustAllow
    <2>2. ASSUME user = Internal \/ ListDomain(user).unrestricted, NEW id \in Ids, Live(id)
          PROVE  Get(user, id)
      BY <2>2, UnrestrictedAllows DEF Get, MustAllow
    <2>3. ASSUME NEW failed \in BOOLEAN, NEW expr, NEW q, NEW id \in ListPage(user, expr, q, failed)
          PROVE  id \in Ids /\ Get(user, id)
      <3>1. \/ id \in List(user, failed)
            \/ id \in Ids /\ Live(id) /\ (user = Internal \/ ListDomain(user).unrestricted)
        BY <2>3, Zenon DEF ListPage, CanSqlPage
      <3> QED
        BY <2>1, <2>2, <3>1
    <2> QED
      BY <2>1, <2>3
  <1> QED
    BY <1>1, EntriesHold, PTL

-----------------------------------------------------------------------------
(* Seeding again *)

\* EnsureEntry keeps one row for a name and a role, and the clock dates them.
OneRow == \A a, b \in entries : a.name = b.name /\ a.role = b.role => a = b
Dated == clock \in Nat /\ \A e \in entries : e.at \in 0..clock
SeedInv == EntriesInv /\ OneRow /\ Dated

LEMMA StoredParts ==
    ASSUME NEW p \in Booted \cup Seeds, NEW at
    PROVE  /\ Stored(p, TRUE, at).active = TRUE /\ Stored(p, TRUE, at).at = at
           /\ Stored(p, TRUE, at).name = p.name /\ Stored(p, TRUE, at).role = p.role
           /\ Stored(p, TRUE, at).effect = p.effect /\ Stored(p, TRUE, at).kind = p.kind
           /\ Stored(p, TRUE, at).resource = p.resource
           /\ Stored(p, TRUE, at).actions = p.actions
           /\ Stored(p, TRUE, at).fields = p.fields /\ Stored(p, TRUE, at).domain = p.domain
           /\ Stored(p, TRUE, at).priority = p.priority
  <1>1. DOMAIN p = PolicyFields
    BY RecordsAssumption
  <1>2. "active" \notin DOMAIN p /\ "at" \notin DOMAIN p
    BY <1>1 DEF PolicyFields
  <1>3. Stored(p, TRUE, at) =
            [f \in PolicyFields \cup {"active", "at"} |->
                IF f \in PolicyFields THEN p[f] ELSE [active |-> TRUE, at |-> at][f]]
    BY <1>1 DEF Stored, SetBy
  <1>4. "active" \notin PolicyFields /\ "at" \notin PolicyFields
    BY <1>1, <1>2
  <1>5. Stored(p, TRUE, at).active = TRUE /\ Stored(p, TRUE, at).at = at
    BY <1>3, <1>4
  <1>6. \A f \in PolicyFields : Stored(p, TRUE, at)[f] = p[f]
    BY <1>3
  <1>7. {"name", "role", "effect", "kind", "resource", "actions", "fields", "domain", "priority"}
            \subseteq PolicyFields
    BY DEF PolicyFields
  <1> QED
    BY <1>5, <1>6, <1>7

\* Seeding replaces the row of its name and role; disabling changes none of them.
LEMMA SeedStep == SeedInv /\ EntriesInv' /\ [Next]_vars => SeedInv'
  <1> SUFFICES ASSUME SeedInv, [Next]_vars PROVE OneRow' /\ Dated'
    BY DEF SeedInv
  <1>1. CASE SeedPolicy
    <2>1. PICK seed \in Seeds : entries' = (entries \ SameEntry(seed)) \cup {Seeded(seed)}
      BY <1>1 DEF SeedPolicy, EnsureEntry
    <2>2. /\ Seeded(seed).name = seed.name /\ Seeded(seed).role = seed.role
          /\ Seeded(seed).at = clock + 1
      BY StoredParts DEF Seeded
    <2>3. clock' = clock + 1
      BY <1>1 DEF SeedPolicy
    <2>4. OneRow'
      BY <2>1, <2>2 DEF SeedInv, OneRow, SameEntry
    <2>5. Dated'
      BY <2>1, <2>2, <2>3 DEF SeedInv, Dated
    <2> QED
      BY <2>4, <2>5
  <1>2. ASSUME NEW name, DisableEntry(name) PROVE OneRow' /\ Dated'
    <2> DEFINE Off(e) == IF e.name = name /\ e.active
                         THEN [e EXCEPT !.active = FALSE, !.at = clock + 1] ELSE e
    <2>1. entries' = {Off(e) : e \in entries} /\ clock' = clock + 1
      BY <1>2 DEF DisableEntry
    <2>2. ASSUME NEW e \in entries
          PROVE  Off(e).name = e.name /\ Off(e).role = e.role /\ Off(e).at \in {e.at, clock + 1}
      <3>1. DOMAIN e = PolicyFields \cup {"active", "at"}
        BY DEF SeedInv, EntriesInv, PolicyRow
      <3> QED
        BY <3>1 DEF PolicyFields
    <2> HIDE DEF Off
    <2>3. OneRow'
      BY <2>1, <2>2 DEF SeedInv, OneRow
    <2>4. Dated'
      BY <2>1, <2>2 DEF SeedInv, Dated
    <2> QED
      BY <2>3, <2>4
  <1>3. CASE UNCHANGED entries /\ (UNCHANGED clock \/ clock' = clock + 1)
    BY <1>3 DEF SeedInv, OneRow, Dated
  <1>4. ASSUME NEW c \in Callers, CallStep(c)
        PROVE  UNCHANGED entries /\ (UNCHANGED clock \/ clock' = clock + 1)
    BY <1>4 DEF CallStep, BeginCreate, BeginChange, ReindexSearchModel, Refused, RefusedByHook,
                AuthorizeUpdate, AuthorizeDelete, InsertRecord, UpdateRecord,
                SoftDeleteRecord, WriteFails, Reread, NotIndexed, SyncMemory, SyncRemote,
                RemoteFails, ReindexOne, ReindexDone, tableVars
  <1>5. UpdateSearchModelConfig \/ Restart \/ UNCHANGED vars => UNCHANGED <<entries, clock>>
    BY DEF UpdateSearchModelConfig, Restart, tableVars, vars
  <1> QED
    BY <1>1, <1>2, <1>3, <1>4, <1>5 DEF Next

LEMMA SeedHolds == Spec => []SeedInv
  <1>1. Init /\ EntriesInv => SeedInv
    <2> SUFFICES ASSUME Init, EntriesInv PROVE OneRow /\ Dated
      BY DEF SeedInv
    <2>1. entries = {Stored(policy, TRUE, 0) : policy \in Booted} /\ clock = 0
      BY DEF Init
    <2>2. \A p \in Booted : /\ Stored(p, TRUE, 0).name = p.name /\ Stored(p, TRUE, 0).role = p.role
                            /\ Stored(p, TRUE, 0).at = 0
      BY StoredParts
    <2>3. OneRow
      <3> SUFFICES ASSUME NEW a \in entries, NEW b \in entries, a.name = b.name, a.role = b.role
                   PROVE  a = b
        BY DEF OneRow
      <3>1. PICK p \in Booted, q \in Booted : a = Stored(p, TRUE, 0) /\ b = Stored(q, TRUE, 0)
        BY <2>1
      <3>2. p = q
        BY <2>2, <3>1, RecordsAssumption
      <3> QED
        BY <3>1, <3>2
    <2>4. ASSUME NEW e \in entries PROVE e.at = 0
      <3>1. PICK p \in Booted : e = Stored(p, TRUE, 0)
        BY <2>1
      <3> QED
        BY <2>2, <3>1
    <2>5. clock = 0
      BY <2>1
    <2>6. Dated
      BY <2>4, <2>5 DEF Dated
    <2> QED
      BY <2>3, <2>6
  <1> QED
    BY <1>1, SeedStep, EntriesHold, PTL DEF Spec

\* What a decision takes from a policy row
Alike(a, b) ==
    /\ a.role = b.role /\ a.effect = b.effect /\ a.kind = b.kind /\ a.resource = b.resource
    /\ a.actions = b.actions /\ a.fields = b.fields /\ a.domain = b.domain
    /\ a.priority = b.priority /\ a.active = b.active

\* Rows dated up to n, of which those of equal priority do the same
Settled(some, n) ==
    /\ \A e \in some : PolicyRow(e) /\ e.at \in 0..n
    /\ \A a, b \in some : a.priority = b.priority => a.effect = b.effect

\* Two such lists with rows alike
Twins(S, T, n) ==
    /\ n \in Nat /\ Settled(S, n) /\ Settled(T, n)
    /\ \A a \in S : \E b \in T : Alike(a, b)
    /\ \A b \in T : \E a \in S : Alike(a, b)

\* Any selection by what a decision takes from a row keeps them alike.
LEMMA TwinsSelected ==
    ASSUME NEW S, NEW T, NEW n, Twins(S, T, n), NEW U \in SUBSET S, NEW V \in SUBSET T,
           \A a \in S, b \in T : Alike(a, b) => (a \in U <=> b \in V)
    PROVE  Twins(U, V, n)
  <1>1. Settled(U, n) /\ Settled(V, n)
    BY DEF Twins, Settled
  <1>2. \A a \in U : \E b \in V : Alike(a, b)
    BY DEF Twins
  <1>3. \A b \in V : \E a \in U : Alike(a, b)
    BY DEF Twins
  <1> QED
    BY <1>1, <1>2, <1>3 DEF Twins

\* Of some rows one was listed first among those of the highest priority.
LEMMA ListedFirst ==
    ASSUME NEW n \in Nat, NEW some, Settled(some, n), some # {}
    PROVE  \E m \in some : \A e \in some : ~ListedBefore(e, m)
  <1>1. PICK top \in some : \A e \in some : top.priority >= e.priority
    BY HighestPriority DEF Settled
  <1> DEFINE Age(e) == n - e.at
             best == {e \in some : e.priority = top.priority}
             ages == {Age(e) : e \in best}
  <1>2. \A e \in some : e.at \in Int /\ Age(e) \in Nat /\ e.priority \in Int
    BY PriorityType DEF Settled, PolicyRow
  <1>3. ages \subseteq Nat /\ ages # {}
    BY <1>2
  <1>4. PICK d \in ages : \A k \in ages : <<k, d>> \notin OpToRel(<, Nat)
    <2> HIDE DEF ages
    <2> QED
      BY <1>3, WFMin, NatLessThanWellFounded, Zenon
  <1>5. \A k \in ages : ~(k < d)
    BY <1>3, <1>4 DEF OpToRel
  <1>6. PICK m \in best : d = Age(m)
    OBVIOUS
  <1>7. \A e \in best : ~(Age(e) < Age(m))
    BY <1>5, <1>6
  <1>8. \A e \in best : ~(e.at > m.at)
    BY <1>2, <1>7
  <1>9. ASSUME NEW e \in some, ListedBefore(e, m) PROVE FALSE
    BY <1>1, <1>2, <1>8, <1>9 DEF ListedBefore
  <1> QED
    BY <1>9

\* A row of the highest priority decides, in either order.
LEMMA TopDecides ==
    ASSUME NEW n \in Nat, NEW some, Settled(some, n), NEW f, NEW order \in {"decided", "listed"},
           NEW m \in some, Covers(m, f), \A o \in some : Covers(o, f) => m.priority >= o.priority
    PROVE  EffectOn(some, f, order) = m.effect
  <1> DEFINE named == {o \in some : Covers(o, f)}
             Precedes(a, b) == IF order = "listed" THEN ListedBefore(a, b) ELSE Before(a, b)
             First(x) == \A o \in named : ~Precedes(o, x)
  <1>1. \A o \in some : /\ o.priority \in Int /\ o.effect \in {"allow", "deny"}
    BY PriorityType DEF Settled, PolicyRow
  <1>2. \A a, b \in some : a.priority = b.priority => a.effect = b.effect
    BY DEF Settled
  <1>3. \E x \in named : First(x)
    <2>1. CASE order = "listed"
      <3>1. Settled(named, n) /\ named # {}
        BY DEF Settled
      <3>2. \E x \in named : \A o \in named : ~ListedBefore(o, x)
        <4> HIDE DEF named
        <4> QED
          BY <3>1, ListedFirst
      <3> QED
        BY <2>1, <3>2
    <2>2. CASE order = "decided"
      BY <1>1, <1>2, <2>2 DEF Before
    <2> QED
      BY <2>1, <2>2
  <1>4. ASSUME NEW x \in named, First(x) PROVE x.effect = m.effect
    <2>1. ~(m.priority > x.priority)
      BY <1>4 DEF Before, ListedBefore
    <2>2. x.priority = m.priority
      BY <1>1, <2>1
    <2> QED
      BY <1>2, <2>2
  <1>5. (CHOOSE x \in named : First(x)).effect = m.effect
    <2> DEFINE x == CHOOSE y \in named : First(y)
    <2>1. x \in named /\ First(x)
      BY <1>3
    <2> HIDE DEF x
    <2>2. x.effect = m.effect
      BY <1>4, <2>1
    <2> QED
      BY <2>2 DEF x
  <1>6. named # {}
    OBVIOUS
  <1>7. EffectOn(some, f, order) =
            IF named = {} THEN "none" ELSE (CHOOSE x \in named : First(x)).effect
    BY DEF EffectOn
  <1> QED
    BY <1>5, <1>6, <1>7

\* Alike rows decide alike on a field.
LEMMA TwinsDecide ==
    ASSUME NEW S, NEW T, NEW n, Twins(S, T, n), NEW f, NEW order \in {"decided", "listed"}
    PROVE  EffectOn(S, f, order) = EffectOn(T, f, order)
  <1> DEFINE U == {e \in S : Covers(e, f)}
             V == {e \in T : Covers(e, f)}
  <1>1. \A a \in S, b \in T : Alike(a, b) => (Covers(a, f) <=> Covers(b, f))
    BY DEF Alike, Covers
  <1>2. CASE U = {}
    <2>1. V = {}
      BY <1>1, <1>2 DEF Twins
    <2> QED
      BY <1>2, <2>1 DEF EffectOn
  <1>3. CASE U # {}
    <2>1. \A e \in U : PolicyRow(e)
      BY DEF Twins, Settled
    <2>2. PICK m \in U : \A e \in U : m.priority >= e.priority
      <3> HIDE DEF U
      <3> QED
        BY <1>3, <2>1, HighestPriority
    <2>3. PICK o \in T : Alike(m, o)
      BY DEF Twins
    <2>4. o \in V /\ \A e \in V : o.priority >= e.priority
      BY <1>1, <2>2, <2>3 DEF Twins, Alike
    <2>5. EffectOn(S, f, order) = m.effect
      BY <2>2, TopDecides DEF Twins
    <2>6. EffectOn(T, f, order) = o.effect
      BY <2>4, TopDecides DEF Twins
    <2> QED
      BY <2>3, <2>5, <2>6 DEF Alike
  <1> QED
    BY <1>2, <1>3

\* Alike rows give one decision, ...
LEMMA TwinsEvaluate ==
    ASSUME NEW S, NEW T, NEW n, Twins(S, T, n),
           NEW resource, NEW action, NEW rec, NEW touched, NEW user
    PROVE  /\ Evaluate(S, resource, action, rec, touched, user)
                  = Evaluate(T, resource, action, rec, touched, user)
           /\ DeniedFields(S, resource, action, rec, user)
                  = DeniedFields(T, resource, action, rec, user)
  <1> DEFINE U == Applying(S, resource, action, rec, user)
             V == Applying(T, resource, action, rec, user)
  <1>1. Twins(U, V, n)
    <2>1. U \in SUBSET S /\ V \in SUBSET T
      BY DEF Applying, FilterMatch
    <2>2. \A a \in S, b \in T : Alike(a, b) => (a \in U <=> b \in V)
      BY DEF Applying, FilterMatch, Applies, Alike
    <2> HIDE DEF U, V
    <2> QED
      BY <2>1, <2>2, TwinsSelected
  <1> HIDE DEF U, V
  <1>2. \A f : EffectOn(U, f, "decided") = EffectOn(V, f, "decided")
    BY <1>1, TwinsDecide
  <1>3. \A f : EffectOn(U, f, "listed") = EffectOn(V, f, "listed")
    BY <1>1, TwinsDecide
  <1>4. Named(U) = Named(V)
    BY <1>1 DEF Named, Twins, Alike
  <1>5. (\E e \in U : e.effect = "allow" /\ Covers(e, Star))
            <=> (\E e \in V : e.effect = "allow" /\ Covers(e, Star))
    BY <1>1 DEF Twins, Alike, Covers
  <1>6. HasAllow(U) <=> HasAllow(V)
    BY <1>2, <1>4, <1>5 DEF HasAllow
  <1>7. \A f : AllowedField(U, f) <=> AllowedField(V, f)
    BY <1>2 DEF AllowedField
  <1>8. MaskFrom(U) = MaskFrom(V)
    BY <1>2, <1>4 DEF MaskFrom
  <1>9. Evaluate(S, resource, action, rec, touched, user)
            = Evaluate(T, resource, action, rec, touched, user)
    <2>1. HasAllow(U) = HasAllow(V)
      BY <1>2, <1>4, <1>5 DEF HasAllow
    <2>2. (\A f \in touched : AllowedField(U, f)) = (\A f \in touched : AllowedField(V, f))
      BY <1>7
    <2> DEFINE Decided(some) == [allowed |-> IF touched = {} THEN HasAllow(some)
                                             ELSE \A f \in touched : AllowedField(some, f),
                                 mask |-> MaskFrom(some)]
    <2>3. Evaluate(S, resource, action, rec, touched, user) = Decided(U)
      BY DEF Evaluate, U
    <2>4. Evaluate(T, resource, action, rec, touched, user) = Decided(V)
      BY DEF Evaluate, V
    <2>5. Decided(U) = Decided(V)
      BY <1>8, <2>1, <2>2
    <2> QED
      BY <2>3, <2>4, <2>5
  <1>10. DeniedFields(S, resource, action, rec, user)
            = DeniedFields(T, resource, action, rec, user)
    BY <1>2, <1>3 DEF DeniedFields, U, V
  <1> QED
    BY <1>9, <1>10

\* ... and one filter.
LEMMA TwinsFilter ==
    ASSUME NEW S, NEW T, NEW n, Twins(S, T, n), NEW resource, NEW action
    PROVE  BuildListFilter(S, resource, action) = BuildListFilter(T, resource, action)
  <1> DEFINE U == FilterMatch(S, resource, action)
             V == FilterMatch(T, resource, action)
             WholeOf(some) == {e \in some : Covers(e, Star)}
             AllowsOf(some) == {e \in WholeOf(some) : e.effect = "allow"}
             DeniesOf(some) == WholeOf(some) \ AllowsOf(some)
  <1>1. Twins(U, V, n)
    <2>1. U \in SUBSET S /\ V \in SUBSET T
      BY DEF FilterMatch
    <2>2. \A a \in S, b \in T : Alike(a, b) => (a \in U <=> b \in V)
      BY DEF FilterMatch, Alike
    <2> HIDE DEF U, V
    <2> QED
      BY <2>1, <2>2, TwinsSelected
  <1> HIDE DEF U, V
  <1>2. \A a \in U, b \in V : Alike(a, b) =>
            /\ a \in WholeOf(U) <=> b \in WholeOf(V)
            /\ a \in AllowsOf(U) <=> b \in AllowsOf(V)
            /\ a \in DeniesOf(U) <=> b \in DeniesOf(V)
            /\ a.domain = b.domain /\ a.effect = b.effect
    BY DEF Alike, Covers
  <1>3. (WholeOf(U) = {}) <=> (WholeOf(V) = {})
    BY <1>1, <1>2 DEF Twins
  <1>4. (\E e \in U : e.effect = "allow") <=> (\E e \in V : e.effect = "allow")
    BY <1>1, <1>2 DEF Twins
  <1>5. {e.domain : e \in AllowsOf(U)} = {e.domain : e \in AllowsOf(V)}
    BY <1>1, <1>2 DEF Twins
  <1>6. {e.domain : e \in DeniesOf(U)} = {e.domain : e \in DeniesOf(V)}
    BY <1>1, <1>2 DEF Twins
  <1>7. /\ (AllowsOf(U) = {}) <=> (AllowsOf(V) = {})
        /\ (DeniesOf(U) = {}) <=> (DeniesOf(V) = {})
        /\ (\E e \in AllowsOf(U) : e.domain = {}) <=> (\E e \in AllowsOf(V) : e.domain = {})
        /\ (\E e \in DeniesOf(U) : e.domain = {}) <=> (\E e \in DeniesOf(V) : e.domain = {})
    BY <1>1, <1>2 DEF Twins
  <1> DEFINE Built(some) ==
        IF WholeOf(some) = {} /\ \E e \in some : e.effect = "allow" THEN Unrestricted
        ELSE IF AllowsOf(some) = {} \/ (\E e \in DeniesOf(some) : e.domain = {}) THEN DenyAll
        ELSE IF DeniesOf(some) = {} /\ (\E e \in AllowsOf(some) : e.domain = {})
        THEN Unrestricted
        ELSE [denyAll |-> FALSE, unrestricted |-> FALSE,
              allow |-> {e.domain : e \in AllowsOf(some)} \ {{}},
              deny |-> {e.domain : e \in DeniesOf(some)}]
  <1>8. BuildListFilter(S, resource, action) = Built(U)
    BY DEF BuildListFilter, U
  <1>9. BuildListFilter(T, resource, action) = Built(V)
    BY DEF BuildListFilter, V
  <1>10. Built(U) = Built(V)
    <2> HIDE DEF WholeOf, AllowsOf, DeniesOf
    <2> QED
      BY <1>3, <1>4, <1>5, <1>6, <1>7
  <1> QED
    BY <1>8, <1>9, <1>10

\* A policy seeded as it is in force puts a row in the place of one that is alike.
LEMMA SeedingTwins ==
    ASSUME SeedInv, NEW seed \in Seeds, entries' = EnsureEntry(seed), InForce(seed), ~Ties
    PROVE  Twins(entries, entries', clock + 1)
  <1> DEFINE n == clock + 1
             new == Seeded(seed)
  <1>1. PICK at \in 0..clock : Stored(seed, TRUE, at) \in entries
    BY DEF InForce
  <1> DEFINE old == Stored(seed, TRUE, at)
  <1>2. old.name = seed.name /\ old.role = seed.role
    BY StoredParts
  <1>3. SameEntry(seed) = {old}
    BY <1>1, <1>2 DEF SameEntry, SeedInv, OneRow
  <1>4. entries' = (entries \ {old}) \cup {new}
    BY <1>3 DEF EnsureEntry
  <1>5. Alike(old, new) /\ new.at = n
    <2>1. \A t : /\ Stored(seed, TRUE, t).role = seed.role
                 /\ Stored(seed, TRUE, t).effect = seed.effect
                 /\ Stored(seed, TRUE, t).kind = seed.kind
                 /\ Stored(seed, TRUE, t).resource = seed.resource
                 /\ Stored(seed, TRUE, t).actions = seed.actions
                 /\ Stored(seed, TRUE, t).fields = seed.fields
                 /\ Stored(seed, TRUE, t).domain = seed.domain
                 /\ Stored(seed, TRUE, t).priority = seed.priority
                 /\ Stored(seed, TRUE, t).active = TRUE /\ Stored(seed, TRUE, t).at = t
      BY StoredParts
    <2> QED
      BY <2>1 DEF Alike, Seeded
  <1> HIDE DEF old, new
  <1>6. n \in Nat /\ \A e \in entries : e.at \in 0..n
    BY DEF SeedInv, Dated
  <1>7. Settled(entries, n)
    BY <1>6 DEF Settled, SeedInv, EntriesInv, Ties
  <1>8. PolicyRow(new)
    BY StoredEntry DEF new, Seeded
  <1>9. Settled(entries', n)
    <2>1. old \in entries /\ old.priority = new.priority /\ old.effect = new.effect
      BY <1>1, <1>5 DEF Alike, old
    <2>2. \A e \in entries' : PolicyRow(e) /\ e.at \in 0..n
      BY <1>4, <1>5, <1>6, <1>7, <1>8 DEF Settled
    <2>3. \A a, b \in entries' : a.priority = b.priority => a.effect = b.effect
      BY <1>4, <1>7, <2>1 DEF Settled
    <2> QED
      BY <2>2, <2>3 DEF Settled
  <1>10. \A e \in entries : Alike(e, e)
    BY DEF Alike
  <1>11. \A a \in entries : \E b \in entries' : Alike(a, b)
    BY <1>4, <1>5, <1>10
  <1>12. \A b \in entries' : \E a \in entries : Alike(a, b)
    BY <1>1, <1>4, <1>5, <1>10 DEF old
  <1> QED
    BY <1>6, <1>7, <1>9, <1>11, <1>12 DEF Twins

\* On the same rows, policies that are alike show a client the same.
LEMMA TwinsShow ==
    ASSUME NEW n, Twins(entries, entries', n), rows' = rows, NEW user
    PROVE  Visible(user)' = Visible(user)
  <1>1. PICK S : S = ListEntriesForUser(user)
    OBVIOUS
  <1>2. PICK T : T = ListEntriesForUser(user)'
    OBVIOUS
  <1>3. Twins(S, T, n)
    <2>1. PICK E : E = entries
      OBVIOUS
    <2>2. PICK F : F = entries'
      OBVIOUS
    <2>3. S \in SUBSET E /\ T \in SUBSET F
      BY <1>1, <1>2, <2>1, <2>2 DEF ListEntriesForUser
    <2>4. \A a \in E, b \in F : Alike(a, b) => (a \in S <=> b \in T)
      BY <1>1, <1>2, <2>1, <2>2 DEF ListEntriesForUser, Alike
    <2>5. Twins(E, F, n)
      BY <2>1, <2>2
    <2> QED
      BY <2>3, <2>4, <2>5, TwinsSelected
  <1>4. \A action, rec, touched :
            Evaluate(S, Resource, action, rec, touched, user)
                = Evaluate(T, Resource, action, rec, touched, user)
    BY <1>3, TwinsEvaluate
  <1>5. \A action, rec : DeniedFields(S, Resource, action, rec, user)
                            = DeniedFields(T, Resource, action, rec, user)
    BY <1>3, TwinsEvaluate
  <1>6. \A action, rec, touched : Can(user, action, rec, touched)' = Can(user, action, rec, touched)
    BY <1>1, <1>2, <1>4 DEF Can
  <1>7. \A action, rec : Denied(user, action, rec)' = Denied(user, action, rec)
    BY <1>1, <1>2, <1>5 DEF Denied
  <1>8. ListDomain(user)' = ListDomain(user)
    BY <1>1, <1>2, <1>3, TwinsFilter DEF ListDomain
  <1>9. ASSUME NEW id PROVE (Get(user, id)' = Get(user, id)) /\ (Live(id)' = Live(id))
    <2>1. PICK vals : vals = rows[id].vals /\ vals = rows'[id].vals
      OBVIOUS
    <2>2. Evaluate(S, Resource, "read", vals, {}, user) = Evaluate(T, Resource, "read", vals, {}, user)
      BY <1>4
    <2>3. Live(id)' = Live(id)
      BY DEF Live
    <2>4. Get(user, id) = (Live(id) /\ (user = Internal \/ Evaluate(S, Resource, "read", vals, {}, user).allowed))
      BY <1>1, <2>1 DEF Get, MustAllow, Can
    <2>5. Get(user, id)' = (Live(id)' /\ (user = Internal \/ Evaluate(T, Resource, "read", vals, {}, user).allowed))
      BY <1>2, <2>1 DEF Get, MustAllow, Can
    <2> QED
      BY <2>2, <2>3, <2>4, <2>5
  <1>10. ASSUME NEW id PROVE MaskRead(user, id)' = MaskRead(user, id)
    <2>1. PICK vals : vals = rows[id].vals /\ vals = rows'[id].vals
      OBVIOUS
    <2> DEFINE Masked(some) ==
            IF user = Internal THEN vals
            ELSE MaskRecord(vals, Evaluate(some, Resource, "read", vals, {}, user).mask,
                            DeniedFields(some, Resource, "read", vals, user))
    <2>2. MaskRead(user, id) = Masked(S)
      BY <1>1, <2>1 DEF MaskRead, Can, Denied
    <2>3. MaskRead(user, id)' = Masked(T)
      BY <1>2, <2>1 DEF MaskRead, Can, Denied
    <2>4. Masked(S) = Masked(T)
      BY <1>4, <1>5
    <2> QED
      BY <2>2, <2>3, <2>4
  <1>11. PICK filter : filter = ListDomain(user) /\ filter = ListDomain(user)'
    BY <1>8
  <1>12. PICK may \in BOOLEAN : /\ may = (user # Internal /\ ~Can(user, "read", NoRecord, {}).allowed)
                                /\ may = (user # Internal /\ ~Can(user, "read", NoRecord, {})'.allowed)
    BY <1>6
  <1>13. List(user, FALSE)' = List(user, FALSE)
    <2> DEFINE Passes(id) == IF FilterCompiles(filter)
                             THEN CompileListFilter(filter, rows[id].vals, user)
                             ELSE RecordPassesFilter(filter, rows[id].vals, user)
               PassesNext(id) == IF FilterCompiles(filter)
                             THEN CompileListFilter(filter, rows'[id].vals, user)
                             ELSE RecordPassesFilter(filter, rows'[id].vals, user)
               One == {id \in Ids : Live(id) /\ Passes(id) /\ Get(user, id)}
               Two == {id \in Ids : Live(id)' /\ PassesNext(id) /\ Get(user, id)'}
    <2>1. List(user, FALSE) = IF user = Internal THEN {id \in Ids : Live(id)} ELSE IF may THEN {} ELSE One
      BY <1>11, <1>12 DEF List
    <2>2. List(user, FALSE)' = IF user = Internal THEN {id \in Ids : Live(id)'} ELSE IF may THEN {} ELSE Two
      BY <1>11, <1>12 DEF List
    <2>3. One = Two
      BY <1>9
    <2>4. {id \in Ids : Live(id)} = {id \in Ids : Live(id)'}
      BY <1>9
    <2> HIDE DEF One, Two
    <2> QED
      BY <2>1, <2>2, <2>3, <2>4
  <1>14. CanSqlPage(user)' = CanSqlPage(user)
    BY <1>11 DEF CanSqlPage
  <1>15. ListPage(user, << >>, Empty, FALSE)' = ListPage(user, << >>, Empty, FALSE)
    <2>1. \A vals : Occurs(vals, Empty)
      BY DEF Occurs
    <2>2. PICK list : list = List(user, FALSE) /\ list = List(user, FALSE)'
      BY <1>13
    <2>3. {id \in list : ExprMatch(<< >>, MaskRead(user, id))}
              = {id \in list : ExprMatch(<< >>, MaskRead(user, id)')}
      BY <1>10
    <2>4. {id \in Ids : Live(id) /\ SqlExprMatch(<< >>, rows[id].vals)}
              = {id \in Ids : Live(id)' /\ SqlExprMatch(<< >>, rows'[id].vals)}
      BY <1>9
    <2> QED
      BY <1>11, <1>14, <2>1, <2>2, <2>3, <2>4 DEF ListPage
  <1>16. Groups(user, "owner")' = Groups(user, "owner")
    <2>1. PICK page : /\ page = ListPage(user, << >>, Empty, FALSE)
                      /\ page = ListPage(user, << >>, Empty, FALSE)'
      BY <1>15
    <2>2. PICK sql : sql = CanSqlPage(user) /\ sql = CanSqlPage(user)'
      BY <1>14
    <2> DEFINE Shown(id) == IF sql THEN rows[id].vals ELSE MaskRead(user, id)
               ShownNext(id) == IF sql THEN rows'[id].vals ELSE MaskRead(user, id)'
               Value(id) == IF "owner" \in DOMAIN Shown(id) THEN Shown(id)["owner"] ELSE Empty
               ValueNext(id) == IF "owner" \in DOMAIN ShownNext(id)
                                THEN ShownNext(id)["owner"] ELSE Empty
    <2>3. Groups(user, "owner") = [v \in {Value(id) : id \in page} |->
                                      Cardinality({id \in page : Value(id) = v})]
      BY <2>1, <2>2 DEF Groups
    <2>4. Groups(user, "owner")' = [v \in {ValueNext(id) : id \in page} |->
                                      Cardinality({id \in page : ValueNext(id) = v})]
      BY <2>1, <2>2 DEF Groups
    <2>5. \A id : ValueNext(id) = Value(id)
      BY <1>10
    <2> HIDE DEF Value, ValueNext
    <2>6. {Value(id) : id \in page} = {ValueNext(id) : id \in page}
      BY <2>5
    <2>7. \A v : {id \in page : Value(id) = v} = {id \in page : ValueNext(id) = v}
      BY <2>5
    <2> QED
      BY <2>3, <2>4, <2>6, <2>7
  <1> QED
    BY <1>9, <1>10, <1>13, <1>15, <1>16 DEF Visible

\* A policy that is seeded again as it is in force changes nothing a client can see.
THEOREM SeedingChangesNothing == Spec => SeedingIsIdempotent
  <1> DEFINE Again == \A seed \in Seeds :
                 SeedPolicy /\ entries' = EnsureEntry(seed) /\ InForce(seed) /\ ~Ties =>
                     \A user \in DOMAIN RolesOf : Visible(user)' = Visible(user)
  <1>1. SeedInv => Again
    <2> SUFFICES ASSUME SeedInv, NEW seed \in Seeds, SeedPolicy, entries' = EnsureEntry(seed),
                        InForce(seed), ~Ties, NEW user \in DOMAIN RolesOf
                 PROVE  Visible(user)' = Visible(user)
      OBVIOUS
    <2>1. Twins(entries, entries', clock + 1)
      BY SeedingTwins
    <2>2. rows' = rows
      BY DEF SeedPolicy
    <2>3. PICK n : n = clock + 1
      OBVIOUS
    <2>4. Twins(entries, entries', n)
      BY <2>1, <2>3
    <2> QED
      BY <2>2, <2>4, TwinsShow
  <1> HIDE DEF Again
  <1>2. Spec => [][Again]_vars
    BY <1>1, SeedHolds, PTL
  <1> QED
    BY <1>2 DEF SeedingIsIdempotent, Again
=============================================================================
