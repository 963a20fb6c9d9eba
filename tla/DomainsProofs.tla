--------------------------- MODULE DomainsProofs ---------------------------
(***************************************************************************)
(* Proofs about module Domains, for every set of apps and documents, any   *)
(* number of callers and failures.                                         *)
(***************************************************************************)
EXTENDS Domains, WellFoundedInduction, SequenceTheorems, TLAPS

-----------------------------------------------------------------------------
(* The inductive invariant *)

\* Steps of a call at which it holds Domains.mu
Holding == {"remount", "secure", "unmount", "append", "rollback"}

\* Exactly one call holds the mutex when it is held
LockInv == \A c \in Callers : call[c].pc \in Holding <=> lock = c

\* A call that is past its dry run has a request
RequestInv == \A c \in Callers :
    call[c].pc \notin {"idle", "check"} => call[c].queue # <<>>

\* The store keeps layers under "overlay"
StoreInv == \A a \in Apps : \A i \in DOMAIN store[a] :
    store[a][i].layer = "overlay" => store[a][i].doc \in Layers

\* Nothing is mounted before boot reaches it, and no call runs during boot
BootInv ==
    /\ boot.phase # "up" => lock = NoCaller /\ \A c \in Callers : At(c, "idle")
    /\ boot.phase = "down" => loaded = {}
    /\ boot.phase = "setup" =>
           loaded \subseteq {CompiledOrder[i] : i \in {j \in DOMAIN CompiledOrder : j < boot.at}}
    /\ boot.phase = "secure" => loaded \subseteq Compiled
    /\ boot.phase = "load" => loaded \subseteq
           Compiled \cup {DynamicOrder[i] : i \in {j \in DOMAIN DynamicOrder : j < boot.at}}

\* The app a mount holds open: its surface is being replaced
Open(a) == \E c \in Callers :
    lock = c /\ a = Target(c) /\ call[c].pc \in {"remount", "unmount", "rollback"}

\* Apps Host.Loaded does not list have no surface, unless one is being built
LoadedInv ==
    /\ \A a \in Dynamic : a \in dynamic <=> a \in loaded
    /\ \A a \in Apps \ loaded :
           \/ mounted[a] = Unmounted
           \/ \E c \in Callers : /\ lock = c /\ a = Target(c)
                                 /\ call[c].pc \in {"remount", "secure", "rollback"}

\* Every surface but the open one is whole
WholeInv == \A a \in Apps : Open(a) \/ Intact(a)

\* What a mount saved is what a rollback has to put back: a whole surface of
\* its app, and the fields of the others as they are
Saved(c) ==
    LET a == Target(c)
    IN  /\ saved.state.owned = saved.state.spec.fields
        /\ saved.state.services = saved.state.spec.cols
        /\ \A f \in Fields : saved.root[f] # a
        /\ \A f \in saved.state.owned : saved.root[f] = NoApp
        /\ \A f \in Fields : root[f] = saved.root[f] \/ (saved.root[f] = NoApp /\ root[f] = a)
        /\ a \notin loaded => a \in Dynamic /\ saved.state = Unmounted
        /\ At(c, "remount") => root = saved.root

SavedInv == \A c \in Callers : call[c].pc \in {"remount", "secure", "rollback"} => Saved(c)

\* How far the mount or unmount of a call has come
Progress(c) ==
    /\ At(c, "secure") => mounted[Target(c)].spec = Desired(c)
    /\ At(c, "unmount") => Deletes(c) /\ \A f \in Fields : root[f] # Target(c)
    /\ At(c, "append") /\ Runs(Target(c)) => mounted[Target(c)].spec = Desired(c)

ProgressInv == \A c \in Callers : Progress(c)

TypeInv == TypeOK /\ RequestInv /\ StoreInv
ControlInv == LockInv /\ BootInv
SurfaceInv == LoadedInv /\ WholeInv /\ SavedInv /\ ProgressInv

IInv == TypeInv /\ ControlInv /\ SurfaceInv

-----------------------------------------------------------------------------
(* The operators the model is built from *)

\* A non-empty set of naturals up to a bound has a greatest element: the newest
\* revision of a layer exists (DomainStore.HeadAt).
LEMMA MaxIsGreatest ==
    ASSUME NEW n \in Nat, NEW S \in SUBSET (1..n), S # {}
    PROVE  Max(S) \in S /\ \A y \in S : Max(S) >= y
<1> DEFINE T == {n - y : y \in S}
           R == OpToRel(<, Nat)
<1>1. T \subseteq Nat /\ T # {}
  <2>1. \A y \in S : n - y \in Nat
    OBVIOUS
  <2>2. PICK y \in S : TRUE
    OBVIOUS
  <2>3. n - y \in T
    OBVIOUS
  <2> QED BY <2>1, <2>3
<1>2. IsWellFoundedOn(R, Nat)
  BY NatLessThanWellFounded
<1>3. PICK t \in T : \A u \in T : <<u, t>> \notin R
  <2> HIDE DEF T, R
  <2> QED BY <1>1, <1>2, WFMin
<1>4. \A u \in T : ~(u < t)
  BY <1>1, <1>3 DEF OpToRel
<1>5. PICK x \in S : t = n - x
  BY <1>3
<1>6. \A y \in S : x >= y
  BY <1>4, <1>5
<1> QED
  BY <1>6 DEF Max

\* Each kind of bound is counted in its own field.
LEMMA SpendType ==
    ASSUME used \in [calls : Nat, failures : Nat, crashes : Nat, upgrades : Nat],
           NEW b \in {"calls", "failures", "crashes", "upgrades"},
           NEW m, Spend(b, m)
    PROVE  used' \in [calls : Nat, failures : Nat, crashes : Nat, upgrades : Nat]
BY DEF Spend

\* The definition a call mounts is one (Domains.effective).
LEMMA EffectiveType ==
    ASSUME code \in [Compiled -> CodeDocs],
           NEW a \in Apps, NEW layer \in Docs \cup CodeDocs \cup {NoLayer}
    PROVE  /\ BaseOf(a) \in Definitions
           /\ Effective(a, layer) \in Definitions
<1>1. Blank \in Definitions
  BY DEF Blank, Definitions
<1>2. BaseOf(a) \in Definitions
  BY <1>1, DomainsAssumption DEF BaseOf
<1>3. CASE layer = NoLayer
  BY <1>2, <1>3 DEF Effective
<1>4. CASE layer # NoLayer
  <2>1. Content[layer] \in Definitions
    BY <1>4, DomainsAssumption
  <2>2. Merge(BaseOf(a), Content[layer]) \in Definitions
    BY <1>2, <2>1 DEF Merge, Definitions
  <2> QED BY <1>2, <1>4, <2>2 DEF Effective
<1> QED BY <1>3, <1>4

\* What the store returns as a layer's head is a document, and a layer for
\* "overlay" (DomainStore.HeadAt).
LEMMA HeadAtType ==
    ASSUME store \in [Apps -> Seq(Revisions)], StoreInv,
           NEW a \in Apps, NEW n \in 0..Len(store[a]), NEW layer
    PROVE  /\ HeadAt(a, layer, n) \in Docs \cup CodeDocs \cup {NoLayer}
           /\ layer = "overlay" => HeadAt(a, layer, n) \in Layers
<1> DEFINE revs == {i \in 1..n : store[a][i].layer = layer}
<1>1. CASE revs = {}
  BY <1>1 DEF HeadAt, Layers
<1>2. CASE revs # {}
  <2>1. n \in Nat /\ n <= Len(store[a])
    BY LenProperties
  <2>2. Max(revs) \in revs
    <3>1. revs \in SUBSET (1..n) OBVIOUS
    <3> HIDE DEF revs
    <3> QED BY <1>2, <2>1, <3>1, MaxIsGreatest
  <2>3. Max(revs) \in DOMAIN store[a] /\ store[a][Max(revs)] \in Revisions
    BY <2>1, <2>2, LenProperties, ElementOfSeq
  <2>4. HeadAt(a, layer, n) = store[a][Max(revs)].doc
    BY <1>2 DEF HeadAt
  <2>5. store[a][Max(revs)].layer = layer
    BY <2>2
  <2> HIDE DEF revs
  <2> QED BY <2>3, <2>4, <2>5 DEF Revisions, StoreInv
<1> QED BY <1>1, <1>2

-----------------------------------------------------------------------------
(* Types *)

UsedType == [calls : Nat, failures : Nat, crashes : Nat, upgrades : Nat]

\* A call past its dry run has a request for an app, and a spec to mount.
LEMMA RequestType ==
    ASSUME TypeInv, NEW c \in Callers, call[c].pc \notin {"idle", "check"}
    PROVE  /\ Request(c) \in Requests
           /\ Target(c) \in Apps
           /\ Request(c).layer \in Layers
           /\ Desired(c) \in Definitions
           /\ Tail(call[c].queue) \in Seq(Requests)
<1>1. call[c].queue \in Seq(Requests) /\ call[c].queue # <<>>
  BY DEF TypeInv, TypeOK, Calls, RequestInv
<1>2. Request(c) \in Requests /\ Tail(call[c].queue) \in Seq(Requests)
  BY <1>1, HeadTailProperties DEF Request
<1>3. Target(c) \in Apps /\ Request(c).layer \in Layers
  BY <1>2 DEF Requests, Target
<1>4. Desired(c) \in Definitions
  BY <1>3, EffectiveType DEF TypeInv, TypeOK, Desired, Layers
<1> QED BY <1>2, <1>3, <1>4

LEMMA InitType == Init => TypeInv
<1> SUFFICES ASSUME Init PROVE TypeInv
  OBVIOUS
<1>1. Unmounted \in AppStates
  BY DEF Unmounted, AppStates, Blank, Definitions
<1>2. NoFields \in [Fields -> Apps \cup {NoApp}]
  BY DEF NoFields
<1>3. TypeOK
  BY <1>1, <1>2 DEF Init, TypeOK, Nothing, NoMount, NoCalls, Idle, Calls, Layers
<1>4. RequestInv
  BY DEF Init, RequestInv, NoCalls, Idle
<1>5. StoreInv
  BY DEF Init, StoreInv
<1> QED BY <1>3, <1>4, <1>5 DEF TypeInv

\* A call that starts has well-formed requests.
LEMMA StartType ==
    ASSUME TypeInv, NEW c \in Callers, NEW pc \in {"read", "check"},
           NEW queue \in Seq(Requests), pc = "read" => queue # <<>>,
           Start(c, pc, queue)
    PROVE  TypeInv'
<1>1. used' \in UsedType
  BY SpendType DEF Start, TypeInv, TypeOK, UsedType
<1>2. call' \in [Callers -> Calls]
  BY DEF Start, TypeInv, TypeOK, Calls, Idle, Layers
<1>3. RequestInv'
  BY DEF Start, TypeInv, TypeOK, RequestInv, Idle
<1>4. TypeOK'
  BY <1>1, <1>2 DEF Start, TypeInv, TypeOK, durable, memory, UsedType
<1>5. StoreInv'
  BY DEF Start, TypeInv, StoreInv, durable
<1> QED BY <1>3, <1>4, <1>5 DEF TypeInv

\* The API calls and the steps of a call before the lock.
LEMMA CallType ==
    ASSUME TypeInv, NEW c \in Callers,
           Apply(c) \/ Revert(c) \/ Delete(c) \/ Import(c)
    PROVE  TypeInv'
<1>1. ASSUME NEW a \in Apps, NEW layer \in Layers,
             Start(c, "read", <<[app |-> a, layer |-> layer]>>)
      PROVE  TypeInv'
  <2>1. <<[app |-> a, layer |-> layer]>> \in Seq(Requests)
    BY DEF Requests
  <2>2. <<[app |-> a, layer |-> layer]>> # <<>>
    OBVIOUS
  <2> QED BY <1>1, <2>1, <2>2, StartType
<1>2. CASE Apply(c)
  <2>1. PICK doc \in Docs : Start(c, "read", <<[app |-> DocApp[doc], layer |-> doc]>>)
    BY <1>2 DEF Apply
  <2>2. DocApp[doc] \in Apps /\ doc \in Layers
    BY DomainsAssumption DEF Layers
  <2> QED BY <1>1, <2>1, <2>2
<1>3. CASE Revert(c)
  <2>1. PICK a \in Apps : \E n \in 1..Len(store[a]) :
            Start(c, "read", <<[app |-> a, layer |-> HeadAt(a, "overlay", n)]>>)
    BY <1>3 DEF Revert
  <2>2. PICK n \in 1..Len(store[a]) :
            Start(c, "read", <<[app |-> a, layer |-> HeadAt(a, "overlay", n)]>>)
    BY <2>1
  <2>3. HeadAt(a, "overlay", n) \in Layers
    BY HeadAtType, LenProperties DEF TypeInv, TypeOK
  <2> QED BY <1>1, <2>2, <2>3
<1>4. CASE Delete(c)
  BY <1>1, <1>4 DEF Delete, Layers
<1>5. CASE Import(c)
  BY <1>5, StartType, DomainsAssumption DEF Import
<1> QED BY <1>2, <1>3, <1>4, <1>5

\* A call's record changes to a well-formed one.
LEMMA UpdateType ==
    ASSUME TypeInv, NEW c \in Callers, NEW r \in Calls,
           r.pc \notin {"idle", "check"} => r.queue # <<>>,
           call' = [call EXCEPT ![c] = r]
    PROVE  call' \in [Callers -> Calls] /\ RequestInv'
<1>1. call \in [Callers -> Calls]
  BY DEF TypeInv, TypeOK
<1>2. call' \in [Callers -> Calls]
  BY <1>1
<1>3. \A d \in Callers : call'[d] = IF d = c THEN r ELSE call[d]
  BY <1>1
<1>4. RequestInv'
  BY <1>3 DEF TypeInv, RequestInv
<1> QED BY <1>2, <1>4

\* A call that moves on, or returns, stays well-formed.
LEMMA MoveType ==
    ASSUME TypeInv, NEW c \in Callers,
           \/ Return(c)
           \/ \E pc \in {"read", "validate", "lock", "remount", "secure", "unmount",
                         "append", "rollback"} :
                  Goto(c, pc) /\ call[c].queue # <<>>
    PROVE  call' \in [Callers -> Calls] /\ RequestInv'
<1>1. CASE Return(c)
  <2>1. Idle \in Calls
    BY DEF Idle, Calls, Layers
  <2> QED BY <1>1, <2>1, UpdateType DEF Return, Idle
<1>2. ASSUME NEW pc \in {"read", "validate", "lock", "remount", "secure", "unmount",
                         "append", "rollback"},
             Goto(c, pc), call[c].queue # <<>>
      PROVE  call' \in [Callers -> Calls] /\ RequestInv'
  <2> DEFINE r == [call[c] EXCEPT !.pc = pc]
  <2>1. call[c] \in Calls
    BY DEF TypeInv, TypeOK
  <2>2. r \in Calls /\ r.queue # <<>>
    BY <1>2, <2>1 DEF Calls
  <2>3. call' = [call EXCEPT ![c] = r]
    BY <1>2 DEF Goto
  <2> HIDE DEF r
  <2> QED BY <2>2, <2>3, UpdateType
<1> QED BY <1>1, <1>2

LEMMA BeforeLockType ==
    ASSUME TypeInv, NEW c \in Callers, Check(c) \/ ReadHead(c) \/ ReadFails(c) \/ Validate(c)
    PROVE  TypeInv'
<1>1. UNCHANGED <<store, columns, active, code, root, mounted, dynamic, loaded, errors,
                  lock, saved, boot>>
  BY DEF Check, ReadHead, ReadFails, Validate, durable, memory
<1>3. used' \in UsedType
  <2>1. CASE ReadFails(c)
    BY <2>1, SpendType DEF ReadFails, Fail, UsedType, TypeInv, TypeOK
  <2>2. CASE UNCHANGED used
    BY <2>2 DEF UsedType, TypeInv, TypeOK
  <2> QED BY <2>1, <2>2 DEF Check, ReadHead, Validate
<1>2. call' \in [Callers -> Calls] /\ RequestInv'
  <2>1. CASE Check(c)
    <3>1. CASE Return(c)
      BY <3>1, MoveType
    <3>2. CASE Goto(c, "read") /\ call[c].queue # <<>>
      BY <3>2, MoveType
    <3>3. CASE call' = [call EXCEPT ![c].checked = call[c].checked + 1]
      <4> DEFINE r == [call[c] EXCEPT !.checked = call[c].checked + 1]
      <4>1. call[c] \in Calls
        BY DEF TypeInv, TypeOK
      <4>2. r \in Calls /\ r.pc = "check"
        BY <2>1, <4>1 DEF Calls, Check, At
      <4>3. call' = [call EXCEPT ![c] = r]
        BY <3>3
      <4> HIDE DEF r
      <4> QED BY <4>2, <4>3, UpdateType
    <3> QED BY <2>1, <3>1, <3>2, <3>3 DEF Check
  <2>2. CASE ReadHead(c)
    <3>1. call[c].queue # <<>>
      BY <2>2 DEF ReadHead, At, TypeInv, RequestInv
    <3>2. Target(c) \in Apps
      BY <2>2, RequestType DEF ReadHead, At
    <3>3. Len(store[Target(c)]) \in Nat
      BY <3>2, LenProperties DEF TypeInv, TypeOK
    <3>4. HeadOf(Target(c), "overlay") \in Layers
      BY <3>2, <3>3, HeadAtType DEF HeadOf, TypeInv, TypeOK
    <3> DEFINE r == [call[c] EXCEPT !.pc = "validate",
                                    !.current = HeadOf(Target(c), "overlay")]
    <3>5. call[c] \in Calls
      BY DEF TypeInv, TypeOK
    <3>6. r \in Calls /\ r.queue # <<>>
      BY <3>1, <3>4, <3>5 DEF Calls
    <3>7. call' = [call EXCEPT ![c] = r]
      BY <2>2 DEF ReadHead
    <3> HIDE DEF r
    <3> QED BY <3>6, <3>7, UpdateType
  <2>3. CASE Validate(c)
    <3>1. call[c].queue # <<>>
      BY <2>3 DEF Validate, At, TypeInv, RequestInv
    <3> QED BY <2>3, <3>1, MoveType DEF Validate
  <2>4. CASE ReadFails(c)
    BY <2>4, MoveType DEF ReadFails
  <2> QED BY <2>1, <2>2, <2>3, <2>4
<1> QED BY <1>1, <1>2, <1>3 DEF TypeInv, TypeOK, StoreInv, UsedType

\* What a mount saves, drops and registers under the lock is well-formed.
LEMMA LockType ==
    ASSUME TypeInv, NEW c \in Callers,
           MountUnchanged(c) \/ SwapStart(c) \/ MountNew(c) \/ UnmountStart(c)
    PROVE  TypeInv'
<1>1. At(c, "lock") /\ lock' = c
  BY DEF MountUnchanged, SwapStart, MountNew, UnmountStart, Acquire
<1>2. call[c].queue # <<>> /\ Target(c) \in Apps
  BY <1>1, RequestType DEF At, TypeInv, RequestInv
<1>3. call' \in [Callers -> Calls] /\ RequestInv'
  BY <1>2, MoveType DEF MountUnchanged, SwapStart, MountNew, UnmountStart
<1>4. UNCHANGED <<store, columns, active, code, mounted, dynamic, loaded, errors, boot, used>>
  BY DEF MountUnchanged, SwapStart, MountNew, UnmountStart, durable, memory
<1>5. root' \in [Fields -> Apps \cup {NoApp}]
  BY DEF MountUnchanged, SwapStart, MountNew, UnmountStart, memory, TypeInv, TypeOK
<1>6. saved' \in [state : AppStates, root : [Fields -> Apps \cup {NoApp}]]
  <2>1. Unmounted \in AppStates
    BY DEF Unmounted, AppStates, Blank, Definitions
  <2> QED BY <1>2, <1>5, <2>1
        DEF MountUnchanged, SwapStart, MountNew, UnmountStart, memory, TypeInv, TypeOK
<1> QED BY <1>1, <1>3, <1>4, <1>5, <1>6 DEF TypeInv, TypeOK, StoreInv

\* ADD COLUMN adds columns of the document.
LEMMA ColumnsType ==
    ASSUME TypeInv, NEW a \in Apps, NEW cols \in SUBSET Columns,
           columns' = [columns EXCEPT ![a] = AddColumns(a, cols)]
    PROVE  columns' \in [Apps -> SUBSET Columns]
BY DEF TypeInv, TypeOK, AddColumns

LEMMA RemountType ==
    ASSUME TypeInv, NEW c \in Callers, Remount(c) \/ RemountClash(c) \/ RemountFails(c)
    PROVE  TypeInv'
<1>1. At(c, "remount")
  BY DEF Remount, RemountClash, RemountFails
<1>2. /\ Target(c) \in Apps /\ Desired(c) \in Definitions
      /\ call[c].queue # <<>>
  BY <1>1, RequestType DEF At, TypeInv, RequestInv
<1>3. call' \in [Callers -> Calls] /\ RequestInv'
  BY <1>2, MoveType DEF Remount, RemountClash, RemountFails
<1>4. NewColumns(c) \in SUBSET Columns
  BY <1>2 DEF NewColumns, Generated, Definitions
<1>5. columns' \in [Apps -> SUBSET Columns]
  <2>1. \E cols \in SUBSET NewColumns(c) :
            columns' = [columns EXCEPT ![Target(c)] = AddColumns(Target(c), cols)]
    BY DEF Remount, RemountClash, RemountFails
  <2> QED BY <1>2, <1>4, <2>1, ColumnsType
<1>6. UNCHANGED <<store, active, code, dynamic, loaded, errors, lock, saved, boot>>
  BY DEF Remount, RemountClash, RemountFails, memory
<1>7. used' \in UsedType
  BY SpendType DEF Remount, RemountClash, RemountFails, Fail, UsedType, TypeInv, TypeOK
<1>8. root' \in [Fields -> Apps \cup {NoApp}]
  BY <1>2 DEF Remount, RemountClash, RemountFails, memory, TypeInv, TypeOK
<1>9. mounted' \in [Apps -> AppStates]
  <2>1. mounted[Target(c)] \in AppStates
    BY <1>2 DEF TypeInv, TypeOK
  <2>2. /\ Desired(c).fields \in SUBSET Fields
        /\ Desired(c).cols \in SUBSET Columns
    BY <1>2 DEF Definitions
  <2>3. CASE Remount(c)
    BY <1>2, <2>2, <2>3 DEF Remount, TypeInv, TypeOK, AppStates
  <2>4. CASE RemountClash(c)
    <3>1. PICK services \in {mounted[Target(c)].services, Desired(c).cols} :
              mounted' = [mounted EXCEPT ![Target(c)].services = services]
      BY <2>4 DEF RemountClash
    <3>2. [mounted[Target(c)] EXCEPT !.services = services] \in AppStates
      BY <2>1, <2>2, <3>1 DEF AppStates
    <3> QED BY <1>2, <3>1, <3>2 DEF TypeInv, TypeOK
  <2>5. CASE RemountFails(c)
    BY <2>5 DEF RemountFails, memory, TypeInv, TypeOK
  <2> QED BY <2>3, <2>4, <2>5
<1> QED BY <1>3, <1>5, <1>6, <1>7, <1>8, <1>9 DEF TypeInv, TypeOK, StoreInv, UsedType

LEMMA SecureType ==
    ASSUME TypeInv, NEW c \in Callers,
           ApplySecurity(c) \/ ApplySecurityFails(c) \/ Unmount(c)
    PROVE  TypeInv'
<1>1. At(c, "secure") \/ At(c, "unmount")
  BY DEF ApplySecurity, ApplySecurityFails, Unmount
<1>2. /\ Target(c) \in Apps /\ Desired(c) \in Definitions
      /\ call[c].queue # <<>>
  BY <1>1, RequestType DEF At, TypeInv, RequestInv
<1>3. call' \in [Callers -> Calls] /\ RequestInv'
  BY <1>2, MoveType DEF ApplySecurity, ApplySecurityFails, Unmount
<1>4. UNCHANGED <<store, columns, code, root, errors, lock, saved, boot>>
  BY DEF ApplySecurity, ApplySecurityFails, Unmount, memory
<1>5. used' \in UsedType
  BY SpendType DEF ApplySecurity, ApplySecurityFails, Unmount, Fail, UsedType, TypeInv, TypeOK
<1>6. active' \in SUBSET Entries
  <2>1. Desired(c).entries \in SUBSET Entries
    BY <1>2 DEF Definitions
  <2>2. CASE ApplySecurity(c)
    BY <2>1, <2>2 DEF ApplySecurity, Secured, TypeInv, TypeOK
  <2>3. CASE ApplySecurityFails(c)
    BY <2>1, <2>3 DEF ApplySecurityFails, PartlySecured, TypeInv, TypeOK
  <2>4. CASE Unmount(c)
    BY <2>4 DEF Unmount, TypeInv, TypeOK
  <2> QED BY <2>2, <2>3, <2>4
<1>7. mounted' \in [Apps -> AppStates]
  <2>1. Unmounted \in AppStates
    BY DEF Unmounted, AppStates, Blank, Definitions
  <2> QED BY <2>1 DEF ApplySecurity, ApplySecurityFails, Unmount, memory, TypeInv, TypeOK
<1>8. dynamic' \in SUBSET Dynamic /\ loaded' \in SUBSET Apps
  BY <1>2 DEF ApplySecurity, ApplySecurityFails, Unmount, WithoutManifest, memory, TypeInv, TypeOK, Apps
<1> QED BY <1>3, <1>4, <1>5, <1>6, <1>7, <1>8 DEF TypeInv, TypeOK, StoreInv, UsedType

LEMMA RollbackType ==
    ASSUME TypeInv, NEW c \in Callers, Rollback(c)
    PROVE  TypeInv'
<1>1. Target(c) \in Apps
  BY RequestType DEF Rollback, At
<1>2. call' \in [Callers -> Calls] /\ RequestInv'
  BY MoveType DEF Rollback
<1>3. root' \in [Fields -> Apps \cup {NoApp}]
  BY <1>1 DEF Rollback, RestoredFields, TypeInv, TypeOK
<1>4. mounted' \in [Apps -> AppStates]
  BY <1>1 DEF Rollback, RestoredState, TypeInv, TypeOK
<1> QED BY <1>2, <1>3, <1>4 DEF Rollback, durable, TypeInv, TypeOK, StoreInv

\* Appending a well-formed revision keeps the store well-formed.
LEMMA AppendType ==
    ASSUME TypeInv, NEW a \in Apps, NEW rev \in Revisions,
           rev.layer = "overlay" => rev.doc \in Layers,
           store' = [store EXCEPT ![a] = Append(store[a], rev)]
    PROVE  store' \in [Apps -> Seq(Revisions)] /\ StoreInv'
<1>1. store \in [Apps -> Seq(Revisions)] /\ StoreInv
  BY DEF TypeInv, TypeOK
<1>2. store[a] \in Seq(Revisions)
  BY <1>1
<1>3. /\ Append(store[a], rev) \in Seq(Revisions)
      /\ Len(Append(store[a], rev)) = Len(store[a]) + 1
      /\ \A i \in 1..Len(store[a]) : Append(store[a], rev)[i] = store[a][i]
      /\ Append(store[a], rev)[Len(store[a]) + 1] = rev
  BY <1>2, AppendProperties
<1>4. store' \in [Apps -> Seq(Revisions)]
  BY <1>1, <1>3
<1>5. ASSUME NEW b \in Apps, NEW i \in DOMAIN store'[b], store'[b][i].layer = "overlay"
      PROVE  store'[b][i].doc \in Layers
  <2>1. CASE b # a
    BY <1>1, <1>5, <2>1 DEF StoreInv
  <2>2. CASE b = a
    <3>1. store'[b] = Append(store[a], rev)
      BY <1>1, <2>2
    <3>2. i \in 1..(Len(store[a]) + 1)
      BY <1>3, <1>5, <3>1, LenProperties
    <3>3. Len(store[a]) \in Nat /\ DOMAIN store[a] = 1..Len(store[a])
      BY <1>2, LenProperties
    <3>4. CASE i = Len(store[a]) + 1
      BY <1>3, <1>5, <3>1, <3>4
    <3>5. CASE i \in 1..Len(store[a])
      BY <1>1, <1>3, <1>5, <3>1, <3>3, <3>5 DEF StoreInv
    <3> QED BY <3>2, <3>3, <3>4, <3>5
  <2> QED BY <2>1, <2>2
<1>6. StoreInv'
  BY <1>5 DEF StoreInv
<1> QED BY <1>4, <1>6

LEMMA StoreType ==
    ASSUME TypeInv, NEW c \in Callers, Store(c) \/ StoreFails(c)
    PROVE  TypeInv'
<1>1. /\ Target(c) \in Apps /\ Request(c).layer \in Layers
      /\ Tail(call[c].queue) \in Seq(Requests)
  BY RequestType DEF Store, StoreFails, At
<1>2. CASE Store(c)
  <2>1. store' \in [Apps -> Seq(Revisions)] /\ StoreInv'
    <3>1. [layer |-> "overlay", doc |-> Request(c).layer] \in Revisions
      BY <1>1 DEF Revisions, Layers
    <3>2. CASE UNCHANGED store
      BY <3>2 DEF TypeInv, TypeOK, StoreInv
    <3>3. CASE store' = [store EXCEPT ![Target(c)] =
                            Append(store[Target(c)], [layer |-> "overlay", doc |-> Request(c).layer])]
      BY <1>1, <3>1, <3>3, AppendType
    <3> QED BY <1>2, <3>2, <3>3 DEF Store, Appended
  <2>2. call' \in [Callers -> Calls] /\ RequestInv'
    <3> DEFINE rest == Tail(call[c].queue)
               r == [call[c] EXCEPT !.pc = "read", !.queue = rest]
    <3>1. CASE rest = <<>>
      BY <1>2, <3>1, MoveType DEF Store, Return
    <3>2. CASE rest # <<>>
      <4>1. call[c] \in Calls
        BY DEF TypeInv, TypeOK
      <4>2. r \in Calls /\ r.queue # <<>>
        BY <1>1, <3>2, <4>1 DEF Calls
      <4>3. call' = [call EXCEPT ![c] = r]
        BY <1>2, <3>2 DEF Store
      <4> HIDE DEF r
      <4> QED BY <4>2, <4>3, UpdateType
    <3> QED BY <3>1, <3>2
  <2> QED BY <1>2, <2>1, <2>2 DEF Store, TypeInv, TypeOK
<1>3. CASE StoreFails(c)
  <2>1. call' \in [Callers -> Calls] /\ RequestInv'
    BY <1>3, MoveType DEF StoreFails
  <2>2. used' \in UsedType
    BY <1>3, SpendType DEF StoreFails, Fail, UsedType, TypeInv, TypeOK
  <2> QED BY <1>3, <2>1, <2>2 DEF StoreFails, durable, memory, TypeInv, TypeOK, StoreInv, UsedType
<1> QED BY <1>2, <1>3

\* A lost process leaves a well-formed empty one.
LEMMA LostType ==
    ASSUME TypeInv, Lost, Down, UNCHANGED code,
           store' \in [Apps -> Seq(Revisions)], StoreInv',
           columns' \in [Apps -> SUBSET Columns], active' \in SUBSET Entries,
           used' \in UsedType
    PROVE  TypeInv'
<1>1. Unmounted \in AppStates
  BY DEF Unmounted, AppStates, Blank, Definitions
<1>2. NoFields \in [Fields -> Apps \cup {NoApp}]
  BY DEF NoFields
<1>3. Idle \in Calls
  BY DEF Idle, Calls, Layers
<1>4. TypeOK'
  BY <1>1, <1>2, <1>3 DEF Lost, Down, Nothing, NoMount, NoCalls, TypeInv, TypeOK, UsedType
<1>5. RequestInv'
  BY DEF Lost, NoCalls, Idle, RequestInv
<1> QED BY <1>4, <1>5 DEF TypeInv

\* A boot mounts well-formed definitions: the stored head on the base.
LEMMA ResolvedType ==
    ASSUME TypeInv, NEW a \in Apps
    PROVE  /\ HeadOf(a, "overlay") \in Layers
           /\ Effective(a, HeadOf(a, "overlay")) \in Definitions
           /\ BaseOf(a) \in Definitions
           /\ Resolved(a) \in Definitions
           /\ Generated(a, Resolved(a)) \in SUBSET Columns
<1>1. Len(store[a]) \in 0..Len(store[a])
  BY LenProperties DEF TypeInv, TypeOK
<1>2. HeadOf(a, "overlay") \in Layers
  BY <1>1, HeadAtType DEF HeadOf, TypeInv, TypeOK
<1>3. Effective(a, HeadOf(a, "overlay")) \in Definitions /\ BaseOf(a) \in Definitions
  BY <1>2, EffectiveType DEF TypeInv, TypeOK, Layers
<1>4. Resolved(a) \in Definitions
  BY <1>3 DEF Resolved
<1> QED BY <1>2, <1>3, <1>4 DEF Generated, Definitions

LEMMA RegistersType ==
    ASSUME TypeInv, NEW a \in Apps, NEW spec \in Definitions, Registers(a, spec)
    PROVE  /\ root' \in [Fields -> Apps \cup {NoApp}]
           /\ mounted' \in [Apps -> AppStates]
BY DEF Registers, TypeInv, TypeOK, AppStates, Definitions

LEMMA RecordBaseType ==
    ASSUME TypeInv, NEW a \in Compiled, RecordBase(a)
    PROVE  /\ store' \in [Apps -> Seq(Revisions)] /\ StoreInv'
           /\ used' \in UsedType
<1>1. CASE UNCHANGED store
  BY <1>1, SpendType DEF RecordBase, Fail, TypeInv, TypeOK, StoreInv, UsedType
<1>2. CASE /\ store' = [store EXCEPT ![a] =
                           Append(store[a], [layer |-> "base", doc |-> code[a]])]
           /\ UNCHANGED used
  <2>1. a \in Apps /\ code[a] \in CodeDocs
    BY DEF Apps, TypeInv, TypeOK
  <2>2. [layer |-> "base", doc |-> code[a]] \in Revisions
    BY <2>1 DEF Revisions
  <2> QED BY <1>2, <2>1, <2>2, AppendType DEF TypeInv, TypeOK, UsedType
<1> QED BY <1>1, <1>2 DEF RecordBase, Appended

\* The app a boot step is about.
LEMMA BootApp ==
    /\ TypeInv /\ Booting("setup", CompiledOrder)
           => boot.at \in DOMAIN CompiledOrder /\ CompiledOrder[boot.at] \in Compiled
    /\ TypeInv /\ Booting("secure", CompiledOrder)
           => boot.at \in DOMAIN CompiledOrder /\ CompiledOrder[boot.at] \in Compiled
    /\ TypeInv /\ Booting("load", DynamicOrder)
           => boot.at \in DOMAIN DynamicOrder /\ DynamicOrder[boot.at] \in Dynamic
<1>1. /\ CompiledOrder \in Seq(Compiled) /\ DynamicOrder \in Seq(Dynamic)
  BY DomainsAssumption
<1>2. TypeInv => boot.at \in Nat /\ boot.at >= 1
  BY DEF TypeInv, TypeOK
<1>3. /\ Len(CompiledOrder) \in Nat /\ DOMAIN CompiledOrder = 1..Len(CompiledOrder)
      /\ Len(DynamicOrder) \in Nat /\ DOMAIN DynamicOrder = 1..Len(DynamicOrder)
  BY <1>1, LenProperties
<1>4. /\ \A i \in DOMAIN CompiledOrder : CompiledOrder[i] \in Compiled
      /\ \A i \in DOMAIN DynamicOrder : DynamicOrder[i] \in Dynamic
  BY <1>1, <1>3, ElementOfSeq
<1> QED BY <1>2, <1>3, <1>4 DEF Booting

LEMMA PhaseType ==
    ASSUME TypeInv, BootStart \/ BootPhase
    PROVE  TypeInv'
<1>1. /\ UNCHANGED <<durable, memory, lock, saved, call, used>>
      /\ boot' \in [phase : {"down", "setup", "secure", "load", "up"}, at : Nat \ {0}]
  BY DEF BootStart, BootPhase, Phase
<1> QED BY <1>1 DEF durable, memory, TypeInv, TypeOK, RequestInv, StoreInv

\* The next app of a boot phase
LEMMA BootNextType ==
    ASSUME TypeInv, BootNext
    PROVE  boot' \in [phase : {"down", "setup", "secure", "load", "up"}, at : Nat \ {0}]
<1>1. boot \in [phase : {"down", "setup", "secure", "load", "up"}, at : Nat \ {0}]
  BY DEF TypeInv, TypeOK
<1>2. boot.at + 1 \in Nat \ {0}
  BY <1>1
<1>3. boot' = [boot EXCEPT !.at = boot.at + 1]
  BY DEF BootNext
<1> QED BY <1>1, <1>2, <1>3

LEMMA SetupType ==
    ASSUME TypeInv, SetupCompiled \/ SetupUnread \/ SetupFails \/ SetupPanics
    PROVE  TypeInv'
<1> DEFINE a == CompiledOrder[boot.at]
<1>1. a \in Compiled
  BY BootApp DEF SetupCompiled, SetupUnread, SetupFails, SetupPanics
<1>2. a \in Apps
  BY <1>1 DEF Apps
<1>3. Resolved(a) \in Definitions /\ Generated(a, Resolved(a)) \in SUBSET Columns
  BY <1>2, ResolvedType
<1>4. columns' \in [Apps -> SUBSET Columns]
  <2>1. CASE UNCHANGED columns
    BY <2>1 DEF TypeInv, TypeOK
  <2>2. CASE \E cols \in SUBSET Generated(a, Resolved(a)) :
            columns' = [columns EXCEPT ![a] = AddColumns(a, cols)]
    BY <1>2, <1>3, <2>2, ColumnsType
  <2> QED BY <2>1, <2>2 DEF SetupCompiled, SetupUnread, SetupFails, SetupPanics, durable
<1>5. CASE SetupCompiled
  <2> USE <1>5 DEF SetupCompiled
  <2>1. root' \in [Fields -> Apps \cup {NoApp}] /\ mounted' \in [Apps -> AppStates]
    BY <1>2, <1>3, RegistersType
  <2>2. store' \in [Apps -> Seq(Revisions)] /\ StoreInv' /\ used' \in UsedType
    BY <1>1, RecordBaseType
  <2>3. boot' \in [phase : {"down", "setup", "secure", "load", "up"}, at : Nat \ {0}]
    BY BootNextType
  <2>4. loaded' \in SUBSET Apps /\ errors' \in SUBSET Apps
    BY <1>2 DEF Report, TypeInv, TypeOK
  <2>5. UNCHANGED <<active, code, dynamic, lock, saved, call>>
    OBVIOUS
  <2> QED BY <1>4, <2>1, <2>2, <2>3, <2>4, <2>5 DEF TypeInv, TypeOK, RequestInv, UsedType
<1>6. CASE SetupFails
  <2>1. used' \in UsedType
    BY <1>6, SpendType DEF SetupFails, Fail, UsedType, TypeInv, TypeOK
  <2> QED BY <1>4, <1>6, <2>1, LostType DEF SetupFails, TypeInv, TypeOK, StoreInv
<1>7. CASE SetupPanics
  <2>1. /\ store' \in [Apps -> Seq(Revisions)] /\ StoreInv'
        /\ used' \in UsedType
    <3>1. CASE RecordBase(a)
      BY <1>1, <3>1, RecordBaseType
    <3>2. CASE Fail("read") /\ UNCHANGED store
      BY <3>2, SpendType DEF Fail, UsedType, TypeInv, TypeOK, StoreInv
    <3> QED BY <1>7, <3>1, <3>2 DEF SetupPanics
  <2> QED BY <1>4, <1>7, <2>1, LostType DEF SetupPanics, TypeInv, TypeOK
<1>8. CASE SetupUnread
  <2>1. BaseOf(a) \in Definitions
    BY <1>2, ResolvedType
  <2>2. root' \in [Fields -> Apps \cup {NoApp}] /\ mounted' \in [Apps -> AppStates]
    BY <1>2, <1>8, <2>1, RegistersType DEF SetupUnread
  <2>3. used' \in UsedType
    BY <1>8, SpendType DEF SetupUnread, Fail, UsedType, TypeInv, TypeOK
  <2>4. boot' \in [phase : {"down", "setup", "secure", "load", "up"}, at : Nat \ {0}]
    BY <1>8, BootNextType DEF SetupUnread
  <2>5. loaded' \in SUBSET Apps
    BY <1>2, <1>8 DEF SetupUnread, TypeInv, TypeOK
  <2>6. UNCHANGED <<store, columns, active, code, dynamic, errors, lock, saved, call>>
    BY <1>8 DEF SetupUnread, durable
  <2> QED BY <2>2, <2>3, <2>4, <2>5, <2>6 DEF TypeInv, TypeOK, RequestInv, StoreInv, UsedType
<1> QED BY <1>5, <1>6, <1>7, <1>8

LEMMA SecureBootType ==
    ASSUME TypeInv, SecureCompiled \/ SecureCompiledFails
    PROVE  TypeInv'
<1> DEFINE spec == mounted[CompiledOrder[boot.at]].spec
<1>1. spec \in Definitions
  <2>1. CompiledOrder[boot.at] \in Apps
    BY BootApp DEF SecureCompiled, SecureCompiledFails, Apps
  <2> QED BY <2>1 DEF TypeInv, TypeOK, AppStates
<1>2. spec.entries \in SUBSET Entries
  BY <1>1 DEF Definitions
<1>3. CASE SecureCompiled
  <2>1. active' \in SUBSET Entries
    BY <1>2, <1>3 DEF SecureCompiled, Secured, TypeInv, TypeOK
  <2>2. boot' \in [phase : {"down", "setup", "secure", "load", "up"}, at : Nat \ {0}]
    BY <1>3, BootNextType DEF SecureCompiled
  <2> QED BY <1>3, <2>1, <2>2 DEF SecureCompiled, memory, TypeInv, TypeOK, RequestInv, StoreInv
<1>4. CASE SecureCompiledFails
  <2>1. active' \in SUBSET Entries
    BY <1>2, <1>4 DEF SecureCompiledFails, PartlySecured, TypeInv, TypeOK
  <2>2. used' \in UsedType
    BY <1>4, SpendType DEF SecureCompiledFails, Fail, UsedType, TypeInv, TypeOK
  <2> QED BY <1>4, <2>1, <2>2, LostType DEF SecureCompiledFails, TypeInv, TypeOK, StoreInv
<1> QED BY <1>3, <1>4

LEMMA LoadType ==
    ASSUME TypeInv, LoadDynamic \/ LoadDynamicFails
    PROVE  TypeInv'
<1> DEFINE a == DynamicOrder[boot.at]
           layer == HeadOf(a, "overlay")
           spec == Effective(a, layer)
<1>1. a \in Dynamic /\ a \in Apps
  BY BootApp DEF LoadDynamic, LoadUnread, LoadDynamicFails, Apps
<1>2. layer \in Layers /\ spec \in Definitions
  BY <1>1, ResolvedType
<1>3. spec.cols \in SUBSET Columns /\ spec.entries \in SUBSET Entries
  BY <1>2 DEF Definitions
<1>4. boot' \in [phase : {"down", "setup", "secure", "load", "up"}, at : Nat \ {0}]
  BY BootNextType DEF LoadDynamic, LoadUnread, LoadDynamicFails
<1> HIDE DEF layer, spec
<1>5. CASE LoadDynamic
  <2>1. Load(a, layer) /\ UNCHANGED <<lock, saved, call, used>>
    BY <1>5 DEF LoadDynamic, layer
  <2>2. CASE UNCHANGED <<durable, memory>>
    BY <1>4, <2>1, <2>2 DEF durable, memory, TypeInv, TypeOK, RequestInv, StoreInv
  <2>3. CASE LoadMounts(a, spec)
    <3>1. root' \in [Fields -> Apps \cup {NoApp}] /\ mounted' \in [Apps -> AppStates]
      BY <1>1, <1>2, <2>3, RegistersType DEF LoadMounts
    <3>2. columns' \in [Apps -> SUBSET Columns]
      BY <1>1, <1>3, <2>3, ColumnsType DEF LoadMounts
    <3>3. /\ active' \in SUBSET Entries /\ dynamic' \in SUBSET Dynamic
          /\ loaded' \in SUBSET Apps /\ errors' \in SUBSET Apps
      BY <1>1, <1>3, <2>3 DEF LoadMounts, Secured, Report, TypeInv, TypeOK
    <3>4. UNCHANGED <<store, code>>
      BY <2>3 DEF LoadMounts
    <3> QED BY <1>4, <2>1, <3>1, <3>2, <3>3, <3>4 DEF TypeInv, TypeOK, RequestInv, StoreInv
  <2>4. CASE LoadReports(a, {}) \/ LoadReports(a, spec.cols)
    <3>1. columns' \in [Apps -> SUBSET Columns]
      <4>1. {} \in SUBSET Columns
        OBVIOUS
      <4> QED BY <1>1, <1>3, <2>4, <4>1, ColumnsType DEF LoadReports
    <3>2. errors' \in SUBSET Apps
      BY <1>1, <2>4 DEF LoadReports, Report, TypeInv, TypeOK
    <3>3. UNCHANGED <<store, active, code, root, mounted, dynamic, loaded>>
      BY <2>4 DEF LoadReports
    <3> QED BY <1>4, <2>1, <3>1, <3>2, <3>3 DEF TypeInv, TypeOK, RequestInv, StoreInv
  <2>5. \/ UNCHANGED <<durable, memory>> \/ LoadMounts(a, spec)
        \/ LoadReports(a, {}) \/ LoadReports(a, spec.cols)
    BY <2>1 DEF Load, spec
  <2> QED BY <2>2, <2>3, <2>4, <2>5
<1>6. CASE LoadDynamicFails
  <2> USE DEF layer, spec
  <2>1. \E some \in SUBSET spec.cols : columns' = [columns EXCEPT ![a] = AddColumns(a, some)]
    BY <1>6 DEF LoadDynamicFails
  <2>2. columns' \in [Apps -> SUBSET Columns]
    BY <1>1, <1>3, <2>1, ColumnsType
  <2>3. used' \in UsedType
    BY <1>6, SpendType DEF LoadDynamicFails, Fail, UsedType, TypeInv, TypeOK
  <2>4. active' \in SUBSET Entries
    <3>1. UNCHANGED active \/ active' \in PartlySecured(active, spec.disable, spec.entries)
      BY <1>6 DEF LoadDynamicFails
    <3> QED BY <1>3, <3>1 DEF PartlySecured, TypeInv, TypeOK
  <2>5. errors' \in SUBSET Apps
    BY <1>1, <1>6 DEF LoadDynamicFails, Report, TypeInv, TypeOK
  <2>6. UNCHANGED <<store, code, root, mounted, dynamic, loaded, lock, saved, call>>
    BY <1>6 DEF LoadDynamicFails
  <2> QED BY <1>4, <2>2, <2>3, <2>4, <2>5, <2>6 DEF TypeInv, TypeOK, RequestInv, StoreInv, UsedType
<1> QED BY <1>5, <1>6

LEMMA UnreadType ==
    ASSUME TypeInv, LoadUnread
    PROVE  TypeInv'
<1>1. used' \in UsedType
  BY SpendType DEF LoadUnread, Fail, UsedType, TypeInv, TypeOK
<1> QED BY <1>1, LostType DEF LoadUnread, durable, TypeInv, TypeOK, StoreInv

LEMMA OutsideType ==
    ASSUME TypeInv, Crash \/ Deploy
    PROVE  TypeInv'
<1>1. used' \in UsedType
  BY SpendType DEF Crash, Deploy, UsedType, TypeInv, TypeOK
<1>2. CASE Crash
  BY <1>1, <1>2, LostType DEF Crash, durable, TypeInv, TypeOK, StoreInv
<1>3. CASE Deploy
  <2>1. code' \in [Compiled -> CodeDocs]
    BY <1>3 DEF Deploy, TypeInv, TypeOK
  <2> QED BY <1>1, <1>3, <2>1 DEF Deploy, memory, TypeInv, TypeOK, RequestInv, StoreInv, UsedType
<1> QED BY <1>2, <1>3

LEMMA NextType == TypeInv /\ [Next]_vars => TypeInv'
<1> SUFFICES ASSUME TypeInv, [Next]_vars PROVE TypeInv'
  OBVIOUS
<1>1. ASSUME NEW c \in Callers, Apply(c) \/ Revert(c) \/ Delete(c) \/ Import(c)
      PROVE  TypeInv'
  BY <1>1, CallType
<1>2. ASSUME NEW c \in Callers, Step(c)
      PROVE  TypeInv'
  BY <1>2, BeforeLockType, LockType, RemountType, SecureType, RollbackType, StoreType DEF Step
<1>3. CASE Boot
  BY <1>3, PhaseType, SetupType, SecureBootType, LoadType, UnreadType DEF Boot
<1>4. CASE Crash \/ Deploy
  BY <1>4, OutsideType
<1>5. CASE UNCHANGED vars
  BY <1>5 DEF vars, durable, memory, TypeInv, TypeOK, RequestInv, StoreInv
<1> QED BY <1>1, <1>2, <1>3, <1>4, <1>5 DEF Next

\* The engine's and the store's state always has the shape it should have, for
\* every set of apps, documents and callers.
THEOREM TypeCorrect == Spec => []TypeOK
<1>1. Spec => []TypeInv
  BY InitType, NextType, PTL DEF Spec
<1>2. TypeInv => TypeOK
  BY DEF TypeInv
<1> QED BY <1>1, <1>2, PTL

-----------------------------------------------------------------------------
(* The mutex and the boot *)

\* A step that moves a call on leaves its requests and every other call alone.
LEMMA GotoFrame ==
    ASSUME TypeInv, NEW c \in Callers, NEW pc, Goto(c, pc), UNCHANGED code
    PROVE  /\ call'[c].pc = pc
           /\ call'[c].queue = call[c].queue
           /\ call'[c].current = call[c].current
           /\ Request(c)' = Request(c)
           /\ Target(c)' = Target(c)
           /\ Desired(c)' = Desired(c)
           /\ Deletes(c)' = Deletes(c)
           /\ \A d \in Callers \ {c} : call'[d] = call[d]
<1>1. call \in [Callers -> Calls] /\ call[c] \in Calls
  BY DEF TypeInv, TypeOK
<1>2. call' = [call EXCEPT ![c] = [call[c] EXCEPT !.pc = pc]]
  BY DEF Goto
<1>3. call'[c] = [call[c] EXCEPT !.pc = pc]
  BY <1>1, <1>2
<1>4. call'[c].pc = pc /\ call'[c].queue = call[c].queue /\ call'[c].current = call[c].current
  BY <1>1, <1>3 DEF Calls
<1>5. Request(c)' = Request(c) /\ Target(c)' = Target(c)
  BY <1>4 DEF Request, Target
<1>6. Desired(c)' = Desired(c)
  BY <1>5 DEF Desired, Effective, BaseOf
<1>7. Deletes(c)' = Deletes(c)
  BY <1>5 DEF Deletes
<1>8. \A d \in Callers \ {c} : call'[d] = call[d]
  BY <1>1, <1>2
<1> QED BY <1>4, <1>5, <1>6, <1>7, <1>8

LEMMA GotoPc ==
    ASSUME TypeInv, NEW c \in Callers, NEW pc, Goto(c, pc)
    PROVE  call'[c].pc = pc
<1>1. call \in [Callers -> Calls] /\ call[c] \in Calls
  BY DEF TypeInv, TypeOK
<1>2. call' = [call EXCEPT ![c] = [call[c] EXCEPT !.pc = pc]]
  BY DEF Goto
<1>3. call'[c] = [call[c] EXCEPT !.pc = pc]
  BY <1>1, <1>2
<1> QED BY <1>1, <1>3 DEF Calls

\* A returning call is idle; the others are left alone.
LEMMA ReturnFrame ==
    ASSUME TypeInv, NEW c \in Callers, Return(c)
    PROVE  call'[c] = Idle /\ \A d \in Callers \ {c} : call'[d] = call[d]
BY DEF TypeInv, TypeOK, Return

\* A call is in progress only on a running platform.
LEMMA RunningCall ==
    ASSUME ControlInv, NEW c \in Callers, ~At(c, "idle")
    PROVE  boot.phase = "up"
BY DEF ControlInv, BootInv

\* The mutex follows the call that acquires, keeps or releases it.
LEMMA CallControl ==
    ASSUME TypeInv, ControlInv, NEW c \in Callers, boot.phase = "up", UNCHANGED boot,
           \A d \in Callers \ {c} : call'[d] = call[d],
           \/ UNCHANGED lock /\ (call'[c].pc \in Holding <=> call[c].pc \in Holding)
           \/ lock = NoCaller /\ lock' = c /\ call'[c].pc \in Holding
           \/ lock = c /\ lock' = NoCaller /\ call'[c].pc \notin Holding
    PROVE  ControlInv'
<1>1. NoCaller \notin Callers
  BY DomainsAssumption
<1>2. LockInv'
  BY <1>1 DEF ControlInv, LockInv
<1>3. BootInv'
  BY DEF BootInv
<1> QED BY <1>2, <1>3 DEF ControlInv

LEMMA StartControl ==
    ASSUME TypeInv, ControlInv, NEW c \in Callers, NEW pc \in {"read", "check"}, NEW queue,
           Start(c, pc, queue)
    PROVE  ControlInv'
<1>1. call \in [Callers -> Calls]
  BY DEF TypeInv, TypeOK
<1>2. /\ call'[c].pc = pc /\ call[c].pc = "idle"
      /\ \A d \in Callers \ {c} : call'[d] = call[d]
  BY <1>1 DEF Start, Idle, At
<1>3. pc \notin Holding /\ "idle" \notin Holding
  BY DEF Holding
<1> QED BY <1>2, <1>3, CallControl DEF Start

LEMMA CallStartControl ==
    ASSUME TypeInv, ControlInv, NEW c \in Callers,
           Apply(c) \/ Revert(c) \/ Delete(c) \/ Import(c)
    PROVE  ControlInv'
BY StartControl DEF Apply, Revert, Delete, Import

LEMMA StepControl ==
    ASSUME TypeInv, ControlInv, NEW c \in Callers, Step(c)
    PROVE  ControlInv'
<1> USE DEF Holding
<1>1. call \in [Callers -> Calls]
  BY DEF TypeInv, TypeOK
<1>2. ~At(c, "idle") /\ UNCHANGED boot
  BY DEF Step, Check, ReadHead, ReadFails, Validate, MountUnchanged, SwapStart, MountNew, UnmountStart,
         Acquire, Remount, RemountClash, RemountFails, ApplySecurity, ApplySecurityFails,
         Unmount, Rollback, Store, StoreFails, At
<1>3. boot.phase = "up"
  BY <1>2, RunningCall
<1>4. \A d \in Callers \ {c} : call'[d] = call[d]
  BY <1>1 DEF Step, Check, ReadHead, ReadFails, Validate, MountUnchanged, SwapStart, MountNew, UnmountStart,
         Acquire, Remount, RemountClash, RemountFails, ApplySecurity, ApplySecurityFails,
         Unmount, Rollback, Store, StoreFails, Goto, Return
<1>5. CASE Check(c) \/ ReadHead(c) \/ ReadFails(c) \/ Validate(c)
  <2>1. call[c].pc \notin Holding /\ UNCHANGED lock
    BY <1>5 DEF Check, ReadHead, ReadFails, Validate, At
  <2>2. CASE Return(c)
    BY <1>2, <1>3, <1>4, <2>1, <2>2, ReturnFrame, CallControl DEF Idle
  <2>3. CASE \E pc \in {"read", "lock"} : Goto(c, pc)
    <3>1. call'[c].pc \notin Holding
      BY <2>3, GotoPc
    <3> QED BY <1>2, <1>3, <1>4, <2>1, <3>1, CallControl
  <2>4. CASE call' = [call EXCEPT ![c].checked = call[c].checked + 1]
    <3>1. call'[c].pc = call[c].pc
      BY <1>1, <2>4 DEF Calls
    <3> QED BY <1>2, <1>3, <1>4, <2>1, <3>1, CallControl
  <2>5. CASE ReadHead(c)
    <3>1. call'[c].pc = "validate"
      BY <1>1, <2>5 DEF ReadHead, Calls
    <3> QED BY <1>2, <1>3, <1>4, <2>1, <3>1, CallControl
  <2> QED BY <1>5, <2>2, <2>3, <2>4, <2>5 DEF Check, ReadFails, Validate
<1>6. CASE MountUnchanged(c) \/ SwapStart(c) \/ MountNew(c) \/ UnmountStart(c)
  <2>1. lock = NoCaller /\ lock' = c /\ \E pc \in Holding : Goto(c, pc)
    BY <1>6 DEF MountUnchanged, SwapStart, MountNew, UnmountStart, Acquire
  <2>2. call'[c].pc \in Holding
    BY <2>1, GotoPc
  <2> QED BY <1>2, <1>3, <1>4, <2>1, <2>2, CallControl
<1>7. CASE \/ Remount(c) \/ RemountClash(c) \/ RemountFails(c)
           \/ ApplySecurity(c) \/ ApplySecurityFails(c) \/ Unmount(c)
  <2>1. call[c].pc \in Holding /\ UNCHANGED lock /\ \E pc \in Holding : Goto(c, pc)
    BY <1>7 DEF Remount, RemountClash, RemountFails, ApplySecurity, ApplySecurityFails,
                Unmount, At
  <2>2. call'[c].pc \in Holding
    BY <2>1, GotoPc
  <2> QED BY <1>2, <1>3, <1>4, <2>1, <2>2, CallControl
<1>8. CASE Rollback(c) \/ Store(c) \/ StoreFails(c)
  <2>1. call[c].pc \in Holding /\ lock' = NoCaller
    BY <1>8 DEF Rollback, Store, StoreFails, At
  <2>2. lock = c
    BY <2>1 DEF ControlInv, LockInv
  <2>3. call'[c].pc \notin Holding
    <3>1. CASE Return(c)
      BY <3>1, ReturnFrame DEF Idle
    <3>2. CASE Store(c) /\ Tail(call[c].queue) = <<>>
      BY <1>1, <3>2 DEF Store, Idle
    <3>3. CASE Store(c) /\ Tail(call[c].queue) # <<>>
      <4>1. call'[c] = [call[c] EXCEPT !.pc = "read", !.queue = Tail(call[c].queue)]
        BY <1>1, <3>3 DEF Store
      <4>2. call[c] \in Calls
        BY <1>1
      <4>3. call'[c].pc = "read"
        BY <4>1, <4>2 DEF Calls
      <4> QED BY <4>3
    <3> QED BY <1>8, <3>1, <3>2, <3>3 DEF Rollback, StoreFails
  <2> QED BY <1>2, <1>3, <1>4, <2>1, <2>2, <2>3, CallControl
<1> QED BY <1>5, <1>6, <1>7, <1>8 DEF Step

LEMMA LostControl ==
    ASSUME Lost, Down PROVE ControlInv'
<1>1. NoCaller \notin Callers
  BY DomainsAssumption
<1>2. lock' = NoCaller /\ \A c \in Callers : call'[c].pc = "idle"
  BY DEF Lost, NoCalls, Idle
<1>3. LockInv'
  BY <1>1, <1>2 DEF LockInv, Holding
<1>4. BootInv'
  BY <1>2 DEF BootInv, Lost, Down, At
<1> QED BY <1>3, <1>4 DEF ControlInv

\* What a boot has loaded so far precedes the app it is at.
LEMMA BootControl ==
    ASSUME TypeInv, ControlInv, Boot PROVE ControlInv'
<1>1. boot.at \in Nat \ {0}
  BY DEF TypeInv, TypeOK
<1>2. CASE Lost /\ Down
  BY <1>2, LostControl
<1>3. CASE ~(Lost /\ Down)
  <2>1. boot.phase # "up" /\ UNCHANGED <<lock, call>>
    BY <1>3 DEF Boot, BootStart, SetupCompiled, SetupUnread, SetupFails, SetupPanics, SecureCompiled,
                SecureCompiledFails, LoadDynamic, LoadUnread, LoadDynamicFails, BootPhase, Phase, Booting
  <2>2. lock = NoCaller /\ \A c \in Callers : At(c, "idle")
    BY <2>1 DEF ControlInv, BootInv
  <2>3. LockInv'
    BY <2>1 DEF ControlInv, LockInv
  <2>4. lock' = NoCaller /\ \A c \in Callers : At(c, "idle")'
    BY <2>1, <2>2 DEF At
  <2>5. CASE BootStart
    BY <2>3, <2>4, <2>5 DEF ControlInv, BootInv, BootStart, memory
  <2>6. CASE SetupCompiled \/ SetupUnread
    <3>1. /\ boot.phase = "setup" /\ boot.at \in DOMAIN CompiledOrder
          /\ boot' = [boot EXCEPT !.at = boot.at + 1]
          /\ loaded' = loaded \cup {CompiledOrder[boot.at]}
      BY <2>6, BootApp DEF SetupCompiled, SetupUnread, Booting, BootNext
    <3>2. boot'.phase = "setup" /\ boot'.at = boot.at + 1
      BY <3>1 DEF TypeInv, TypeOK
    <3>3. loaded \subseteq {CompiledOrder[i] : i \in {j \in DOMAIN CompiledOrder : j < boot.at}}
      BY <3>1 DEF ControlInv, BootInv
    <3>4. \A j \in DOMAIN CompiledOrder : j < boot.at => j < boot'.at
      BY <1>1, <3>2, DomainsAssumption, LenProperties
    <3>5. boot.at < boot'.at
      BY <1>1, <3>2
    <3>6. loaded' \subseteq {CompiledOrder[i] : i \in {j \in DOMAIN CompiledOrder : j < boot'.at}}
      BY <3>1, <3>3, <3>4, <3>5
    <3> QED BY <2>3, <2>4, <3>2, <3>6 DEF ControlInv, BootInv
  <2>7. CASE SecureCompiled
    <3>1. /\ boot.phase = "secure" /\ boot' = [boot EXCEPT !.at = boot.at + 1]
          /\ UNCHANGED loaded
      BY <2>7 DEF SecureCompiled, Booting, BootNext, memory
    <3>2. boot'.phase = "secure"
      BY <3>1 DEF TypeInv, TypeOK
    <3> QED BY <2>3, <2>4, <3>1, <3>2 DEF ControlInv, BootInv
  <2>8. CASE LoadDynamic \/ LoadDynamicFails
    <3>1. /\ boot.phase = "load" /\ boot.at \in DOMAIN DynamicOrder
          /\ boot' = [boot EXCEPT !.at = boot.at + 1]
      BY <2>8, BootApp DEF LoadDynamic, LoadUnread, LoadDynamicFails, Booting, BootNext
    <3>2. boot'.phase = "load" /\ boot'.at = boot.at + 1
      BY <3>1 DEF TypeInv, TypeOK
    <3>3. loaded' \subseteq loaded \cup {DynamicOrder[boot.at]}
      BY <2>8 DEF LoadDynamic, LoadUnread, LoadDynamicFails, Load, LoadMounts, LoadReports, memory
    <3>4. loaded \subseteq Compiled \cup
              {DynamicOrder[i] : i \in {j \in DOMAIN DynamicOrder : j < boot.at}}
      BY <3>1 DEF ControlInv, BootInv
    <3>5. \A j \in DOMAIN DynamicOrder : j < boot.at => j < boot'.at
      BY <1>1, <3>2, DomainsAssumption, LenProperties
    <3>6. boot.at < boot'.at
      BY <1>1, <3>2
    <3>7. loaded' \subseteq Compiled \cup
              {DynamicOrder[i] : i \in {j \in DOMAIN DynamicOrder : j < boot'.at}}
      BY <3>1, <3>3, <3>4, <3>5, <3>6
    <3> QED BY <2>3, <2>4, <3>2, <3>7 DEF ControlInv, BootInv
  <2>9. CASE BootPhase
    <3>1. UNCHANGED loaded
      BY <2>9 DEF BootPhase, Phase, memory
    <3>2. CompiledOrder \in Seq(Compiled)
      BY DomainsAssumption
    <3>3. \A i \in DOMAIN CompiledOrder : CompiledOrder[i] \in Compiled
      BY <3>2
    <3>4. boot.phase \in {"setup", "secure"} => loaded \subseteq Compiled
      BY <3>3 DEF ControlInv, BootInv
    <3>5. \/ boot.phase = "setup" /\ boot'.phase = "secure"
          \/ boot.phase = "secure" /\ boot'.phase = "load"
          \/ boot.phase = "load" /\ boot'.phase = "up"
      BY <2>9 DEF BootPhase, Phase
    <3> QED BY <2>3, <2>4, <3>1, <3>4, <3>5 DEF ControlInv, BootInv
  <2>10. \/ BootStart \/ SetupCompiled \/ SetupUnread \/ SecureCompiled
         \/ LoadDynamic \/ LoadDynamicFails \/ BootPhase
    BY <1>3 DEF Boot, SetupFails, SetupPanics, SecureCompiledFails, LoadUnread
  <2> QED BY <2>5, <2>6, <2>7, <2>8, <2>9, <2>10
<1> QED BY <1>2, <1>3

LEMMA NextControl == TypeInv /\ ControlInv /\ [Next]_vars => ControlInv'
<1> SUFFICES ASSUME TypeInv, ControlInv, [Next]_vars PROVE ControlInv'
  OBVIOUS
<1>1. CASE Crash
  BY <1>1, LostControl DEF Crash
<1>2. CASE Deploy
  BY <1>2 DEF Deploy, memory, ControlInv, LockInv, BootInv, At
<1>3. CASE UNCHANGED vars
  BY <1>3 DEF vars, memory, ControlInv, LockInv, BootInv, At
<1> QED BY <1>1, <1>2, <1>3, CallStartControl, StepControl, BootControl DEF Next

-----------------------------------------------------------------------------
(* Surfaces *)

\* No mount in progress: every surface is whole.
LEMMA Unlocked ==
    ASSUME SurfaceInv, lock = NoCaller, NEW a \in Apps
    PROVE  Intact(a) /\ (a \notin loaded => mounted[a] = Unmounted)
<1>1. NoCaller \notin Callers
  BY DomainsAssumption
<1> QED BY <1>1 DEF SurfaceInv, WholeInv, Open, LoadedInv

\* Only one call mounts.
LEMMA Holder ==
    ASSUME ControlInv, NEW c \in Callers, call[c].pc \in Holding
    PROVE  lock = c /\ \A d \in Callers \ {c} : call[d].pc \notin Holding
BY DEF ControlInv, LockInv

\* While one call mounts, the surfaces of the other apps are whole.
LEMMA Others ==
    ASSUME ControlInv, SurfaceInv, NEW c \in Callers, call[c].pc \in Holding,
           NEW a \in Apps \ {Target(c)}
    PROVE  Intact(a) /\ (a \notin loaded => mounted[a] = Unmounted)
<1>1. lock = c
  BY Holder
<1> QED BY <1>1 DEF SurfaceInv, WholeInv, Open, LoadedInv

\* What has to be shown of a step after which no call mounts.
LEMMA FreeSurface ==
    ASSUME ControlInv', lock' = NoCaller,
           \A a \in Dynamic : a \in dynamic' <=> a \in loaded',
           \A a \in Apps : Intact(a)' /\ (a \notin loaded' => mounted'[a] = Unmounted)
    PROVE  SurfaceInv'
<1>1. \A c \in Callers : call'[c].pc \notin Holding
  <2>1. NoCaller \notin Callers
    BY DomainsAssumption
  <2> QED BY <2>1 DEF ControlInv, LockInv
<1>2. SavedInv' /\ ProgressInv'
  BY <1>1 DEF SavedInv, ProgressInv, Progress, At, Holding
<1>3. LoadedInv' /\ WholeInv'
  BY DEF LoadedInv, WholeInv
<1> QED BY <1>2, <1>3 DEF SurfaceInv

\* What has to be shown of a step after which call c mounts.
LEMMA HeldSurface ==
    ASSUME ControlInv', NEW c \in Callers, call'[c].pc \in Holding, NEW t, t = Target(c)',
           \A a \in Dynamic : a \in dynamic' <=> a \in loaded',
           \A a \in Apps \ {t} : Intact(a)' /\ (a \notin loaded' => mounted'[a] = Unmounted),
           t \in Apps =>
               /\ call'[c].pc \in {"remount", "unmount", "rollback"} \/ Intact(t)'
               /\ \/ call'[c].pc \in {"remount", "secure", "rollback"}
                  \/ t \in loaded' \/ mounted'[t] = Unmounted,
           call'[c].pc \in {"remount", "secure", "rollback"} => Saved(c)',
           Progress(c)'
    PROVE  SurfaceInv'
<1>1. lock' = c /\ \A d \in Callers \ {c} : call'[d].pc \notin Holding
  BY DEF ControlInv, LockInv
<1>2. LoadedInv'
  BY <1>1 DEF LoadedInv
<1>3. WholeInv'
  BY <1>1 DEF WholeInv, Open
<1>4. SavedInv'
  BY <1>1 DEF SavedInv, Holding
<1>5. ProgressInv'
  BY <1>1 DEF ProgressInv, Progress, At, Holding
<1> QED BY <1>2, <1>3, <1>4, <1>5 DEF SurfaceInv

\* A call that does not hold the mutex disturbs nothing.
LEMMA QuietSurface ==
    ASSUME TypeInv, ControlInv, ControlInv', SurfaceInv, NEW c \in Callers,
           UNCHANGED <<root, mounted, dynamic, loaded, code, lock, saved>>,
           \A d \in Callers \ {c} : call'[d] = call[d],
           call[c].pc \notin Holding, call'[c].pc \notin Holding
    PROVE  SurfaceInv'
<1>1. CASE lock = NoCaller
  <2>1. \A a \in Apps : Intact(a) /\ (a \notin loaded => mounted[a] = Unmounted)
    BY <1>1, Unlocked
  <2>2. \A a \in Apps : Intact(a)'
    BY <2>1 DEF Intact
  <2> QED BY <1>1, <2>1, <2>2, FreeSurface DEF SurfaceInv, LoadedInv
<1>2. CASE lock # NoCaller
  <2>1. PICK d \in Callers \ {c} : lock = d /\ call[d].pc \in Holding
    <3>1. lock \in Callers
      BY <1>2 DEF TypeInv, TypeOK
    <3>2. \A d \in Callers : lock = d => call[d].pc \in Holding
      BY DEF ControlInv, LockInv
    <3> QED BY <1>2, <3>1, <3>2
  <2>2. call'[d] = call[d]
    BY <2>1
  <2>3. /\ Target(d)' = Target(d) /\ Desired(d)' = Desired(d) /\ Deletes(d)' = Deletes(d)
        /\ \A pc : At(d, pc)' <=> At(d, pc)
    BY <2>2 DEF Target, Request, Desired, Effective, BaseOf, Deletes, At
  <2>4. \A a \in Apps : Intact(a)' <=> Intact(a)
    BY DEF Intact
  <2>5. \A a \in Apps \ {Target(d)} : Intact(a)' /\ (a \notin loaded' => mounted'[a] = Unmounted)
    BY <2>1, <2>4, Others
  <2>6. Saved(d) => Saved(d)'
    BY <2>3 DEF Saved
  <2>7. Progress(d)'
    <3>1. Progress(d)
      BY <2>1 DEF SurfaceInv, ProgressInv
    <3> QED BY <2>3, <3>1 DEF Progress, Runs, IsInstalled
  <2>8. Target(d) \in Apps =>
            /\ call[d].pc \in {"remount", "unmount", "rollback"} \/ Intact(Target(d))
            /\ \/ call[d].pc \in {"remount", "secure", "rollback"}
               \/ Target(d) \in loaded \/ mounted[Target(d)] = Unmounted
    BY <2>1, Holder DEF SurfaceInv, WholeInv, Open, LoadedInv
  <2>9. call[d].pc \in {"remount", "secure", "rollback"} => Saved(d)
    BY <2>1 DEF SurfaceInv, SavedInv
  <2>10. \A a \in Dynamic : a \in dynamic' <=> a \in loaded'
    BY DEF SurfaceInv, LoadedInv
  <2> QED BY <2>1, <2>2, <2>3, <2>4, <2>5, <2>6, <2>7, <2>8, <2>9, <2>10, HeldSurface
<1> QED BY <1>1, <1>2

LEMMA CallSurface ==
    ASSUME TypeInv, ControlInv, ControlInv', SurfaceInv, NEW c \in Callers,
           Apply(c) \/ Revert(c) \/ Delete(c) \/ Import(c)
    PROVE  SurfaceInv'
<1>1. ASSUME NEW pc \in {"read", "check"}, NEW queue, Start(c, pc, queue)
      PROVE  SurfaceInv'
  <2>1. call \in [Callers -> Calls]
    BY DEF TypeInv, TypeOK
  <2>2. /\ call'[c].pc = pc /\ call[c].pc = "idle"
        /\ \A d \in Callers \ {c} : call'[d] = call[d]
    BY <1>1, <2>1 DEF Start, Idle, At
  <2>3. call'[c].pc \notin Holding /\ call[c].pc \notin Holding
    BY <2>2 DEF Holding
  <2> QED BY <1>1, <2>2, <2>3, QuietSurface DEF Start, durable, memory
<1> QED BY <1>1 DEF Apply, Revert, Delete, Import

LEMMA BeforeLockSurface ==
    ASSUME TypeInv, ControlInv, ControlInv', SurfaceInv, NEW c \in Callers,
           Check(c) \/ ReadHead(c) \/ ReadFails(c) \/ Validate(c)
    PROVE  SurfaceInv'
<1>1. UNCHANGED <<root, mounted, dynamic, loaded, code, lock, saved>>
  BY DEF Check, ReadHead, ReadFails, Validate, durable, memory
<1>2. call[c].pc \notin Holding
  BY DEF Check, ReadHead, ReadFails, Validate, At, Holding
<1>3. call'[c].pc \notin Holding
  BY <1>1, <1>2 DEF ControlInv, LockInv
<1>4. \A d \in Callers \ {c} : call'[d] = call[d]
  <2>1. call \in [Callers -> Calls]
    BY DEF TypeInv, TypeOK
  <2> QED BY <2>1 DEF Check, ReadHead, ReadFails, Validate, Goto, Return
<1> QED BY <1>1, <1>2, <1>3, <1>4, QuietSurface

\* mountLocked without a change: the app is not mounted, or runs the spec already.
LEMMA MountUnchangedSurface ==
    ASSUME TypeInv, ControlInv, ControlInv', SurfaceInv, NEW c \in Callers, MountUnchanged(c)
    PROVE  SurfaceInv'
<1> DEFINE a == Target(c)
<1>1. /\ lock = NoCaller /\ lock' = c /\ Goto(c, "append")
      /\ UNCHANGED <<root, mounted, dynamic, loaded, code, saved>>
  BY DEF MountUnchanged, Acquire, durable, memory
<1>2. /\ call'[c].pc = "append" /\ Target(c)' = a /\ Desired(c)' = Desired(c)
  BY <1>1, GotoFrame
<1>3. a \in Apps
  BY RequestType DEF MountUnchanged, Acquire, At
<1>4. \A b \in Apps : Intact(b)' /\ (b \notin loaded' => mounted'[b] = Unmounted)
  BY <1>1, Unlocked DEF Intact
<1>5. Progress(c)'
  <2> SUFFICES ASSUME Runs(Target(c))' PROVE mounted'[a].spec = Desired(c)'
    BY <1>2 DEF Progress, At
  <2>2. Runs(a)
    BY <1>1, <1>2 DEF Runs, IsInstalled
  <2>3. CASE IsMounted(a)
    BY <1>1, <1>2, <2>3 DEF MountUnchanged
  <2>4. CASE ~IsMounted(a)
    <3>1. a \in Dynamic \ dynamic
      BY <2>2, <2>4 DEF IsMounted, Runs
    <3>2. Request(c).layer = NoLayer /\ a \notin Compiled
      BY <2>4, <3>1, DomainsAssumption DEF MountUnchanged, Deletes
    <3>3. Desired(c) = Blank
      BY <3>2 DEF Desired, Effective, BaseOf
    <3>4. a \notin loaded
      BY <3>1 DEF SurfaceInv, LoadedInv
    <3>5. mounted[a] = Unmounted
      BY <1>1, <1>3, <3>4, Unlocked
    <3> QED BY <1>1, <1>2, <3>3, <3>5 DEF Unmounted
  <2> QED BY <2>3, <2>4
<1> HIDE DEF a
<1>6. \A b \in Dynamic : b \in dynamic' <=> b \in loaded'
  BY <1>1 DEF SurfaceInv, LoadedInv
<1> QED BY <1>2, <1>3, <1>4, <1>5, <1>6, HeldSurface DEF Holding

\* swapLocked's start: what is saved is the whole surface, without its fields.
LEMMA SwapStartSurface ==
    ASSUME TypeInv, ControlInv, ControlInv', SurfaceInv, NEW c \in Callers, SwapStart(c)
    PROVE  SurfaceInv'
<1> DEFINE a == Target(c)
<1>1. /\ lock = NoCaller /\ lock' = c /\ Goto(c, "remount")
      /\ UNCHANGED <<mounted, dynamic, loaded, code>>
      /\ root' = [f \in Fields |-> IF f \in mounted[a].owned THEN NoApp ELSE root[f]]
      /\ saved' = [state |-> mounted[a], root |-> root']
      /\ IsMounted(a)
  BY DEF SwapStart, Acquire, durable
<1>2. call'[c].pc = "remount" /\ Target(c)' = a
  BY <1>1, GotoFrame
<1>3. a \in Apps /\ a # NoApp
  BY RequestType, DomainsAssumption DEF SwapStart, Acquire, At
<1>4. \A b \in Apps : Intact(b) /\ (b \notin loaded => mounted[b] = Unmounted)
  BY <1>1, Unlocked
<1>5. \A b \in Apps \ {a} : Intact(b)'
  <2>1. NoApp \notin Apps
    BY DomainsAssumption
  <2> QED BY <1>1, <1>3, <1>4, <2>1 DEF Intact
<1>6. \A f \in Fields : root'[f] # a /\ (f \in mounted[a].owned => root'[f] = NoApp)
  BY <1>1, <1>3, <1>4 DEF Intact
<1>7. a \in loaded
  BY <1>1 DEF IsMounted, IsInstalled, SurfaceInv, LoadedInv, TypeInv, TypeOK
<1>8. mounted[a].owned \in SUBSET Fields
  BY <1>3 DEF TypeInv, TypeOK, AppStates
<1>9. Saved(c)'
  BY <1>1, <1>2, <1>3, <1>4, <1>6, <1>7, <1>8 DEF Saved, Intact
<1>10. Progress(c)'
  BY <1>2 DEF Progress, At
<1>11. \A b \in Dynamic : b \in dynamic' <=> b \in loaded'
  BY <1>1 DEF SurfaceInv, LoadedInv
<1> HIDE DEF a
<1> QED BY <1>1, <1>2, <1>4, <1>5, <1>9, <1>10, <1>11, HeldSurface DEF Holding

\* mountNewLocked's start: the app has no surface.
LEMMA MountNewSurface ==
    ASSUME TypeInv, ControlInv, ControlInv', SurfaceInv, NEW c \in Callers, MountNew(c)
    PROVE  SurfaceInv'
<1> DEFINE a == Target(c)
<1>1. /\ lock = NoCaller /\ lock' = c /\ Goto(c, "remount")
      /\ UNCHANGED <<root, mounted, dynamic, loaded, code>>
      /\ saved' = [state |-> Unmounted, root |-> root]
      /\ a \in Dynamic \ dynamic
  BY DEF MountNew, Acquire, durable, memory
<1>2. call'[c].pc = "remount" /\ Target(c)' = a
  BY <1>1, GotoFrame
<1>3. a \in Apps /\ a \notin loaded
  BY <1>1 DEF Apps, SurfaceInv, LoadedInv
<1>4. \A b \in Apps : Intact(b) /\ (b \notin loaded => mounted[b] = Unmounted)
  BY <1>1, Unlocked
<1>5. \A b \in Apps : Intact(b)'
  BY <1>1, <1>4 DEF Intact
<1>6. \A f \in Fields : root[f] # a
  BY <1>3, <1>4 DEF Intact, Unmounted
<1>7. Saved(c)'
  BY <1>1, <1>2, <1>3, <1>6 DEF Saved, Unmounted, Blank
<1>8. Progress(c)'
  BY <1>2 DEF Progress, At
<1>9. \A b \in Dynamic : b \in dynamic' <=> b \in loaded'
  BY <1>1 DEF SurfaceInv, LoadedInv
<1> HIDE DEF a
<1> QED BY <1>1, <1>2, <1>4, <1>5, <1>7, <1>8, <1>9, HeldSurface DEF Holding

\* The app of a mount in progress, and what the mount saved.
LEMMA Mounting ==
    ASSUME TypeInv, ControlInv, SurfaceInv, NEW c \in Callers,
           call[c].pc \in {"remount", "secure", "rollback"}
    PROVE  /\ Target(c) \in Apps /\ Target(c) # NoApp
           /\ Desired(c) \in Definitions
           /\ Saved(c)
           /\ \A b \in Apps \ {Target(c)} :
                  Intact(b) /\ (b \notin loaded => mounted[b] = Unmounted)
           /\ \A b \in Dynamic : b \in dynamic <=> b \in loaded
<1>1. call[c].pc \in Holding
  BY DEF Holding
<1>2. Target(c) \in Apps /\ Target(c) # NoApp /\ Desired(c) \in Definitions
  BY RequestType, DomainsAssumption
<1> QED BY <1>1, <1>2, Others DEF SurfaceInv, SavedInv, LoadedInv

\* App.remount: the fields were free, so the app serves what its spec defines
\* and takes nothing from another app.
LEMMA RemountSurface ==
    ASSUME TypeInv, ControlInv, ControlInv', SurfaceInv, NEW c \in Callers, Remount(c)
    PROVE  SurfaceInv'
<1> DEFINE next == Desired(c)
<1>0. PICK a : a = Target(c)
  OBVIOUS
<1>1. /\ At(c, "remount") /\ Clash(c) = {} /\ Goto(c, "secure")
      /\ UNCHANGED <<dynamic, loaded, code, saved>>
      /\ root' = [f \in Fields |-> IF f \in next.fields THEN a ELSE root[f]]
      /\ mounted' = [mounted EXCEPT ![a] =
                        [spec |-> next, owned |-> next.fields, services |-> next.cols]]
  BY <1>0 DEF Remount
<1>2. call'[c].pc = "secure" /\ Target(c)' = a /\ Desired(c)' = next
  BY <1>0, <1>1, GotoFrame
<1>3. /\ a \in Apps /\ a # NoApp /\ next \in Definitions /\ Saved(c)
      /\ \A b \in Apps \ {a} : Intact(b) /\ (b \notin loaded => mounted[b] = Unmounted)
      /\ \A b \in Dynamic : b \in dynamic <=> b \in loaded
  BY <1>0, <1>1, Mounting DEF At
<1>4. next.fields \in SUBSET Fields
  BY <1>3 DEF Definitions
<1>5. \A f \in next.fields : root[f] = NoApp
  BY <1>1 DEF Clash
<1>6. mounted'[a] = [spec |-> next, owned |-> next.fields, services |-> next.cols]
  BY <1>1, <1>3 DEF TypeInv, TypeOK
<1>7. \A b \in Apps \ {a} : mounted'[b] = mounted[b]
  BY <1>1, <1>3 DEF TypeInv, TypeOK
<1>8. \A f \in Fields : root[f] = saved.root[f] /\ saved.root[f] # a
  BY <1>0, <1>1, <1>3 DEF Saved
<1>9. Intact(a)'
  BY <1>1, <1>4, <1>6, <1>8 DEF Intact
<1>10. \A b \in Apps \ {a} : Intact(b)' /\ (b \notin loaded' => mounted'[b] = Unmounted)
  <2>1. NoApp \notin Apps
    BY DomainsAssumption
  <2> QED BY <1>1, <1>3, <1>5, <1>7, <2>1 DEF Intact
<1>11. Saved(c)'
  <2>1. \A f \in Fields : root'[f] = saved.root[f] \/ (saved.root[f] = NoApp /\ root'[f] = a)
    BY <1>1, <1>5, <1>8
  <2>2. Saved(c)
    BY <1>3
  <2> QED BY <1>0, <1>1, <1>2, <2>1, <2>2 DEF Saved, At
<1>12. Progress(c)'
  BY <1>2, <1>6 DEF Progress, At
<1> HIDE DEF next
<1> QED BY <1>1, <1>2, <1>3, <1>9, <1>10, <1>11, <1>12, HeldSurface DEF Holding

\* A remount that meets another app's field has only taken free ones.
LEMMA RemountClashSurface ==
    ASSUME TypeInv, ControlInv, ControlInv', SurfaceInv, NEW c \in Callers, RemountClash(c)
    PROVE  SurfaceInv'
<1> DEFINE a == Target(c)
           next == Desired(c)
<1>1. /\ At(c, "remount") /\ Goto(c, "rollback")
      /\ UNCHANGED <<dynamic, loaded, code, saved>>
  BY DEF RemountClash
<1>2. PICK some \in SUBSET (next.fields \ Clash(c)) :
          root' = [f \in Fields |-> IF f \in some THEN a ELSE root[f]]
  BY DEF RemountClash
<1>3. PICK services : mounted' = [mounted EXCEPT ![a].services = services]
  BY DEF RemountClash
<1>4. call'[c].pc = "rollback" /\ Target(c)' = a
  BY <1>1, GotoFrame
<1>5. /\ a \in Apps /\ a # NoApp /\ next \in Definitions /\ Saved(c)
      /\ \A b \in Apps \ {a} : Intact(b) /\ (b \notin loaded => mounted[b] = Unmounted)
      /\ \A b \in Dynamic : b \in dynamic <=> b \in loaded
  BY <1>1, Mounting DEF At
<1>6. \A f \in some : root[f] = NoApp
  BY <1>2 DEF Clash
<1>7. \A b \in Apps \ {a} : mounted'[b] = mounted[b]
  BY <1>3, <1>5 DEF TypeInv, TypeOK
<1>8. \A f \in Fields : root[f] = saved.root[f]
  BY <1>1, <1>5 DEF Saved
<1>9. \A b \in Apps \ {a} : Intact(b)' /\ (b \notin loaded' => mounted'[b] = Unmounted)
  <2>1. NoApp \notin Apps
    BY DomainsAssumption
  <2> QED BY <1>1, <1>2, <1>5, <1>6, <1>7, <2>1 DEF Intact
<1>10. Saved(c)'
  BY <1>1, <1>2, <1>4, <1>5, <1>6, <1>8 DEF Saved, At
<1>11. Progress(c)'
  BY <1>4 DEF Progress, At
<1> HIDE DEF a, next
<1> QED BY <1>1, <1>4, <1>5, <1>9, <1>10, <1>11, HeldSurface DEF Holding

\* A database failure turns a mount to its rollback without touching a surface.
LEMMA MountFailsSurface ==
    ASSUME TypeInv, ControlInv, ControlInv', SurfaceInv, NEW c \in Callers,
           RemountFails(c) \/ ApplySecurityFails(c)
    PROVE  SurfaceInv'
<1>1. /\ call[c].pc \in {"remount", "secure"} /\ Goto(c, "rollback")
      /\ UNCHANGED <<root, mounted, dynamic, loaded, code, saved>>
  BY DEF RemountFails, ApplySecurityFails, At, memory
<1>2. call'[c].pc = "rollback" /\ Target(c)' = Target(c)
  BY <1>1, GotoFrame
<1>3. /\ Target(c) \in Apps /\ Saved(c)
      /\ \A b \in Apps \ {Target(c)} :
             Intact(b) /\ (b \notin loaded => mounted[b] = Unmounted)
      /\ \A b \in Dynamic : b \in dynamic <=> b \in loaded
  BY <1>1, Mounting
<1>4. \A b \in Apps : Intact(b)' <=> Intact(b)
  BY <1>1 DEF Intact
<1>5. Saved(c)'
  BY <1>1, <1>2, <1>3 DEF Saved, At
<1>6. Progress(c)'
  BY <1>2 DEF Progress, At
<1> QED BY <1>1, <1>2, <1>3, <1>4, <1>5, <1>6, HeldSurface DEF Holding

\* ApplySecurity: the app is mounted and whole, and the manifest is loaded.
LEMMA ApplySecuritySurface ==
    ASSUME TypeInv, ControlInv, ControlInv', SurfaceInv, NEW c \in Callers, ApplySecurity(c)
    PROVE  SurfaceInv'
<1>0. PICK a : a = Target(c)
  OBVIOUS
<1>1. /\ At(c, "secure") /\ Goto(c, "append")
      /\ UNCHANGED <<root, mounted, code>>
      /\ dynamic' = dynamic \cup ({a} \cap Dynamic)
      /\ loaded' = loaded \cup ({a} \cap Dynamic)
  BY <1>0 DEF ApplySecurity
<1>2. call'[c].pc = "append" /\ Target(c)' = a /\ Desired(c)' = Desired(c)
  BY <1>0, <1>1, GotoFrame
<1>3. /\ a \in Apps /\ Saved(c)
      /\ \A b \in Apps \ {a} : Intact(b) /\ (b \notin loaded => mounted[b] = Unmounted)
      /\ \A b \in Dynamic : b \in dynamic <=> b \in loaded
  BY <1>0, <1>1, Mounting DEF At
<1>4. Intact(a)
  <2>1. ~Open(a)
    BY <1>1, Holder DEF Open, At, Holding
  <2> QED BY <1>3, <2>1 DEF SurfaceInv, WholeInv
<1>5. \A b \in Apps : Intact(b)'
  BY <1>1, <1>3, <1>4 DEF Intact
<1>6. a \in loaded'
  BY <1>0, <1>1, <1>3 DEF Saved
<1>7. mounted[a].spec = Desired(c)
  BY <1>0, <1>1 DEF SurfaceInv, ProgressInv, Progress
<1>8. Progress(c)'
  BY <1>1, <1>2, <1>7 DEF Progress, At
<1>9. \A b \in Dynamic : b \in dynamic' <=> b \in loaded'
  BY <1>1, <1>3
<1>10. \A b \in Apps \ {a} : b \notin loaded' => mounted'[b] = Unmounted
  BY <1>1, <1>3
<1> QED BY <1>2, <1>5, <1>6, <1>8, <1>9, <1>10, HeldSurface DEF Holding

\* The rollback puts back exactly the surface the mount saved.
LEMMA RollbackSurface ==
    ASSUME TypeInv, ControlInv, ControlInv', SurfaceInv, NEW c \in Callers, Rollback(c)
    PROVE  SurfaceInv'
<1>0. PICK a : a = Target(c)
  OBVIOUS
<1>1. /\ At(c, "rollback") /\ lock' = NoCaller
      /\ UNCHANGED <<dynamic, loaded>>
      /\ root' = [f \in Fields |-> IF f \in saved.state.owned THEN a ELSE saved.root[f]]
      /\ mounted' = [mounted EXCEPT ![a] = saved.state]
  BY <1>0 DEF Rollback, RestoredFields, RestoredState
<1>2. /\ a \in Apps /\ a # NoApp /\ Saved(c)
      /\ \A b \in Apps \ {a} : Intact(b) /\ (b \notin loaded => mounted[b] = Unmounted)
      /\ \A b \in Dynamic : b \in dynamic <=> b \in loaded
  BY <1>0, <1>1, Mounting DEF At
<1>3. mounted'[a] = saved.state /\ \A b \in Apps \ {a} : mounted'[b] = mounted[b]
  BY <1>1, <1>2 DEF TypeInv, TypeOK
<1>4. saved.state.owned \in SUBSET Fields
  BY DEF TypeInv, TypeOK, AppStates
<1>5. Intact(a)'
  <2>1. \A f \in Fields : root'[f] = a <=> f \in saved.state.owned
    BY <1>0, <1>1, <1>2 DEF Saved
  <2> QED BY <1>0, <1>2, <1>3, <2>1 DEF Intact, Saved
<1>6. \A b \in Apps \ {a} : Intact(b)'
  <2>1. NoApp \notin Apps
    BY DomainsAssumption
  <2>2. \A f \in Fields : root[f] = saved.root[f] \/ (saved.root[f] = NoApp /\ root[f] = a)
    BY <1>0, <1>2 DEF Saved
  <2>3. \A f \in saved.state.owned : saved.root[f] = NoApp
    BY <1>2 DEF Saved
  <2>4. \A b \in Apps \ {a} : \A f \in Fields : root'[f] = b <=> root[f] = b
    BY <1>1, <2>1, <2>2, <2>3
  <2> QED BY <1>2, <1>3, <2>4 DEF Intact
<1>7. a \notin loaded => mounted'[a] = Unmounted
  BY <1>0, <1>2, <1>3 DEF Saved
<1> QED BY <1>1, <1>2, <1>3, <1>5, <1>6, <1>7, FreeSurface

\* unmountLocked drops the fields of the deleted app, and no other.
LEMMA UnmountStartSurface ==
    ASSUME TypeInv, ControlInv, ControlInv', SurfaceInv, NEW c \in Callers, UnmountStart(c)
    PROVE  SurfaceInv'
<1>0. PICK a : a = Target(c)
  OBVIOUS
<1>1. /\ lock = NoCaller /\ Goto(c, "unmount") /\ Deletes(c) /\ a \in dynamic
      /\ UNCHANGED <<mounted, dynamic, loaded, code>>
      /\ root' = [f \in Fields |-> IF f \in mounted[a].owned THEN NoApp ELSE root[f]]
  BY <1>0 DEF UnmountStart, Acquire, durable
<1>2. call'[c].pc = "unmount" /\ Target(c)' = a /\ Deletes(c)'
  BY <1>0, <1>1, GotoFrame
<1>3. a \in Apps /\ a # NoApp
  BY <1>0, RequestType, DomainsAssumption DEF UnmountStart, Acquire, At
<1>4. \A b \in Apps : Intact(b) /\ (b \notin loaded => mounted[b] = Unmounted)
  BY <1>1, Unlocked
<1>5. \A b \in Apps \ {a} : Intact(b)'
  <2>1. NoApp \notin Apps
    BY DomainsAssumption
  <2> QED BY <1>1, <1>3, <1>4, <2>1 DEF Intact
<1>6. \A f \in Fields : root'[f] # a
  BY <1>1, <1>3, <1>4 DEF Intact
<1>7. Progress(c)'
  BY <1>2, <1>6 DEF Progress, At
<1>8. \A b \in Dynamic : b \in dynamic' <=> b \in loaded'
  BY <1>1 DEF SurfaceInv, LoadedInv
<1> QED BY <1>1, <1>2, <1>4, <1>5, <1>7, <1>8, HeldSurface DEF Holding

\* An unmounted app has no surface and no manifest.
LEMMA UnmountSurface ==
    ASSUME TypeInv, ControlInv, ControlInv', SurfaceInv, NEW c \in Callers, Unmount(c)
    PROVE  SurfaceInv'
<1>0. PICK a : a = Target(c)
  OBVIOUS
<1>1. /\ At(c, "unmount") /\ Goto(c, "append") /\ UNCHANGED <<root, code>>
      /\ mounted' = [mounted EXCEPT ![a] = Unmounted]
      /\ dynamic' = dynamic \ {a} /\ loaded' = loaded \ {a}
  BY <1>0 DEF Unmount, WithoutManifest
<1>2. /\ call'[c].pc = "append" /\ Target(c)' = a /\ Desired(c)' = Desired(c)
  BY <1>0, <1>1, GotoFrame
<1>3. /\ a \in Apps
      /\ \A b \in Apps \ {a} : Intact(b) /\ (b \notin loaded => mounted[b] = Unmounted)
  <2>1. call[c].pc \in Holding
    BY <1>1 DEF At, Holding
  <2> QED BY <1>0, <1>1, <2>1, Others, RequestType DEF At
<1>4. mounted'[a] = Unmounted /\ \A b \in Apps \ {a} : mounted'[b] = mounted[b]
  BY <1>1, <1>3 DEF TypeInv, TypeOK
<1>5. Deletes(c) /\ \A f \in Fields : root[f] # a
  BY <1>0, <1>1 DEF SurfaceInv, ProgressInv, Progress
<1>6. Intact(a)'
  BY <1>1, <1>4, <1>5 DEF Intact, Unmounted, Blank
<1>7. \A b \in Apps \ {a} : Intact(b)'
  BY <1>1, <1>3, <1>4 DEF Intact
<1>8. Progress(c)'
  <2>1. Desired(c) = Blank
    BY <1>5, DomainsAssumption DEF Deletes, Desired, Effective, BaseOf
  <2> QED BY <1>2, <1>4, <2>1 DEF Progress, At, Unmounted
<1>9. \A b \in Dynamic : b \in dynamic' <=> b \in loaded'
  BY <1>1 DEF SurfaceInv, LoadedInv
<1>10. \A b \in Apps \ {a} : b \notin loaded' => mounted'[b] = Unmounted
  BY <1>1, <1>3, <1>4
<1> QED BY <1>2, <1>4, <1>6, <1>7, <1>8, <1>9, <1>10, HeldSurface DEF Holding

\* Storing the layer, or failing to, ends the mount: every surface is whole.
LEMMA StoreSurface ==
    ASSUME TypeInv, ControlInv, ControlInv', SurfaceInv, NEW c \in Callers,
           Store(c) \/ StoreFails(c)
    PROVE  SurfaceInv'
<1>1. /\ At(c, "append") /\ lock' = NoCaller
      /\ UNCHANGED <<root, mounted, dynamic, loaded>>
  BY DEF Store, StoreFails, memory
<1>2. lock = c
  BY <1>1, Holder DEF At, Holding
<1>3. \A a \in Apps : Intact(a) /\ (a \notin loaded => mounted[a] = Unmounted)
  BY <1>1, <1>2 DEF SurfaceInv, WholeInv, Open, LoadedInv, At
<1>4. \A a \in Apps : Intact(a)'
  BY <1>1, <1>3 DEF Intact
<1>5. \A a \in Dynamic : a \in dynamic' <=> a \in loaded'
  BY <1>1 DEF SurfaceInv, LoadedInv
<1> QED BY <1>1, <1>3, <1>4, <1>5, FreeSurface

\* A dropped process or platform has no surface.
LEMMA LostSurface ==
    ASSUME Lost, Down PROVE SurfaceInv'
<1>1. ControlInv' /\ lock' = NoCaller /\ dynamic' = {} /\ loaded' = {}
  BY LostControl DEF Lost
<1>2. \A a \in Apps : mounted'[a] = Unmounted
  BY DEF Lost, Nothing
<1>3. \A f \in Fields : root'[f] \notin Apps
  BY DomainsAssumption DEF Lost, NoFields
<1>4. \A a \in Apps : Intact(a)'
  BY <1>2, <1>3 DEF Intact, Unmounted, Blank
<1> QED BY <1>1, <1>2, <1>4, FreeSurface

\* A new app registers free fields only: its surface is whole, and no other
\* surface changes.
LEMMA RegistersSurface ==
    ASSUME TypeInv, ControlInv', SurfaceInv, lock = NoCaller, UNCHANGED lock,
           NEW a \in Apps \ loaded, NEW spec \in Definitions, Free(spec), Registers(a, spec),
           loaded' = loaded \cup {a}, dynamic' = dynamic \cup ({a} \cap Dynamic)
    PROVE  SurfaceInv'
<1>1. \A b \in Apps : Intact(b) /\ (b \notin loaded => mounted[b] = Unmounted)
  BY Unlocked
<1>2. /\ root' = [f \in Fields |-> IF f \in spec.fields THEN a ELSE root[f]]
      /\ mounted'[a] = [spec |-> spec, owned |-> spec.fields, services |-> spec.cols]
      /\ \A b \in Apps \ {a} : mounted'[b] = mounted[b]
  BY DEF Registers, TypeInv, TypeOK
<1>3. spec.fields \in SUBSET Fields /\ \A f \in spec.fields : root[f] = NoApp
  BY DEF Definitions, Free
<1>4. NoApp \notin Apps
  BY DomainsAssumption
<1>5. \A f \in Fields : root[f] # a
  BY <1>1 DEF Intact, Unmounted, Blank
<1>6. Intact(a)'
  BY <1>2, <1>3, <1>5 DEF Intact
<1>7. \A b \in Apps \ {a} : Intact(b)'
  BY <1>1, <1>2, <1>3, <1>4 DEF Intact
<1>8. \A b \in Dynamic : b \in dynamic' <=> b \in loaded'
  BY DEF SurfaceInv, LoadedInv
<1>9. \A b \in Apps : b \notin loaded' => mounted'[b] = Unmounted
  BY <1>1, <1>2
<1> QED BY <1>6, <1>7, <1>8, <1>9, FreeSurface

\* A step that leaves the surfaces alone while nothing is mounted.
LEMMA IdleSurface ==
    ASSUME ControlInv', SurfaceInv, lock = NoCaller,
           UNCHANGED <<root, mounted, dynamic, loaded, lock>>
    PROVE  SurfaceInv'
<1>1. \A a \in Apps : Intact(a) /\ (a \notin loaded => mounted[a] = Unmounted)
  BY Unlocked
<1>2. \A a \in Apps : Intact(a)'
  BY <1>1 DEF Intact
<1> QED BY <1>1, <1>2, FreeSurface DEF SurfaceInv, LoadedInv

\* The app a boot is at is not loaded yet: the orders name every app once, and
\* an app is compiled or dynamic but not both.
LEMMA NextNotLoaded ==
    ASSUME TypeInv, ControlInv
    PROVE  /\ Booting("setup", CompiledOrder) => CompiledOrder[boot.at] \notin loaded
           /\ Booting("load", DynamicOrder) => DynamicOrder[boot.at] \notin loaded
<1>1. ASSUME Booting("setup", CompiledOrder)
      PROVE  CompiledOrder[boot.at] \notin loaded
  <2>1. boot.at \in DOMAIN CompiledOrder
    BY <1>1, BootApp
  <2>2. loaded \subseteq {CompiledOrder[i] : i \in {j \in DOMAIN CompiledOrder : j < boot.at}}
    BY <1>1 DEF Booting, ControlInv, BootInv
  <2>3. boot.at \in Nat
    BY DEF TypeInv, TypeOK
  <2>4. \A i \in DOMAIN CompiledOrder : CompiledOrder[i] = CompiledOrder[boot.at] => i = boot.at
    BY <2>1, DomainsAssumption
  <2>5. ~(boot.at < boot.at)
    BY <2>3
  <2> QED BY <2>2, <2>4, <2>5
<1>2. ASSUME Booting("load", DynamicOrder)
      PROVE  DynamicOrder[boot.at] \notin loaded
  <2>1. boot.at \in DOMAIN DynamicOrder /\ DynamicOrder[boot.at] \in Dynamic
    BY <1>2, BootApp
  <2>2. loaded \subseteq Compiled \cup
            {DynamicOrder[i] : i \in {j \in DOMAIN DynamicOrder : j < boot.at}}
    BY <1>2 DEF Booting, ControlInv, BootInv
  <2>3. boot.at \in Nat
    BY DEF TypeInv, TypeOK
  <2>4. \A i \in DOMAIN DynamicOrder : DynamicOrder[i] = DynamicOrder[boot.at] => i = boot.at
    BY <2>1, DomainsAssumption
  <2>5. ~(boot.at < boot.at)
    BY <2>3
  <2>6. DynamicOrder[boot.at] \notin Compiled
    BY <2>1, DomainsAssumption
  <2> QED BY <2>2, <2>4, <2>5, <2>6
<1> QED BY <1>1, <1>2

LEMMA BootSurface ==
    ASSUME TypeInv, ControlInv, ControlInv', SurfaceInv, Boot
    PROVE  SurfaceInv'
<1>1. CASE Lost /\ Down
  BY <1>1, LostSurface
<1>2. CASE ~(Lost /\ Down)
  <2>1. boot.phase # "up" /\ UNCHANGED lock
    BY <1>2 DEF Boot, BootStart, SetupCompiled, SetupUnread, SetupFails, SetupPanics, SecureCompiled,
                SecureCompiledFails, LoadDynamic, LoadUnread, LoadDynamicFails, BootPhase, Phase, Booting
  <2>2. lock = NoCaller
    BY <2>1 DEF ControlInv, BootInv
  <2>3. CASE BootStart \/ SecureCompiled \/ LoadDynamicFails \/ BootPhase
    BY <2>1, <2>2, <2>3, IdleSurface
       DEF BootStart, SecureCompiled, LoadDynamicFails, BootPhase, Phase, memory
  <2>4. CASE SetupCompiled
    <3> DEFINE a == CompiledOrder[boot.at]
    <3>1. a \in Compiled /\ a \in Apps \ loaded
      BY <2>4, BootApp, NextNotLoaded DEF SetupCompiled, Apps
    <3>2. Resolved(a) \in Definitions
      BY <3>1, ResolvedType
    <3>3. a \notin Dynamic
      BY <3>1, DomainsAssumption
    <3>4. /\ Free(Resolved(a)) /\ Registers(a, Resolved(a))
          /\ loaded' = loaded \cup {a} /\ dynamic' = dynamic \cup ({a} \cap Dynamic)
      BY <2>4, <3>3 DEF SetupCompiled
    <3> QED BY <2>1, <2>2, <3>1, <3>2, <3>4, RegistersSurface
  <2>6. CASE SetupUnread
    <3> DEFINE a == CompiledOrder[boot.at]
    <3>1. a \in Compiled /\ a \in Apps \ loaded
      BY <2>6, BootApp, NextNotLoaded DEF SetupUnread, Apps
    <3>2. BaseOf(a) \in Definitions
      BY <3>1, ResolvedType
    <3>3. a \notin Dynamic
      BY <3>1, DomainsAssumption
    <3>4. /\ Free(BaseOf(a)) /\ Registers(a, BaseOf(a)) /\ UNCHANGED code
          /\ loaded' = loaded \cup {a} /\ dynamic' = dynamic \cup ({a} \cap Dynamic)
      BY <2>6, <3>3 DEF SetupUnread, durable
    <3> QED BY <2>1, <2>2, <3>1, <3>2, <3>4, RegistersSurface
  <2>5. CASE LoadDynamic
    <3> DEFINE a == DynamicOrder[boot.at]
               spec == Effective(a, HeadOf(a, "overlay"))
    <3>1. a \in Dynamic /\ a \in Apps \ loaded
      BY <2>5, BootApp, NextNotLoaded DEF LoadDynamic, Apps
    <3>2. spec \in Definitions
      BY <3>1, ResolvedType
    <3>3. \/ Free(spec) /\ LoadMounts(a, spec)
          \/ UNCHANGED <<root, mounted, dynamic, loaded>>
      BY <2>5 DEF LoadDynamic, Load, LoadReports, memory
    <3>4. CASE Free(spec) /\ LoadMounts(a, spec)
      <4>1. /\ Registers(a, spec) /\ loaded' = loaded \cup {a}
            /\ dynamic' = dynamic \cup ({a} \cap Dynamic)
        BY <3>1, <3>4 DEF LoadMounts
      <4> QED BY <2>1, <2>2, <3>1, <3>2, <3>4, <4>1, RegistersSurface
    <3> QED BY <2>1, <2>2, <3>3, <3>4, IdleSurface
  <2> QED BY <1>2, <2>3, <2>4, <2>5, <2>6 DEF Boot, SetupFails, SetupPanics,
         SecureCompiledFails, LoadUnread
<1> QED BY <1>1, <1>2

LEMMA NextSurface ==
    TypeInv /\ ControlInv /\ ControlInv' /\ SurfaceInv /\ [Next]_vars => SurfaceInv'
<1> SUFFICES ASSUME TypeInv, ControlInv, ControlInv', SurfaceInv, [Next]_vars
             PROVE  SurfaceInv'
  OBVIOUS
<1>1. ASSUME NEW c \in Callers, Apply(c) \/ Revert(c) \/ Delete(c) \/ Import(c)
      PROVE  SurfaceInv'
  BY <1>1, CallSurface
<1>2. ASSUME NEW c \in Callers, Step(c)
      PROVE  SurfaceInv'
  BY <1>2, BeforeLockSurface, MountUnchangedSurface, SwapStartSurface, MountNewSurface,
     RemountSurface, RemountClashSurface, MountFailsSurface, ApplySecuritySurface,
     RollbackSurface, UnmountStartSurface, UnmountSurface, StoreSurface DEF Step
<1>3. CASE Boot
  BY <1>3, BootSurface
<1>4. CASE Crash
  BY <1>4, LostSurface DEF Crash
<1>5. CASE Deploy
  <2>1. lock = NoCaller
    BY <1>5 DEF Deploy, ControlInv, BootInv
  <2> QED BY <1>5, <2>1, IdleSurface DEF Deploy, memory
<1>6. CASE UNCHANGED vars
  BY <1>6 DEF vars, durable, memory, SurfaceInv, LoadedInv, WholeInv, SavedInv, ProgressInv,
     Open, Intact, Saved, Progress, At, Target, Request, Desired, Deletes, Effective, BaseOf,
     Runs, IsInstalled
<1> QED BY <1>1, <1>2, <1>3, <1>4, <1>5, <1>6 DEF Next

LEMMA InitControlSurface == Init => ControlInv /\ SurfaceInv
<1> SUFFICES ASSUME Init PROVE ControlInv /\ SurfaceInv
  OBVIOUS
<1>1. NoCaller \notin Callers /\ NoApp \notin Apps
  BY DomainsAssumption
<1>2. lock = NoCaller /\ \A c \in Callers : call[c].pc = "idle"
  BY DEF Init, NoCalls, Idle
<1>3. ControlInv
  BY <1>1, <1>2 DEF ControlInv, LockInv, BootInv, Holding, At, Init
<1>4. \A a \in Apps : mounted[a] = Unmounted /\ \A f \in Fields : root[f] # a
  BY <1>1 DEF Init, Nothing, NoFields
<1>5. LoadedInv /\ WholeInv
  <2>1. dynamic = {} /\ loaded = {}
    BY DEF Init
  <2>2. LoadedInv
    BY <1>4, <2>1 DEF LoadedInv
  <2>3. WholeInv
    BY <1>4 DEF WholeInv, Intact, Unmounted, Blank
  <2> QED BY <2>2, <2>3
<1>6. SavedInv /\ ProgressInv
  BY <1>2 DEF SavedInv, ProgressInv, Progress, At
<1> QED BY <1>3, <1>5, <1>6 DEF SurfaceInv

LEMMA IInvHolds == Spec => []IInv
<1>1. Init => IInv
  BY InitType, InitControlSurface DEF IInv
<1>2. IInv /\ [Next]_vars => IInv'
  BY NextType, NextControl, NextSurface DEF IInv
<1> QED BY <1>1, <1>2, PTL DEF Spec

\* However a mount ends (mounted, rolled back after a database failure or a
\* duplicate field, unmounted), and after every boot and crash, no app is left
\* half-mounted: swapLocked, mountNewLocked, restoreState and restoreFields.
THEOREM SurfaceIsIntact == Spec => []SurfaceIntact
<1>1. IInv => SurfaceIntact
  BY Unlocked DEF IInv, SurfaceIntact
<1> QED BY <1>1, IInvHolds, PTL

\* Between mounts Domains.dynamic and Host.Loaded agree, and an app without
\* code that is not loaded has no surface.
THEOREM LoadedAgrees == Spec => []LoadedAgree
<1>1. IInv => LoadedAgree
  <2> SUFFICES ASSUME IInv, Serving, NEW a \in Dynamic
               PROVE  /\ a \in dynamic <=> a \in loaded
                      /\ a \notin dynamic => mounted[a] = Unmounted
    BY DEF LoadedAgree
  <2>1. a \in dynamic <=> a \in loaded
    BY DEF IInv, SurfaceInv, LoadedInv
  <2> QED BY <2>1, Unlocked DEF IInv, Serving, Apps
<1> QED BY <1>1, IInvHolds, PTL

-----------------------------------------------------------------------------
(* What a step may never do *)

\* The newest revision of a layer is the one just stored.
LEMMA HeadOfAppended ==
    ASSUME TypeInv, NEW a \in Apps, NEW layer, NEW doc, store'[a] = Appended(a, layer, doc)
    PROVE  HeadOf(a, layer)' = doc
<1> DEFINE n == Len(store[a]) + 1
           revs == {i \in 1..n : store'[a][i].layer = layer}
<1>1. store[a] \in Seq(Revisions)
  BY DEF TypeInv, TypeOK
<1>2. /\ n \in Nat /\ Len(store'[a]) = n
      /\ store'[a][n] = [layer |-> layer, doc |-> doc]
  BY <1>1, AppendProperties, LenProperties DEF Appended
<1>3. n \in revs /\ revs \in SUBSET (1..n)
  BY <1>2
<1>4. Max(revs) \in revs /\ Max(revs) >= n
  <2> HIDE DEF revs
  <2> QED BY <1>2, <1>3, MaxIsGreatest
<1>5. Max(revs) = n
  BY <1>2, <1>4
<1>6. HeadOf(a, layer)' = store'[a][Max(revs)].doc
  BY <1>2, <1>3 DEF HeadOf, HeadAt
<1> QED BY <1>2, <1>5, <1>6

\* On a running platform only a call's last step stores.
LEMMA OnlyStoreStores ==
    ASSUME [Next]_vars, boot.phase = "up"
    PROVE  store' = store \/ \E c \in Callers : Store(c)
BY DEF Next, vars, durable, Apply, Revert, Delete, Import, Start, Step, Check, ReadHead, ReadFails,
       Validate, MountUnchanged, SwapStart, MountNew, UnmountStart, Remount, RemountClash,
       RemountFails, ApplySecurity, ApplySecurityFails, Unmount, Rollback, StoreFails,
       Boot, BootStart, SetupCompiled, SetupUnread, SetupFails, SetupPanics, SecureCompiled,
       SecureCompiledFails, LoadDynamic, LoadUnread, LoadDynamicFails, BootPhase, Phase, Booting,
       Crash, Deploy

\* The steps of a call that change the registry leave other apps' fields alone.
LEMMA StepTouchesOwn ==
    ASSUME IInv, NEW c \in Callers, Step(c), NEW f \in Fields, root'[f] # root[f]
    PROVE  /\ lock = c \/ (lock = NoCaller /\ lock' = c)
           /\ {root[f], root'[f]} \subseteq {NoApp, Target(c)}
<1>1. \/ SwapStart(c) \/ UnmountStart(c) \/ Remount(c) \/ RemountClash(c) \/ Rollback(c)
  BY DEF Step, Check, ReadHead, ReadFails, Validate, MountUnchanged, MountNew, RemountFails,
         ApplySecurity, ApplySecurityFails, Unmount, Store, StoreFails, memory
<1>2. CASE SwapStart(c) \/ UnmountStart(c)
  <2>1. /\ lock = NoCaller /\ lock' = c /\ At(c, "lock")
        /\ root' = [g \in Fields |-> IF g \in mounted[Target(c)].owned THEN NoApp ELSE root[g]]
    BY <1>2 DEF SwapStart, UnmountStart, Acquire
  <2>2. Target(c) \in Apps
    BY <2>1, RequestType DEF IInv, At
  <2>3. Intact(Target(c))
    BY <2>1, <2>2, Unlocked DEF IInv
  <2> QED BY <2>1, <2>3 DEF Intact
<1>3. CASE Remount(c) \/ RemountClash(c)
  <2>1. At(c, "remount") /\ \E some \in SUBSET Desired(c).fields :
            /\ some \cap Clash(c) = {}
            /\ root' = [g \in Fields |-> IF g \in some THEN Target(c) ELSE root[g]]
    BY <1>3 DEF Remount, RemountClash
  <2>2. lock = c
    BY <2>1, Holder DEF IInv, At, Holding
  <2> QED BY <2>1, <2>2 DEF Clash
<1>4. CASE Rollback(c)
  <2>1. /\ At(c, "rollback")
        /\ root' = [g \in Fields |-> IF g \in saved.state.owned THEN Target(c)
                                     ELSE saved.root[g]]
    BY <1>4 DEF Rollback, RestoredFields
  <2>2. lock = c
    BY <2>1, Holder DEF IInv, At, Holding
  <2>3. Saved(c)
    BY <2>1, Mounting DEF IInv, At
  <2>4. root[f] = saved.root[f] \/ (saved.root[f] = NoApp /\ root[f] = Target(c))
    BY <2>3 DEF Saved
  <2>5. f \in saved.state.owned => saved.root[f] = NoApp
    BY <2>3 DEF Saved
  <2> QED BY <2>1, <2>2, <2>4, <2>5
<1> QED BY <1>1, <1>2, <1>3, <1>4

\* A mount, its rollback or an unmount never takes, drops or redefines a field
\* another app serves: RegisterQuery refuses, restoreFields puts back its own.
THEOREM OthersAreUntouched == Spec => OthersUntouched
<1> DEFINE A == boot.phase = "up" /\ boot'.phase = "up" =>
                    \A f \in Fields : root'[f] # root[f] =>
                        {root[f], root'[f]} \subseteq {NoApp, Owner}
<1>1. IInv /\ [Next]_vars => [A]_vars
  <2> SUFFICES ASSUME IInv, [Next]_vars, boot.phase = "up", boot'.phase = "up",
                      NEW f \in Fields, root'[f] # root[f]
               PROVE  {root[f], root'[f]} \subseteq {NoApp, Owner}
    OBVIOUS
  <2>1. PICK c \in Callers : Step(c)
    <3>1. UNCHANGED vars => root' = root
      BY DEF vars, memory
    <3>2. \A c \in Callers : Apply(c) \/ Revert(c) \/ Delete(c) \/ Import(c) => root' = root
      BY DEF Apply, Revert, Delete, Import, Start, memory
    <3>3. ~Boot
      BY DEF Boot, BootStart, SetupCompiled, SetupUnread, SetupFails, SetupPanics, SecureCompiled,
             SecureCompiledFails, LoadDynamic, LoadUnread, LoadDynamicFails, BootPhase, Phase, Booting
    <3>4. ~Crash /\ ~Deploy
      BY DEF Crash, Down, Deploy
    <3> QED BY <3>1, <3>2, <3>3, <3>4 DEF Next
  <2>2. NoCaller \notin Callers
    BY DomainsAssumption
  <2> QED BY <2>1, <2>2, StepTouchesOwn DEF Owner
<1> HIDE DEF A
<1>2. Spec => [][A]_vars
  BY <1>1, IInvHolds, PTL DEF Spec
<1> QED BY <1>2 DEF A, OthersUntouched

-----------------------------------------------------------------------------
(* Policy entries *)

\* A request submits a document for the app the document names
Fits(req) == req.layer = NoLayer \/ DocApp[req.layer] = req.app

\* What the documents of an app declare and disable between them
Sources(a) == {d \in Docs \cup CodeDocs : DocApp[d] = a}
Declares(a) == UNION {Content[d].entries : d \in Sources(a)}
Disables(a) == UNION {Content[d].disable : d \in Sources(a)}

\* No app declares or disables an entry that another one declares
Apart == \A a, b \in Apps : a # b => (Declares(a) \cup Disables(a)) \cap Declares(b) = {}

OwnSpec(a, spec) == spec.entries \subseteq Declares(a) /\ spec.disable \subseteq Disables(a)

\* What is stored, asked for, mounted and saved of an app comes from its documents
SourceInv ==
    /\ \A a \in Compiled : DocApp[code[a]] = a
    /\ \A a \in Apps : \A i \in DOMAIN store[a] :
           store[a][i].layer = "overlay" => Fits([app |-> a, layer |-> store[a][i].doc])
    /\ \A c \in Callers : \A i \in DOMAIN call[c].queue : Fits(call[c].queue[i])
    /\ \A a \in Apps : OwnSpec(a, mounted[a].spec)
    /\ \A c \in Callers : call[c].pc \in {"remount", "secure", "rollback"} =>
           OwnSpec(Target(c), saved.state.spec)

\* Unless ApplySecurity failed, the App being mounted or rolled back still runs
\* the spec that was saved
KeptInv == \A c \in Callers : call[c].pc \in {"remount", "rollback"} =>
    saved.state.spec = mounted[Target(c)].spec

\* Every app whose turn in the boot is over has its entries active, until a
\* mount has replaced its spec and not yet secured it
Granted(a) == mounted[a].spec.entries \subseteq active
GrantInv ==
    /\ boot.phase = "secure" =>
           /\ loaded \subseteq {CompiledOrder[i] : i \in DOMAIN CompiledOrder}
           /\ \A i \in DOMAIN CompiledOrder : i < boot.at => Granted(CompiledOrder[i])
    /\ boot.phase \in {"load", "up"} => \A a \in Apps :
           Granted(a) \/ \E c \in Callers : At(c, "secure") /\ Target(c) = a

\* Every active entry is declared, or about to be dropped by the mount that
\* replaced the spec that declared it
Declared(e) == \E a \in Apps : e \in mounted[a].spec.entries
StaleInv ==
    /\ boot.phase \in {"down", "setup"} => active = {}
    /\ \A e \in active :
           Declared(e) \/ \E c \in Callers : At(c, "secure") /\ e \in saved.state.spec.entries

\* A step of a call leaves the boot, the binary and the other calls alone.
LEMMA StepFrame ==
    ASSUME TypeInv, NEW c \in Callers, Step(c)
    PROVE  /\ ~At(c, "idle") /\ UNCHANGED <<boot, code>>
           /\ \A d \in Callers \ {c} : call'[d] = call[d]
<1>1. call \in [Callers -> Calls]
  BY DEF TypeInv, TypeOK
<1>2. ~At(c, "idle") /\ UNCHANGED <<boot, code>>
  BY DEF Step, Check, ReadHead, ReadFails, Validate, MountUnchanged, SwapStart, MountNew, UnmountStart,
         Acquire, Remount, RemountClash, RemountFails, ApplySecurity, ApplySecurityFails,
         Unmount, Rollback, Store, StoreFails, At, durable
<1>3. \A d \in Callers \ {c} : call'[d] = call[d]
  BY <1>1 DEF Step, Check, ReadHead, ReadFails, Validate, MountUnchanged, SwapStart, MountNew, UnmountStart,
         Acquire, Remount, RemountClash, RemountFails, ApplySecurity, ApplySecurityFails,
         Unmount, Rollback, Store, StoreFails, Goto, Return
<1> QED BY <1>2, <1>3

\* While one call holds the mutex the others only read.
LEMMA OthersRead ==
    ASSUME ControlInv, NEW c \in Callers, NEW d \in Callers \ {c}, call[d].pc \in Holding,
           Step(c)
    PROVE  UNCHANGED <<store, columns, active, memory, lock, saved>>
<1>1. lock = d /\ call[c].pc \notin Holding /\ lock # NoCaller
  BY Holder, DomainsAssumption
<1>2. Check(c) \/ ReadHead(c) \/ ReadFails(c) \/ Validate(c)
  BY <1>1 DEF Holding, Step, MountUnchanged, SwapStart, MountNew, UnmountStart, Acquire, Remount,
     RemountClash, RemountFails, ApplySecurity, ApplySecurityFails, Unmount, Rollback, Store,
     StoreFails, At
<1> QED BY <1>2 DEF Check, ReadHead, ReadFails, Validate, durable

\* No call is in progress after a step of the boot, a crash or a deployment.
LEMMA NoCallRuns ==
    ASSUME ControlInv, Boot \/ Crash \/ Deploy
    PROVE  \A c \in Callers : call'[c].pc = "idle"
<1>1. CASE Lost
  BY <1>1 DEF Lost, NoCalls, Idle
<1>2. CASE ~Lost
  <2>1. boot.phase # "up" /\ UNCHANGED call
    BY <1>2 DEF Boot, BootStart, SetupCompiled, SetupUnread, SetupFails, SetupPanics, SecureCompiled,
                SecureCompiledFails, LoadDynamic, LoadUnread, LoadDynamicFails, BootPhase, Phase, Booting,
                Crash, Deploy
  <2> QED BY <2>1 DEF ControlInv, BootInv, At
<1> QED BY <1>1, <1>2

\* An API call starts with one request, or with a bundle.
LEMMA StartFrame ==
    ASSUME TypeInv, NEW c \in Callers, Apply(c) \/ Revert(c) \/ Delete(c) \/ Import(c)
    PROVE  /\ UNCHANGED <<durable, memory, lock, saved, boot>>
           /\ \A d \in Callers \ {c} : call'[d] = call[d]
           /\ call'[c].pc \in {"read", "check"}
           /\ At(c, "idle") /\ boot.phase = "up"
<1>1. PICK pc \in {"read", "check"} : \E queue : Start(c, pc, queue)
  BY DEF Apply, Revert, Delete, Import
<1>2. PICK queue : Start(c, pc, queue)
  BY <1>1
<1>3. call \in [Callers -> Calls]
  BY DEF TypeInv, TypeOK
<1>4. call' = [call EXCEPT ![c] = [Idle EXCEPT !.pc = pc, !.queue = queue]]
  BY <1>2 DEF Start
<1>5. [Idle EXCEPT !.pc = pc, !.queue = queue].pc = pc
  BY DEF Idle
<1> QED BY <1>2, <1>3, <1>4, <1>5 DEF Start

\* The spec of the App is replaced by a remount, put back by a rollback and
\* taken away by an unmount; a swap and a new mount save it.
LEMMA KeptStep ==
    ASSUME IInv, KeptInv, "security" \notin Faults, [Next]_vars
    PROVE  KeptInv'
<1>1. ASSUME NEW c \in Callers, Apply(c) \/ Revert(c) \/ Delete(c) \/ Import(c)
      PROVE  KeptInv'
  BY <1>1, StartFrame DEF IInv, KeptInv, memory, Target, Request
<1>2. ASSUME NEW c \in Callers, Step(c), NEW d \in Callers,
             call'[d].pc \in {"remount", "rollback"}
      PROVE  saved'.state.spec = mounted'[Target(d)'].spec
  <2>1. CASE d # c
    <3>1. call'[d] = call[d]
      BY <1>2, <2>1, StepFrame DEF IInv
    <3>2. UNCHANGED <<mounted, saved>>
      BY <1>2, <2>1, <3>1, OthersRead DEF IInv, Holding, memory
    <3> QED BY <1>2, <3>1, <3>2 DEF KeptInv, Target, Request
  <2>2. CASE d = c
    <3>1. ~At(c, "idle")
      BY <1>2, StepFrame DEF IInv
    <3>2. CASE SwapStart(c)
      <4>1. /\ Goto(c, "remount") /\ UNCHANGED <<mounted, code>>
            /\ saved'.state = mounted[Target(c)]
        BY <3>2 DEF SwapStart, durable
      <4> QED BY <2>2, <4>1, GotoFrame DEF IInv
    <3>3. CASE MountNew(c)
      <4>1. /\ Goto(c, "remount") /\ UNCHANGED <<mounted, code>> /\ lock = NoCaller
            /\ saved'.state = Unmounted /\ Target(c) \in Dynamic \ dynamic
        BY <3>3 DEF MountNew, durable, memory, Acquire
      <4>2. mounted[Target(c)] = Unmounted
        BY <4>1, Unlocked DEF IInv, SurfaceInv, LoadedInv, Apps
      <4> QED BY <2>2, <4>1, <4>2, GotoFrame DEF IInv
    <3>4. CASE RemountClash(c)
      <4>1. At(c, "remount") /\ Goto(c, "rollback") /\ UNCHANGED <<saved, code>>
        BY <3>4 DEF RemountClash
      <4>2. PICK services : mounted' = [mounted EXCEPT ![Target(c)].services = services]
        BY <3>4 DEF RemountClash
      <4>3. Target(c) \in Apps
        BY <4>1, RequestType DEF IInv, At
      <4>4. mounted'[Target(c)].spec = mounted[Target(c)].spec
        BY <4>2, <4>3 DEF IInv, TypeInv, TypeOK, AppStates
      <4> QED BY <2>2, <4>1, <4>4, GotoFrame DEF IInv, KeptInv, At
    <3>5. CASE RemountFails(c)
      <4>1. At(c, "remount") /\ Goto(c, "rollback") /\ UNCHANGED <<saved, code, mounted>>
        BY <3>5 DEF RemountFails, memory
      <4> QED BY <2>2, <4>1, GotoFrame DEF IInv, KeptInv, At
    <3>6. CASE Remount(c) \/ MountUnchanged(c) \/ UnmountStart(c) \/ ApplySecurity(c) \/ Unmount(c)
      <4>1. \E pc \in {"secure", "append", "unmount"} : Goto(c, pc)
        BY <3>6 DEF Remount, MountUnchanged, UnmountStart, ApplySecurity, Unmount
      <4> QED BY <1>2, <2>2, <4>1, GotoPc DEF IInv
    <3>7. CASE Rollback(c) \/ StoreFails(c) \/ Store(c)
      <4>1. call'[c].pc \notin Holding
        <5>1. lock' = NoCaller /\ ControlInv'
          BY <1>2, <3>7, StepControl DEF IInv, Rollback, StoreFails, Store
        <5> QED BY <5>1, DomainsAssumption DEF ControlInv, LockInv
      <4> QED BY <1>2, <2>2, <4>1 DEF Holding
    <3>8. CASE Check(c) \/ ReadHead(c) \/ ReadFails(c) \/ Validate(c)
      <4>1. call'[c].pc \notin Holding
        <5>1. UNCHANGED lock /\ ControlInv'
          BY <1>2, <3>8, StepControl DEF IInv, Check, ReadHead, ReadFails, Validate
        <5>2. lock # c
          BY <3>8 DEF IInv, ControlInv, LockInv, Holding, Check, ReadHead, ReadFails, Validate, At
        <5> QED BY <5>1, <5>2 DEF ControlInv, LockInv
      <4> QED BY <1>2, <2>2, <4>1 DEF Holding
    <3>9. ~ApplySecurityFails(c)
      BY DEF ApplySecurityFails, Fail
    <3> QED BY <1>2, <3>2, <3>3, <3>4, <3>5, <3>6, <3>7, <3>8, <3>9 DEF Step
  <2> QED BY <2>1, <2>2
<1>3. CASE Boot \/ Crash \/ Deploy
  BY <1>3, NoCallRuns DEF IInv, KeptInv
<1>4. CASE UNCHANGED vars
  BY <1>4 DEF vars, memory, KeptInv, Target, Request
<1> QED BY <1>1, <1>2, <1>3, <1>4 DEF Next, KeptInv

\* A step of a call keeps every active entry declared: what ApplySecurity does
\* not drop the new spec declares, what an unmount leaves another app declares.
LEMMA StaleCall ==
    ASSUME IInv, KeptInv, StaleInv, "security" \notin Faults, NEW c \in Callers, Step(c),
           NEW e \in active'
    PROVE  \/ Declared(e)'
           \/ \E d \in Callers : At(d, "secure")' /\ e \in saved'.state.spec.entries
<1>1. boot.phase = "up"
  BY StepFrame, RunningCall DEF IInv
<1>2. mounted \in [Apps -> AppStates]
  BY DEF IInv, TypeInv, TypeOK
<1>3. CASE e \in active /\ \E d \in Callers \ {c} : At(d, "secure")
  <2>1. PICK d \in Callers \ {c} : At(d, "secure")
    BY <1>3
  <2>2. call'[d] = call[d] /\ UNCHANGED <<mounted, saved>>
    BY <2>1, StepFrame, OthersRead DEF IInv, Holding, At, memory
  <2> QED BY <1>3, <2>1, <2>2 DEF StaleInv, Declared, At
<1>4. CASE e \notin active \/ ~\E d \in Callers \ {c} : At(d, "secure")
  <2> DEFINE a == Target(c)
  <2>1. CASE Remount(c)
    <3>1. /\ At(c, "remount") /\ Goto(c, "secure") /\ UNCHANGED <<active, saved, code>>
          /\ \A b \in Apps \ {a} : mounted'[b] = mounted[b]
      BY <2>1, <1>2 DEF Remount
    <3>2. At(c, "secure")'
      BY <3>1, GotoPc DEF IInv, At
    <3>3. saved.state.spec = mounted[a].spec
      BY <3>1 DEF KeptInv, At
    <3>4. Declared(e)
      BY <1>4, <3>1 DEF StaleInv, At
    <3> QED BY <3>1, <3>2, <3>3, <3>4 DEF Declared
  <2>2. CASE ApplySecurity(c)
    <3>1. /\ At(c, "secure") /\ UNCHANGED mounted
          /\ active' = (active \ (Desired(c).disable \cup Dropped(c))) \cup Desired(c).entries
      BY <2>2 DEF ApplySecurity, Secured
    <3>2. a \in Apps /\ mounted[a].spec = Desired(c)
      BY <3>1, RequestType DEF IInv, SurfaceInv, ProgressInv, Progress, At
    <3>3. CASE e \in Desired(c).entries
      BY <3>1, <3>2, <3>3 DEF Declared
    <3>4. CASE e \in active /\ e \notin saved.state.spec.entries
      BY <1>4, <3>1, <3>4 DEF StaleInv, Declared, At
    <3> QED BY <3>1, <3>3, <3>4 DEF Dropped
  <2>3. CASE Unmount(c)
    <3>1. /\ At(c, "unmount") /\ active' = active \ mounted[a].spec.entries
          /\ mounted' = [mounted EXCEPT ![a] = Unmounted]
      BY <2>3 DEF Unmount, Fail
    <3>2. Declared(e)
      BY <1>4, <3>1 DEF StaleInv, At
    <3> QED BY <1>2, <3>1, <3>2 DEF Declared
  <2>4. CASE Rollback(c) \/ RemountClash(c)
    <3>1. call[c].pc \in {"remount", "rollback"} /\ UNCHANGED active
      BY <2>4 DEF Rollback, RemountClash, At, durable
    <3>2. Declared(e)
      BY <1>4, <3>1 DEF StaleInv, At
    <3>3. \A b \in Apps : mounted'[b].spec = mounted[b].spec
      <4>1. CASE Rollback(c)
        <5>1. mounted' = [mounted EXCEPT ![a] = saved.state]
          BY <4>1 DEF Rollback, RestoredState
        <5>2. saved.state.spec = mounted[a].spec
          BY <3>1 DEF KeptInv
        <5> QED BY <1>2, <5>1, <5>2
      <4>2. CASE RemountClash(c)
        <5>1. PICK services : mounted' = [mounted EXCEPT ![a].services = services]
          BY <4>2 DEF RemountClash
        <5> QED BY <1>2, <5>1 DEF AppStates
      <4> QED BY <2>4, <4>1, <4>2
    <3> QED BY <3>2, <3>3 DEF Declared
  <2>5. CASE \/ Check(c) \/ ReadHead(c) \/ ReadFails(c) \/ Validate(c)
             \/ MountUnchanged(c) \/ SwapStart(c) \/ MountNew(c) \/ UnmountStart(c)
             \/ RemountFails(c) \/ Store(c) \/ StoreFails(c)
    <3>1. UNCHANGED <<active, mounted>> /\ ~At(c, "secure")
      BY <2>5 DEF Check, ReadHead, ReadFails, Validate, MountUnchanged, SwapStart, MountNew, UnmountStart,
         Acquire, RemountFails, Store, StoreFails, At, durable, memory
    <3> QED BY <1>4, <3>1 DEF StaleInv, Declared
  <2>6. ~ApplySecurityFails(c)
    BY DEF ApplySecurityFails, Fail
  <2> QED BY <2>1, <2>2, <2>3, <2>4, <2>5, <2>6 DEF Step
<1> QED BY <1>3, <1>4

\* A boot activates what the app it is at declares, and its mounts only add.
LEMMA StaleBoot ==
    ASSUME IInv, StaleInv, {"read", "security"} \cap Faults = {}, Boot
    PROVE  StaleInv'
<1>1. boot.phase # "up"
  BY DEF Boot, BootStart, SetupCompiled, SetupUnread, SetupFails, SetupPanics, SecureCompiled,
         SecureCompiledFails, LoadDynamic, LoadUnread, LoadDynamicFails, BootPhase, Phase, Booting
<1>2. lock = NoCaller /\ \A e \in active : Declared(e)
  BY <1>1 DEF IInv, ControlInv, BootInv, StaleInv, At
<1>3. mounted \in [Apps -> AppStates]
  BY DEF IInv, TypeInv, TypeOK
<1>4. CASE BootStart \/ BootPhase
  <2>1. /\ UNCHANGED <<active, mounted>>
        /\ boot'.phase \in {"down", "setup"} => boot.phase \in {"down", "setup"}
    BY <1>4 DEF BootStart, BootPhase, Phase, durable, memory
  <2> QED BY <1>2, <2>1 DEF StaleInv, Declared
<1>5. CASE SetupFails \/ SetupPanics
  <2>1. boot.phase = "setup" /\ active' = active
    BY <1>5 DEF SetupFails, SetupPanics, Booting
  <2> QED BY <2>1 DEF StaleInv
<1>6. CASE SetupCompiled \/ SetupUnread
  <2>1. boot.phase = "setup" /\ active' = active
    BY <1>6 DEF SetupCompiled, SetupUnread, Booting, durable
  <2> QED BY <2>1 DEF StaleInv
<1>7. CASE SecureCompiled
  <2> DEFINE a == CompiledOrder[boot.at]
  <2>1. /\ Booting("secure", CompiledOrder) /\ BootNext /\ UNCHANGED mounted
        /\ active' \subseteq active \cup mounted[a].spec.entries
    BY <1>7 DEF SecureCompiled, memory, Secured
  <2>2. a \in Apps
    BY <2>1, BootApp DEF IInv, Apps
  <2>3. boot'.phase = "secure"
    BY <2>1 DEF Booting, BootNext, IInv, TypeInv, TypeOK
  <2>4. \A e \in active' : Declared(e)'
    BY <1>2, <2>1, <2>2 DEF Declared
  <2> QED BY <2>3, <2>4 DEF StaleInv
<1>8. CASE LoadDynamic
  <2> DEFINE a == DynamicOrder[boot.at]
             spec == Effective(a, HeadOf(a, "overlay"))
  <2>1. /\ Booting("load", DynamicOrder) /\ BootNext
        /\ LoadMounts(a, spec) \/ UNCHANGED <<active, mounted>>
    BY <1>8 DEF LoadDynamic, Load, LoadReports, durable, memory
  <2>2. a \in Dynamic /\ a \in Apps \ loaded
    BY <2>1, BootApp, NextNotLoaded DEF IInv, Apps
  <2>3. boot'.phase = "load"
    BY <2>1 DEF Booting, BootNext, IInv, TypeInv, TypeOK
  <2>4. mounted[a] = Unmounted
    BY <1>2, <2>2, Unlocked DEF IInv
  <2>5. ASSUME LoadMounts(a, spec), NEW e \in active'
        PROVE  Declared(e)'
    <3>1. /\ active' = (active \ spec.disable) \cup spec.entries
          /\ mounted' = [mounted EXCEPT ![a] =
                            [spec |-> spec, owned |-> spec.fields, services |-> spec.cols]]
      BY <2>5 DEF LoadMounts, Registers, Secured
    <3>2. mounted'[a].spec = spec /\ \A b \in Apps \ {a} : mounted'[b] = mounted[b]
      BY <1>3, <2>2, <3>1
    <3>3. mounted[a].spec.entries = {}
      BY <2>4 DEF Unmounted, Blank
    <3> HIDE DEF a, spec
    <3> QED BY <1>2, <2>2, <3>1, <3>2, <3>3 DEF Declared
  <2>6. \A e \in active' : Declared(e)'
    BY <1>2, <2>1, <2>5 DEF Declared
  <2> QED BY <2>3, <2>6 DEF StaleInv
<1>9. CASE LoadDynamicFails
  <2>1. Booting("load", DynamicOrder) /\ BootNext /\ UNCHANGED <<active, mounted>>
    BY <1>9 DEF LoadDynamicFails, Fail
  <2>2. boot'.phase = "load"
    BY <2>1 DEF Booting, BootNext, IInv, TypeInv, TypeOK
  <2> QED BY <1>2, <2>1, <2>2 DEF StaleInv, Declared
<1>10. ~LoadUnread
  BY DEF LoadUnread, Fail
<1> QED BY <1>4, <1>5, <1>6, <1>7, <1>8, <1>9, <1>10 DEF Boot, SecureCompiledFails, Fail

LEMMA StaleStep ==
    ASSUME IInv, KeptInv, StaleInv, {"read", "security"} \cap Faults = {}, MaxCrashes = 0,
           [Next]_vars
    PROVE  StaleInv'
<1>1. ASSUME NEW c \in Callers, Apply(c) \/ Revert(c) \/ Delete(c) \/ Import(c)
      PROVE  StaleInv'
  <2>1. /\ UNCHANGED <<active, mounted, saved, boot>> /\ At(c, "idle")
        /\ \A d \in Callers \ {c} : call'[d] = call[d]
    BY <1>1, StartFrame DEF IInv, durable, memory
  <2> QED BY <2>1 DEF StaleInv, Declared, At
<1>2. ASSUME NEW c \in Callers, Step(c)
      PROVE  StaleInv'
  <2>1. boot'.phase = "up"
    BY <1>2, StepFrame, RunningCall DEF IInv
  <2> QED BY <1>2, <2>1, StaleCall DEF StaleInv
<1>3. CASE Boot
  BY <1>3, StaleBoot
<1>4. ~Crash
  <2>1. used.crashes \in Nat
    BY DEF IInv, TypeInv, TypeOK
  <2> QED BY <2>1 DEF Crash, Spend
<1>5. CASE Deploy
  BY <1>5 DEF Deploy, memory, StaleInv
<1>6. CASE UNCHANGED vars
  BY <1>6 DEF vars, durable, memory, StaleInv, Declared, At
<1> QED BY <1>1, <1>2, <1>3, <1>4, <1>5, <1>6 DEF Next

\* Between mounts no entry is active that no mounted app declares: droppedEntries
\* takes exactly what the replaced spec declared and the new one does not,
\* because a mount that fails leaves the App running the spec it saved.  A crash
\* between ApplySecurity and Append, an ApplySecurity that fails part-way, or a
\* boot dropped after its policies are in, does leave entries, so the theorem is
\* about a database that secures and can be read, and a process not killed.
THEOREM NothingStale ==
    {"read", "security"} \cap Faults = {} /\ MaxCrashes = 0 => (Spec => []NoStaleEntries)
<1> SUFFICES ASSUME {"read", "security"} \cap Faults = {}, MaxCrashes = 0
             PROVE  Spec => []NoStaleEntries
  OBVIOUS
<1>1. Init => KeptInv /\ StaleInv
  BY DEF Init, KeptInv, StaleInv, NoCalls, Idle
<1>2. IInv /\ KeptInv /\ StaleInv /\ [Next]_vars => KeptInv' /\ StaleInv'
  BY KeptStep, StaleStep
<1>3. IInv /\ StaleInv => NoStaleEntries
  <2> SUFFICES ASSUME IInv, StaleInv, Serving, NEW e \in active
               PROVE  Declared(e)
    BY DEF NoStaleEntries, Declared
  <2>1. \A c \in Callers : ~At(c, "secure")
    BY DomainsAssumption DEF Serving, IInv, ControlInv, LockInv, Holding, At
  <2> QED BY <2>1 DEF StaleInv
<1> QED BY <1>1, <1>2, <1>3, IInvHolds, PTL DEF Spec

\* The head of an app's layer is a document of the app, as every stored one is.
LEMMA HeadAtSource ==
    ASSUME TypeInv, SourceInv, NEW a \in Apps, NEW n \in 0..Len(store[a])
    PROVE  Fits([app |-> a, layer |-> HeadAt(a, "overlay", n)])
<1> DEFINE revs == {i \in 1..n : store[a][i].layer = "overlay"}
<1>1. CASE revs = {}
  BY <1>1 DEF HeadAt, Fits
<1>2. CASE revs # {}
  <2>1. store[a] \in Seq(Revisions) /\ n \in Nat /\ n <= Len(store[a])
    BY LenProperties DEF TypeInv, TypeOK
  <2>2. Max(revs) \in revs
    <3>1. revs \in SUBSET (1..n) OBVIOUS
    <3> HIDE DEF revs
    <3> QED BY <1>2, <2>1, <3>1, MaxIsGreatest
  <2>3. Max(revs) \in DOMAIN store[a] /\ store[a][Max(revs)].layer = "overlay"
    BY <2>1, <2>2, LenProperties
  <2>4. HeadAt(a, "overlay", n) = store[a][Max(revs)].doc
    BY <1>2 DEF HeadAt
  <2> HIDE DEF revs
  <2> QED BY <2>3, <2>4 DEF SourceInv
<1> QED BY <1>1, <1>2

\* The effective definition of an app declares what its documents declare.
LEMMA EffectiveOwn ==
    ASSUME TypeInv, SourceInv, NEW a \in Apps, NEW layer \in Layers,
           Fits([app |-> a, layer |-> layer])
    PROVE  OwnSpec(a, BaseOf(a)) /\ OwnSpec(a, Effective(a, layer))
<1>1. OwnSpec(a, BaseOf(a))
  <2>1. CASE a \in Compiled
    <3>1. code[a] \in Sources(a)
      BY <2>1 DEF Sources, SourceInv, TypeInv, TypeOK
    <3> QED BY <2>1, <3>1 DEF BaseOf, OwnSpec, Declares, Disables
  <2>2. CASE a \notin Compiled
    BY <2>2 DEF BaseOf, OwnSpec, Blank
  <2> QED BY <2>1, <2>2
<1>2. CASE layer = NoLayer
  BY <1>1, <1>2 DEF Effective
<1>3. CASE layer # NoLayer
  <2>1. layer \in Sources(a)
    BY <1>3 DEF Fits, Layers, Sources
  <2>2. Content[layer].entries \subseteq Declares(a) /\ Content[layer].disable \subseteq Disables(a)
    BY <2>1 DEF Declares, Disables
  <2> QED BY <1>1, <1>3, <2>2 DEF Effective, Merge, OwnSpec
<1> QED BY <1>1, <1>2, <1>3

LEMMA DesiredOwn ==
    ASSUME TypeInv, SourceInv, NEW c \in Callers, call[c].pc \notin {"idle", "check"}
    PROVE  Fits(Request(c)) /\ OwnSpec(Target(c), Desired(c))
<1>1. call[c].queue \in Seq(Requests) /\ call[c].queue # <<>>
  BY DEF TypeInv, TypeOK, Calls, RequestInv
<1>2. 1 \in DOMAIN call[c].queue
  BY <1>1, LenProperties, EmptySeq
<1>3. Fits(Request(c))
  BY <1>2 DEF SourceInv, Request
<1>4. Target(c) \in Apps /\ Request(c).layer \in Layers
  BY RequestType
<1>5. Fits([app |-> Target(c), layer |-> Request(c).layer])
  BY <1>3 DEF Fits, Target
<1> QED BY <1>3, <1>4, <1>5, EffectiveOwn DEF Desired

LEMMA ResolvedOwn ==
    ASSUME TypeInv, SourceInv, NEW a \in Apps
    PROVE  /\ OwnSpec(a, BaseOf(a)) /\ OwnSpec(a, Resolved(a))
           /\ OwnSpec(a, Effective(a, HeadOf(a, "overlay")))
<1>1. Len(store[a]) \in 0..Len(store[a])
  BY LenProperties DEF TypeInv, TypeOK
<1>2. Fits([app |-> a, layer |-> HeadOf(a, "overlay")])
  BY <1>1, HeadAtSource DEF HeadOf
<1>3. HeadOf(a, "overlay") \in Layers
  BY ResolvedType
<1>4. OwnSpec(a, BaseOf(a)) /\ OwnSpec(a, Effective(a, HeadOf(a, "overlay")))
  BY <1>2, <1>3, EffectiveOwn
<1> QED BY <1>4 DEF Resolved

\* Every request a call starts with submits a document of the app it names.
LEMMA SourceStart ==
    ASSUME IInv, SourceInv, NEW c \in Callers,
           Apply(c) \/ Revert(c) \/ Delete(c) \/ Import(c)
    PROVE  \A i \in DOMAIN call'[c].queue : Fits(call'[c].queue[i])
<1>1. call \in [Callers -> Calls]
  BY DEF IInv, TypeInv, TypeOK
<1>2. ASSUME NEW pc, NEW queue, Start(c, pc, queue)
      PROVE  call'[c].queue = queue
  <2>1. call'[c] = [Idle EXCEPT !.pc = pc, !.queue = queue]
    BY <1>1, <1>2 DEF Start
  <2> QED BY <2>1 DEF Idle
<1>3. ASSUME NEW req, Fits(req), Start(c, "read", <<req>>)
      PROVE  \A i \in DOMAIN call'[c].queue : Fits(call'[c].queue[i])
  BY <1>2, <1>3
<1>4. CASE Apply(c)
  <2>1. PICK doc \in Docs : Start(c, "read", <<[app |-> DocApp[doc], layer |-> doc]>>)
    BY <1>4 DEF Apply
  <2>2. Fits([app |-> DocApp[doc], layer |-> doc])
    BY DEF Fits
  <2> QED BY <1>3, <2>1, <2>2
<1>5. CASE Revert(c)
  <2>1. PICK a \in Apps : \E n \in 1..Len(store[a]) :
            Start(c, "read", <<[app |-> a, layer |-> HeadAt(a, "overlay", n)]>>)
    BY <1>5 DEF Revert
  <2>2. PICK n \in 1..Len(store[a]) :
            Start(c, "read", <<[app |-> a, layer |-> HeadAt(a, "overlay", n)]>>)
    BY <2>1
  <2>3. n \in 0..Len(store[a])
    BY LenProperties DEF IInv, TypeInv, TypeOK
  <2>4. Fits([app |-> a, layer |-> HeadAt(a, "overlay", n)])
    BY <2>3, HeadAtSource DEF IInv
  <2> QED BY <1>3, <2>2, <2>4
<1>6. CASE Delete(c)
  <2>1. PICK a \in Apps : Start(c, "read", <<[app |-> a, layer |-> NoLayer]>>)
    BY <1>6 DEF Delete
  <2>2. Fits([app |-> a, layer |-> NoLayer])
    BY DEF Fits
  <2> QED BY <1>3, <2>1, <2>2
<1>7. CASE Import(c)
  <2>1. PICK bundle \in Bundles : Start(c, "check", bundle)
    BY <1>7 DEF Import
  <2>2. call'[c].queue = bundle
    BY <1>2, <2>1
  <2> QED BY <2>1, <2>2, BundlesAssumption DEF Fits
<1> QED BY <1>4, <1>5, <1>6, <1>7

\* A call keeps its requests, drops the one it has served, or returns.
LEMMA SourceQueue ==
    ASSUME IInv, SourceInv, NEW c \in Callers, Step(c)
    PROVE  \A d \in Callers : \A i \in DOMAIN call'[d].queue : Fits(call'[d].queue[i])
<1>1. call \in [Callers -> Calls] /\ call[c] \in Calls
  BY DEF IInv, TypeInv, TypeOK
<1>2. \A d \in Callers \ {c} : call'[d] = call[d]
  BY StepFrame DEF IInv
<1>3. \/ call'[c].queue = call[c].queue
      \/ call'[c].queue = <<>>
      \/ call[c].queue # <<>> /\ call'[c].queue = Tail(call[c].queue)
  <2>1. CASE Return(c)
    BY <1>1, <2>1 DEF Return, Idle
  <2>2. CASE \E pc \in {"read", "lock", "append", "remount", "unmount", "secure", "rollback"} :
                 Goto(c, pc)
    BY <1>1, <2>2 DEF Goto, Calls
  <2>3. CASE Check(c) /\ call' = [call EXCEPT ![c].checked = call[c].checked + 1]
    BY <1>1, <2>3 DEF Calls
  <2>4. CASE ReadHead(c)
    BY <1>1, <2>4 DEF ReadHead, Calls
  <2>5. CASE Store(c)
    <3>1. CASE Tail(call[c].queue) = <<>>
      BY <1>1, <2>5, <3>1 DEF Store, Idle
    <3>2. CASE Tail(call[c].queue) # <<>>
      <4>1. call'[c] = [call[c] EXCEPT !.pc = "read", !.queue = Tail(call[c].queue)]
        BY <1>1, <2>5, <3>2 DEF Store
      <4>2. call[c].queue # <<>>
        BY <2>5 DEF Store, At, IInv, TypeInv, RequestInv
      <4> QED BY <1>1, <4>1, <4>2 DEF Calls
    <3> QED BY <3>1, <3>2
  <2> QED BY <2>1, <2>2, <2>3, <2>4, <2>5 DEF Step, Check, ReadFails, Validate, MountUnchanged, SwapStart,
         MountNew, UnmountStart, Remount, RemountClash, RemountFails, ApplySecurity,
         ApplySecurityFails, Unmount, Rollback, StoreFails
<1>4. \A i \in DOMAIN call'[c].queue : Fits(call'[c].queue[i])
  <2>1. CASE call'[c].queue = Tail(call[c].queue) /\ call[c].queue # <<>>
    <3>1. call[c].queue \in Seq(Requests)
      BY <1>1 DEF Calls
    <3>2. \A i \in DOMAIN Tail(call[c].queue) :
              i + 1 \in DOMAIN call[c].queue /\ Tail(call[c].queue)[i] = call[c].queue[i + 1]
      BY <2>1, <3>1, HeadTailProperties, LenProperties
    <3> QED BY <2>1, <3>2 DEF SourceInv
  <2> QED BY <1>3, <2>1 DEF SourceInv
<1> QED BY <1>2, <1>4 DEF SourceInv

\* Stored layers: a call stores the one it was asked for, a boot only bases.
LEMMA SourceStored ==
    ASSUME IInv, SourceInv, NEW a \in Apps, NEW layer, NEW doc,
           layer = "overlay" => Fits([app |-> a, layer |-> doc]),
           store' = [store EXCEPT ![a] = Appended(a, layer, doc)]
    PROVE  \A b \in Apps : \A i \in DOMAIN store'[b] :
               store'[b][i].layer = "overlay" => Fits([app |-> b, layer |-> store'[b][i].doc])
<1>1. store \in [Apps -> Seq(Revisions)]
  BY DEF IInv, TypeInv, TypeOK
<1>2. store'[a] = Append(store[a], [layer |-> layer, doc |-> doc])
  BY <1>1 DEF Appended
<1>3. \A b \in Apps \ {a} : store'[b] = store[b]
  BY <1>1
<1>4. ASSUME NEW i \in DOMAIN store'[a], store'[a][i].layer = "overlay"
      PROVE  Fits([app |-> a, layer |-> store'[a][i].doc])
  <2>1. store[a] \in Seq(Revisions)
    BY <1>1
  <2>2. CASE i \in DOMAIN store[a]
    <3>1. store'[a][i] = store[a][i]
      BY <1>2, <2>1, <2>2, AppendProperties, LenProperties
    <3> QED BY <1>4, <2>2, <3>1 DEF SourceInv
  <2>3. CASE i \notin DOMAIN store[a]
    <3>1. store'[a][i] = [layer |-> layer, doc |-> doc]
      BY <1>2, <1>4, <2>1, <2>3, AppendProperties, LenProperties
    <3> QED BY <1>4, <3>1
  <2> QED BY <2>2, <2>3
<1> QED BY <1>3, <1>4 DEF SourceInv

\* What the step of a call mounts and saves of an app its documents declare.
LEMMA SourceMounted ==
    ASSUME IInv, SourceInv, NEW c \in Callers, Step(c)
    PROVE  /\ \A a \in Apps : OwnSpec(a, mounted'[a].spec)
           /\ \A d \in Callers : call'[d].pc \in {"remount", "secure", "rollback"} =>
                  OwnSpec(Target(d)', saved'.state.spec)
<1> DEFINE a == Target(c)
<1>1. mounted \in [Apps -> AppStates]
  BY DEF IInv, TypeInv, TypeOK
<1>2. UNCHANGED code /\ ~At(c, "idle")
  BY StepFrame DEF IInv
<1>3. OwnSpec(a, Unmounted.spec)
  BY DEF OwnSpec, Unmounted, Blank
<1>4. \A b \in Apps : OwnSpec(b, mounted'[b].spec)
  <2>1. CASE Remount(c)
    <3>1. /\ At(c, "remount")
          /\ mounted' = [mounted EXCEPT ![a] = [spec |-> Desired(c), owned |-> Desired(c).fields,
                                                services |-> Desired(c).cols]]
      BY <2>1 DEF Remount
    <3>2. OwnSpec(a, Desired(c))
      BY <3>1, DesiredOwn DEF IInv, At
    <3> QED BY <1>1, <3>1, <3>2 DEF SourceInv
  <2>2. CASE RemountClash(c)
    <3>1. PICK services : mounted' = [mounted EXCEPT ![a].services = services]
      BY <2>2 DEF RemountClash
    <3>2. \A b \in Apps : mounted'[b].spec = mounted[b].spec
      BY <1>1, <3>1 DEF AppStates
    <3> QED BY <3>2 DEF SourceInv
  <2>3. CASE Unmount(c)
    BY <1>1, <1>3, <2>3 DEF Unmount, SourceInv
  <2>4. CASE Rollback(c)
    <3>1. At(c, "rollback") /\ mounted' = [mounted EXCEPT ![a] = saved.state]
      BY <2>4 DEF Rollback, RestoredState
    <3> QED BY <1>1, <3>1 DEF SourceInv, At
  <2>5. CASE UNCHANGED mounted
    BY <2>5 DEF SourceInv
  <2> QED BY <2>1, <2>2, <2>3, <2>4, <2>5 DEF Step, Check, ReadHead, ReadFails, Validate, MountUnchanged,
         SwapStart, MountNew, UnmountStart, RemountFails, ApplySecurity, ApplySecurityFails,
         Store, StoreFails, memory
<1>5. ASSUME NEW d \in Callers, call'[d].pc \in {"remount", "secure", "rollback"}
      PROVE  OwnSpec(Target(d)', saved'.state.spec)
  <2>1. CASE d # c
    <3>1. call'[d] = call[d]
      BY <2>1, StepFrame DEF IInv
    <3>2. UNCHANGED saved
      BY <1>5, <2>1, <3>1, OthersRead DEF IInv, Holding
    <3> QED BY <1>5, <3>1, <3>2 DEF SourceInv, Target, Request
  <2>2. CASE d = c
    <3>1. CASE SwapStart(c)
      <4>1. At(c, "lock") /\ Goto(c, "remount") /\ saved'.state = mounted[a]
        BY <3>1 DEF SwapStart, Acquire
      <4>2. a \in Apps /\ Target(c)' = a
        BY <1>2, <4>1, GotoFrame, RequestType DEF IInv, At
      <4> QED BY <2>2, <4>1, <4>2 DEF SourceInv
    <3>2. CASE MountNew(c)
      <4>1. Goto(c, "remount") /\ saved'.state = Unmounted
        BY <3>2 DEF MountNew
      <4>2. Target(c)' = a
        BY <1>2, <4>1, GotoFrame DEF IInv
      <4> QED BY <1>3, <2>2, <4>1, <4>2
    <3>3. CASE Remount(c) \/ RemountClash(c) \/ RemountFails(c) \/ ApplySecurityFails(c)
      <4>1. /\ call[c].pc \in {"remount", "secure"} /\ UNCHANGED saved
            /\ \E pc \in {"secure", "rollback"} : Goto(c, pc)
        BY <3>3 DEF Remount, RemountClash, RemountFails, ApplySecurityFails, At
      <4>2. Target(c)' = a
        BY <1>2, <4>1, GotoFrame DEF IInv
      <4> QED BY <2>2, <4>1, <4>2 DEF SourceInv
    <3>4. CASE MountUnchanged(c) \/ UnmountStart(c) \/ ApplySecurity(c) \/ Unmount(c)
      <4>1. \E pc \in {"append", "unmount"} : Goto(c, pc)
        BY <3>4 DEF MountUnchanged, UnmountStart, ApplySecurity, Unmount
      <4> QED BY <1>5, <2>2, <4>1, GotoPc DEF IInv
    <3>5. CASE \/ Check(c) \/ ReadHead(c) \/ ReadFails(c) \/ Validate(c)
               \/ Rollback(c) \/ StoreFails(c) \/ Store(c)
      <4>1. lock' = NoCaller \/ (UNCHANGED lock /\ lock # c)
        BY <3>5 DEF IInv, ControlInv, LockInv, Holding, Check, ReadHead, ReadFails, Validate, At,
                    Rollback, StoreFails, Store
      <4>2. ControlInv'
        BY StepControl DEF IInv
      <4>3. call'[c].pc \notin Holding
        BY <4>1, <4>2, DomainsAssumption DEF ControlInv, LockInv
      <4> QED BY <1>5, <2>2, <4>3 DEF Holding
    <3> QED BY <3>1, <3>2, <3>3, <3>4, <3>5 DEF Step
  <2> QED BY <2>1, <2>2
<1> QED BY <1>4, <1>5

\* The store after the step of a call holds documents of the apps they are of.
LEMMA SourceCall ==
    ASSUME IInv, SourceInv, NEW c \in Callers, Step(c)
    PROVE  SourceInv'
<1>1. UNCHANGED code
  BY StepFrame DEF IInv
<1>2. \A b \in Apps : \A i \in DOMAIN store'[b] :
          store'[b][i].layer = "overlay" => Fits([app |-> b, layer |-> store'[b][i].doc])
  <2>1. CASE UNCHANGED store
    BY <2>1 DEF SourceInv
  <2>2. CASE /\ At(c, "append")
             /\ store' = [store EXCEPT ![Target(c)] =
                             Appended(Target(c), "overlay", Request(c).layer)]
    <3>1. Fits([app |-> Target(c), layer |-> Request(c).layer])
      BY <2>2, DesiredOwn DEF IInv, At, Fits, Target
    <3>2. Target(c) \in Apps
      BY <2>2, RequestType DEF IInv, At
    <3> QED BY <2>2, <3>1, <3>2, SourceStored
  <2> QED BY <2>1, <2>2 DEF Step, Check, ReadHead, ReadFails, Validate, MountUnchanged, SwapStart, MountNew,
         UnmountStart, Remount, RemountClash, RemountFails, ApplySecurity, ApplySecurityFails,
         Unmount, Rollback, Store, StoreFails, durable
<1> QED BY <1>1, <1>2, SourceQueue, SourceMounted DEF SourceInv

LEMMA SourceBoot ==
    ASSUME IInv, SourceInv, Boot
    PROVE  SourceInv'
<1>1. UNCHANGED code
  BY DEF Boot, BootStart, SetupCompiled, SetupUnread, SetupFails, SetupPanics, SecureCompiled,
         SecureCompiledFails, LoadDynamic, LoadUnread, LoadDynamicFails, Load, LoadMounts, LoadReports,
         BootPhase, Phase, durable
<1>2. \A b \in Apps : \A i \in DOMAIN store'[b] :
          store'[b][i].layer = "overlay" => Fits([app |-> b, layer |-> store'[b][i].doc])
  <2>1. CASE UNCHANGED store
    BY <2>1 DEF SourceInv
  <2>2. CASE SetupCompiled \/ SetupPanics
    <3> DEFINE a == CompiledOrder[boot.at]
    <3>1. Booting("setup", CompiledOrder) /\ (RecordBase(a) \/ UNCHANGED store)
      BY <2>2 DEF SetupCompiled, SetupPanics
    <3>2. a \in Apps
      BY <3>1, BootApp DEF IInv, Apps
    <3>3. UNCHANGED store \/ store' = [store EXCEPT ![a] = Appended(a, "base", code[a])]
      BY <3>1 DEF RecordBase
    <3> HIDE DEF a
    <3> QED BY <2>1, <3>2, <3>3, SourceStored
  <2> QED BY <2>1, <2>2 DEF Boot, BootStart, SetupUnread, SetupFails, SecureCompiled,
         SecureCompiledFails, LoadDynamic, LoadUnread, LoadDynamicFails, Load, LoadMounts, LoadReports, BootPhase, Phase, durable
<1>3. \A a \in Apps : OwnSpec(a, mounted'[a].spec)
  <2>1. CASE UNCHANGED mounted
    BY <2>1 DEF SourceInv
  <2>2. CASE Lost
    BY <2>2 DEF Lost, Nothing, Unmounted, Blank, OwnSpec
  <2>3. ASSUME NEW a \in Apps, NEW spec, OwnSpec(a, spec), Registers(a, spec)
        PROVE  \A b \in Apps : OwnSpec(b, mounted'[b].spec)
    <3>1. mounted \in [Apps -> AppStates]
      BY DEF IInv, TypeInv, TypeOK
    <3>2. mounted'[a].spec = spec /\ \A b \in Apps \ {a} : mounted'[b] = mounted[b]
      BY <2>3, <3>1 DEF Registers
    <3> QED BY <2>3, <3>2 DEF SourceInv
  <2>4. CASE SetupCompiled
    <3>1. Booting("setup", CompiledOrder) /\ CompiledOrder[boot.at] \in Apps
      BY <2>4, BootApp DEF SetupCompiled, IInv, Apps
    <3>2. OwnSpec(CompiledOrder[boot.at], Resolved(CompiledOrder[boot.at]))
      BY <3>1, ResolvedOwn DEF IInv
    <3> QED BY <2>3, <2>4, <3>1, <3>2 DEF SetupCompiled
  <2>6. CASE SetupUnread
    <3>1. Booting("setup", CompiledOrder) /\ CompiledOrder[boot.at] \in Apps
      BY <2>6, BootApp DEF SetupUnread, IInv, Apps
    <3>2. OwnSpec(CompiledOrder[boot.at], BaseOf(CompiledOrder[boot.at]))
      BY <3>1, ResolvedOwn DEF IInv
    <3> QED BY <2>3, <2>6, <3>1, <3>2 DEF SetupUnread
  <2>5. CASE LoadDynamic
    <3> DEFINE a == DynamicOrder[boot.at]
               spec == Effective(a, HeadOf(a, "overlay"))
    <3>1. Booting("load", DynamicOrder) /\ a \in Apps
      BY <2>5, BootApp DEF LoadDynamic, IInv, Apps
    <3>2. OwnSpec(a, spec)
      BY <3>1, ResolvedOwn DEF IInv
    <3>3. Registers(a, spec) \/ UNCHANGED mounted
      BY <2>5 DEF LoadDynamic, Load, LoadMounts, LoadReports, memory
    <3> QED BY <2>1, <2>3, <3>1, <3>2, <3>3
  <2> QED BY <2>1, <2>2, <2>4, <2>5, <2>6 DEF Boot, BootStart, SetupFails, SetupPanics,
         SecureCompiled, SecureCompiledFails, LoadUnread, LoadDynamicFails, BootPhase, Phase, memory
<1>4. \A c \in Callers : \A i \in DOMAIN call'[c].queue : Fits(call'[c].queue[i])
  <2>1. CASE UNCHANGED call
    BY <2>1 DEF SourceInv
  <2>2. CASE Lost
    BY <2>2 DEF Lost, NoCalls, Idle
  <2> QED BY <2>1, <2>2 DEF Boot, BootStart, SetupCompiled, SetupUnread, SetupFails, SetupPanics, SecureCompiled,
         SecureCompiledFails, LoadDynamic, LoadUnread, LoadDynamicFails, BootPhase, Phase
<1>5. \A c \in Callers : call'[c].pc = "idle"
  BY NoCallRuns DEF IInv
<1> QED BY <1>1, <1>2, <1>3, <1>4, <1>5 DEF SourceInv

LEMMA SourceStep ==
    ASSUME IInv, SourceInv, [Next]_vars
    PROVE  SourceInv'
<1>1. ASSUME NEW c \in Callers, Apply(c) \/ Revert(c) \/ Delete(c) \/ Import(c)
      PROVE  SourceInv'
  <2>1. /\ UNCHANGED <<store, code, mounted, saved>>
        /\ \A d \in Callers \ {c} : call'[d] = call[d]
        /\ call'[c].pc \in {"read", "check"}
    BY <1>1, StartFrame DEF IInv, durable, memory
  <2>2. \A d \in Callers : \A i \in DOMAIN call'[d].queue : Fits(call'[d].queue[i])
    BY <1>1, <2>1, SourceStart DEF SourceInv
  <2>3. \A d \in Callers : call'[d].pc \in {"remount", "secure", "rollback"} =>
            OwnSpec(Target(d)', saved'.state.spec)
    BY <2>1 DEF SourceInv, Target, Request
  <2> QED BY <2>1, <2>2, <2>3 DEF SourceInv
<1>2. ASSUME NEW c \in Callers, Step(c)
      PROVE  SourceInv'
  BY <1>2, SourceCall
<1>3. CASE Boot
  BY <1>3, SourceBoot
<1>4. CASE Crash
  <2>1. \A c \in Callers : call'[c].pc = "idle" /\ call'[c].queue = <<>>
    BY <1>4 DEF Crash, Lost, NoCalls, Idle
  <2>2. \A a \in Apps : OwnSpec(a, mounted'[a].spec)
    BY <1>4 DEF Crash, Lost, Nothing, Unmounted, Blank, OwnSpec
  <2> QED BY <1>4, <2>1, <2>2 DEF Crash, durable, SourceInv
<1>5. CASE Deploy
  <2>1. \A a \in Compiled : DocApp[code'[a]] = a
    <3>1. code \in [Compiled -> CodeDocs]
      BY DEF IInv, TypeInv, TypeOK
    <3>2. PICK a \in Compiled : \E doc \in CodeDocs :
              DocApp[doc] = a /\ doc # code[a] /\ code' = [code EXCEPT ![a] = doc]
      BY <1>5 DEF Deploy
    <3>3. PICK doc \in CodeDocs : DocApp[doc] = a /\ code' = [code EXCEPT ![a] = doc]
      BY <3>2
    <3> QED BY <3>1, <3>3 DEF SourceInv
  <2> QED BY <1>5, <2>1 DEF Deploy, memory, SourceInv, Target, Request
<1>6. CASE UNCHANGED vars
  BY <1>6 DEF vars, durable, memory, SourceInv, Target, Request
<1> QED BY <1>1, <1>2, <1>3, <1>4, <1>5, <1>6 DEF Next

-----------------------------------------------------------------------------
(* Declared entries stay active *)

\* Securing or removing one app takes nothing another app declares.
LEMMA OthersKeep ==
    ASSUME Apart, SourceInv, NEW a \in Apps, NEW b \in Apps \ {a}, Granted(b),
           NEW gone, gone \subseteq Declares(a) \cup Disables(a),
           active \ gone \subseteq active', mounted'[b].spec = mounted[b].spec
    PROVE  Granted(b)'
<1>1. mounted[b].spec.entries \subseteq Declares(b)
  BY DEF SourceInv, OwnSpec
<1>2. (Declares(a) \cup Disables(a)) \cap Declares(b) = {}
  BY DEF Apart
<1>3. mounted[b].spec.entries \cap gone = {}
  BY <1>1, <1>2
<1> QED BY <1>3 DEF Granted

LEMMA GrantCall ==
    ASSUME IInv, SourceInv, KeptInv, GrantInv, Apart, "security" \notin Faults,
           NEW c \in Callers, Step(c), NEW b \in Apps
    PROVE  Granted(b)' \/ \E d \in Callers : At(d, "secure")' /\ Target(d)' = b
<1>1. boot.phase = "up" /\ UNCHANGED code
  BY StepFrame, RunningCall DEF IInv
<1>2. mounted \in [Apps -> AppStates]
  BY DEF IInv, TypeInv, TypeOK
<1>3. CASE \E d \in Callers \ {c} : At(d, "secure") /\ Target(d) = b
  BY <1>3, StepFrame DEF IInv, At, Target, Request
<1>4. CASE ~\E d \in Callers \ {c} : At(d, "secure") /\ Target(d) = b
  <2> DEFINE a == Target(c)
  <2>1. Granted(b) \/ (At(c, "secure") /\ a = b)
    BY <1>1, <1>4 DEF GrantInv
  <2>2. CASE Remount(c)
    <3>1. /\ At(c, "remount") /\ Goto(c, "secure") /\ UNCHANGED <<active, code>>
          /\ \A q \in Apps \ {a} : mounted'[q] = mounted[q]
      BY <1>2, <2>2 DEF Remount
    <3>2. At(c, "secure")' /\ Target(c)' = a
      BY <3>1, GotoFrame DEF IInv, At
    <3> QED BY <2>1, <3>1, <3>2 DEF Granted, At
  <2>3. CASE ApplySecurity(c)
    <3> DEFINE gone == Desired(c).disable \cup Dropped(c)
    <3>1. /\ At(c, "secure") /\ UNCHANGED mounted
          /\ active' = (active \ gone) \cup Desired(c).entries
      BY <2>3 DEF ApplySecurity, Secured
    <3>2. a \in Apps /\ mounted[a].spec = Desired(c)
      BY <3>1, RequestType DEF IInv, SurfaceInv, ProgressInv, Progress, At
    <3>3. gone \subseteq Declares(a) \cup Disables(a)
      <4>1. OwnSpec(a, Desired(c)) /\ OwnSpec(a, saved.state.spec)
        BY <3>1, DesiredOwn DEF IInv, At, SourceInv
      <4> QED BY <4>1 DEF OwnSpec, Dropped
    <3>4. CASE b = a
      BY <3>1, <3>2, <3>4 DEF Granted
    <3>5. CASE b # a
      <4> HIDE DEF gone, a
      <4> QED BY <2>1, <3>1, <3>2, <3>3, <3>5, OthersKeep
    <3> QED BY <3>4, <3>5
  <2>4. CASE Unmount(c)
    <3>1. /\ At(c, "unmount") /\ active' = active \ mounted[a].spec.entries
          /\ mounted' = [mounted EXCEPT ![a] = Unmounted]
      BY <2>4 DEF Unmount, Fail
    <3>2. a \in Apps
      BY <3>1, RequestType DEF IInv, At
    <3>3. mounted[a].spec.entries \subseteq Declares(a) \cup Disables(a)
      BY <3>2 DEF SourceInv, OwnSpec
    <3>4. CASE b = a
      BY <1>2, <3>1, <3>4 DEF Granted, Unmounted, Blank
    <3>5. CASE b # a
      <4>1. mounted'[b].spec = mounted[b].spec
        BY <1>2, <3>1, <3>5
      <4> HIDE DEF a
      <4> QED BY <2>1, <3>1, <3>2, <3>3, <3>5, <4>1, OthersKeep DEF At
    <3> QED BY <3>4, <3>5
  <2>5. CASE Rollback(c) \/ RemountClash(c)
    <3>1. call[c].pc \in {"remount", "rollback"} /\ UNCHANGED active
      BY <2>5 DEF Rollback, RemountClash, At, durable
    <3>2. \A q \in Apps : mounted'[q].spec = mounted[q].spec
      <4>1. CASE Rollback(c)
        <5>1. mounted' = [mounted EXCEPT ![a] = saved.state]
          BY <4>1 DEF Rollback, RestoredState
        <5>2. saved.state.spec = mounted[a].spec
          BY <3>1 DEF KeptInv
        <5> QED BY <1>2, <5>1, <5>2
      <4>2. CASE RemountClash(c)
        <5>1. PICK services : mounted' = [mounted EXCEPT ![a].services = services]
          BY <4>2 DEF RemountClash
        <5> QED BY <1>2, <5>1 DEF AppStates
      <4> QED BY <2>5, <4>1, <4>2
    <3> QED BY <2>1, <3>1, <3>2 DEF Granted, At
  <2>6. CASE \/ Check(c) \/ ReadHead(c) \/ ReadFails(c) \/ Validate(c)
             \/ MountUnchanged(c) \/ SwapStart(c) \/ MountNew(c) \/ UnmountStart(c)
             \/ RemountFails(c) \/ Store(c) \/ StoreFails(c)
    <3>1. UNCHANGED <<active, mounted>> /\ ~At(c, "secure")
      BY <2>6 DEF Check, ReadHead, ReadFails, Validate, MountUnchanged, SwapStart, MountNew, UnmountStart,
         Acquire, RemountFails, Store, StoreFails, At, durable, memory
    <3> QED BY <2>1, <3>1 DEF Granted
  <2>7. ~ApplySecurityFails(c)
    BY DEF ApplySecurityFails, Fail
  <2> QED BY <2>2, <2>3, <2>4, <2>5, <2>6, <2>7 DEF Step
<1> QED BY <1>3, <1>4

LEMMA GrantBoot ==
    ASSUME IInv, SourceInv, GrantInv, Apart, "security" \notin Faults, Boot
    PROVE  GrantInv'
<1>1. boot.phase # "up"
  BY DEF Boot, BootStart, SetupCompiled, SetupUnread, SetupFails, SetupPanics, SecureCompiled,
         SecureCompiledFails, LoadDynamic, LoadUnread, LoadDynamicFails, BootPhase, Phase, Booting
<1>2. lock = NoCaller /\ boot.at \in Nat \ {0}
      /\ (boot.phase = "load" => \A a \in Apps : Granted(a))
  BY <1>1 DEF IInv, ControlInv, BootInv, GrantInv, At, TypeInv, TypeOK
<1>3. mounted \in [Apps -> AppStates]
  BY DEF IInv, TypeInv, TypeOK
<1>4. CASE Lost /\ Down
  BY <1>4 DEF Down, GrantInv
<1>5. CASE BootStart
  BY <1>5 DEF BootStart, GrantInv
<1>6. CASE SetupCompiled \/ SetupUnread
  <2>1. boot'.phase = "setup"
    BY <1>6 DEF SetupCompiled, SetupUnread, Booting, BootNext, IInv, TypeInv, TypeOK
  <2> QED BY <2>1 DEF GrantInv
<1>7. CASE Phase("setup", CompiledOrder, "secure")
  <2>1. /\ boot.phase = "setup" /\ boot'.phase = "secure" /\ boot'.at = 1 /\ UNCHANGED loaded
    BY <1>7 DEF Phase, memory
  <2>2. loaded \subseteq {CompiledOrder[i] : i \in DOMAIN CompiledOrder}
    BY <2>1 DEF IInv, ControlInv, BootInv
  <2>3. \A i \in DOMAIN CompiledOrder : ~(i < 1)
    BY DomainsAssumption, LenProperties
  <2> QED BY <2>1, <2>2, <2>3 DEF GrantInv
<1>8. CASE SecureCompiled
  <2> DEFINE a == CompiledOrder[boot.at]
  <2>1. /\ Booting("secure", CompiledOrder) /\ BootNext /\ UNCHANGED <<mounted, loaded>>
        /\ active' = (active \ mounted[a].spec.disable) \cup mounted[a].spec.entries
    BY <1>8 DEF SecureCompiled, memory, Secured
  <2>2. boot.at \in DOMAIN CompiledOrder /\ a \in Apps
    BY <2>1, BootApp DEF IInv, Apps
  <2>3. boot.phase = "secure" /\ boot'.phase = "secure" /\ boot'.at = boot.at + 1
    BY <2>1 DEF Booting, BootNext, IInv, TypeInv, TypeOK
  <2>4. ASSUME NEW i \in DOMAIN CompiledOrder, i < boot'.at
        PROVE  Granted(CompiledOrder[i])'
    <3>1. CASE i = boot.at
      BY <2>1, <3>1 DEF Granted
    <3>2. CASE i # boot.at
      <4>1. i < boot.at
        BY <1>2, <2>3, <2>4, <3>2, DomainsAssumption, LenProperties
      <4>2. Granted(CompiledOrder[i])
        BY <2>3, <4>1 DEF GrantInv
      <4>3. CompiledOrder[i] # a
        BY <2>2, <3>2, DomainsAssumption
      <4>4. CompiledOrder[i] \in Apps
        BY DomainsAssumption, LenProperties, ElementOfSeq DEF Apps
      <4>5. mounted[a].spec.disable \subseteq Declares(a) \cup Disables(a)
        BY <2>2 DEF SourceInv, OwnSpec
      <4> HIDE DEF a
      <4> QED BY <2>1, <2>2, <4>2, <4>3, <4>4, <4>5, OthersKeep
    <3> QED BY <3>1, <3>2
  <2>5. loaded' \subseteq {CompiledOrder[i] : i \in DOMAIN CompiledOrder}
    BY <2>1, <2>3 DEF GrantInv
  <2> QED BY <2>3, <2>4, <2>5 DEF GrantInv
<1>9. CASE Phase("secure", CompiledOrder, "load")
  <2>1. /\ boot.phase = "secure" /\ boot.at > Len(CompiledOrder) /\ boot'.phase = "load"
        /\ UNCHANGED <<active, mounted, loaded>>
    BY <1>9 DEF Phase, durable, memory
  <2>2. \A i \in DOMAIN CompiledOrder : i < boot.at
    BY <1>2, <2>1, DomainsAssumption, LenProperties
  <2>3. ASSUME NEW a \in Apps PROVE Granted(a)
    <3>1. CASE a \in loaded
      BY <2>1, <2>2, <3>1 DEF GrantInv
    <3>2. CASE a \notin loaded
      BY <1>2, <3>2, Unlocked DEF IInv, Granted, Unmounted, Blank
    <3> QED BY <3>1, <3>2
  <2> QED BY <2>1, <2>3 DEF GrantInv, Granted
<1>10. CASE Phase("load", DynamicOrder, "up")
  <2>1. boot.phase = "load" /\ boot'.phase = "up" /\ UNCHANGED <<active, mounted>>
    BY <1>10 DEF Phase, durable, memory
  <2> QED BY <1>2, <2>1 DEF GrantInv, Granted
<1>11. CASE LoadDynamic
  <2> DEFINE a == DynamicOrder[boot.at]
             spec == Effective(a, HeadOf(a, "overlay"))
  <2>1. /\ Booting("load", DynamicOrder) /\ BootNext
        /\ LoadMounts(a, spec) \/ UNCHANGED <<active, mounted>>
    BY <1>11 DEF LoadDynamic, Load, LoadReports, durable, memory
  <2>2. a \in Apps
    BY <2>1, BootApp DEF IInv, Apps
  <2>3. boot.phase = "load" /\ boot'.phase = "load"
    BY <2>1 DEF Booting, BootNext, IInv, TypeInv, TypeOK
  <2>4. ASSUME LoadMounts(a, spec), NEW b \in Apps
        PROVE  Granted(b)'
    <3>1. /\ active' = (active \ spec.disable) \cup spec.entries
          /\ mounted' = [mounted EXCEPT ![a] =
                            [spec |-> spec, owned |-> spec.fields, services |-> spec.cols]]
      BY <2>4 DEF LoadMounts, Registers, Secured
    <3>2. mounted'[a].spec = spec /\ (b # a => mounted'[b] = mounted[b])
      BY <1>3, <2>2, <3>1
    <3>3. spec.disable \subseteq Declares(a) \cup Disables(a)
      BY <2>2, ResolvedOwn DEF IInv, OwnSpec
    <3>4. CASE b = a
      BY <3>1, <3>2, <3>4 DEF Granted
    <3>5. CASE b # a
      <4>1. Granted(b)
        BY <1>2, <2>3
      <4> HIDE DEF a, spec
      <4> QED BY <2>2, <3>1, <3>2, <3>3, <3>5, <4>1, OthersKeep
    <3> QED BY <3>4, <3>5
  <2>5. \A b \in Apps : Granted(b)'
    BY <1>2, <2>1, <2>3, <2>4 DEF Granted
  <2> QED BY <2>3, <2>5 DEF GrantInv
<1>12. CASE LoadDynamicFails
  <2>1. Booting("load", DynamicOrder) /\ BootNext /\ UNCHANGED <<active, mounted>>
    BY <1>12 DEF LoadDynamicFails, Fail
  <2>2. boot.phase = "load" /\ boot'.phase = "load"
    BY <2>1 DEF Booting, BootNext, IInv, TypeInv, TypeOK
  <2> QED BY <1>2, <2>1, <2>2 DEF GrantInv, Granted
<1>13. ~SecureCompiledFails
  BY DEF SecureCompiledFails, Fail
<1> QED BY <1>4, <1>5, <1>6, <1>7, <1>8, <1>9, <1>10, <1>11, <1>12, <1>13
       DEF Boot, SetupFails, SetupPanics, LoadUnread, BootPhase

LEMMA GrantStep ==
    ASSUME IInv, SourceInv, KeptInv, GrantInv, Apart, "security" \notin Faults, [Next]_vars
    PROVE  GrantInv'
<1>1. ASSUME NEW c \in Callers, Apply(c) \/ Revert(c) \/ Delete(c) \/ Import(c)
      PROVE  GrantInv'
  <2>1. /\ UNCHANGED <<active, mounted, boot>> /\ At(c, "idle") /\ boot.phase = "up"
        /\ \A d \in Callers \ {c} : call'[d] = call[d]
    BY <1>1, StartFrame DEF IInv, durable, memory
  <2> QED BY <2>1 DEF GrantInv, Granted, At, Target, Request
<1>2. ASSUME NEW c \in Callers, Step(c)
      PROVE  GrantInv'
  <2>1. boot'.phase = "up"
    BY <1>2, StepFrame, RunningCall DEF IInv
  <2> QED BY <1>2, <2>1, GrantCall DEF GrantInv
<1>3. CASE Boot
  BY <1>3, GrantBoot
<1>4. CASE Crash \/ Deploy
  <2>1. boot'.phase = "down"
    BY <1>4 DEF Crash, Down, Deploy
  <2> QED BY <2>1 DEF GrantInv
<1>5. CASE UNCHANGED vars
  BY <1>5 DEF vars, durable, memory, GrantInv, Granted, At, Target, Request
<1> QED BY <1>1, <1>2, <1>3, <1>4, <1>5 DEF Next

\* At the start nothing is stored, asked for or mounted.
LEMMA InitSource == Init => SourceInv
<1> SUFFICES ASSUME Init PROVE SourceInv
  OBVIOUS
<1>1. \A c \in Callers : call[c].pc = "idle" /\ call[c].queue = <<>>
  BY DEF Init, NoCalls, Idle
<1>2. \A a \in Apps : OwnSpec(a, mounted[a].spec)
  BY DEF Init, Nothing, Unmounted, Blank, OwnSpec
<1> QED BY <1>1, <1>2 DEF Init, SourceInv

\* Whenever a call stores a layer under an app's name, the layer is that app's and
\* the app runs exactly it on its base: applyLayer holds Domains.mu from the mount
\* to the append.  It rests on BundlesAssumption, of which Import assures nothing:
\* an entry that files one app's layer under another's name would break it.
THEOREM StoredMounted == Spec => StoredIsMounted
<1> DEFINE A == \A a \in Apps : boot.phase = "up" /\ store'[a] # store[a] =>
                    LET layer == HeadOf(a, "overlay")'
                    IN  /\ layer # NoLayer => DocApp[layer] = a
                        /\ Runs(a)' => mounted'[a].spec = Effective(a, layer)
<1>1. Init => SourceInv
  BY InitSource
<1>2. IInv /\ SourceInv /\ [Next]_vars => SourceInv'
  BY SourceStep
<1>3. IInv /\ SourceInv /\ [Next]_vars => [A]_vars
  <2> SUFFICES ASSUME IInv, SourceInv, [Next]_vars, NEW a \in Apps,
                      boot.phase = "up", store'[a] # store[a]
               PROVE  /\ HeadOf(a, "overlay")' # NoLayer =>
                              DocApp[HeadOf(a, "overlay")'] = a
                      /\ Runs(a)' => mounted'[a].spec = Effective(a, HeadOf(a, "overlay")')
    OBVIOUS
  <2>1. PICK c \in Callers : Store(c)
    BY OnlyStoreStores
  <2>2. /\ At(c, "append") /\ UNCHANGED <<mounted, loaded>>
        /\ store' = [store EXCEPT ![Target(c)] =
                        Appended(Target(c), "overlay", Request(c).layer)]
    BY <2>1 DEF Store
  <2>3. a = Target(c) /\ store'[a] = Appended(a, "overlay", Request(c).layer)
    BY <2>2 DEF IInv, TypeInv, TypeOK
  <2>4. HeadOf(a, "overlay")' = Request(c).layer
    BY <2>3, HeadOfAppended DEF IInv
  <2>5. Fits(Request(c))
    BY <2>2, DesiredOwn DEF IInv, At
  <2>6. ASSUME Runs(a)' PROVE mounted'[a].spec = Effective(a, HeadOf(a, "overlay")')
    <3>1. Runs(a)
      BY <2>2, <2>6 DEF Runs, IsInstalled
    <3>2. mounted[a].spec = Desired(c)
      BY <2>2, <2>3, <3>1 DEF IInv, SurfaceInv, ProgressInv, Progress
    <3> QED BY <2>2, <2>3, <2>4, <3>2 DEF Desired
  <2> QED BY <2>3, <2>4, <2>5, <2>6 DEF Fits, Target
<1> HIDE DEF A
<1>4. Spec => [][A]_vars
  BY <1>1, <1>2, <1>3, IInvHolds, PTL DEF Spec
<1> QED BY <1>4 DEF A, StoredIsMounted

\* Between mounts every entry a mounted app declares is active: whatever an
\* apply, its rollback, a delete, a boot or a crash did, a grant or a denial is
\* not lost.  Two apps must not share entry names (a delete of one disables the
\* other's, as acl_entry rows are keyed by name), and ApplySecurity must not
\* fail part-way: it has then disabled what the app it rolls back to declares.
THEOREM GrantsStand ==
    "security" \notin Faults /\ Apart => (Spec => []DeclaredAreActive)
<1> SUFFICES ASSUME "security" \notin Faults, Apart
             PROVE  Spec => []DeclaredAreActive
  OBVIOUS
<1>1. Init => SourceInv /\ KeptInv /\ GrantInv
  BY InitSource DEF Init, NoCalls, Idle, KeptInv, GrantInv
<1>2. IInv /\ SourceInv /\ KeptInv /\ GrantInv /\ [Next]_vars => SourceInv' /\ KeptInv' /\ GrantInv'
  BY SourceStep, KeptStep, GrantStep
<1>3. IInv /\ GrantInv => DeclaredAreActive
  <2> SUFFICES ASSUME IInv, GrantInv, Serving PROVE \A a \in Apps : Granted(a)
    BY DEF DeclaredAreActive, Granted
  <2>1. \A c \in Callers : ~At(c, "secure")
    BY DomainsAssumption DEF Serving, IInv, ControlInv, LockInv, Holding, At
  <2> QED BY <2>1 DEF GrantInv, Serving
<1> QED BY <1>1, <1>2, <1>3, IInvHolds, PTL DEF Spec

-----------------------------------------------------------------------------
(* Loading stored apps *)

Newest(a) == HeadOf(a, "overlay")

\* The boot is past the load of an app without code
Tried(i) == boot.phase = "load" /\ i < boot.at

\* Why an app is left out: its newest layer does not fit, or did not when LoadAll
\* came to it because an app it depends on was still to come
Reason(a) == \/ ~Valid(a, Newest(a))
             \/ ~Free(Effective(a, Newest(a)))
             \/ \E b \in Content[Newest(a)].depends : After(a, b)

Settled(a) == Newest(a) = NoLayer \/ a \in dynamic \/ (a \in errors /\ Reason(a))

\* Every stored app the boot is past is mounted, or reported for a reason
ReportInv == \A i \in DOMAIN DynamicOrder : Tried(i) => Settled(DynamicOrder[i])

\* A revision of another layer leaves the head of a layer alone.
LEMMA HeadKept ==
    ASSUME TypeInv, NEW a \in Apps, NEW layer, NEW other, other # layer, NEW doc,
           store'[a] = Appended(a, other, doc)
    PROVE  HeadOf(a, layer)' = HeadOf(a, layer)
<1> DEFINE n == Len(store[a])
           revs == {i \in 1..n : store[a][i].layer = layer}
<1>1. store[a] \in Seq(Revisions)
  BY DEF TypeInv, TypeOK
<1>2. /\ n \in Nat /\ Len(store'[a]) = n + 1
      /\ store'[a][n + 1].layer = other
      /\ \A i \in 1..n : store'[a][i] = store[a][i]
  BY <1>1, AppendProperties, LenProperties DEF Appended
<1>3. {i \in 1..(n + 1) : store'[a][i].layer = layer} = revs
  BY <1>2
<1>4. HeadOf(a, layer)' = IF revs = {} THEN NoLayer ELSE store'[a][Max(revs)].doc
  BY <1>2, <1>3 DEF HeadOf, HeadAt
<1>5. HeadOf(a, layer) = IF revs = {} THEN NoLayer ELSE store[a][Max(revs)].doc
  BY DEF HeadOf, HeadAt
<1>6. revs # {} => Max(revs) \in 1..n
  <2>1. revs \in SUBSET (1..n)
    OBVIOUS
  <2> HIDE DEF revs
  <2> QED BY <1>2, <2>1, MaxIsGreatest
<1> QED BY <1>2, <1>4, <1>5, <1>6

\* Boots record base revisions only.
LEMMA BootHeads ==
    ASSUME TypeInv, Boot \/ Crash \/ Deploy, NEW a \in Apps
    PROVE  Newest(a)' = Newest(a)
<1>1. CASE store'[a] = store[a]
  BY <1>1 DEF Newest, HeadOf, HeadAt
<1>2. CASE SetupCompiled \/ SetupPanics
  <2> DEFINE b == CompiledOrder[boot.at]
  <2>1. Booting("setup", CompiledOrder) /\ (RecordBase(b) \/ UNCHANGED store)
    BY <1>2 DEF SetupCompiled, SetupPanics
  <2>2. UNCHANGED store \/ store' = [store EXCEPT ![b] = Appended(b, "base", code[b])]
    BY <2>1 DEF RecordBase
  <2>3. store \in [Apps -> Seq(Revisions)]
    BY DEF TypeInv, TypeOK
  <2>4. store'[a] = store[a] \/ store'[a] = Appended(a, "base", code[a])
    BY <2>2, <2>3
  <2> QED BY <1>1, <2>4, HeadKept DEF Newest
<1> QED BY <1>1, <1>2 DEF Boot, BootStart, SetupUnread, SetupFails, SecureCompiled,
       SecureCompiledFails, LoadDynamic, LoadUnread, LoadDynamicFails, Load, LoadMounts, LoadReports, BootPhase, Phase, Crash,
       Deploy, durable

\* What is settled when its turn comes stays so while other apps are loaded.
LEMMA StaysSettled ==
    ASSUME IInv, LoadDynamic,
           NEW i \in DOMAIN DynamicOrder, i < boot.at, Settled(DynamicOrder[i])
    PROVE  Settled(DynamicOrder[i])'
<1>0. PICK a, b : a = DynamicOrder[boot.at] /\ b = DynamicOrder[i]
  OBVIOUS
<1>1. /\ boot.at \in DOMAIN DynamicOrder /\ a \in Dynamic /\ Booting("load", DynamicOrder)
      /\ Load(a, Newest(a))
  BY <1>0, BootApp DEF LoadDynamic, IInv, Newest
<1>2. b \in Dynamic
  BY <1>0, DomainsAssumption, ElementOfSeq, LenProperties
<1>3. a # b
  <2>1. i \in Nat /\ i < boot.at
    BY DomainsAssumption, LenProperties
  <2>2. boot.at \in Nat
    BY DEF IInv, TypeInv, TypeOK
  <2> QED BY <1>0, <1>1, <2>1, <2>2, DomainsAssumption
<1>4. PICK layer : layer = Newest(b)
  OBVIOUS
<1>5. Newest(b)' = layer /\ UNCHANGED code
  <2>1. Newest(b)' = Newest(b)
    BY <1>2, BootHeads DEF IInv, Apps, Boot
  <2> QED BY <1>1, <1>4, <2>1 DEF Load, LoadMounts, LoadReports, durable
<1>6. layer \in Layers
  BY <1>2, <1>4, ResolvedType DEF IInv, Apps, Newest
<1>7. After(b, a)
  BY <1>0, <1>1 DEF After
<1>8. /\ loaded' \subseteq loaded \cup {a} /\ dynamic \subseteq dynamic'
      /\ b \in errors => b \in errors'
  BY <1>1, <1>3 DEF Load, LoadMounts, LoadReports, Report, memory
<1>9. ASSUME ~Valid(b, layer)
      PROVE  ~Valid(b, layer)' \/ \E d \in Content[layer].depends : After(b, d)
  <2>1. CASE a \in Content[layer].depends
    BY <1>7, <2>1
  <2>2. CASE a \notin Content[layer].depends
    BY <1>5, <1>8, <1>9, <2>2 DEF Valid, BaseOf
  <2> QED BY <2>1, <2>2
<1>10. ASSUME ~Free(Effective(b, layer)) PROVE ~Free(Effective(b, layer))'
  <2>1. PICK f \in Effective(b, layer).fields : root[f] # NoApp
    BY <1>10 DEF Free
  <2>2. Effective(b, layer)' = Effective(b, layer)
    BY <1>5 DEF Effective, BaseOf
  <2>3. f \in Fields
    BY <1>2, <1>6, <2>1, EffectiveType DEF IInv, TypeInv, TypeOK, Apps, Definitions, Layers
  <2>4. a # NoApp
    BY <1>1, DomainsAssumption DEF Apps
  <2>5. root'[f] # NoApp
    BY <1>1, <2>1, <2>3, <2>4 DEF Load, LoadMounts, LoadReports, Registers, memory
  <2> QED BY <2>1, <2>2, <2>5 DEF Free
<1>11. ASSUME Reason(b) PROVE Reason(b)'
  BY <1>4, <1>5, <1>9, <1>10, <1>11 DEF Reason
<1> QED BY <1>0, <1>4, <1>5, <1>8, <1>11 DEF Settled

\* An app is mounted when its turn comes, or reported because it does not fit.
LEMMA TurnSettles ==
    ASSUME IInv, LoadDynamic, NEW a, a = DynamicOrder[boot.at]
    PROVE  Settled(a)'
<1>1. a \in Dynamic /\ Load(a, Newest(a))
  BY BootApp DEF LoadDynamic, IInv, Newest
<1>2. Newest(a)' = Newest(a)
  BY <1>1, BootHeads DEF IInv, Apps, Boot
<1>4. CASE Newest(a) = NoLayer
  BY <1>2, <1>4 DEF Settled
<1>5. CASE LoadMounts(a, Effective(a, Newest(a)))
  BY <1>5 DEF Settled, LoadMounts
<1>6. CASE /\ ~(Valid(a, Newest(a)) /\ Free(Effective(a, Newest(a))))
           /\ \E cols : LoadReports(a, cols)
  <2>1. /\ a \in errors' /\ UNCHANGED <<code, root, loaded>>
    BY <1>6 DEF LoadReports, Report
  <2>2. Reason(a)'
    BY <1>2, <1>6, <2>1 DEF Reason, Valid, Free, Effective, BaseOf
  <2> QED BY <2>1, <2>2 DEF Settled
<1> QED BY <1>1, <1>4, <1>5, <1>6 DEF Load

\* The last boot phase ends when LoadAll has come to every app.
LEMMA LoadEnds ==
    ASSUME IInv, [Next]_vars, boot.phase = "load", boot'.phase = "up"
    PROVE  boot.at > Len(DynamicOrder)
<1>1. ASSUME NEW c \in Callers, Apply(c) \/ Revert(c) \/ Delete(c) \/ Import(c) \/ Step(c)
      PROVE  FALSE
  BY <1>1, StartFrame, StepFrame, RunningCall DEF IInv
<1>2. ~LoadDynamic /\ ~LoadDynamicFails
  BY DEF LoadDynamic, LoadDynamicFails, Booting, BootNext, IInv, TypeInv, TypeOK
<1> QED BY <1>1, <1>2 DEF Next, vars, Boot, BootStart, SetupCompiled, SetupUnread, SetupFails,
       SetupPanics, SecureCompiled, SecureCompiledFails, LoadUnread, Booting, BootPhase, Phase,
       Crash, Deploy, Down

LEMMA ReportStep ==
    ASSUME IInv, ReportInv, "ddl" \notin Faults, "security" \notin Faults, [Next]_vars
    PROVE  ReportInv'
<1>1. CASE UNCHANGED vars
  <2>1. ASSUME NEW a, Settled(a) PROVE Settled(a)'
    BY <1>1, <2>1 DEF vars, durable, memory, Settled, Reason, Newest, HeadOf, HeadAt, Valid, Free,
       Effective, BaseOf
  <2> QED BY <1>1, <2>1 DEF vars, ReportInv, Tried
<1>2. CASE boot'.phase # "load"
  BY <1>2 DEF ReportInv, Tried
<1>3. CASE LoadDynamic
  <2>1. /\ boot.at \in DOMAIN DynamicOrder /\ boot.phase = "load"
        /\ boot'.phase = "load" /\ boot'.at = boot.at + 1 /\ boot.at \in Nat
    BY <1>3, BootApp DEF LoadDynamic, IInv, Booting, BootNext, TypeInv, TypeOK
  <2>2. ASSUME NEW i \in DOMAIN DynamicOrder, i < boot.at + 1
        PROVE  Settled(DynamicOrder[i])'
    <3>1. i \in Nat
      BY DomainsAssumption, LenProperties
    <3>2. CASE i < boot.at
      BY <1>3, <2>1, <3>2, StaysSettled DEF ReportInv, Tried
    <3>3. CASE i = boot.at
      <4>1. PICK n : n = boot.at
        OBVIOUS
      <4>2. PICK a : a = DynamicOrder[n]
        OBVIOUS
      <4>3. Settled(a)'
        BY <1>3, <4>1, <4>2, TurnSettles
      <4> QED BY <3>3, <4>1, <4>2, <4>3
    <3> QED BY <2>1, <2>2, <3>1, <3>2, <3>3
  <2> QED BY <2>1, <2>2 DEF ReportInv, Tried
<1>4. CASE BootPhase
  <2>1. boot'.phase = "load" => boot'.at = 1
    BY <1>4 DEF BootPhase, Phase
  <2>2. \A i \in DOMAIN DynamicOrder : ~(i < 1)
    BY DomainsAssumption, LenProperties
  <2> QED BY <2>1, <2>2 DEF ReportInv, Tried
<1>5. CASE BootStart \/ SetupCompiled \/ SetupUnread \/ SecureCompiled
  <2>1. \/ boot' = [phase |-> "setup", at |-> 1]
        \/ boot' = [boot EXCEPT !.at = boot.at + 1] /\ boot.phase \in {"setup", "secure"}
    BY <1>5 DEF BootStart, SetupCompiled, SetupUnread, SecureCompiled, Booting, BootNext
  <2>2. boot'.phase # "load"
    BY <2>1 DEF IInv, TypeInv, TypeOK
  <2> QED BY <1>2, <2>2
<1>6. CASE SetupFails \/ SetupPanics \/ SecureCompiledFails \/ LoadUnread \/ Crash
  BY <1>2, <1>6 DEF SetupFails, SetupPanics, SecureCompiledFails, LoadUnread, Crash, Down
<1>7. CASE Deploy
  BY <1>2, <1>7 DEF Deploy
<1>8. ASSUME NEW c \in Callers, Apply(c) \/ Revert(c) \/ Delete(c) \/ Import(c) \/ Step(c)
      PROVE  boot'.phase = "up"
  BY <1>8, StartFrame, StepFrame, RunningCall DEF IInv
<1>9. ~LoadDynamicFails
  BY DEF LoadDynamicFails, Fail
<1> QED BY <1>1, <1>2, <1>3, <1>4, <1>5, <1>6, <1>7, <1>8, <1>9 DEF Next, Boot

\* A boot whose statements succeed leaves a stored app out only for a reason, and
\* reports it: the app does not fit what is loaded at the end, a field is taken,
\* or LoadAll, which goes by name, came to it before an app it depends on.
THEOREM LoadAllIsComplete ==
    {"ddl", "security"} \cap Faults = {} => (Spec => LoadAllComplete)
<1> SUFFICES ASSUME "ddl" \notin Faults, "security" \notin Faults
             PROVE  Spec => LoadAllComplete
  OBVIOUS
<1> DEFINE A == boot.phase = "load" /\ boot'.phase = "up" => \A a \in Dynamic \ dynamic :
                    LET layer == HeadOf(a, "overlay")
                    IN  layer # NoLayer =>
                            /\ a \in errors
                            /\ \/ ~Valid(a, layer)
                               \/ ~Free(Effective(a, layer))
                               \/ \E b \in Content[layer].depends : After(a, b)
<1>1. Init => ReportInv
  BY DEF Init, ReportInv, Tried
<1>2. IInv /\ ReportInv /\ [Next]_vars => ReportInv'
  BY ReportStep
<1>3. IInv /\ ReportInv /\ [Next]_vars => [A]_vars
  <2> SUFFICES ASSUME IInv, ReportInv, [Next]_vars, boot.phase = "load", boot'.phase = "up",
                      NEW a \in Dynamic \ dynamic, Newest(a) # NoLayer
               PROVE  a \in errors /\ Reason(a)
    BY DEF Reason, Newest
  <2>1. boot.at > Len(DynamicOrder)
    BY LoadEnds
  <2>2. PICK i \in DOMAIN DynamicOrder : DynamicOrder[i] = a
    BY DomainsAssumption
  <2>3. i < boot.at
    BY <2>1, DomainsAssumption, LenProperties DEF IInv, TypeInv, TypeOK
  <2> QED BY <2>2, <2>3 DEF ReportInv, Tried, Settled
<1> HIDE DEF A
<1>4. Spec => [][A]_vars
  BY <1>1, <1>2, <1>3, IInvHolds, PTL DEF Spec
<1> QED BY <1>4 DEF A, LoadAllComplete
=============================================================================
