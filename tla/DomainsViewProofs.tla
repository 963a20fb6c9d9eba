------------------------- MODULE DomainsViewProofs -------------------------
(***************************************************************************)
(* The domain pipeline implements what Overlays promises its one author:   *)
(* for every set of apps and documents, any number of calls, crashes and   *)
(* new versions of the code, every step is one of Overlays or a stutter.   *)
(***************************************************************************)
EXTENDS DomainsView, DomainsProofs

\* Calls come one after another
OneCaller == \A c, d \in Callers : c = d

-----------------------------------------------------------------------------
(* The invariant *)

Listed == {CompiledOrder[i] : i \in DOMAIN CompiledOrder}

\* An app runs its newest layer, or its base when that was reported
Running(a) == mounted[a].spec = Effective(a, IF a \in errors THEN NoLayer ELSE Newest(a))

\* The boot is past the setup of a compiled app
SetUp(i) == boot.phase \in {"secure", "load", "up"} \/ (boot.phase = "setup" /\ i < boot.at)

\* The compiled apps that are loaded are those which the boot sets up
InstalledInv ==
    /\ loaded \cap Compiled \subseteq Listed
    /\ \A i \in DOMAIN CompiledOrder : SetUp(i) => CompiledOrder[i] \in loaded

\* What the boot has been through runs
BootedInv == boot.phase # "up" =>
    /\ \A i \in DOMAIN CompiledOrder : SetUp(i) => Running(CompiledOrder[i])
    /\ \A i \in DOMAIN DynamicOrder : Tried(i) => Running(DynamicOrder[i])

\* The head that a call has read is still the head
ReadInv == \A c \in Callers : call[c].pc \in Holding \cup {"validate", "lock"} =>
    call[c].current = Newest(Target(c))

ViewInv == InstalledInv /\ BootedInv /\ ReadInv

-----------------------------------------------------------------------------
(* Heads *)

\* A call that has read the head is alone until it stores.
LEMMA ReadStep ==
    ASSUME IInv, ReadInv, OneCaller, [Next]_vars
    PROVE  ReadInv'
<1>1. CASE UNCHANGED vars
  BY <1>1 DEF vars, durable, ReadInv, Newest, HeadOf, HeadAt, Target, Request
<1>2. CASE Boot \/ Crash \/ Deploy
  BY <1>2, NoCallRuns DEF IInv, ReadInv, Holding
<1>3. ASSUME NEW c \in Callers, Apply(c) \/ Revert(c) \/ Delete(c) \/ Import(c)
      PROVE  ReadInv'
  BY <1>3, StartFrame DEF IInv, ReadInv, Holding, OneCaller
<1>4. ASSUME NEW c \in Callers, Step(c)
      PROVE  ReadInv'
  <2>1. call \in [Callers -> Calls] /\ call[c] \in Calls /\ UNCHANGED code
    BY <1>4, StepFrame DEF IInv, TypeInv, TypeOK
  <2>2. \A d \in Callers : d = c
    BY DEF OneCaller
  <2>3. CASE Return(c)
    BY <2>1, <2>2, <2>3 DEF Return, Idle, ReadInv, Holding
  <2>4. ASSUME NEW pc, Goto(c, pc), UNCHANGED store, call[c].pc \in Holding \cup {"validate", "lock"}
        PROVE  ReadInv'
    <3>1. call'[c].current = call[c].current /\ Target(c)' = Target(c)
      BY <2>1, <2>4, GotoFrame DEF IInv
    <3>2. PICK b : b = Target(c)
      OBVIOUS
    <3>3. Newest(b)' = Newest(b)
      BY <2>4 DEF Newest, HeadOf, HeadAt
    <3> QED BY <2>2, <2>4, <3>1, <3>2, <3>3 DEF ReadInv
  <2>5. CASE Check(c)
    <3>1. CASE Goto(c, "read")
      BY <2>2, <3>1, GotoPc DEF IInv, ReadInv, Holding
    <3>2. CASE call' = [call EXCEPT ![c].checked = call[c].checked + 1]
      <4>1. call'[c].pc = "check"
        BY <2>1, <2>5, <3>2 DEF Check, At, Calls
      <4> QED BY <2>2, <4>1 DEF ReadInv, Holding
    <3> QED BY <2>3, <2>5, <3>1, <3>2 DEF Check
  <2>6. CASE ReadHead(c)
    <3>1. PICK b : b = Target(c)
      OBVIOUS
    <3>2. call'[c].current = Newest(b) /\ call'[c].queue = call[c].queue /\ UNCHANGED store
      BY <2>1, <2>6, <3>1 DEF ReadHead, Calls, Newest, durable
    <3>3. Newest(b)' = Newest(b) /\ Target(c)' = b
      BY <3>1, <3>2 DEF Newest, HeadOf, HeadAt, Target, Request
    <3> QED BY <2>2, <3>2, <3>3 DEF ReadInv
  <2>7. CASE Store(c)
    <3>1. call'[c].pc \in {"idle", "read"}
      BY <2>1, <2>7 DEF Store, Idle, Calls
    <3> QED BY <2>2, <3>1 DEF ReadInv, Holding
  <2> QED BY <1>4, <2>3, <2>4, <2>5, <2>6, <2>7 DEF Step, ReadFails, Validate, MountUnchanged, SwapStart,
         MountNew, UnmountStart, Acquire, Remount, RemountClash, RemountFails, ApplySecurity,
         ApplySecurityFails, Unmount, Rollback, StoreFails, At, Holding, durable
<1> QED BY <1>1, <1>2, <1>3, <1>4 DEF Next

-----------------------------------------------------------------------------
(* Boots *)

\* Only apps without code are mounted and unmounted by calls.
LEMMA InstalledStep ==
    ASSUME IInv, InstalledInv, [Next]_vars
    PROVE  InstalledInv'
<1>1. CASE UNCHANGED <<loaded, boot>>
  BY <1>1 DEF InstalledInv, SetUp
<1>2. CASE Lost /\ Down
  BY <1>2 DEF InstalledInv, SetUp, Lost, Down
<1>3. ASSUME NEW c \in Callers, Step(c)
      PROVE  InstalledInv'
  <2>1. UNCHANGED boot
    BY <1>3, StepFrame DEF IInv
  <2>2. CASE ApplySecurity(c)
    <3>1. loaded' = loaded \cup ({Target(c)} \cap Dynamic)
      BY <2>2 DEF ApplySecurity
    <3> QED BY <2>1, <3>1, DomainsAssumption DEF InstalledInv, SetUp
  <2>3. CASE Unmount(c)
    <3>1. loaded' = loaded \ {Target(c)} /\ Target(c) \in Dynamic
      BY <2>3 DEF Unmount, WithoutManifest, At, IInv, SurfaceInv, ProgressInv, Progress, Deletes
    <3>2. Target(c) \notin Compiled /\ \A i \in DOMAIN CompiledOrder : CompiledOrder[i] # Target(c)
      <4>1. \A i \in DOMAIN CompiledOrder : CompiledOrder[i] \in Compiled
        BY DomainsAssumption, ElementOfSeq, LenProperties
      <4> QED BY <3>1, <4>1, DomainsAssumption
    <3> QED BY <2>1, <3>1, <3>2 DEF InstalledInv, SetUp
  <2> QED BY <1>1, <1>3, <2>1, <2>2, <2>3 DEF Step, Check, ReadHead, ReadFails, Validate, MountUnchanged,
         SwapStart, MountNew, UnmountStart, Remount, RemountClash, RemountFails,
         ApplySecurityFails, Rollback, Store, StoreFails, memory
<1>4. CASE Boot /\ ~(Lost /\ Down)
  <2>0. /\ DOMAIN CompiledOrder = 1..Len(CompiledOrder) /\ Len(CompiledOrder) \in Nat
        /\ boot.at \in Nat
        /\ boot \in [phase : {"down", "setup", "secure", "load", "up"}, at : Nat \ {0}]
    BY DomainsAssumption, LenProperties DEF IInv, TypeInv, TypeOK
  <2>1. CASE BootStart
    BY <2>0, <2>1 DEF BootStart, memory, InstalledInv, SetUp
  <2>2. CASE SetupCompiled \/ SetupUnread
    <3>1. /\ Booting("setup", CompiledOrder) /\ loaded' = loaded \cup {CompiledOrder[boot.at]}
          /\ boot.phase = "setup" /\ boot'.phase = "setup" /\ boot'.at = boot.at + 1
      BY <2>0, <2>2 DEF SetupCompiled, SetupUnread, BootNext, Booting
    <3>2. boot.at \in DOMAIN CompiledOrder
      BY <3>1, BootApp DEF IInv
    <3>3. loaded' \cap Compiled \subseteq Listed
      BY <3>1, <3>2 DEF InstalledInv, Listed
    <3>4. ASSUME NEW i \in DOMAIN CompiledOrder, SetUp(i)' PROVE CompiledOrder[i] \in loaded'
      <4>1. i < boot.at \/ i = boot.at
        BY <2>0, <3>1, <3>4 DEF SetUp
      <4> QED BY <3>1, <4>1 DEF InstalledInv, SetUp
    <3> QED BY <3>3, <3>4 DEF InstalledInv
  <2>3. CASE BootPhase
    <3>1. UNCHANGED loaded /\ \A i \in DOMAIN CompiledOrder : SetUp(i)' => SetUp(i)
      BY <2>0, <2>3 DEF BootPhase, Phase, memory, SetUp
    <3> QED BY <3>1 DEF InstalledInv
  <2>4. CASE SecureCompiled
    <3>1. UNCHANGED loaded /\ \A i \in DOMAIN CompiledOrder : SetUp(i)' => SetUp(i)
      BY <2>0, <2>4 DEF SecureCompiled, Booting, BootNext, memory, SetUp
    <3> QED BY <3>1 DEF InstalledInv
  <2>5. CASE LoadDynamic \/ LoadDynamicFails
    <3>1. DynamicOrder[boot.at] \in Dynamic /\ boot.phase = "load"
      BY <2>5, BootApp DEF LoadDynamic, LoadUnread, LoadDynamicFails, IInv, Booting
    <3>2. loaded' \in {loaded, loaded \cup {DynamicOrder[boot.at]}}
      BY <2>5 DEF LoadDynamic, LoadUnread, LoadDynamicFails, Load, LoadMounts, LoadReports, memory
    <3>3. \A i \in DOMAIN CompiledOrder : SetUp(i)
      BY <3>1 DEF SetUp
    <3> QED BY <3>1, <3>2, <3>3, DomainsAssumption DEF InstalledInv
  <2> QED BY <1>4, <2>1, <2>2, <2>3, <2>4, <2>5 DEF Boot, SetupFails, SetupPanics,
         SecureCompiledFails, LoadUnread
<1> QED BY <1>1, <1>2, <1>3, <1>4, StartFrame DEF Next, Crash, Deploy, vars, memory, IInv

\* An app that a step leaves alone runs what it ran.
LEMMA StillRunning ==
    ASSUME NEW a, Running(a), mounted'[a] = mounted[a], UNCHANGED code,
           a \in errors' <=> a \in errors, Newest(a)' = Newest(a)
    PROVE  Running(a)'
BY DEF Running, Effective, BaseOf

\* What a compiled app is set up with: its newest layer, or its base, reported.
LEMMA SetUpRuns ==
    ASSUME TypeInv, NEW a \in Apps, Registers(a, Resolved(a)), UNCHANGED code,
           errors' = Report(a, Valid(a, Newest(a))), Newest(a)' = Newest(a)
    PROVE  Running(a)'
<1>1. mounted'[a].spec = Resolved(a)
  BY DEF Registers, TypeInv, TypeOK
<1>2. Resolved(a) = Effective(a, IF Valid(a, Newest(a)) THEN Newest(a) ELSE NoLayer)
  BY DEF Resolved, Newest, Effective
<1>3. a \in errors' <=> ~Valid(a, Newest(a))
  BY DEF Report
<1> QED BY <1>1, <1>2, <1>3 DEF Running, Effective, BaseOf

\* An app without code that is not mounted runs nothing, which is its base.
LEMMA IdleRuns ==
    ASSUME IInv, lock = NoCaller, NEW a \in Dynamic \ loaded,
           mounted'[a] = mounted[a], a \in errors' \/ Newest(a)' = NoLayer
    PROVE  Running(a)'
<1>1. mounted[a] = Unmounted
  BY Unlocked DEF IInv, Apps
<1>2. a \notin Compiled
  BY DomainsAssumption
<1> QED BY <1>1, <1>2 DEF Running, Effective, BaseOf, Unmounted

\* The boot leaves every app it is through with running as it should.
LEMMA BootedStep ==
    ASSUME IInv, BootedInv, "read" \notin Faults, [Next]_vars
    PROVE  BootedInv'
<1>0. /\ DOMAIN CompiledOrder = 1..Len(CompiledOrder) /\ Len(CompiledOrder) \in Nat
      /\ DOMAIN DynamicOrder = 1..Len(DynamicOrder) /\ Len(DynamicOrder) \in Nat
      /\ boot.at \in Nat /\ boot.at >= 1
      /\ boot \in [phase : {"down", "setup", "secure", "load", "up"}, at : Nat \ {0}]
      /\ \A i \in DOMAIN CompiledOrder : CompiledOrder[i] \in Compiled
      /\ \A i \in DOMAIN DynamicOrder : DynamicOrder[i] \in Dynamic
  BY DomainsAssumption, LenProperties, ElementOfSeq DEF IInv, TypeInv, TypeOK
<1>1. CASE boot'.phase = "up"
  BY <1>1 DEF BootedInv
<1>2. CASE boot'.phase = "down"
  BY <1>2 DEF BootedInv, SetUp, Tried
<1>3. CASE UNCHANGED vars
  BY <1>3 DEF vars, durable, memory, BootedInv, SetUp, Tried, Running, Effective, BaseOf, Newest,
     HeadOf, HeadAt
<1>4. ASSUME UNCHANGED <<mounted, errors, code>>, boot'.phase # "up", Boot,
             \A i \in DOMAIN CompiledOrder : SetUp(i)' => SetUp(i),
             \A i \in DOMAIN DynamicOrder : Tried(i)' => Tried(i), boot.phase # "up"
      PROVE  BootedInv'
  <2>1. \A i \in DOMAIN CompiledOrder : CompiledOrder[i] \in Apps
    BY <1>0 DEF Apps
  <2>2. \A i \in DOMAIN DynamicOrder : DynamicOrder[i] \in Apps
    BY <1>0 DEF Apps
  <2>3. ASSUME NEW a \in Apps, Running(a) PROVE Running(a)'
    <3>1. Newest(a)' = Newest(a)
      BY <1>4, BootHeads DEF IInv
    <3> QED BY <1>4, <2>3, <3>1, StillRunning
  <2>4. ASSUME NEW i \in DOMAIN CompiledOrder, SetUp(i)' PROVE Running(CompiledOrder[i])'
    BY <1>4, <2>1, <2>3, <2>4 DEF BootedInv
  <2>5. ASSUME NEW i \in DOMAIN DynamicOrder, Tried(i)' PROVE Running(DynamicOrder[i])'
    BY <1>4, <2>2, <2>3, <2>5 DEF BootedInv
  <2> QED BY <2>4, <2>5 DEF BootedInv
<1>5. CASE BootStart \/ SecureCompiled \/ BootPhase
  <2>1. UNCHANGED <<mounted, errors, code>> /\ Boot /\ boot.phase # "up"
    BY <1>5 DEF BootStart, SecureCompiled, BootPhase, Phase, Booting, memory, durable, Boot
  <2>2. boot'.phase # "up" => \A i \in DOMAIN CompiledOrder : SetUp(i)' => SetUp(i)
    BY <1>0, <1>5 DEF BootStart, SecureCompiled, BootPhase, Phase, Booting, BootNext, SetUp
  <2>3. boot'.phase # "up" => \A i \in DOMAIN DynamicOrder : Tried(i)' => Tried(i)
    BY <1>0, <1>5 DEF BootStart, SecureCompiled, BootPhase, Phase, Booting, BootNext, Tried
  <2> QED BY <1>1, <1>4, <2>1, <2>2, <2>3
<1>6. CASE SetupCompiled
  <2>0. PICK a : a = CompiledOrder[boot.at]
    OBVIOUS
  <2>1. /\ Booting("setup", CompiledOrder) /\ Registers(a, Resolved(a)) /\ UNCHANGED code
        /\ errors' = Report(a, Valid(a, Newest(a)))
        /\ boot.phase = "setup" /\ boot'.phase = "setup" /\ boot'.at = boot.at + 1
    BY <1>0, <1>6, <2>0 DEF SetupCompiled, BootNext, Booting, Newest
  <2>2. boot.at \in DOMAIN CompiledOrder /\ a \in Apps
    BY <2>0, <2>1, BootApp DEF IInv, Apps
  <2>3. \A b \in Apps : Newest(b)' = Newest(b)
    BY <1>6, BootHeads DEF IInv, Boot
  <2>4. Running(a)'
    BY <2>1, <2>2, <2>3, SetUpRuns DEF IInv
  <2>5. ASSUME NEW i \in DOMAIN CompiledOrder, SetUp(i)' PROVE Running(CompiledOrder[i])'
    <3>1. CASE i = boot.at
      BY <2>0, <2>4, <3>1
    <3>2. CASE i # boot.at
      <4>1. SetUp(i) /\ CompiledOrder[i] \in Apps
        BY <1>0, <2>1, <2>5, <3>2 DEF SetUp, Apps
      <4>2. CompiledOrder[i] # a
        BY <2>0, <2>2, <3>2, DomainsAssumption
      <4>3. mounted'[CompiledOrder[i]] = mounted[CompiledOrder[i]]
        BY <2>1, <4>1, <4>2 DEF Registers, IInv, TypeInv, TypeOK
      <4>4. CompiledOrder[i] \in errors' <=> CompiledOrder[i] \in errors
        BY <2>1, <4>2 DEF Report
      <4>5. Running(CompiledOrder[i])
        BY <2>1, <4>1 DEF BootedInv
      <4> QED BY <2>1, <2>3, <4>1, <4>3, <4>4, <4>5, StillRunning
    <3> QED BY <3>1, <3>2
  <2> QED BY <2>1, <2>5 DEF BootedInv, Tried
<1>7. CASE LoadDynamic \/ LoadDynamicFails
  <2>0. PICK a : a = DynamicOrder[boot.at]
    OBVIOUS
  <2>1. /\ Booting("load", DynamicOrder) /\ UNCHANGED code
        /\ boot.phase = "load" /\ boot'.phase = "load" /\ boot'.at = boot.at + 1
    BY <1>0, <1>7 DEF LoadDynamic, LoadUnread, LoadDynamicFails, BootNext, Booting, Load, LoadMounts,
       LoadReports, durable
  <2>2. boot.at \in DOMAIN DynamicOrder /\ a \in Dynamic \ loaded /\ a \in Apps
    BY <2>0, <2>1, BootApp, NextNotLoaded DEF IInv, Apps
  <2>3. \A b \in Apps : Newest(b)' = Newest(b)
    BY <1>7, BootHeads DEF IInv, Boot
  <2>4. lock = NoCaller
    BY <2>1 DEF IInv, ControlInv, BootInv
  <2>5. \/ Newest(a) = NoLayer /\ UNCHANGED <<mounted, errors>>
        \/ Registers(a, Effective(a, Newest(a))) /\ errors' = errors \ {a}
        \/ UNCHANGED mounted /\ errors' = errors \cup {a}
    BY <1>7, <2>0 DEF LoadDynamic, LoadUnread, LoadDynamicFails, Load, LoadMounts, LoadReports, Report, memory,
       Newest
  <2>6. Running(a)'
    <3>1. CASE Registers(a, Effective(a, Newest(a))) /\ errors' = errors \ {a}
      <4>1. mounted'[a].spec = Effective(a, Newest(a))
        BY <2>2, <3>1 DEF Registers, IInv, TypeInv, TypeOK
      <4> QED BY <2>1, <2>2, <2>3, <3>1, <4>1 DEF Running, Effective, BaseOf
    <3>2. CASE UNCHANGED mounted /\ (a \in errors' \/ Newest(a)' = NoLayer)
      BY <2>2, <2>4, <3>2, IdleRuns
    <3> QED BY <2>2, <2>3, <2>5, <3>1, <3>2
  <2>7. ASSUME NEW b \in Apps \ {a}, Running(b) PROVE Running(b)'
    <3>1. mounted'[b] = mounted[b]
      BY <2>2, <2>5, <2>7 DEF Registers, IInv, TypeInv, TypeOK
    <3>2. b \in errors' <=> b \in errors
      BY <2>5, <2>7
    <3> QED BY <2>1, <2>3, <2>7, <3>1, <3>2, StillRunning
  <2>8. ASSUME NEW i \in DOMAIN CompiledOrder PROVE Running(CompiledOrder[i])'
    <3>1. CompiledOrder[i] \in Apps \ {a}
      BY <1>0, <2>2, DomainsAssumption DEF Apps
    <3>2. Running(CompiledOrder[i])
      BY <2>1 DEF BootedInv, SetUp
    <3> QED BY <2>7, <3>1, <3>2
  <2>9. ASSUME NEW i \in DOMAIN DynamicOrder, Tried(i)' PROVE Running(DynamicOrder[i])'
    <3>1. CASE i = boot.at
      BY <2>0, <2>6, <3>1
    <3>2. CASE i # boot.at
      <4>1. Tried(i) /\ DynamicOrder[i] \in Apps
        BY <1>0, <2>1, <2>9, <3>2 DEF Tried, Apps
      <4>2. DynamicOrder[i] # a
        BY <2>0, <2>2, <3>2, DomainsAssumption
      <4>3. Running(DynamicOrder[i])
        BY <2>1, <4>1 DEF BootedInv
      <4> QED BY <2>7, <4>1, <4>2, <4>3
    <3> QED BY <3>1, <3>2
  <2> QED BY <2>8, <2>9 DEF BootedInv
<1>8. ASSUME NEW c \in Callers, Apply(c) \/ Revert(c) \/ Delete(c) \/ Import(c) \/ Step(c)
      PROVE  boot'.phase = "up"
  BY <1>8, StartFrame, StepFrame, RunningCall DEF IInv
<1>9. CASE SetupFails \/ SetupPanics \/ SecureCompiledFails \/ Crash \/ Deploy
  BY <1>2, <1>9 DEF SetupFails, SetupPanics, SecureCompiledFails, Crash, Deploy, Down
<1>10. ~SetupUnread /\ ~LoadUnread
  BY DEF SetupUnread, LoadUnread, Fail
<1> QED BY <1>1, <1>2, <1>3, <1>5, <1>6, <1>7, <1>8, <1>9, <1>10 DEF Next, Boot

\* The invariant holds at the start, and the steps of a single caller keep it.
LEMMA ViewInit == Init => ViewInv
BY DEF Init, NoCalls, Idle, ViewInv, InstalledInv, BootedInv, ReadInv, SetUp, Tried, Holding

LEMMA ViewStep ==
    ASSUME IInv, ViewInv, OneCaller, "read" \notin Faults, [Next]_vars
    PROVE  ViewInv'
BY InstalledStep, BootedStep, ReadStep DEF ViewInv

-----------------------------------------------------------------------------
(* What is shown *)

Heads == [a \in Apps |-> Newest(a)]
Shown == [a \in Apps |-> ShownOf(a)]
Reported == IF Up THEN errors ELSE {}
Whole(spec) == Surface(spec, spec.fields, spec.cols)


\* A step that changes nothing users see, nor what is kept.
LEMMA Unseen ==
    ASSUME Up' = Up, code' = code, Heads' = Heads, Shown' = Shown, Change' = Change,
           Reported' = Reported
    PROVE  UNCHANGED Author!vars
BY DEF Author!vars, Heads, Shown, Reported, Newest

\* The stack of layers is the definition the engine computes.
LEMMA StackIsEffective ==
    ASSUME code \in [Compiled -> CodeDocs], NEW a, NEW layer
    PROVE  StackOn(code, a, layer) = Whole(Effective(a, layer))
BY DEF StackOn, Whole, Effective, BaseOf

\* A whole surface is shown as its spec says.
LEMMA ShownIntact ==
    ASSUME TypeInv, Up, NEW a \in Apps, Intact(a), ~InMount(a, {"remount", "secure", "rollback"})
    PROVE  ShownOf(a) = Whole(mounted[a].spec)
<1>1. mounted[a].owned \in SUBSET Fields
  BY DEF TypeInv, TypeOK, AppStates
<1>2. {f \in Fields : root[f] = a} = mounted[a].owned
  BY <1>1 DEF Intact
<1> QED BY <1>2 DEF ShownOf, Intact, Whole

LEMMA ShownIntactNext ==
    ASSUME TypeInv', Up', NEW a \in Apps, Intact(a)',
           ~InMount(a, {"remount", "secure", "rollback"})', ~InMount(a, {"unmount"})'
    PROVE  ShownOf(a)' = Whole(mounted'[a].spec)
<1>1. mounted'[a].owned \in SUBSET Fields
  BY DEF TypeInv, TypeOK, AppStates
<1>2. {f \in Fields : root'[f] = a} = mounted'[a].owned
  BY <1>1 DEF Intact
<1>3. /\ mounted'[a].owned = mounted'[a].spec.fields
      /\ mounted'[a].services = mounted'[a].spec.cols
  BY DEF Intact
<1>4. ShownOf(a)' = Surface(mounted'[a].spec, {f \in Fields : root'[f] = a}, mounted'[a].services)
  BY DEF ShownOf
<1> QED BY <1>2, <1>3, <1>4 DEF Whole

\* An app that is not being mounted or unmounted is shown as it runs.
LEMMA ShownRunning ==
    ASSUME IInv, Up, NEW a \in Apps,
           \A c \in Callers : lock = c /\ Target(c) = a => At(c, "append")
    PROVE  ShownOf(a) = Whole(mounted[a].spec)
<1>1. Intact(a)
  BY DEF IInv, SurfaceInv, WholeInv, Open, At
<1>2. ~InMount(a, {"remount", "secure", "rollback"})
  BY DEF InMount, At
<1> QED BY <1>1, <1>2, ShownIntact DEF IInv

\* While an app is being mounted, or put back, it is shown as it was.
LEMMA ShownSaved ==
    ASSUME IInv, Up, NEW c \in Callers, call[c].pc \in {"remount", "secure", "rollback"}
    PROVE  ShownOf(Target(c)) = Whole(saved.state.spec)
<1>1. Saved(c)
  BY Mounting DEF IInv
<1>2. lock = c
  BY Holder DEF IInv, Holding
<1>3. InMount(Target(c), {"remount", "secure", "rollback"})
  BY <1>2 DEF InMount
<1> QED BY <1>1, <1>3 DEF ShownOf, Saved, Whole

\* A single caller's change is shown from the end of its mount on.
LEMMA ChangeOf ==
    ASSUME OneCaller, NEW c \in Callers
    PROVE  Change = IF At(c, "append") THEN Request(c) ELSE NoChange
<1>1. \A d \in Callers : d = c
  BY DEF OneCaller
<1>2. (\E d \in Callers : At(d, "append")) <=> At(c, "append")
  BY <1>1
<1>3. ASSUME At(c, "append") PROVE (CHOOSE d \in Callers : At(d, "append")) = c
  BY <1>1, <1>3
<1> QED BY <1>2, <1>3 DEF Change

\* Nothing is changed while no call is about to store.
LEMMA NoChangeYet ==
    ASSUME \A c \in Callers : ~At(c, "append")
    PROVE  Change = NoChange
BY DEF Change

\* A call that keeps the mutex keeps its request.
LEMMA KeepsRequest ==
    ASSUME IInv, NEW c \in Callers, Step(c), lock' = c
    PROVE  Request(c)' = Request(c) /\ Target(c)' = Target(c)
<1>1. UNCHANGED code /\ NoCaller \notin Callers
  BY StepFrame, DomainsAssumption DEF IInv
<1>2. ~Check(c) /\ ~ReadHead(c) /\ ~ReadFails(c) /\ ~Validate(c)
  BY DEF Check, ReadHead, ReadFails, Validate, At, IInv, ControlInv, LockInv, Holding
<1>3. ~Rollback(c) /\ ~Store(c) /\ ~StoreFails(c)
  BY <1>1 DEF Rollback, Store, StoreFails
<1>4. \E pc : Goto(c, pc)
  BY <1>2, <1>3 DEF Step, MountUnchanged, SwapStart, MountNew, UnmountStart, Remount,
     RemountClash, RemountFails, ApplySecurity, ApplySecurityFails, Unmount
<1> QED BY <1>1, <1>4, GotoFrame DEF IInv

\* A call's step changes what is shown of the app it is about, and of no other.
LEMMA OthersShown ==
    ASSUME IInv, IInv', OneCaller, NEW c \in Callers, Step(c), NEW b \in Apps \ {Target(c)}
    PROVE  ShownOf(b)' = ShownOf(b)
<1>1. Up /\ UNCHANGED <<boot, code>>
  BY StepFrame, RunningCall DEF IInv, Up
<1>2. Up'
  BY <1>1 DEF Up
<1>3. \A d \in Callers : d = c
  BY DEF OneCaller
<1>4. ShownOf(b) = Whole(mounted[b].spec)
  BY <1>1, <1>3, ShownRunning
<1>5. \A d \in Callers : lock' = d /\ Target(d)' = b => At(d, "append")'
  BY <1>3, KeepsRequest
<1>6. ShownOf(b)' = Whole(mounted'[b].spec)
  <2>1. Intact(b)'
    BY <1>5 DEF IInv, SurfaceInv, WholeInv, Open, At
  <2>2. /\ ~InMount(b, {"remount", "secure", "rollback"})'
        /\ ~InMount(b, {"unmount"})'
    BY <1>5 DEF InMount, At
  <2> QED BY <1>2, <2>1, <2>2, ShownIntactNext DEF IInv
<1>7. mounted'[b] = mounted[b]
  <2>1. mounted \in [Apps -> AppStates]
    BY DEF IInv, TypeInv, TypeOK
  <2> QED BY <2>1 DEF Step, Check, ReadHead, ReadFails, Validate, MountUnchanged, SwapStart, MountNew,
         UnmountStart, Remount, RemountClash, RemountFails, ApplySecurity, ApplySecurityFails,
         Unmount, Rollback, RestoredState, Store, StoreFails, memory
<1> QED BY <1>4, <1>6, <1>7

\* With the mutex free, what is shown follows the registry and the apps.
LEMMA FreeShown ==
    ASSUME UNCHANGED <<root, mounted, boot>>, \A d \in Callers : lock # d /\ lock' # d, NEW b
    PROVE  ShownOf(b)' = ShownOf(b)
BY DEF ShownOf, InMount, Up

\* What a step saved is shown while it mounts.
LEMMA ShownSavedNext ==
    ASSUME IInv', Up', NEW c \in Callers, call'[c].pc \in {"remount", "secure", "rollback"},
           NEW a, a = Target(c)'
    PROVE  ShownOf(a)' = Whole(saved'.state.spec)
<1>1. Saved(c)'
  BY DEF IInv, SurfaceInv, SavedInv
<1>2. lock' = c
  BY DEF IInv, ControlInv, LockInv, Holding
<1>3. InMount(a, {"remount", "secure", "rollback"})'
  BY <1>2 DEF InMount
<1>4. /\ saved'.state.owned = saved'.state.spec.fields
      /\ saved'.state.services = saved'.state.spec.cols
  BY <1>1 DEF Saved
<1> QED BY <1>3, <1>4 DEF ShownOf, Whole

-----------------------------------------------------------------------------
(* Every step is one of Overlays, or changes nothing an author sees *)

\* What a step of a call leaves of the view
LEMMA CallFrame ==
    ASSUME IInv, NEW c \in Callers, Step(c)
    PROVE  /\ Up /\ Up' /\ Up' = Up /\ UNCHANGED <<boot, code>>
           /\ UNCHANGED store => Heads' = Heads
           /\ UNCHANGED errors => Reported' = Reported
<1>1. Up /\ UNCHANGED <<boot, code>>
  BY StepFrame, RunningCall DEF IInv, Up
<1> QED BY <1>1 DEF Up, Heads, Newest, HeadOf, HeadAt, Reported

\* Starting a call and all it does before it takes the mutex.
LEMMA QuietView ==
    ASSUME IInv, IInv', OneCaller, NEW c \in Callers,
           \/ Apply(c) \/ Revert(c) \/ Delete(c) \/ Import(c)
           \/ Check(c) \/ ReadHead(c) \/ ReadFails(c) \/ Validate(c)
    PROVE  UNCHANGED Author!vars
<1>1. UNCHANGED <<durable, memory, lock, boot>> /\ call[c].pc \notin Holding
  BY StartFrame DEF IInv, Check, ReadHead, ReadFails, Validate, At, Holding
<1>2. \A d \in Callers : lock # d
  BY <1>1 DEF IInv, ControlInv, LockInv, OneCaller
<1>3. \A d \in Callers : ~At(d, "append") /\ ~At(d, "append")'
  BY <1>1, <1>2 DEF IInv, ControlInv, LockInv, At, Holding
<1>4. Change = NoChange /\ Change' = NoChange
  BY <1>3 DEF Change
<1>5. Shown' = Shown
  BY <1>1, <1>2, FreeShown DEF Shown, memory
<1>6. Heads' = Heads /\ Reported' = Reported /\ Up' = Up /\ code' = code
  BY <1>1 DEF Heads, Newest, HeadOf, HeadAt, Reported, Up, durable, memory
<1> QED BY <1>4, <1>5, <1>6, Unseen

\* A step of the mount that leaves what is shown of its app.
LEMMA HiddenView ==
    ASSUME IInv, IInv', OneCaller, NEW c \in Callers, Step(c), UNCHANGED <<store, errors>>,
           ~At(c, "append"), ~At(c, "append")', NEW a \in Apps, a = Target(c),
           ShownOf(a)' = ShownOf(a)
    PROVE  UNCHANGED Author!vars
<1>1. \A b \in Apps : ShownOf(b)' = ShownOf(b)
  BY OthersShown
<1>2. Shown' = Shown
  BY <1>1 DEF Shown
<1>3. Change = NoChange /\ Change' = NoChange
  <2>1. \A d \in Callers : ~At(d, "append") /\ ~At(d, "append")'
    BY DEF OneCaller
  <2> QED BY <2>1 DEF Change
<1>4. Up' = Up /\ code' = code /\ Heads' = Heads /\ Reported' = Reported
  BY CallFrame
<1>5. Change' = Change
  BY <1>3
<1> QED BY <1>2, <1>4, <1>5, Unseen

\* Saving, replacing tables, services and fields, and failing to.
LEMMA MountView ==
    ASSUME IInv, IInv', OneCaller, NEW c \in Callers,
           \/ SwapStart(c) \/ MountNew(c) \/ Remount(c) \/ RemountClash(c) \/ RemountFails(c)
           \/ ApplySecurityFails(c)
    PROVE  UNCHANGED Author!vars
<1>0. PICK a : a = Target(c)
  OBVIOUS
<1>1. Step(c)
  BY DEF Step
<1>2. /\ Up /\ Up' /\ UNCHANGED code
  BY <1>1, CallFrame
<1>3. /\ call[c].pc \in {"lock", "remount", "secure"}
      /\ \E pc \in {"remount", "secure", "rollback"} : Goto(c, pc)
      /\ UNCHANGED <<store, errors>>
  BY DEF SwapStart, MountNew, Acquire, Remount, RemountClash, RemountFails, ApplySecurityFails,
         At, durable, memory
<1>4. call'[c].pc \in {"remount", "secure", "rollback"} /\ Target(c)' = a
  BY <1>0, <1>2, <1>3, GotoFrame DEF IInv
<1>5. a \in Apps
  BY <1>0, <1>3, RequestType DEF IInv
<1>6. ShownOf(a)' = Whole(saved'.state.spec)
  BY <1>2, <1>4, ShownSavedNext
<1>7. ShownOf(a) = Whole(saved'.state.spec)
  <2>1. CASE SwapStart(c) \/ MountNew(c)
    <3>1. lock = NoCaller
      BY <2>1 DEF SwapStart, MountNew, Acquire
    <3>2. ShownOf(a) = Whole(mounted[a].spec)
      BY <1>2, <1>5, <3>1, ShownRunning, DomainsAssumption
    <3>3. saved'.state = mounted[a]
      <4>1. CASE SwapStart(c)
        BY <1>0, <4>1 DEF SwapStart
      <4>2. CASE MountNew(c)
        <5>1. saved'.state = Unmounted /\ a \in Dynamic \ dynamic
          BY <1>0, <4>2 DEF MountNew
        <5>2. a \notin loaded
          BY <5>1 DEF IInv, SurfaceInv, LoadedInv
        <5> QED BY <1>5, <3>1, <5>1, <5>2, Unlocked DEF IInv
      <4> QED BY <2>1, <4>1, <4>2
    <3> QED BY <3>2, <3>3
  <2>2. CASE ~(SwapStart(c) \/ MountNew(c))
    <3>1. UNCHANGED saved /\ call[c].pc \in {"remount", "secure"}
      BY <2>2 DEF Remount, RemountClash, RemountFails, ApplySecurityFails, At
    <3> QED BY <1>0, <1>2, <3>1, ShownSaved
  <2> QED BY <2>1, <2>2
<1> QED BY <1>0, <1>1, <1>3, <1>4, <1>5, <1>6, <1>7, HiddenView DEF At

\* A rollback shows the app as it was all the time.
LEMMA RollbackView ==
    ASSUME IInv, IInv', OneCaller, NEW c \in Callers, Rollback(c)
    PROVE  UNCHANGED Author!vars
<1>0. PICK a : a = Target(c)
  OBVIOUS
<1>1. Step(c) /\ At(c, "rollback") /\ UNCHANGED <<store, errors>> /\ lock' = NoCaller
      /\ mounted' = [mounted EXCEPT ![a] = saved.state] /\ Return(c)
  BY <1>0 DEF Step, Rollback, RestoredState, durable
<1>2. Up /\ Up'
  BY <1>1, CallFrame
<1>3. a \in Apps /\ mounted'[a] = saved.state
  BY <1>0, <1>1, RequestType DEF IInv, At, TypeInv, TypeOK
<1>4. ShownOf(a) = Whole(saved.state.spec)
  BY <1>0, <1>1, <1>2, ShownSaved DEF At
<1>5. \A d \in Callers : lock' # d
  BY <1>1, DomainsAssumption
<1>6. Intact(a)'
  BY <1>3, <1>5 DEF IInv, SurfaceInv, WholeInv, Open
<1>7. ~InMount(a, {"remount", "secure", "rollback"})' /\ ~InMount(a, {"unmount"})'
  BY <1>5 DEF InMount
<1>8. ShownOf(a)' = Whole(saved.state.spec)
  BY <1>2, <1>3, <1>6, <1>7, ShownIntactNext DEF IInv
<1>9. ~At(c, "append") /\ ~At(c, "append")'
  BY <1>1, ReturnFrame DEF At, IInv, Idle
<1> QED BY <1>0, <1>1, <1>3, <1>4, <1>8, <1>9, HiddenView

\* The fields of an app that is being deleted are gone at once for its users.
LEMMA UnmountStartView ==
    ASSUME IInv, IInv', OneCaller, NEW c \in Callers, UnmountStart(c)
    PROVE  UNCHANGED Author!vars
<1>0. PICK a : a = Target(c)
  OBVIOUS
<1>1. /\ Step(c) /\ At(c, "lock") /\ Goto(c, "unmount") /\ UNCHANGED <<store, errors, mounted>>
      /\ lock = NoCaller /\ lock' = c
  BY DEF Step, UnmountStart, Acquire, durable
<1>2. Up /\ Up' /\ UNCHANGED code
  BY <1>1, CallFrame
<1>3. call'[c].pc = "unmount" /\ Target(c)' = a
  BY <1>0, <1>1, <1>2, GotoFrame DEF IInv
<1>4. a \in Apps
  BY <1>0, <1>1, RequestType DEF IInv, At
<1>5. Intact(a)
  BY <1>1, <1>4, Unlocked DEF IInv
<1>6. ShownOf(a) = Whole(mounted[a].spec)
  BY <1>1, <1>2, <1>4, ShownRunning, DomainsAssumption
<1>7. InMount(a, {"unmount"})' /\ ~InMount(a, {"remount", "secure", "rollback"})'
  BY <1>1, <1>3 DEF InMount
<1>8. ShownOf(a)' = Surface(mounted[a].spec, mounted[a].owned, mounted[a].services)
  BY <1>1, <1>2, <1>7 DEF ShownOf
<1>9. ShownOf(a)' = ShownOf(a)
  BY <1>5, <1>6, <1>8 DEF Intact, Whole
<1> QED BY <1>0, <1>1, <1>3, <1>4, <1>9, HiddenView DEF At

\* The end of a mount or an unmount shows the change, of a mounted app.
LEMMA ShowView ==
    ASSUME IInv, IInv', InstalledInv, InstalledInv', OneCaller, NEW c \in Callers,
           MountUnchanged(c) \/ ApplySecurity(c) \/ Unmount(c)
    PROVE  Author!Next
<1>0. PICK a, req : a = Target(c) /\ req = Request(c)
  OBVIOUS
<1>1. /\ Step(c) /\ Goto(c, "append") /\ UNCHANGED <<store, errors>>
      /\ call[c].pc \in {"lock", "secure", "unmount"}
  BY DEF Step, MountUnchanged, ApplySecurity, Unmount, Acquire, At, durable, memory
<1>2. Up /\ Up' /\ Up' = Up /\ UNCHANGED <<boot, code>> /\ Heads' = Heads /\ Reported' = Reported
  BY <1>1, CallFrame
<1>3. /\ a \in Apps /\ req \in Requests /\ req.app = a /\ req.layer \in Layers
  BY <1>0, <1>1, RequestType DEF IInv, Target
<1>4. call'[c].pc = "append" /\ Request(c)' = req /\ Target(c)' = a
  BY <1>0, <1>1, <1>2, GotoFrame DEF IInv
<1>5. Change = NoChange /\ Change' = req
  <2>1. ~At(c, "append") /\ At(c, "append")'
    BY <1>1, <1>4 DEF At
  <2>2. \A d \in Callers : d = c
    BY DEF OneCaller
  <2>3. (\E d \in Callers : At(d, "append")') /\ ~(\E d \in Callers : At(d, "append"))
    BY <2>1, <2>2
  <2>4. (CHOOSE d \in Callers : At(d, "append")') = c
    BY <2>1, <2>2
  <2> QED BY <1>4, <2>3, <2>4 DEF Change
<1>6. req = [app |-> a, layer |-> req.layer]
  BY <1>3 DEF Requests
<1>7. ShownOf(a)' = Whole(mounted'[a].spec)
  <2>1. lock' = c
    BY <1>4 DEF IInv, ControlInv, LockInv, Holding
  <2>2. Intact(a)'
    BY <1>3, <1>4, <2>1 DEF IInv, SurfaceInv, WholeInv, Open
  <2>3. ~InMount(a, {"remount", "secure", "rollback"})' /\ ~InMount(a, {"unmount"})'
    BY <1>4, <2>1 DEF InMount
  <2> QED BY <1>2, <1>3, <2>2, <2>3, ShownIntactNext DEF IInv
<1>8. CASE a \in Dynamic \cup Listed
  <2>1. Runs(a)'
    <3>1. CASE a \in Dynamic
      BY <3>1 DEF Runs
    <3>2. CASE a \in Listed
      <4>1. PICK i \in DOMAIN CompiledOrder : a = CompiledOrder[i]
        BY <3>2 DEF Listed
      <4>2. a \in loaded'
        BY <1>2, <4>1 DEF InstalledInv, SetUp, Up
      <4>3. a \in Compiled
        BY <4>1, DomainsAssumption, ElementOfSeq, LenProperties
      <4> QED BY <4>2, <4>3 DEF Runs, IsInstalled
    <3> QED BY <1>8, <3>1, <3>2
  <2>2. mounted'[a].spec = Effective(a, req.layer)
    <3>1. Progress(c)'
      BY DEF IInv, SurfaceInv, ProgressInv
    <3>2. mounted'[a].spec = Effective(a, req.layer)'
      BY <1>4, <2>1, <3>1 DEF Progress, Desired, At
    <3> QED BY <1>2, <3>2 DEF Effective, BaseOf
  <2>3. ShownOf(a)' = StackOn(code, a, req.layer)
    BY <1>7, <2>2, StackIsEffective DEF IInv, TypeInv, TypeOK
  <2>4. \A b \in Apps \ {a} : ShownOf(b)' = ShownOf(b)
    BY <1>0, <1>1, OthersShown
  <2>5. Shown' = [Shown EXCEPT ![a] = StackOn(code, a, req.layer)]
    BY <1>3, <2>3, <2>4 DEF Shown
  <2> QED BY <1>2, <1>3, <1>5, <1>6, <1>8, <2>5
          DEF Author!Next, Author!Show, Heads, Shown, Reported, Newest, Listed
<1>9. CASE a \notin Dynamic \cup Listed
  <2>1. MountUnchanged(c)
    <3>1. ~Unmount(c)
      BY <1>0, <1>9 DEF Unmount, IInv, SurfaceInv, ProgressInv, Progress, Deletes
    <3>2. ASSUME ApplySecurity(c) PROVE FALSE
      <4>1. Saved(c)
        BY <3>2, Mounting DEF ApplySecurity, At, IInv
      <4>2. a \in loaded /\ a \in Compiled
        BY <1>0, <1>3, <1>9, <4>1 DEF Saved, Apps
      <4> QED BY <1>9, <4>2 DEF InstalledInv
    <3> QED BY <3>1, <3>2
  <2>2. lock = NoCaller /\ UNCHANGED mounted
    BY <2>1 DEF MountUnchanged, Acquire, memory
  <2>3. ShownOf(a) = Whole(mounted[a].spec)
    BY <1>2, <1>3, <2>2, ShownRunning, DomainsAssumption
  <2>4. \A b \in Apps : ShownOf(b)' = ShownOf(b)
    BY <1>0, <1>1, <1>7, <2>2, <2>3, OthersShown
  <2>5. Shown' = Shown
    BY <2>4 DEF Shown
  <2> QED BY <1>2, <1>3, <1>5, <1>6, <1>9, <2>5
          DEF Author!Next, Author!Show, Heads, Shown, Reported, Newest, Listed
<1> QED BY <1>8, <1>9

\* Storing keeps the change that is shown.
LEMMA StoreView ==
    ASSUME IInv, IInv', ReadInv, OneCaller, NEW c \in Callers, Store(c)
    PROVE  Author!Next
<1>0. PICK a, req : a = Target(c) /\ req = Request(c)
  OBVIOUS
<1>1. /\ Step(c) /\ At(c, "append") /\ lock' = NoCaller /\ errors' = errors \ {a}
      /\ UNCHANGED <<root, mounted>>
      /\ store' = IF req.layer = call[c].current THEN store
                  ELSE [store EXCEPT ![a] = Appended(a, "overlay", req.layer)]
  BY <1>0 DEF Step, Store
<1>2. Up /\ Up' /\ Up' = Up /\ UNCHANGED <<boot, code>>
  BY <1>1, CallFrame
<1>3. /\ a \in Apps /\ req \in Requests /\ req.app = a
  BY <1>0, <1>1, RequestType DEF IInv, Target, At
<1>4. \A d \in Callers : d = c
  BY DEF OneCaller
<1>5. Change = req /\ req # NoChange
  BY <1>0, <1>1, <1>3, ChangeOf, NoChangeAssumption
<1>6. lock = c
  BY <1>1, Holder DEF IInv, At, Holding
<1>7. Change' = NoChange
  <2>1. call'[c].pc # "append"
    BY <1>1, DomainsAssumption DEF IInv, ControlInv, LockInv, Holding
  <2>2. ~(\E d \in Callers : At(d, "append")')
    BY <1>4, <2>1 DEF At
  <2> QED BY <2>2 DEF Change
<1>8. Shown' = Shown
  <2>1. ASSUME NEW b \in Apps PROVE ShownOf(b)' = ShownOf(b)
    <3>1. ShownOf(b) = Whole(mounted[b].spec)
      BY <1>1, <1>2, <1>4, ShownRunning
    <3>2. \A d \in Callers : lock' # d
      BY <1>1, DomainsAssumption
    <3>3. Intact(b)'
      BY <3>2 DEF IInv, SurfaceInv, WholeInv, Open
    <3>4. ~InMount(b, {"remount", "secure", "rollback"})' /\ ~InMount(b, {"unmount"})'
      BY <3>2 DEF InMount
    <3>5. ShownOf(b)' = Whole(mounted'[b].spec)
      BY <1>2, <3>3, <3>4, ShownIntactNext DEF IInv
    <3> QED BY <1>1, <3>1, <3>5
  <2> QED BY <2>1 DEF Shown
<1>9. Heads' = [Heads EXCEPT ![a] = req.layer]
  <2>1. ASSUME NEW b \in Apps \ {a} PROVE Newest(b)' = Newest(b)
    <3>1. store'[b] = store[b]
      BY <1>1, <1>3 DEF IInv, TypeInv, TypeOK
    <3> QED BY <3>1 DEF Newest, HeadOf, HeadAt
  <2>2. Newest(a)' = req.layer
    <3>1. CASE req.layer = call[c].current
      <4>1. call[c].current = Newest(a)
        BY <1>0, <1>1 DEF ReadInv, At, Holding
      <4>2. Newest(a)' = Newest(a)
        BY <1>1, <3>1 DEF Newest, HeadOf, HeadAt
      <4> QED BY <3>1, <4>1, <4>2
    <3>2. CASE req.layer # call[c].current
      <4>1. store'[a] = Appended(a, "overlay", req.layer)
        BY <1>1, <1>3, <3>2 DEF IInv, TypeInv, TypeOK
      <4> QED BY <1>3, <4>1, HeadOfAppended DEF IInv, Newest
    <3> QED BY <3>1, <3>2
  <2> QED BY <1>3, <2>1, <2>2 DEF Heads
<1>10. Reported' = Reported \ {a}
  BY <1>1, <1>2 DEF Reported
<1> QED BY <1>2, <1>3, <1>5, <1>7, <1>8, <1>9, <1>10
        DEF Author!Next, Author!Keep, Heads, Shown, Reported, Newest

\* A step of a call is one of Overlays or a stutter.
LEMMA CallView ==
    ASSUME IInv, IInv', ViewInv, ViewInv', OneCaller, "append" \notin Faults,
           NEW c \in Callers, Apply(c) \/ Revert(c) \/ Delete(c) \/ Import(c) \/ Step(c)
    PROVE  Author!Next \/ UNCHANGED Author!vars
<1>1. ~StoreFails(c)
  BY DEF StoreFails, Fail
<1> QED BY <1>1, QuietView, MountView, RollbackView, UnmountStartView, ShowView, StoreView
        DEF Step, ViewInv

\* A process that is down shows nothing and changes nothing.
LEMMA DownView ==
    /\ ~Up => Shown = [a \in Apps |-> Hidden] /\ Reported = {}
    /\ ~Up' => Shown' = [a \in Apps |-> Hidden] /\ Reported' = {}
BY DEF Shown, ShownOf, Reported

\* The end of a boot shows every app under its newest layer, or without it.
LEMMA StartView ==
    ASSUME IInv, IInv', ViewInv, Phase("load", DynamicOrder, "up")
    PROVE  Author!Next
<1>1. /\ boot.phase = "load" /\ boot.at > Len(DynamicOrder) /\ boot'.phase = "up"
      /\ UNCHANGED <<durable, memory, lock, call>>
  BY DEF Phase
<1>2. ~Up /\ Up'
  BY <1>1 DEF Up
<1>3. lock = NoCaller /\ \A c \in Callers : ~At(c, "append") /\ ~At(c, "append")'
  BY <1>1 DEF IInv, ControlInv, BootInv, At
<1>4. Change = NoChange /\ Change' = NoChange
  BY <1>3 DEF Change
<1>5. Heads' = Heads /\ code' = code /\ Reported' = errors /\ Reported = {} /\ errors \subseteq Apps
  BY <1>1, <1>2 DEF Heads, Newest, HeadOf, HeadAt, Reported, durable, memory, IInv, TypeInv, TypeOK
<1>6. ASSUME NEW a \in Apps
      PROVE  ShownOf(a)' = Whole(mounted[a].spec)
  <2>1. \A d \in Callers : lock' # d
    BY <1>1, <1>3, DomainsAssumption
  <2>2. Intact(a)'
    BY <2>1 DEF IInv, SurfaceInv, WholeInv, Open
  <2>3. ~InMount(a, {"remount", "secure", "rollback"})' /\ ~InMount(a, {"unmount"})'
    BY <2>1 DEF InMount
  <2>4. ShownOf(a)' = Whole(mounted'[a].spec)
    BY <1>2, <2>2, <2>3, ShownIntactNext DEF IInv
  <2> QED BY <1>1, <2>4 DEF memory
<1>7. ASSUME NEW a \in Apps, a \notin Dynamic \cup Listed
      PROVE  ShownOf(a)' = Hidden
  <2>1. a \notin loaded
    BY <1>7 DEF ViewInv, InstalledInv, Apps
  <2>2. mounted[a] = Unmounted
    BY <1>3, <2>1, Unlocked DEF IInv
  <2>3. mounted[a].spec = Blank /\ Blank.fields = {} /\ Blank.cols = {}
    BY <2>2 DEF Unmounted, Blank
  <2> QED BY <1>6, <2>3 DEF Whole, Hidden
<1>8. ASSUME NEW a \in Apps, a \in Dynamic \cup Listed
      PROVE  ShownOf(a)' = StackOn(code, a, IF a \in errors THEN NoLayer ELSE Newest(a))
  <2>1. Running(a)
    <3>1. CASE a \in Listed
      <4>1. PICK i \in DOMAIN CompiledOrder : a = CompiledOrder[i]
        BY <3>1 DEF Listed
      <4> QED BY <1>1, <4>1 DEF ViewInv, BootedInv, SetUp
    <3>2. CASE a \in Dynamic
      <4>1. PICK i \in DOMAIN DynamicOrder : DynamicOrder[i] = a
        BY <3>2, DomainsAssumption
      <4>2. i < boot.at
        <5>1. DOMAIN DynamicOrder = 1..Len(DynamicOrder) /\ Len(DynamicOrder) \in Nat
          BY DomainsAssumption, LenProperties
        <5>2. boot.at \in Nat
          BY DEF IInv, TypeInv, TypeOK
        <5> QED BY <1>1, <4>1, <5>1, <5>2
      <4> QED BY <1>1, <4>1, <4>2 DEF ViewInv, BootedInv, Tried
    <3> QED BY <1>8, <3>1, <3>2
  <2> QED BY <1>6, <2>1, StackIsEffective DEF Running, IInv, TypeInv, TypeOK
<1>9. \A a \in Apps : Shown'[a] = IF a \notin Dynamic \cup Listed THEN Hidden
          ELSE StackOn(code, a, IF a \in Reported' THEN NoLayer ELSE Heads[a])
  BY <1>5, <1>7, <1>8 DEF Shown, Heads
<1> QED BY <1>2, <1>4, <1>5, <1>9
        DEF Author!Next, Author!Start, Heads, Shown, Reported, Newest, Listed

\* A boot that is under way shows nothing.
LEMMA BootView ==
    ASSUME IInv, Boot, ~Phase("load", DynamicOrder, "up")
    PROVE  UNCHANGED Author!vars
<1>1. /\ ~Up /\ ~Up' /\ code' = code
      /\ \A c \in Callers : ~At(c, "append") /\ ~At(c, "append")'
  <2>1. boot.phase # "up" /\ code' = code
    BY DEF Boot, BootStart, SetupCompiled, SetupUnread, SetupFails, SetupPanics, SecureCompiled,
       SecureCompiledFails, LoadDynamic, LoadUnread, LoadDynamicFails, BootPhase, Phase, Booting, Load,
       LoadMounts, LoadReports, durable
  <2>2. boot'.phase # "up"
    <3>1. CASE BootPhase
      <4>1. Phase("setup", CompiledOrder, "secure") \/ Phase("secure", CompiledOrder, "load")
        BY <3>1 DEF BootPhase
      <4> QED BY <4>1 DEF Phase
    <3>2. CASE BootNext
      BY <2>1, <3>2 DEF BootNext, IInv, TypeInv, TypeOK
    <3>3. CASE BootStart \/ Down
      BY <3>3 DEF BootStart, Down
    <3>4. SetupFails \/ SetupPanics \/ SecureCompiledFails \/ LoadUnread => Down
      BY DEF SetupFails, SetupPanics, SecureCompiledFails, LoadUnread
    <3>5. SetupCompiled \/ SetupUnread \/ SecureCompiled \/ LoadDynamic \/ LoadDynamicFails =>
              BootNext
      BY DEF SetupCompiled, SetupUnread, SecureCompiled, LoadDynamic, LoadDynamicFails
    <3> QED BY <3>1, <3>2, <3>3, <3>4, <3>5 DEF Boot
  <2>3. \A c \in Callers : call'[c].pc = "idle"
    BY NoCallRuns DEF IInv
  <2>4. \A c \in Callers : call[c].pc = "idle"
    BY <2>1 DEF IInv, ControlInv, BootInv, At
  <2> QED BY <2>1, <2>2, <2>3, <2>4 DEF Up, At
<1>2. Up' = Up
  BY <1>1 DEF Up
<1>3. Change = NoChange /\ Change' = NoChange
  BY <1>1 DEF Change
<1>4. Shown' = Shown /\ Reported' = Reported
  BY <1>1, DownView
<1>5. Heads' = Heads
  BY BootHeads DEF IInv, Heads
<1> QED BY <1>1, <1>2, <1>3, <1>4, <1>5, Unseen

\* The end of the process hides every app, and keeps what was kept.
LEMMA CrashView ==
    ASSUME IInv, Crash
    PROVE  Author!Next \/ UNCHANGED Author!vars
<1>1. /\ ~Up' /\ code' = code /\ \A c \in Callers : ~At(c, "append")'
  BY DEF Crash, Lost, Down, durable, Up, NoCalls, Idle, At
<1>2. Change' = NoChange
  BY <1>1 DEF Change
<1>3. Shown' = [a \in Apps |-> Hidden] /\ Reported' = {}
  BY <1>1, DownView
<1>4. Heads' = Heads
  BY BootHeads DEF IInv, Heads
<1>5. CASE Up
  BY <1>1, <1>2, <1>3, <1>4, <1>5
     DEF Author!Next, Author!Stop, Author!NothingShown, Heads, Shown, Reported, Newest
<1>6. CASE ~Up
  <2>1. Shown = [a \in Apps |-> Hidden] /\ Reported = {}
    BY <1>6, DownView
  <2>2. \A c \in Callers : ~At(c, "append")
    BY <1>6 DEF Up, IInv, ControlInv, BootInv, At
  <2>3. Change = NoChange
    BY <2>2 DEF Change
  <2>4. Up' = Up
    BY <1>1, <1>6 DEF Up
  <2> QED BY <1>1, <1>2, <1>3, <1>4, <2>1, <2>3, <2>4, Unseen
<1> QED BY <1>5, <1>6

\* New versions of the code come while the process is down.
LEMMA DeployView ==
    ASSUME IInv, Deploy
    PROVE  Author!Next
<1>1. /\ ~Up /\ Up' = Up /\ UNCHANGED call
      /\ \A c \in Callers : ~At(c, "append")
  BY DEF Deploy, Up, IInv, ControlInv, BootInv, At
<1>2. Change = NoChange /\ Change' = NoChange
  BY <1>1 DEF Change, At
<1>3. Shown' = Shown /\ Reported' = Reported
  BY <1>1, DownView
<1>4. Heads' = Heads
  BY BootHeads DEF IInv, Heads
<1>5. code' \in [DOMAIN code -> CodeDocs]
  BY DEF Deploy, IInv, TypeInv, TypeOK
<1> QED BY <1>1, <1>2, <1>3, <1>4, <1>5
        DEF Author!Next, Author!Deploy, Heads, Shown, Reported, Newest

\* At the start nothing is kept and nothing is shown.
LEMMA InitView == Init => Author!Init
<1> SUFFICES ASSUME Init PROVE Author!Init
  OBVIOUS
<1>1. ~Up /\ \A c \in Callers : ~At(c, "append")
  BY DEF Init, Up, NoCalls, Idle, At
<1>2. Change = NoChange
  BY <1>1 DEF Change
<1>3. Shown = [a \in Apps |-> Hidden] /\ Reported = {}
  BY <1>1, DownView
<1>4. [a \in Apps |-> HeadOf(a, "overlay")] = [a \in Apps |-> NoLayer]
  BY DEF Init, HeadOf, HeadAt
<1> QED BY <1>1, <1>2, <1>3, <1>4 DEF Author!Init, Shown, Reported

\* For one caller at a time the pipeline is atomic, whatever crashes, fails or
\* is deployed, unless a layer cannot be stored, or read at a boot (which then
\* mounts the code alone and reports nothing): of the many steps of an apply, a revert, a delete or an import, users see one that changes the app and one
\* that keeps the change; what is refused or rolled back changes nothing they
\* see, and a restart brings back what was kept.  (applyLayer, swapLocked,
\* mountNewLocked, unmountLocked, resolveCompiled, LoadAll)
THEOREM PipelineIsAtomic ==
    OneCaller /\ {"read", "append"} \cap Faults = {} => (Spec => AtomicToAuthor)
<1> SUFFICES ASSUME OneCaller, "read" \notin Faults, "append" \notin Faults
             PROVE  Spec => AtomicToAuthor
  OBVIOUS
<1>1. Init => ViewInv
  BY ViewInit
<1>2. IInv /\ ViewInv /\ [Next]_vars => ViewInv'
  BY ViewStep
<1>3. IInv /\ IInv' /\ ViewInv /\ ViewInv' /\ [Next]_vars => [Author!Next]_(Author!vars)
  <2> SUFFICES ASSUME IInv, IInv', ViewInv, ViewInv', [Next]_vars
               PROVE  Author!Next \/ UNCHANGED Author!vars
    OBVIOUS
  <2>1. CASE UNCHANGED vars
    BY <2>1 DEF vars, durable, memory, Author!vars, Up, ShownOf, InMount, Target, Request, Change,
       At, HeadOf, HeadAt
  <2>2. CASE Boot
    BY <2>2, StartView, BootView
  <2> QED BY <2>1, <2>2, CallView, CrashView, DeployView DEF Next
<1>4. Spec => []IInv
  BY IInvHolds
<1>5. Init => Author!Init
  BY InitView
<1> QED BY <1>1, <1>2, <1>3, <1>4, <1>5, PTL DEF Spec, AtomicToAuthor, Author!Spec
=============================================================================
