-------------------------- MODULE SyncWorker_proofs --------------------------
(***************************************************************************)
(* Theorems about SyncWorker: types, runs that never overlap, the bound on *)
(* how long an abandoned run keeps others out, and the lookback that loses *)
(* no session.                                                             *)
(***************************************************************************)
EXTENDS SyncWorker, TLAPS

LEMMA DivBounds ==
    ASSUME NEW n \in Nat, NEW e \in Nat \ {0}
    PROVE  /\ ((n \div e) + 1) * e \in Nat
           /\ ((n \div e) + 1) * e <= n + e
  <1>1. n \div e \in Nat
    OBVIOUS
  <1>2. (n \div e) * e <= n
    OBVIOUS
  <1>3. ((n \div e) + 1) * e = (n \div e) * e + e
    BY <1>1
  <1>4. (n \div e) * e \in Nat
    BY <1>1
  <1> QED  BY <1>2, <1>3, <1>4

\* A cron armed now fires within a Dormant period.
LEMMA NextRunSoon ==
    ASSUME now \in Nat, NEW tier \in Tiers
    PROVE  NextRun(tier) \in Nat /\ NextRun(tier) <= now + Every["dormant"]
  <1>1. Every[tier] \in Nat \ {0} /\ Every["dormant"] \in Nat
    BY PeriodAssumption DEF Tiers
  <1>2. Every[tier] <= Every["dormant"]
    BY PeriodAssumption
  <1>3. NextRun(tier) \in Nat /\ NextRun(tier) <= now + Every[tier]
    BY <1>1, DivBounds DEF NextRun
  <1> QED  BY <1>1, <1>2, <1>3

----------------------------------------------------------------------------
(* Types.                                                                  *)

LEMMA InitType == Init => TypeOK
  <1> SUFFICES ASSUME Init PROVE TypeOK
    OBVIOUS
  <1>1. Every["idle"] \in Nat
    BY PeriodAssumption DEF Tiers
  <1>2. call \in [Callers -> Calls]
    BY DEF Init, NoCall, Calls, Pcs, Tiers
  <1> QED  BY <1>1, <1>2 DEF Init, TypeOK, NoLock, Crons, Tiers

\* The tier in force is one of the three.
LEMMA EffectiveTierType == TypeOK => EffectiveTier \in Tiers
  BY DEF TypeOK, EffectiveTier, PinActive

LEMMA SetCallType ==
    ASSUME TypeOK, NEW c \in Callers, NEW r \in Calls, call' = [call EXCEPT ![c] = r]
    PROVE  call' \in [Callers -> Calls]
  BY DEF TypeOK

\* A handler that moves on, with the tier and the count it has just read.
LEMMA MoveType ==
    ASSUME TypeOK, NEW c \in Callers, NEW pc \in Pcs, NEW tier \in Tiers,
           NEW ticks \in Nat
    PROVE  /\ [call[c] EXCEPT !.pc = pc] \in Calls
           /\ [call[c] EXCEPT !.pc = pc, !.tier = tier] \in Calls
           /\ [call[c] EXCEPT !.pc = pc, !.tier = tier, !.ticks = ticks] \in Calls
  <1>1. call[c] \in Calls
    BY DEF TypeOK
  <1>2. [call[c] EXCEPT !.pc = pc] \in Calls
    BY <1>1 DEF Calls
  <1>3. [[call[c] EXCEPT !.pc = pc] EXCEPT !.tier = tier] \in Calls
    BY <1>2 DEF Calls
  <1>4. [[[call[c] EXCEPT !.pc = pc] EXCEPT !.tier = tier] EXCEPT !.ticks = ticks]
            \in Calls
    BY <1>3 DEF Calls
  <1> QED  BY <1>2, <1>3, <1>4

\* A handler that starts or passes over the sync.
LEMMA StartType ==
    ASSUME TypeOK, NEW c \in Callers, StartSync(c)
    PROVE  /\ call' \in [Callers -> Calls]
           /\ isSyncing' \in BOOLEAN /\ running' \in BOOLEAN
  <1>1. PICK pc \in {"none", "run"} : call' = [call EXCEPT ![c].pc = pc]
    BY DEF StartSync, Goto
  <1>2. call' \in [Callers -> Calls]
    BY <1>1 DEF TypeOK, Calls, Pcs
  <1>3. isSyncing' \in BOOLEAN /\ running' \in BOOLEAN
    BY Zenon DEF TypeOK, StartSync
  <1> QED  BY <1>2, <1>3

LEMMA EnvironmentType ==
    ASSUME TypeOK, Environment PROVE TypeOK'
  <1>1. CASE Tick
    BY <1>1 DEF Tick, TypeOK, world, procVars
  <1>2. ASSUME NEW s \in Sessions, StartSession(s) \/ StopSession(s) PROVE TypeOK'
    <2>1. /\ session' \in [Sessions -> {"none", "charging", "stopped"}]
          /\ stopAt' \in [Sessions -> Nat]
      BY <1>2 DEF StartSession, StopSession, TypeOK
    <2> QED  BY <1>2, <2>1 DEF StartSession, StopSession, TypeOK, procVars
  <1>3. CASE TagChangeAges
    BY <1>3 DEF TagChangeAges, TypeOK, procVars
  <1>4. ASSUME NEW tier \in Tiers, Pin(tier) PROVE TypeOK'
    <2>1. sched' \in [tier : Tiers, ticks : Nat, nextAt : Nat,
                      pin : Tiers \cup {NoTier}, pinUntil : Nat]
      <3>1. now + PinLength \in Nat
        BY LimitAssumption DEF TypeOK
      <3> QED  BY <1>4, <3>1 DEF Pin, TypeOK
    <2> QED  BY <1>4, <2>1 DEF Pin, TypeOK, world, procVars
  <1>5. CASE Unpin
    <2>1. sched' \in [tier : Tiers, ticks : Nat, nextAt : Nat,
                      pin : Tiers \cup {NoTier}, pinUntil : Nat]
      BY <1>5 DEF Unpin, TypeOK
    <2> QED  BY <1>5, <2>1 DEF Unpin, TypeOK, world, procVars
  <1>6. ASSUME NEW c \in Triggers, Notify(c) PROVE TypeOK'
    <2>1. call' \in [Callers -> Calls]
      BY <1>6 DEF Notify, TypeOK, Callers, Calls, Pcs
    <2> QED  BY <1>6, <2>1 DEF Notify, TypeOK, world
  <1> QED  BY <1>1, <1>2, <1>3, <1>4, <1>5, <1>6 DEF Environment

LEMMA BumpType ==
    ASSUME TypeOK, NEW c \in Callers,
           BumpActive(c) \/ BumpLoad(c) \/ BumpInstall(c) \/ BumpThrows(c)
    PROVE  TypeOK'
  <1>1. CASE BumpActive(c)
    <2>1. /\ sched' \in [tier : Tiers, ticks : Nat, nextAt : Nat,
                         pin : Tiers \cup {NoTier}, pinUntil : Nat]
          /\ call' \in [Callers -> Calls]
      <3>1. now + Every["active"] \in Nat
        BY PeriodAssumption DEF TypeOK, Tiers
      <3>2. sched' \in [tier : Tiers, ticks : Nat, nextAt : Nat,
                        pin : Tiers \cup {NoTier}, pinUntil : Nat]
        BY <1>1, <3>1 DEF BumpActive, TypeOK, Tiers
      <3>3. [call[c] EXCEPT !.pc = "load"] \in Calls
        BY MoveType, EffectiveTierType DEF Pcs
      <3>4. call' = [call EXCEPT ![c] = [call[c] EXCEPT !.pc = "load"]]
        BY <1>1 DEF BumpActive, Goto
      <3> QED  BY <3>2, <3>3, <3>4, SetCallType
    <2> QED  BY <1>1, <2>1 DEF BumpActive, TypeOK, world
  <1>2. CASE BumpLoad(c)
    <2>1. call' \in [Callers -> Calls]
      <3>1. [call[c] EXCEPT !.pc = "install", !.tier = EffectiveTier] \in Calls
        BY MoveType, EffectiveTierType DEF Pcs
      <3>2. call' = [call EXCEPT ![c] = [call[c] EXCEPT !.pc = "install",
                                                         !.tier = EffectiveTier]]
        BY <1>2 DEF BumpLoad
      <3> QED  BY <3>1, <3>2, SetCallType
    <2> QED  BY <1>2, <2>1 DEF BumpLoad, TypeOK, world
  <1>3. CASE BumpInstall(c)
    <2>1. call[c].tier \in Tiers
      BY DEF TypeOK, Calls
    <2>2. cron' \in Crons
      BY <1>3, <2>1, NextRunSoon DEF BumpInstall, TypeOK, Crons
    <2>3. StartSync(c)
      BY <1>3 DEF BumpInstall
    <2> QED  BY <1>3, <2>2, <2>3, StartType DEF BumpInstall, TypeOK, world
  <1>4. CASE BumpThrows(c)
    <2>1. StartSync(c) /\ faults' \in Nat
      BY <1>4 DEF BumpThrows, Fault, TypeOK
    <2> QED  BY <1>4, <2>1, StartType DEF BumpThrows, TypeOK, world
  <1> QED  BY <1>1, <1>2, <1>3, <1>4

LEMMA RunType ==
    ASSUME TypeOK, NEW c \in Callers,
           \/ CheckLock(c) \/ CreateRun(c) \/ RunThrows(c)
           \/ Fetch(c) \/ FetchFails(c) \/ FinishRun(c)
    PROVE  TypeOK'
  <1>1. call' \in [Callers -> Calls]
    BY DEF CheckLock, CreateRun, RunThrows, Fetch, FetchFails, FinishRun, Goto, TypeOK,
           Calls, Pcs
  <1>2. lock' \in [held : BOOLEAN, since : Nat]
    <2>1. CASE CreateRun(c)
      BY <2>1 DEF CreateRun, TypeOK
    <2>2. lock' \in {lock, NoLock} \/ CreateRun(c)
      BY DEF CheckLock, RunThrows, Fetch, FetchFails, FinishRun
    <2>3. NoLock \in [held : BOOLEAN, since : Nat]
      BY DEF NoLock
    <2> QED  BY <2>1, <2>2, <2>3 DEF TypeOK
  <1>5. isSyncing' \in BOOLEAN
    BY DEF CheckLock, CreateRun, RunThrows, Fetch, FetchFails, FinishRun, TypeOK
  <1>3. swept' \in SUBSET Sessions /\ faults' \in Nat
    BY DEF CheckLock, CreateRun, RunThrows, Fetch, FetchFails, FinishRun, TypeOK, Fault
  <1>4. UNCHANGED << now, world, sched, up, cron, running, triggers >>
    BY DEF CheckLock, CreateRun, RunThrows, Fetch, FetchFails, FinishRun
  <1> QED  BY <1>1, <1>2, <1>3, <1>4, <1>5 DEF TypeOK, world

LEMMA EvalType ==
    ASSUME TypeOK, NEW c \in Callers,
           \/ EvalLoad(c) \/ EvalProbe(c) \/ EvalProbeFails(c)
           \/ EvalWrite(c) \/ EvalWritePinned(c) \/ EvalArm(c) \/ EvalThrows(c)
    PROVE  TypeOK'
  <1>0. call[c].tier \in Tiers /\ call[c].ticks \in Nat /\ call \in [Callers -> Calls]
    BY DEF TypeOK, Calls
  <1>1. CASE EvalLoad(c)
    <2>1. PICK pc \in {"pinned", "probe"} :
             call' = [call EXCEPT ![c].pc = pc, ![c].tier = EffectiveTier,
                                  ![c].ticks = sched.ticks]
      BY <1>1 DEF EvalLoad
    <2>2. sched.ticks \in Nat
      BY DEF TypeOK
    <2>3. call' \in [Callers -> Calls]
      <3>1. [call[c] EXCEPT !.pc = pc, !.tier = EffectiveTier, !.ticks = sched.ticks]
               \in Calls
        BY <2>2, MoveType, EffectiveTierType DEF Pcs
      <3>2. call' = [call EXCEPT ![c] = [call[c] EXCEPT !.pc = pc, !.tier = EffectiveTier,
                                                         !.ticks = sched.ticks]]
        BY <2>1
      <3> QED  BY <3>1, <3>2, SetCallType
    <2> QED  BY <1>1, <2>3 DEF EvalLoad, TypeOK, world
  <1>2. CASE EvalProbe(c) \/ EvalProbeFails(c)
    <2>1. PICK active \in BOOLEAN : Probed(c, active)
      BY <1>2 DEF EvalProbe, EvalProbeFails
    <2>2. call' \in [Callers -> Calls]
      <3>1. PICK quiet \in BOOLEAN :
               call' = [call EXCEPT ![c].pc = "write", ![c].active = active,
                                    ![c].quiet = quiet]
        BY <2>1, Zenon DEF Probed
      <3>2. [call[c] EXCEPT !.pc = "write"] \in Calls
        BY <1>0 DEF Calls, Pcs
      <3> DEFINE new == [[[call[c] EXCEPT !.pc = "write"] EXCEPT !.active = active]
                            EXCEPT !.quiet = quiet]
      <3>3. new \in Calls
        BY <2>1, <3>1, <3>2 DEF Calls
      <3>4. call' = [call EXCEPT ![c] = new]
        BY <3>1
      <3> HIDE DEF new
      <3> QED  BY <1>0, <3>3, <3>4
    <2>3. faults' \in Nat
      <3>1. faults' = faults \/ faults' = faults + 1
        BY <1>2 DEF EvalProbe, EvalProbeFails, Fault
      <3> QED  BY <3>1 DEF TypeOK
    <2> QED  BY <2>1, <2>2, <2>3 DEF Probed, TypeOK, world
  <1>3. CASE EvalWrite(c)
    <2>1. PICK tier \in Tiers, ticks \in Nat :
             /\ sched' = [sched EXCEPT !.tier = tier, !.ticks = ticks,
                                       !.nextAt = NextRun(tier)]
             /\ call' = [call EXCEPT ![c].pc = "arm", ![c].tier = tier]
      <3> DEFINE held == /\ Rank[Target(c)] > Rank[call[c].tier]
                         /\ call[c].ticks + 1 < IdleTicks
                 t == IF held THEN call[c].tier ELSE Target(c)
                 n == IF held THEN call[c].ticks + 1 ELSE 0
      <3>1. t \in Tiers /\ n \in Nat
        BY <1>0 DEF Target, Tiers
      <3>2. /\ sched' = [sched EXCEPT !.tier = t, !.ticks = n, !.nextAt = NextRun(t)]
            /\ call' = [call EXCEPT ![c].pc = "arm", ![c].tier = t]
        BY <1>3 DEF EvalWrite
      <3> QED  BY <3>1, <3>2
    <2>2. NextRun(tier) \in Nat
      BY NextRunSoon DEF TypeOK
    <2>3. call' \in [Callers -> Calls]
      <3>1. [call[c] EXCEPT !.pc = "arm", !.tier = tier] \in Calls
        BY MoveType DEF Pcs
      <3>2. call' = [call EXCEPT ![c] = [call[c] EXCEPT !.pc = "arm", !.tier = tier]]
        BY <2>1
      <3> QED  BY <3>1, <3>2, SetCallType
    <2>4. sched' \in [tier : Tiers, ticks : Nat, nextAt : Nat,
                      pin : Tiers \cup {NoTier}, pinUntil : Nat]
      BY <2>1, <2>2 DEF TypeOK
    <2> QED  BY <1>3, <2>3, <2>4 DEF EvalWrite, TypeOK, world
  <1>4. CASE EvalWritePinned(c)
    <2>1. NextRun(call[c].tier) \in Nat
      BY <1>0, NextRunSoon DEF TypeOK
    <2>2. call' \in [Callers -> Calls]
      BY <1>0, <1>4 DEF EvalWritePinned, Goto, Calls, Pcs
    <2>3. sched' \in [tier : Tiers, ticks : Nat, nextAt : Nat,
                      pin : Tiers \cup {NoTier}, pinUntil : Nat]
      BY <1>0, <1>4, <2>1 DEF EvalWritePinned, TypeOK
    <2> QED  BY <1>4, <2>2, <2>3 DEF EvalWritePinned, TypeOK, world
  <1>5. CASE EvalArm(c) \/ EvalThrows(c)
    <2>1. call' \in [Callers -> Calls]
      <3>1. NoCall \in Calls
        BY DEF NoCall, Calls, Pcs, Tiers
      <3>2. call' = [call EXCEPT ![c] = NoCall]
        BY <1>5 DEF EvalArm, EvalThrows, EndCall
      <3> QED  BY <1>0, <3>1, <3>2
    <2>2. running' \in BOOLEAN
      BY <1>5, Zenon DEF EvalArm, EvalThrows, EndCall, TypeOK
    <2>3. NextRun(call[c].tier) \in Nat
      BY <1>0, NextRunSoon DEF TypeOK
    <2>4. cron' \in Crons
      BY <1>0, <1>5, <2>3 DEF EvalArm, EvalThrows, TypeOK, Crons
    <2>5. faults' \in Nat
      BY <1>5 DEF EvalArm, EvalThrows, Fault, TypeOK
    <2>6. UNCHANGED << now, world, sched, lock, swept, up, isSyncing, triggers >>
      BY <1>5 DEF EvalArm, EvalThrows
    <2> QED  BY <2>1, <2>2, <2>4, <2>5, <2>6 DEF TypeOK, world
  <1> QED  BY <1>1, <1>2, <1>3, <1>4, <1>5

LEMMA ProcessType ==
    ASSUME TypeOK, CronFires \/ Crash \/ Boot
    PROVE  TypeOK'
  <1>0. "cron" \in Callers
    BY DEF Callers
  <1>1. CASE CronFires
    <2>1. cron.tier \in Tiers
      BY <1>1 DEF CronFires, TypeOK, Crons
    <2>2. NextRun(cron.tier) \in Nat
      BY <2>1, NextRunSoon DEF TypeOK
    <2>3. cron' \in Crons
      BY <1>1, <2>2 DEF CronFires, TypeOK, Crons
    <2>4. /\ call' \in [Callers -> Calls]
          /\ isSyncing' \in BOOLEAN /\ running' \in BOOLEAN
      BY <1>0, <1>1, StartType DEF CronFires, TypeOK
    <2> QED  BY <1>1, <2>3, <2>4 DEF CronFires, TypeOK, world
  <1>2. CASE Crash
    <2>1. call' \in [Callers -> Calls]
      BY <1>2 DEF Crash, NoCall, Calls, Pcs, Tiers
    <2>2. cron' \in Crons /\ faults' \in Nat
      BY <1>2 DEF Crash, NoCron, Crons, Fault, TypeOK
    <2> QED  BY <1>2, <2>1, <2>2 DEF Crash, TypeOK, world
  <1>3. CASE Boot
    <2>1. NextRun(EffectiveTier) \in Nat
      BY EffectiveTierType, NextRunSoon DEF TypeOK
    <2>2. cron' \in Crons
      BY <1>3, <2>1, EffectiveTierType DEF Boot, Crons
    <2>3. /\ call' \in [Callers -> Calls]
          /\ isSyncing' \in BOOLEAN /\ running' \in BOOLEAN
      BY <1>0, <1>3, StartType DEF Boot, TypeOK
    <2> QED  BY <1>3, <2>2, <2>3 DEF Boot, TypeOK, world
  <1> QED  BY <1>1, <1>2, <1>3

LEMMA NextType == TypeOK /\ [Next]_vars => TypeOK'
  <1> SUFFICES ASSUME TypeOK, [Next]_vars PROVE TypeOK'
    OBVIOUS
  <1>1. CASE Environment
    BY <1>1, EnvironmentType
  <1>2. ASSUME NEW c \in Callers, Handler(c) PROVE TypeOK'
    BY <1>2, BumpType, RunType, EvalType DEF Handler
  <1>3. CASE CronFires \/ Crash \/ Boot
    BY <1>3, ProcessType
  <1>4. CASE UNCHANGED vars
    BY <1>4 DEF vars, TypeOK
  <1> QED  BY <1>1, <1>2, <1>3, <1>4 DEF Next

\* Every variable of the worker keeps its type: in particular the tiers it
\* reads, computes and writes are the three of the scheduler.
THEOREM TypeCorrect == Spec => []TypeOK
  BY InitType, NextType, PTL DEF Spec

----------------------------------------------------------------------------
(* Runs do not overlap.  isSyncing says whether a handler is between       *)
(* handleSync's test of it and its finally block, and one is at most.      *)

RunPcs == {"run", "create", "fetch", "finish"}
InRun(c) == call[c].pc \in RunPcs

OneInRun ==
    /\ \A c \in Callers : InRun(c) => isSyncing
    /\ \A c, d \in Callers : InRun(c) /\ InRun(d) => c = d

\* A step that puts nobody into a run and leaves isSyncing.
LEMMA NobodyEnters ==
    ASSUME OneInRun, UNCHANGED isSyncing,
           \A c \in Callers : InRun(c)' => InRun(c)
    PROVE  OneInRun'
  BY DEF OneInRun

\* A handler that starts or passes over the sync.
LEMMA StartEnters ==
    ASSUME TypeOK, OneInRun, NEW c \in Callers, StartSync(c)
    PROVE  OneInRun'
  <1>1. CASE isSyncing
    BY <1>1, NobodyEnters DEF StartSync, Goto, TypeOK, InRun, RunPcs, Calls
  <1>2. CASE ~isSyncing
    BY <1>2 DEF StartSync, Goto, TypeOK, OneInRun, InRun, RunPcs, Calls
  <1> QED  BY <1>1, <1>2

\* A handler that leaves the run alone lowers the flag.
LEMMA OneLeaves ==
    ASSUME TypeOK, OneInRun, NEW c \in Callers, InRun(c), Goto(c, "eval"), ~isSyncing'
    PROVE  OneInRun'
  BY DEF OneInRun, TypeOK, Goto, InRun, RunPcs, Calls

LEMMA NextOneInRun ==
    ASSUME TypeOK, OneInRun, [Next]_vars
    PROVE  OneInRun'
  <1>1. CASE Environment
    <2>1. ASSUME NEW c \in Triggers, Notify(c) PROVE OneInRun'
      BY <2>1, NobodyEnters DEF Notify, InRun, RunPcs, TypeOK, Callers, Calls
    <2>2. CASE UNCHANGED << isSyncing, call >>
      BY <2>2, NobodyEnters DEF InRun
    <2> QED  BY <1>1, <2>1, <2>2
             DEF Environment, Tick, StartSession, StopSession, TagChangeAges, Pin, Unpin,
                 procVars
  <1>2. ASSUME NEW c \in Callers, Handler(c) PROVE OneInRun'
    <2>1. CASE BumpActive(c) \/ BumpLoad(c)
      BY <2>1, NobodyEnters DEF BumpActive, BumpLoad, Goto, InRun, RunPcs, TypeOK, Calls
    <2>2. CASE BumpInstall(c) \/ BumpThrows(c)
      BY <2>2, StartEnters DEF BumpInstall, BumpThrows
    <2>3. CASE CheckLock(c) /\ lock.held /\ now - lock.since <= StaleAfter
      BY <2>3, OneLeaves DEF CheckLock, InRun, RunPcs
    <2>4. CASE \/ CheckLock(c) /\ ~(lock.held /\ now - lock.since <= StaleAfter)
               \/ CreateRun(c) \/ Fetch(c) \/ FetchFails(c)
      BY <2>4, NobodyEnters
         DEF CheckLock, CreateRun, Fetch, FetchFails, Goto, InRun, RunPcs, TypeOK, Calls
    <2>5. CASE RunThrows(c) \/ FinishRun(c)
      BY <2>5, OneLeaves DEF RunThrows, FinishRun, InRun, RunPcs
    <2>6. CASE \/ EvalLoad(c) \/ EvalProbe(c) \/ EvalProbeFails(c)
               \/ EvalWrite(c) \/ EvalWritePinned(c) \/ EvalArm(c) \/ EvalThrows(c)
      <3>1. /\ UNCHANGED isSyncing
            /\ \A d \in Callers : d # c => call'[d] = call[d]
        BY <2>6 DEF EvalLoad, EvalProbe, EvalProbeFails, Probed, EvalWrite,
                    EvalWritePinned, EvalArm, EvalThrows, EndCall, Goto, TypeOK
      <3>2. call'[c].pc \notin RunPcs
        <4>1. CASE EvalLoad(c)
          BY <4>1 DEF EvalLoad, RunPcs, TypeOK, Calls
        <4>2. CASE EvalProbe(c) \/ EvalProbeFails(c)
          <5>1. PICK active \in BOOLEAN, quiet \in BOOLEAN :
                   call' = [call EXCEPT ![c].pc = "write", ![c].active = active,
                                        ![c].quiet = quiet]
            BY <4>2, Zenon DEF EvalProbe, EvalProbeFails, Probed
          <5> QED  BY <5>1 DEF RunPcs, TypeOK, Calls
        <4>3. CASE EvalWrite(c) \/ EvalWritePinned(c)
          BY <4>3 DEF EvalWrite, EvalWritePinned, Goto, RunPcs, TypeOK, Calls
        <4>4. CASE EvalArm(c) \/ EvalThrows(c)
          <5>1. call' = [call EXCEPT ![c] = NoCall] /\ call \in [Callers -> Calls]
            BY <4>4 DEF EvalArm, EvalThrows, EndCall, TypeOK
          <5>2. NoCall.pc = "none"
            BY DEF NoCall
          <5> QED  BY <5>1, <5>2 DEF RunPcs
        <4> QED  BY <2>6, <4>1, <4>2, <4>3, <4>4
      <3> QED  BY <3>1, <3>2, NobodyEnters DEF InRun
    <2> QED  BY <1>2, <2>1, <2>2, <2>3, <2>4, <2>5, <2>6 DEF Handler
  <1>3. CASE CronFires \/ Boot
    BY <1>3, StartEnters, NobodyEnters DEF CronFires, Boot, Callers, InRun
  <1>4. CASE Crash
    BY <1>4 DEF Crash, NoCall, OneInRun, InRun, RunPcs
  <1>5. CASE UNCHANGED vars
    BY <1>5, NobodyEnters DEF vars, InRun
  <1> QED  BY <1>1, <1>2, <1>3, <1>4, <1>5 DEF Next

LEMMA InitOneInRun == Init => OneInRun
  BY DEF Init, NoCall, OneInRun, InRun, RunPcs

\* Two runs never overlap in one worker process: handleSync's flag is tested
\* and raised without an await in between, and lowered only by its holder.
THEOREM RunsNeverOverlap == Spec => []OneRunAtATime
  <1>1. OneInRun => OneRunAtATime
    BY DEF OneInRun, OneRunAtATime, InRun, RunPcs
  <1> QED  BY <1>1, InitOneInRun, NextOneInRun, TypeCorrect, PTL DEF Spec

----------------------------------------------------------------------------
(* What the flags say, and how far off the cron is.                        *)

EvalPcs == {"eval", "probe", "write", "pinned", "arm"}

FlagsInv ==
    /\ running <=> call["cron"].pc \in RunPcs \cup EvalPcs
    /\ isSyncing => \E c \in Callers : InRun(c)
    /\ ~up => \A c \in Callers : call[c].pc = "none"
    /\ up => cron.tier \in Tiers /\ cron.at <= now + Every["dormant"]

\* Every handler moves itself only, and leaves process and clock alone.
LEMMA HandlerMoves ==
    ASSUME TypeOK, NEW c \in Callers, Handler(c)
    PROVE  /\ \A d \in Callers : d # c => call'[d] = call[d]
           /\ call[c].pc # "none"
           /\ UNCHANGED << now, up >>
  <1>1. CASE BumpActive(c) \/ BumpLoad(c) \/ BumpInstall(c) \/ BumpThrows(c)
    BY <1>1 DEF BumpActive, BumpLoad, BumpInstall, BumpThrows, StartSync, Goto, TypeOK
  <1>2. CASE \/ CheckLock(c) \/ CreateRun(c) \/ RunThrows(c)
             \/ Fetch(c) \/ FetchFails(c) \/ FinishRun(c)
    BY <1>2 DEF CheckLock, CreateRun, RunThrows, Fetch, FetchFails, FinishRun, Goto, TypeOK
  <1>3. CASE \/ EvalLoad(c) \/ EvalProbe(c) \/ EvalProbeFails(c)
             \/ EvalWrite(c) \/ EvalWritePinned(c) \/ EvalArm(c) \/ EvalThrows(c)
    BY <1>3 DEF EvalLoad, EvalProbe, EvalProbeFails, Probed, EvalWrite, EvalWritePinned,
                EvalArm, EvalThrows, EndCall, Goto, TypeOK
  <1> QED  BY <1>1, <1>2, <1>3 DEF Handler

\* Where StartSync leaves its handler.
LEMMA StartMoves ==
    ASSUME TypeOK, NEW c \in Callers, StartSync(c)
    PROVE  /\ \A d \in Callers : d # c => call'[d] = call[d]
           /\ isSyncing => call'[c].pc = "none" /\ isSyncing'
           /\ ~isSyncing => call'[c].pc = "run" /\ isSyncing'
           /\ c = "cron" => (running' <=> ~isSyncing)
           /\ c # "cron" => running' = running
  <1>1. \A d \in Callers : d # c => call'[d] = call[d]
    BY DEF StartSync, Goto, TypeOK
  <1>2. isSyncing => call'[c].pc = "none" /\ isSyncing'
    BY DEF StartSync, Goto, TypeOK, Calls
  <1>3. ~isSyncing => call'[c].pc = "run" /\ isSyncing'
    BY DEF StartSync, Goto, TypeOK, Calls
  <1>4. /\ c = "cron" => (running' <=> ~isSyncing)
        /\ c # "cron" => running' = running
    BY Zenon DEF StartSync
  <1> QED  BY <1>1, <1>2, <1>3, <1>4

\* Where an evaluation leaves it.
LEMMA EvalMoves ==
    ASSUME TypeOK, NEW c \in Callers,
           \/ EvalLoad(c) \/ EvalProbe(c) \/ EvalProbeFails(c)
           \/ EvalWrite(c) \/ EvalWritePinned(c)
    PROVE  /\ call[c].pc \in EvalPcs /\ call'[c].pc \in EvalPcs
           /\ UNCHANGED << running, isSyncing, cron, lock >>
  <1>1. CASE EvalLoad(c)
    BY <1>1 DEF EvalLoad, EvalPcs, TypeOK, Calls
  <1>2. CASE EvalProbe(c) \/ EvalProbeFails(c)
    <2>1. PICK active \in BOOLEAN, quiet \in BOOLEAN :
             call' = [call EXCEPT ![c].pc = "write", ![c].active = active,
                                  ![c].quiet = quiet]
      BY <1>2, Zenon DEF EvalProbe, EvalProbeFails, Probed
    <2>2. call[c].pc = "probe" /\ UNCHANGED << running, isSyncing, cron, lock >>
      BY <1>2 DEF EvalProbe, EvalProbeFails, Probed
    <2> QED  BY <2>1, <2>2 DEF EvalPcs, TypeOK, Calls
  <1>3. CASE EvalWrite(c) \/ EvalWritePinned(c)
    BY <1>3 DEF EvalWrite, EvalWritePinned, Goto, EvalPcs, TypeOK, Calls
  <1> QED  BY <1>1, <1>2, <1>3

\* ... and the end of a call.
LEMMA EndMoves ==
    ASSUME TypeOK, NEW c \in Callers, EndCall(c)
    PROVE  /\ call'[c].pc = "none"
           /\ c = "cron" => ~running'
           /\ c # "cron" => running' = running
  <1>1. call' = [call EXCEPT ![c] = NoCall] /\ call \in [Callers -> Calls]
    BY DEF EndCall, TypeOK
  <1>2. NoCall.pc = "none"
    BY DEF NoCall
  <1>3. call'[c].pc = "none"
    BY <1>1, <1>2
  <1> QED  BY <1>3 DEF EndCall

\* A handler outside a run that starts or passes over the sync leaves a run
\* in progress, its own or the one that made it pass.
LEMMA StartBusy ==
    ASSUME TypeOK, FlagsInv, NEW c \in Callers, ~InRun(c), StartSync(c)
    PROVE  isSyncing' /\ \E d \in Callers : InRun(d)'
  <1>1. CASE isSyncing
    <2>1. PICK d \in Callers : InRun(d)
      BY <1>1 DEF FlagsInv
    <2>2. InRun(d)'
      BY <2>1, StartMoves DEF InRun
    <2> QED  BY <1>1, <2>2, StartMoves
  <1>2. CASE ~isSyncing
    <2>1. InRun(c)' /\ isSyncing'
      BY <1>2, StartMoves DEF InRun, RunPcs
    <2> QED  BY <2>1
  <1> QED  BY <1>1, <1>2

\* The cron flag after StartSync.
LEMMA StartRunning ==
    ASSUME TypeOK, FlagsInv, NEW c \in Callers, StartSync(c)
    PROVE  running' <=> call'["cron"].pc \in RunPcs \cup EvalPcs
  <1>0. "cron" \in Callers
    BY DEF Callers
  <1>1. CASE c = "cron"
    <2>1. CASE isSyncing
      <3>1. call'["cron"].pc = "none" /\ ~running'
        BY <1>1, <2>1, StartMoves
      <3> QED  BY <3>1 DEF RunPcs, EvalPcs
    <2>2. CASE ~isSyncing
      <3>1. call'["cron"].pc = "run" /\ running'
        BY <1>1, <2>2, StartMoves
      <3> QED  BY <3>1 DEF RunPcs, EvalPcs
    <2> QED  BY <2>1, <2>2
  <1>2. CASE c # "cron"
    <2>1. running' = running /\ call'["cron"] = call["cron"]
      BY <1>0, <1>2, StartMoves
    <2> QED  BY <2>1 DEF FlagsInv
  <1> QED  BY <1>1, <1>2

LEMMA InitFlags == Init => FlagsInv
  <1> SUFFICES ASSUME Init PROVE FlagsInv
    OBVIOUS
  <1>1. \A c \in Callers : call[c].pc = "none"
    BY DEF Init, NoCall
  <1>2. running <=> call["cron"].pc \in RunPcs \cup EvalPcs
    BY <1>1 DEF Init, Callers, RunPcs, EvalPcs
  <1>3. cron.tier \in Tiers /\ cron.at <= now + Every["dormant"]
    BY PeriodAssumption DEF Init, Tiers
  <1> QED  BY <1>1, <1>2, <1>3 DEF Init, FlagsInv

\* A handler that stays on its side of the run, flags and cron alone.
LEMMA StayFlags ==
    ASSUME TypeOK, FlagsInv, NEW c \in Callers, Handler(c),
           UNCHANGED << running, isSyncing, cron >>,
           InRun(c) => InRun(c)',
           call[c].pc \in RunPcs \cup EvalPcs <=> call'[c].pc \in RunPcs \cup EvalPcs
    PROVE  FlagsInv'
  <1>1. "cron" \in Callers
    BY DEF Callers
  <1>2. running' <=> call'["cron"].pc \in RunPcs \cup EvalPcs
    <2>1. CASE c = "cron"
      BY <2>1 DEF FlagsInv
    <2>2. CASE c # "cron"
      <3>1. call'["cron"] = call["cron"]
        BY <1>1, <2>2, HandlerMoves
      <3> QED  BY <3>1 DEF FlagsInv
    <2> QED  BY <2>1, <2>2
  <1>3. isSyncing' => \E d \in Callers : InRun(d)'
    <2>1. ASSUME NEW d \in Callers, InRun(d) PROVE InRun(d)'
      BY <2>1, HandlerMoves DEF InRun
    <2> QED  BY <2>1 DEF FlagsInv
  <1>4. up /\ up' /\ now' = now
    BY HandlerMoves DEF FlagsInv
  <1> QED  BY <1>2, <1>3, <1>4 DEF FlagsInv

\* The end of a run, whichever way: the flag falls, the evaluation follows.
LEMMA LeaveFlags ==
    ASSUME TypeOK, FlagsInv, NEW c \in Callers, Handler(c), InRun(c),
           Goto(c, "eval"), ~isSyncing', UNCHANGED << running, cron >>
    PROVE  FlagsInv'
  <1>1. "cron" \in Callers
    BY DEF Callers
  <1>2. call'[c].pc = "eval"
    BY DEF Goto, TypeOK, Calls
  <1>3. running' <=> call'["cron"].pc \in RunPcs \cup EvalPcs
    <2>1. CASE c = "cron"
      <3>1. running
        BY <2>1 DEF FlagsInv, InRun
      <3> QED  BY <1>2, <2>1, <3>1 DEF EvalPcs
    <2>2. CASE c # "cron"
      <3>1. call'["cron"] = call["cron"]
        BY <1>1, <2>2, HandlerMoves
      <3> QED  BY <3>1 DEF FlagsInv
    <2> QED  BY <2>1, <2>2
  <1>4. up /\ up' /\ now' = now
    BY HandlerMoves DEF FlagsInv
  <1> QED  BY <1>3, <1>4 DEF FlagsInv

LEMMA HandlerFlags ==
    ASSUME TypeOK, FlagsInv, NEW c \in Callers, Handler(c)
    PROVE  FlagsInv'
  <1>0. /\ up /\ up' /\ now' = now /\ now \in Nat
        /\ "cron" \in Callers
        /\ \A d \in Callers : d # c => call'[d] = call[d]
        /\ call[c].tier \in Tiers
    BY HandlerMoves DEF FlagsInv, TypeOK, Callers, Calls
  <1>1. CASE BumpActive(c) \/ BumpLoad(c)
    <2>1. /\ call[c].pc \in {"bump", "load"} /\ call'[c].pc \in {"load", "install"}
          /\ UNCHANGED << running, isSyncing, cron >>
      BY <1>1 DEF BumpActive, BumpLoad, Goto, TypeOK, Calls
    <2>2. InRun(c) => InRun(c)'
      BY <2>1 DEF InRun, RunPcs
    <2>3. call[c].pc \in RunPcs \cup EvalPcs <=> call'[c].pc \in RunPcs \cup EvalPcs
      BY <2>1 DEF RunPcs, EvalPcs
    <2> QED  BY <2>1, <2>2, <2>3, StayFlags
  <1>2. CASE BumpInstall(c) \/ BumpThrows(c)
    <2>1. /\ StartSync(c) /\ call[c].pc \in {"bump", "load", "install"}
          /\ cron' \in {cron, [tier |-> call[c].tier, at |-> NextRun(call[c].tier)]}
      BY <1>2 DEF BumpInstall, BumpThrows
    <2>2. ~InRun(c)
      BY <2>1 DEF InRun, RunPcs
    <2>3. cron'.tier \in Tiers /\ cron'.at <= now + Every["dormant"]
      BY <1>0, <2>1, NextRunSoon DEF FlagsInv
    <2> QED  BY <1>0, <2>1, <2>2, <2>3, StartBusy, StartRunning DEF FlagsInv
  <1>3. CASE CheckLock(c) /\ lock.held /\ now - lock.since <= StaleAfter
    BY <1>3, LeaveFlags DEF CheckLock, InRun, RunPcs
  <1>4. CASE RunThrows(c) \/ FinishRun(c)
    BY <1>4, LeaveFlags DEF RunThrows, FinishRun, InRun, RunPcs
  <1>5. CASE \/ CheckLock(c) /\ ~(lock.held /\ now - lock.since <= StaleAfter)
             \/ CreateRun(c) \/ Fetch(c) \/ FetchFails(c)
    <2>1. /\ call[c].pc \in RunPcs /\ call'[c].pc \in RunPcs
          /\ UNCHANGED << running, isSyncing, cron >>
      BY <1>5 DEF CheckLock, CreateRun, Fetch, FetchFails, Goto, TypeOK, Calls, RunPcs
    <2> QED  BY <2>1, StayFlags DEF InRun
  <1>6. CASE \/ EvalLoad(c) \/ EvalProbe(c) \/ EvalProbeFails(c)
             \/ EvalWrite(c) \/ EvalWritePinned(c)
    <2>1. /\ call[c].pc \in EvalPcs /\ call'[c].pc \in EvalPcs
          /\ UNCHANGED << running, isSyncing, cron >>
      BY <1>6, EvalMoves
    <2>2. ~InRun(c)
      BY <2>1 DEF InRun, RunPcs, EvalPcs
    <2> QED  BY <2>1, <2>2, StayFlags
  <1>7. CASE EvalArm(c) \/ EvalThrows(c)
    <2>1. /\ EndCall(c) /\ call[c].pc \in EvalPcs /\ isSyncing' = isSyncing
          /\ cron' \in {cron, [tier |-> call[c].tier, at |-> NextRun(call[c].tier)]}
      BY <1>7 DEF EvalArm, EvalThrows, EvalPcs
    <2>2. cron'.tier \in Tiers /\ cron'.at <= now + Every["dormant"]
      BY <1>0, <2>1, NextRunSoon DEF FlagsInv
    <2>3. running' <=> call'["cron"].pc \in RunPcs \cup EvalPcs
      <3>1. CASE c = "cron"
        <4>1. ~running' /\ call'["cron"].pc = "none"
          BY <2>1, <3>1, EndMoves
        <4> QED  BY <4>1 DEF RunPcs, EvalPcs
      <3>2. CASE c # "cron"
        <4>1. running' = running /\ call'["cron"] = call["cron"]
          BY <1>0, <2>1, <3>2, EndMoves
        <4> QED  BY <4>1 DEF FlagsInv
      <3> QED  BY <3>1, <3>2
    <2>4. isSyncing' => \E d \in Callers : InRun(d)'
      <3>1. ~InRun(c)
        BY <2>1 DEF InRun, RunPcs, EvalPcs
      <3>2. ASSUME NEW d \in Callers, InRun(d) PROVE InRun(d)'
        BY <1>0, <3>1, <3>2 DEF InRun
      <3> QED  BY <2>1, <3>2 DEF FlagsInv
    <2> QED  BY <1>0, <2>2, <2>3, <2>4 DEF FlagsInv
  <1> QED  BY <1>1, <1>2, <1>3, <1>4, <1>5, <1>6, <1>7 DEF Handler

LEMMA NextFlags ==
    ASSUME TypeOK, FlagsInv, [Next]_vars
    PROVE  FlagsInv'
  <1>0. /\ now \in Nat /\ "cron" \in Callers /\ cron \in Crons
        /\ Every["dormant"] \in Nat
    BY PeriodAssumption DEF TypeOK, Callers, Tiers
  <1>1. CASE Environment
    <2>1. CASE UNCHANGED procVars
      <3>1. now' = now \/ now' = now + 1
        BY <1>1, <2>1 DEF Environment, Tick, StartSession, StopSession, TagChangeAges, Pin,
                          Unpin, Notify
      <3>2. up' => cron'.tier \in Tiers /\ cron'.at <= now' + Every["dormant"]
        BY <1>0, <2>1, <3>1 DEF FlagsInv, procVars, Crons
      <3> QED  BY <2>1, <3>2 DEF FlagsInv, procVars, InRun
    <2>2. ASSUME NEW c \in Triggers, Notify(c), up PROVE FlagsInv'
      <3>1. /\ c \in Callers /\ call[c].pc = "none"
            /\ call' = [call EXCEPT ![c].pc = "bump"]
            /\ UNCHANGED << now, up, cron, isSyncing, running >>
        BY <2>2 DEF Notify, Callers
      <3>2. /\ \A d \in Callers : d # c => call'[d] = call[d]
            /\ call'[c].pc = "bump"
        BY <3>1 DEF TypeOK, Calls
      <3>3. \A d \in Callers : /\ call'[d].pc \in RunPcs <=> call[d].pc \in RunPcs
                               /\ call'[d].pc \in EvalPcs <=> call[d].pc \in EvalPcs
        BY <3>1, <3>2 DEF RunPcs, EvalPcs
      <3> QED  BY <1>0, <2>2, <3>1, <3>3 DEF FlagsInv, InRun
    <2> QED  BY <1>1, <2>1, <2>2
             DEF Environment, Tick, StartSession, StopSession, TagChangeAges, Pin, Unpin,
                 Notify, procVars
  <1>2. ASSUME NEW c \in Callers, Handler(c) PROVE FlagsInv'
    BY <1>2, HandlerFlags
  <1>3. CASE CronFires
    <2>1. /\ up /\ up' /\ now' = now /\ cron.tier \in Tiers
          /\ cron' = [cron EXCEPT !.at = NextRun(cron.tier)]
      BY <1>3 DEF CronFires, FlagsInv
    <2>2. cron'.tier \in Tiers /\ cron'.at <= now' + Every["dormant"]
      BY <1>0, <2>1, NextRunSoon DEF Crons
    <2>3. CASE running
      <3>1. UNCHANGED << call, isSyncing, running >>
        BY <1>3, <2>3 DEF CronFires
      <3> QED  BY <2>1, <2>2, <3>1 DEF FlagsInv, InRun
    <2>4. CASE ~running
      <3>1. StartSync("cron") /\ ~InRun("cron")
        BY <1>3, <2>4 DEF CronFires, FlagsInv, InRun
      <3> QED  BY <1>0, <2>1, <2>2, <3>1, StartBusy, StartRunning DEF FlagsInv
    <2> QED  BY <2>3, <2>4
  <1>4. CASE Boot
    <2>1. /\ ~up /\ now' = now
          /\ cron' = [tier |-> EffectiveTier, at |-> NextRun(EffectiveTier)]
      BY <1>4 DEF Boot
    <2>2. cron'.tier \in Tiers /\ cron'.at <= now' + Every["dormant"] /\ up'
      BY <1>0, <1>4, <2>1, NextRunSoon, EffectiveTierType DEF Boot
    <2>3. CASE UNCHANGED << call, isSyncing, running >>
      BY <2>2, <2>3 DEF FlagsInv, InRun
    <2>4. CASE StartSync("cron")
      <3>1. ~InRun("cron")
        BY <1>0, <2>1 DEF FlagsInv, InRun, RunPcs
      <3> QED  BY <1>0, <2>2, <2>4, <3>1, StartBusy, StartRunning DEF FlagsInv
    <2> QED  BY <1>4, <2>3, <2>4 DEF Boot
  <1>5. CASE Crash
    <2>1. /\ \A c \in Callers : call'[c].pc = "none"
          /\ ~up' /\ ~isSyncing' /\ ~running'
      BY <1>5 DEF Crash, NoCall
    <2> QED  BY <1>0, <2>1 DEF FlagsInv, RunPcs, EvalPcs
  <1>6. CASE UNCHANGED vars
    BY <1>6 DEF vars, FlagsInv, InRun
  <1> QED  BY <1>1, <1>2, <1>3, <1>4, <1>5, <1>6 DEF Next

----------------------------------------------------------------------------
(* How long an abandoned run keeps others out.  A row can be left behind   *)
(* by a fault only, and each fault buys it one Dormant period more.        *)

\* The last moment the row may still say "running".
Reach == lock.since + StaleAfter + faults * Every["dormant"]

\* A handler owns the row, or there is a period to spare, or the cron comes
\* in time and no evaluation is about to move it.
Busy == \E c \in Callers : InRun(c)
Fine == now + Every["dormant"] <= Reach
Safe == /\ up /\ cron.at <= Reach
        /\ \A c \in Callers : call[c].pc \notin EvalPcs

LockInv ==
    lock.held =>
        /\ now <= Reach
        /\ Busy \/ Fine \/ Safe
        /\ faults >= 1 \/ \E c \in Callers : call[c].pc \in {"fetch", "finish"}

LEMMA ReachType ==
    ASSUME TypeOK
    PROVE  /\ Reach \in Nat /\ Every["dormant"] \in Nat
           /\ lock.since + StaleAfter <= Reach
           /\ faults >= 1 => lock.since + StaleAfter + Every["dormant"] <= Reach
           /\ lock' = lock /\ faults' = faults + 1 => Reach' = Reach + Every["dormant"]
  <1>1. /\ Every["dormant"] \in Nat /\ lock.since \in Nat
        /\ StaleAfter \in Nat /\ faults \in Nat
    BY PeriodAssumption, LimitAssumption DEF TypeOK, Tiers
  <1> DEFINE E == Every["dormant"]
  <1> HIDE DEF E
  <1>2. E \in Nat /\ E = Every["dormant"]
    BY <1>1 DEF E
  <1>3. faults * E \in Nat /\ (faults + 1) * E = faults * E + E
    BY <1>1, <1>2
  <1>4. faults >= 1 => faults * E >= E
    <2>1. ASSUME NEW k \in Nat PROVE (k + 1) * E >= E
      <3>1. k * E \in Nat /\ (k + 1) * E = k * E + E
        BY <1>2
      <3> QED  BY <1>2, <3>1
    <2> SUFFICES ASSUME faults >= 1 PROVE faults * E >= E
      OBVIOUS
    <2>2. faults - 1 \in Nat /\ (faults - 1) + 1 = faults
      BY <1>1
    <2> QED  BY <2>1, <2>2
  <1>5. Reach = lock.since + StaleAfter + faults * E
    BY <1>2 DEF Reach
  <1>6. lock' = lock /\ faults' = faults + 1
        => Reach' = lock.since + StaleAfter + (faults + 1) * E
    BY <1>2 DEF Reach
  <1>7. PICK n \in Nat : n = faults * E /\ (faults + 1) * E = n + E
    BY <1>3
  <1>8. faults >= 1 => n >= E
    BY <1>4, <1>7
  <1>9. Reach = lock.since + StaleAfter + n
    BY <1>5, <1>7
  <1>10. lock' = lock /\ faults' = faults + 1
         => Reach' = lock.since + StaleAfter + (n + E)
    BY <1>6, <1>7
  <1>11. Reach \in Nat /\ lock.since + StaleAfter <= Reach
    BY <1>1, <1>7, <1>9
  <1>12. faults >= 1 => lock.since + StaleAfter + E <= Reach
    BY <1>1, <1>2, <1>7, <1>8, <1>9
  <1>13. lock' = lock /\ faults' = faults + 1 => Reach' = Reach + E
    BY <1>1, <1>2, <1>7, <1>9, <1>10
  <1> QED  BY <1>1, <1>2, <1>11, <1>12, <1>13

\* A fault that leaves the row alone.
LEMMA FaultLock ==
    ASSUME TypeOK, LockInv, lock' = lock, now' = now, faults' = faults + 1
    PROVE  LockInv'
  <1> SUFFICES ASSUME lock.held PROVE LockInv'
    BY DEF LockInv
  <1>1. Reach' = Reach + Every["dormant"] /\ now <= Reach
    BY ReachType DEF LockInv
  <1>2. /\ Reach \in Nat /\ Every["dormant"] \in Nat
        /\ now \in Nat /\ faults \in Nat
    BY ReachType DEF TypeOK
  <1>3. now' <= Reach' /\ Fine' /\ faults' >= 1
    BY <1>1, <1>2 DEF Fine
  <1> QED  BY <1>3 DEF LockInv

\* A step of the event loop that moves no clock, row or fault, keeps the
\* owner of the row, and does no worse for Busy, Fine or Safe.
LEMMA StepLock ==
    ASSUME TypeOK, LockInv, lock' = lock, now' = now, faults' = faults,
           Busy \/ Fine \/ Safe => Busy' \/ Fine' \/ Safe',
           \A c \in Callers : call[c].pc \in {"fetch", "finish"}
                              => call'[c].pc \in {"fetch", "finish"}
    PROVE  LockInv'
  <1>1. Reach' = Reach
    BY DEF Reach
  <1> QED  BY <1>1 DEF LockInv

\* A handler that starts or passes over the sync.
LEMMA StartLock ==
    ASSUME TypeOK, FlagsInv, LockInv, NEW c \in Callers, ~InRun(c), StartSync(c),
           lock' = lock, now' = now, faults' = faults
    PROVE  LockInv'
  <1>1. Busy'
    BY StartBusy DEF Busy
  <1>2. \A d \in Callers : call[d].pc \in {"fetch", "finish"}
                           => call'[d].pc \in {"fetch", "finish"}
    BY StartMoves DEF InRun, RunPcs
  <1> QED  BY <1>1, <1>2, StepLock

\* An evaluation that is not cut short: whatever let it begin still holds.
LEMMA EvalLock ==
    ASSUME TypeOK, LockInv, NEW c \in Callers, Handler(c), call[c].pc \in EvalPcs,
           lock' = lock, faults' = faults
    PROVE  LockInv'
  <1>1. /\ now' = now /\ c \in Callers
        /\ \A d \in Callers : d # c => call'[d] = call[d]
    BY HandlerMoves
  <1>2. ~InRun(c) /\ ~Safe
    BY DEF InRun, RunPcs, EvalPcs, Safe
  <1>3. Busy => Busy'
    <2>1. ASSUME NEW d \in Callers, InRun(d) PROVE InRun(d)'
      BY <1>1, <1>2, <2>1 DEF InRun
    <2> QED  BY <2>1 DEF Busy
  <1>4. Fine => Fine'
    BY <1>1 DEF Fine, Reach
  <1>5. \A d \in Callers : call[d].pc \in {"fetch", "finish"}
                           => call'[d].pc \in {"fetch", "finish"}
    BY <1>1 DEF EvalPcs
  <1> QED  BY <1>1, <1>2, <1>3, <1>4, <1>5, StepLock

LEMMA HandlerLock ==
    ASSUME TypeOK, FlagsInv, OneInRun, LockInv, NEW c \in Callers, Handler(c)
    PROVE  LockInv'
  <1>0. /\ now' = now /\ up' = up
        /\ \A d \in Callers : d # c => call'[d] = call[d]
    BY HandlerMoves
  <1>1. CASE BumpActive(c) \/ BumpLoad(c)
    <2>1. /\ call[c].pc \in {"bump", "load"} /\ call'[c].pc \in {"load", "install"}
          /\ UNCHANGED << lock, cron, faults >>
      BY <1>1 DEF BumpActive, BumpLoad, Goto, TypeOK, Calls
    <2>2. \A d \in Callers : /\ InRun(d) => InRun(d)'
                             /\ call[d].pc \notin EvalPcs => call'[d].pc \notin EvalPcs
                             /\ call[d].pc \in {"fetch", "finish"}
                                => call'[d].pc \in {"fetch", "finish"}
      BY <1>0, <2>1 DEF InRun, RunPcs, EvalPcs
    <2>3. Busy \/ Fine \/ Safe => Busy' \/ Fine' \/ Safe'
      BY <1>0, <2>1, <2>2 DEF Busy, Fine, Safe, Reach
    <2> QED  BY <1>0, <2>1, <2>2, <2>3, StepLock
  <1>2. CASE BumpInstall(c)
    BY <1>0, <1>2, StartLock DEF BumpInstall, InRun, RunPcs
  <1>3. CASE BumpThrows(c) \/ RunThrows(c) \/ FetchFails(c) \/ EvalThrows(c)
    BY <1>0, <1>3, FaultLock DEF BumpThrows, RunThrows, FetchFails, EvalThrows, Fault
  <1>4. CASE CheckLock(c) /\ lock.held /\ now - lock.since <= StaleAfter
    <2>1. InRun(c) /\ call[c].pc = "run"
      BY <1>4 DEF CheckLock, InRun, RunPcs
    <2>2. faults >= 1
      <3>1. \A d \in Callers : call[d].pc \notin {"fetch", "finish"}
        BY <2>1 DEF OneInRun, InRun, RunPcs
      <3> QED  BY <1>4, <3>1 DEF LockInv
    <2>3. Fine /\ now <= Reach
      <3>1. /\ now \in Nat /\ lock.since \in Nat /\ StaleAfter \in Nat
            /\ Reach \in Nat /\ Every["dormant"] \in Nat
            /\ lock.since + StaleAfter + Every["dormant"] <= Reach
        BY <2>2, ReachType, LimitAssumption DEF TypeOK
      <3> QED  BY <1>4, <3>1 DEF Fine
    <2>4. UNCHANGED << lock, faults >>
      BY <1>4 DEF CheckLock
    <2>5. Fine' /\ now' <= Reach' /\ faults' >= 1
      BY <1>0, <2>2, <2>3, <2>4 DEF Fine, Reach
    <2> QED  BY <2>5 DEF LockInv
  <1>5. CASE CheckLock(c) /\ ~(lock.held /\ now - lock.since <= StaleAfter)
    BY <1>5 DEF CheckLock, NoLock, LockInv
  <1>6. CASE FinishRun(c)
    BY <1>6 DEF FinishRun, NoLock, LockInv
  <1>7. CASE CreateRun(c)
    <2>1. lock'.since = now /\ faults' = faults /\ call'[c].pc = "fetch"
      BY <1>7 DEF CreateRun, Goto, TypeOK, Calls
    <2>2. InRun(c)'
      BY <2>1 DEF InRun, RunPcs
    <2>3. now' <= Reach'
      <3>1. /\ now \in Nat /\ StaleAfter \in Nat /\ faults \in Nat
            /\ Every["dormant"] \in Nat
        BY PeriodAssumption, LimitAssumption DEF TypeOK, Tiers
      <3>2. PICK n \in Nat : n = faults * Every["dormant"]
        BY <3>1
      <3>3. Reach' = now + StaleAfter + n
        BY <2>1, <3>2 DEF Reach
      <3> QED  BY <1>0, <3>1, <3>3
    <2> QED  BY <2>1, <2>2, <2>3 DEF LockInv, Busy
  <1>8. CASE Fetch(c)
    <2>1. /\ call'[c].pc = "finish" /\ UNCHANGED << lock, faults >>
      BY <1>8 DEF Fetch, Goto, TypeOK, Calls
    <2>2. Busy'
      BY <2>1 DEF Busy, InRun, RunPcs
    <2> QED  BY <1>0, <2>1, <2>2, StepLock
  <1>9. CASE EvalLoad(c) \/ EvalProbe(c) \/ EvalWrite(c) \/ EvalWritePinned(c) \/ EvalArm(c)
    <2>1. call[c].pc \in EvalPcs /\ UNCHANGED << lock, faults >>
      BY <1>9 DEF EvalLoad, EvalProbe, Probed, EvalWrite, EvalWritePinned, EvalArm, EvalPcs
    <2> QED  BY <2>1, EvalLock
  <1>10. CASE EvalProbeFails(c)
    BY <1>0, <1>10, FaultLock DEF EvalProbeFails, Probed, Fault
  <1> QED  BY <1>1, <1>2, <1>3, <1>4, <1>5, <1>6, <1>7, <1>8, <1>9, <1>10 DEF Handler

LEMMA NextLock ==
    ASSUME TypeOK, FlagsInv, OneInRun, LockInv, [Next]_vars
    PROVE  LockInv'
  <1>0. "cron" \in Callers
    BY DEF Callers
  <1>1. CASE Tick
    <2> SUFFICES ASSUME lock.held PROVE LockInv'
      BY <1>1 DEF Tick, LockInv
    <2>1. \A c \in Callers : call[c].pc = "none"
      BY <1>1 DEF Tick, Quiescent
    <2>2. ~Busy /\ faults >= 1
      BY <2>1 DEF Busy, InRun, RunPcs, LockInv
    <2>3. up /\ cron.tier # NoTier /\ now < cron.at /\ cron.at <= now + Every["dormant"]
      BY <1>1, NoTierAssumption DEF Tick, FlagsInv
    <2>4. /\ now \in Nat /\ cron.at \in Nat /\ Reach \in Nat
          /\ Every["dormant"] \in Nat
      BY ReachType DEF TypeOK, Crons
    <2>5. cron.at <= Reach
      BY <2>2, <2>3, <2>4 DEF LockInv, Fine, Safe
    <2>6. now' = now + 1 /\ UNCHANGED << lock, faults, up, cron, call >>
      BY <1>1 DEF Tick, procVars
    <2>7. Reach' = Reach
      BY <2>6 DEF Reach
    <2>8. now' <= Reach'
      BY <2>3, <2>4, <2>5, <2>6, <2>7
    <2>9. Safe'
      BY <2>1, <2>3, <2>5, <2>6, <2>7 DEF Safe, EvalPcs
    <2> QED  BY <2>2, <2>6, <2>8, <2>9 DEF LockInv
  <1>2. CASE Environment /\ ~Tick
    <2>1. CASE UNCHANGED << now, lock, faults, procVars >>
      BY <2>1 DEF LockInv, Busy, Fine, Safe, Reach, InRun, procVars
    <2>2. ASSUME NEW c \in Triggers, Notify(c) PROVE LockInv'
      <3>1. UNCHANGED << now, lock, faults, up, cron >>
        BY <2>2 DEF Notify
      <3>2. \A d \in Callers : /\ InRun(d) => InRun(d)'
                               /\ call[d].pc \notin EvalPcs => call'[d].pc \notin EvalPcs
                               /\ call[d].pc \in {"fetch", "finish"}
                                  => call'[d].pc \in {"fetch", "finish"}
        BY <2>2 DEF Notify, InRun, RunPcs, EvalPcs, TypeOK, Calls, Callers
      <3>3. Busy \/ Fine \/ Safe => Busy' \/ Fine' \/ Safe'
        BY <3>1, <3>2 DEF Busy, Fine, Safe, Reach
      <3> QED  BY <3>1, <3>2, <3>3, StepLock
    <2> QED  BY <1>2, <2>1, <2>2
             DEF Environment, StartSession, StopSession, TagChangeAges, Pin, Unpin
  <1>3. ASSUME NEW c \in Callers, Handler(c) PROVE LockInv'
    BY <1>3, HandlerLock
  <1>4. CASE CronFires
    <2>1. UNCHANGED << now, lock, faults, up >>
      BY <1>4 DEF CronFires
    <2>2. CASE running
      <3>1. call' = call
        BY <1>4, <2>2 DEF CronFires
      <3>2. Busy \/ Fine \/ Safe => Busy' \/ Fine'
        <4>1. call["cron"].pc \in RunPcs \cup EvalPcs
          BY <2>2 DEF FlagsInv
        <4>2. Safe => Busy
          BY <1>0, <4>1 DEF Safe, Busy, InRun
        <4>3. (Busy => Busy') /\ (Fine => Fine')
          BY <2>1, <3>1 DEF Busy, InRun, Fine, Reach
        <4> QED  BY <4>2, <4>3
      <3> QED  BY <2>1, <3>1, <3>2, StepLock
    <2>3. CASE ~running
      <3>1. StartSync("cron") /\ ~InRun("cron")
        BY <1>4, <2>3 DEF CronFires, FlagsInv, InRun
      <3> QED  BY <1>0, <2>1, <3>1, StartLock
    <2> QED  BY <2>2, <2>3
  <1>5. CASE Boot
    <2>1. ~up /\ UNCHANGED << now, lock, faults >>
      BY <1>5 DEF Boot
    <2>2. ~Busy /\ ~Safe
      BY <2>1 DEF FlagsInv, Busy, Safe, InRun, RunPcs
    <2>3. CASE UNCHANGED << call, isSyncing, running >>
      <3>1. Fine => Fine'
        BY <2>1 DEF Fine, Reach
      <3> QED  BY <2>1, <2>2, <2>3, <3>1, StepLock
    <2>4. CASE StartSync("cron")
      BY <1>0, <2>1, <2>2, <2>4, StartLock DEF Busy
    <2> QED  BY <1>5, <2>3, <2>4 DEF Boot
  <1>6. CASE Crash
    BY <1>6, FaultLock DEF Crash, Fault
  <1>7. CASE UNCHANGED vars
    BY <1>7 DEF vars, LockInv, Busy, Fine, Safe, Reach, InRun
  <1> QED  BY <1>1, <1>2, <1>3, <1>4, <1>5, <1>6, <1>7 DEF Next

\* A "running" row in sync_runs whose worker died keeps the next runs out no
\* longer than the stale timeout and, for each fault, one Dormant period.
THEOREM AbandonedRunsExpire == Spec => []AbandonedLockBounded
  <1>1. Init => LockInv
    BY DEF Init, LockInv, NoLock
  <1>2. TypeOK /\ LockInv => AbandonedLockBounded
    <2> SUFFICES ASSUME TypeOK, LockInv, lock.held
                 PROVE  now - lock.since <= StaleAfter + faults * Every["dormant"]
      BY DEF AbandonedLockBounded
    <2>1. /\ now \in Nat /\ lock.since \in Nat /\ StaleAfter \in Nat /\ faults \in Nat
          /\ Every["dormant"] \in Nat
      BY PeriodAssumption, LimitAssumption DEF TypeOK, Tiers
    <2>2. PICK n \in Nat : n = faults * Every["dormant"]
      BY <2>1
    <2>3. now <= lock.since + StaleAfter + n
      BY <2>2 DEF LockInv, Reach
    <2>4. now - lock.since <= StaleAfter + n
      BY <2>1, <2>2, <2>3
    <2> QED  BY <2>2, <2>4
  <1> QED  BY <1>1, <1>2, InitType, NextType, InitOneInRun, NextOneInRun, InitFlags,
              NextFlags, NextLock, PTL DEF Spec

----------------------------------------------------------------------------
(* No session leaves the lookback window.  Every tier's cron keeps to the  *)
(* grid of Dormant periods, so that a fault costs one period at the most.  *)

\* The first moment of the grid after n.
Week(n) == (n \div Every["dormant"] + 1) * Every["dormant"]

LEMMA GridType == Every["dormant"] \in Nat \ {0}
  BY PeriodAssumption DEF Tiers

\* The first multiple of d after n.
LEMMA NextMultiple ==
    ASSUME NEW n \in Nat, NEW d \in Nat \ {0}
    PROVE  /\ (n \div d + 1) * d \in Nat
           /\ n < (n \div d + 1) * d /\ (n \div d + 1) * d <= n + d
           /\ \A q \in Nat : n < q * d => (n \div d + 1) * d <= q * d
  <1>1. n \div d \in Nat
    OBVIOUS
  <1>2. PICK a \in Nat : a = n \div d
    BY <1>1
  <1>3. a * d \in Nat /\ (a + 1) * d = a * d + d
    BY <1>2
  <1>4. a * d <= n /\ n < a * d + d
    BY <1>2
  <1>5. ASSUME NEW q \in Nat, n < q * d PROVE (a + 1) * d <= q * d
    <2>1. q > a
      <3> SUFFICES ASSUME q <= a PROVE FALSE
        BY <1>2
      <3>1. PICK k \in Nat : a = q + k
        BY a - q \in Nat, a = q + (a - q)
      <3>2. q * d \in Nat /\ k * d \in Nat /\ (q + k) * d = q * d + k * d
        OBVIOUS
      <3> QED  BY <1>4, <1>5, <3>1, <3>2
    <2>2. PICK k \in Nat : q = a + 1 + k
      BY <2>1, q - (a + 1) \in Nat, q = a + 1 + (q - (a + 1))
    <2>3. k * d \in Nat /\ (a + 1) * d \in Nat /\ ((a + 1) + k) * d = (a + 1) * d + k * d
      OBVIOUS
    <2> QED  BY <2>2, <2>3
  <1> QED  BY <1>2, <1>3, <1>4, <1>5

LEMMA WeekBounds ==
    ASSUME NEW n \in Nat
    PROVE  /\ Week(n) \in Nat /\ n < Week(n) /\ Week(n) <= n + Every["dormant"]
           /\ \A q \in Nat : n < q * Every["dormant"] => Week(n) <= q * Every["dormant"]
           /\ \E q \in Nat : Week(n) = q * Every["dormant"]
  <1>1. n \div Every["dormant"] + 1 \in Nat
    BY GridType
  <1> QED  BY <1>1, GridType, NextMultiple DEF Week

LEMMA WeekMonotone ==
    ASSUME NEW n \in Nat, NEW m \in Nat, n <= m
    PROVE  Week(n) <= Week(m)
  <1>1. PICK q \in Nat : Week(m) = q * Every["dormant"]
    BY WeekBounds
  <1>2. m < Week(m) /\ Week(m) \in Nat
    BY WeekBounds
  <1>3. n < q * Every["dormant"]
    BY <1>1, <1>2
  <1> QED  BY <1>1, <1>3, WeekBounds

\* Whatever the tier, the cron fires by the next moment of the grid.
LEMMA NextRunByWeek ==
    ASSUME LookbackSuffices, now \in Nat, NEW tier \in Tiers
    PROVE  NextRun(tier) \in Nat /\ NextRun(tier) <= Week(now)
  <1>1. Every[tier] \in Nat \ {0} /\ Every["dormant"] % Every[tier] = 0
    BY PeriodAssumption DEF LookbackSuffices
  <1>2. PICK e \in Nat \ {0}, d \in Nat \ {0} :
           e = Every[tier] /\ d = Every["dormant"] /\ d % e = 0
    BY <1>1, GridType
  <1>3. PICK k \in Nat : d = k * e
    BY <1>2, d \div e \in Nat, d = (d \div e) * e + (d % e)
  <1>4. PICK q \in Nat : Week(now) = q * d
    BY <1>2, WeekBounds
  <1>5. q * k \in Nat /\ q * (k * e) = (q * k) * e
    OBVIOUS
  <1>6. now < (q * k) * e
    BY <1>2, <1>3, <1>4, <1>5, WeekBounds
  <1>7. (now \div e + 1) * e <= (q * k) * e /\ (now \div e + 1) * e \in Nat
    BY <1>5, <1>6, NextMultiple
  <1> QED  BY <1>2, <1>3, <1>4, <1>5, <1>7 DEF NextRun

Missed(s) == session[s] = "stopped" /\ s \notin swept

\* The last moment at which a run may still fetch s for the first time.
Due(s) == Week(stopAt[s]) + faults * Every["dormant"]

\* A run is about to fetch, or the whole grid period is to spare, or the cron
\* comes in time and nobody who is past his fetch is about to move it.
WillFetch == \E c \in Callers : call[c].pc \in {"run", "create", "fetch"}
Roomy(s) == Week(now) <= Due(s)
Armed(s) == /\ up /\ cron.at <= Due(s)
            /\ \A c \in Callers : call[c].pc \notin EvalPcs \cup {"finish"}
Expected(s) == WillFetch \/ Roomy(s) \/ Armed(s)

\* A row left behind is stale by the deadline; one in use may be left behind.
Unlocked(s) ==
    lock.held => \/ lock.since + Every["dormant"] <= Due(s)
                 \/ /\ lock.since <= Due(s)
                    /\ \E c \in Callers : call[c].pc \in {"fetch", "finish"}

Timely(s) == /\ stopAt[s] <= now /\ now <= Due(s)
             /\ Expected(s) /\ Unlocked(s)

\* The clock, the lock and the cron among themselves.
Punctual ==
    /\ faults <= MaxFaults
    /\ lock.held => lock.since <= now
    /\ up => cron.at <= Week(now)

SweptInv == Punctual /\ \A s \in Sessions : Missed(s) => Timely(s)

LEMMA DueType ==
    ASSUME TypeOK, NEW s \in Sessions
    PROVE  /\ now \in Nat /\ stopAt[s] \in Nat /\ faults \in Nat
           /\ lock.since \in Nat /\ cron.at \in Nat /\ Every["dormant"] \in Nat \ {0}
           /\ Week(now) \in Nat /\ Due(s) \in Nat /\ Week(stopAt[s]) <= Due(s)
           /\ faults >= 1 => Week(stopAt[s]) + Every["dormant"] <= Due(s)
           /\ \E q \in Nat : Due(s) = q * Every["dormant"]
           /\ stopAt' = stopAt /\ faults' = faults + 1 => Due(s)' = Due(s) + Every["dormant"]
           /\ stopAt' = stopAt /\ faults' = faults => Due(s)' = Due(s)
  <1>1. /\ now \in Nat /\ stopAt[s] \in Nat /\ faults \in Nat
        /\ lock.since \in Nat /\ cron.at \in Nat
    BY DEF TypeOK, Crons
  <1>2. PICK d \in Nat \ {0} : d = Every["dormant"]
    BY GridType
  <1>3. PICK w \in Nat, q \in Nat : w = Week(stopAt[s]) /\ w = q * d
    BY <1>1, <1>2, WeekBounds
  <1>4. PICK f \in Nat : f = faults
    BY <1>1
  <1>5. /\ f * d \in Nat /\ (f + 1) * d = f * d + d
        /\ q + f \in Nat /\ (q + f) * d = q * d + f * d
    OBVIOUS
  <1>6. f >= 1 => f * d >= d
    <2> SUFFICES ASSUME f >= 1 PROVE f * d >= d
      OBVIOUS
    <2>1. PICK k \in Nat : f = k + 1
      BY f - 1 \in Nat, f = (f - 1) + 1
    <2>2. k * d \in Nat /\ (k + 1) * d = k * d + d
      OBVIOUS
    <2> QED  BY <2>1, <2>2
  <1>7. Due(s) = w + f * d
    BY <1>2, <1>3, <1>4 DEF Due
  <1>8. /\ stopAt' = stopAt /\ faults' = faults + 1 => Due(s)' = w + (f + 1) * d
        /\ stopAt' = stopAt /\ faults' = faults => Due(s)' = w + f * d
    BY <1>2, <1>3, <1>4 DEF Due, Week
  <1>9. Week(now) \in Nat
    BY <1>1, WeekBounds
  <1> DEFINE P == f * d
  <1>10. P \in Nat /\ (f >= 1 => P >= d) /\ (f + 1) * d = P + d /\ Due(s) = w + P
    BY <1>5, <1>6, <1>7
  <1> HIDE DEF P
  <1>11. Due(s) \in Nat /\ w <= Due(s) /\ (f >= 1 => w + d <= Due(s))
    BY <1>10
  <1>12. stopAt' = stopAt /\ faults' = faults + 1 => Due(s)' = Due(s) + d
    BY <1>8, <1>10
  <1>13. Due(s) = (q + f) * d
    BY <1>3, <1>5, <1>7
  <1> QED  BY <1>1, <1>2, <1>3, <1>4, <1>5, <1>7, <1>8, <1>9, <1>11, <1>12, <1>13

\* A fault buys a period: the deadline moves past the next moment of the grid.
LEMMA FaultTimely ==
    ASSUME TypeOK, NEW s \in Sessions, Timely(s),
           stopAt' = stopAt, lock' = lock, now' = now, faults' = faults + 1
    PROVE  Timely(s)'
  <1>1. PICK d \in Nat \ {0} : d = Every["dormant"]
    BY GridType
  <1>2. PICK q \in Nat : Due(s) = q * d
    BY <1>1, DueType
  <1>3. Due(s)' = Due(s) + d /\ Due(s) \in Nat /\ now \in Nat /\ now <= Due(s)
    BY <1>1, DueType DEF Timely
  <1>4. (q + 1) * d = Due(s) + d /\ q + 1 \in Nat
    BY <1>2
  <1>5. now < (q + 1) * d
    BY <1>3, <1>4
  <1>6. Week(now) <= Due(s)'
    BY <1>1, <1>3, <1>4, <1>5, WeekBounds
  <1>7. Week(now)' = Week(now)
    BY DEF Week
  <1>8. Expected(s)'
    BY <1>6, <1>7 DEF Expected, Roomy
  <1>9. lock.held => lock.since + d <= Due(s)'
    BY <1>1, <1>3, DueType DEF Timely, Unlocked
  <1>10. Unlocked(s)'
    BY <1>1, <1>9 DEF Unlocked
  <1>11. stopAt[s]' <= now' /\ now' <= Due(s)'
    BY <1>1, <1>3 DEF Timely
  <1> QED  BY <1>8, <1>10, <1>11 DEF Timely

\* A step that moves no clock, row or fault, keeps the owner of the row and
\* does no worse by the session.
LEMMA StepTimely ==
    ASSUME TypeOK, NEW s \in Sessions, Timely(s),
           stopAt' = stopAt, lock' = lock, now' = now, faults' = faults,
           Expected(s) => Expected(s)',
           \A c \in Callers : call[c].pc \in {"fetch", "finish"}
                              => call'[c].pc \in {"fetch", "finish"}
    PROVE  Timely(s)'
  <1>1. Due(s)' = Due(s)
    BY DueType
  <1> QED  BY <1>1 DEF Timely, Unlocked

\* With clock and faults as they are, room stays.
LEMMA RoomStays ==
    ASSUME TypeOK, NEW s \in Sessions, Roomy(s),
           stopAt' = stopAt, now' = now, faults' = faults
    PROVE  Roomy(s)'
  <1>1. Due(s)' = Due(s)
    BY DueType
  <1>2. Week(now)' = Week(now)
    BY DEF Week
  <1> QED  BY <1>1, <1>2 DEF Roomy

\* A handler that starts or passes over the sync: a run fetches, or is past its
\* fetch, and then there was room.
LEMMA StartTimely ==
    ASSUME TypeOK, FlagsInv, OneInRun, NEW s \in Sessions, Timely(s),
           NEW c \in Callers, ~InRun(c), StartSync(c),
           stopAt' = stopAt, lock' = lock, now' = now, faults' = faults
    PROVE  Timely(s)'
  <1>1. /\ \A d \in Callers : d # c => call'[d] = call[d]
        /\ ~isSyncing => call'[c].pc = "run"
    BY StartMoves
  <1>2. \A d \in Callers : call[d].pc \in RunPcs => call'[d] = call[d]
    BY <1>1 DEF InRun
  <1>3. CASE ~isSyncing
    <2>1. WillFetch'
      BY <1>1, <1>3 DEF WillFetch
    <2> QED  BY <1>2, <2>1, StepTimely DEF Expected, RunPcs
  <1>4. CASE isSyncing
    <2>1. PICK d \in Callers : InRun(d)
      BY <1>4 DEF FlagsInv
    <2>2. CASE call[d].pc = "finish"
      <3>1. ~WillFetch
        BY <2>1, <2>2 DEF WillFetch, OneInRun, InRun, RunPcs
      <3>2. Roomy(s)
        BY <2>2, <3>1 DEF Timely, Expected, Armed
      <3>3. Expected(s)'
        BY <3>2, RoomStays DEF Expected
      <3> QED  BY <1>2, <3>3, StepTimely DEF RunPcs
    <2>3. CASE call[d].pc # "finish"
      <3>1. WillFetch'
        BY <1>2, <2>1, <2>3 DEF WillFetch, InRun, RunPcs
      <3> QED  BY <1>2, <3>1, StepTimely DEF Expected, RunPcs
    <2> QED  BY <2>2, <2>3
  <1> QED  BY <1>3, <1>4

\* A handler past its fetch that moves on, or ends, and leaves the row alone.
LEMMA EvalTimely ==
    ASSUME TypeOK, NEW s \in Sessions, Timely(s), NEW c \in Callers,
           call[c].pc \in EvalPcs,
           \A d \in Callers : d # c => call'[d] = call[d],
           stopAt' = stopAt, lock' = lock, now' = now, faults' = faults
    PROVE  Timely(s)'
  <1>1. ~Armed(s)
    BY DEF Armed
  <1>2. WillFetch => WillFetch'
    BY DEF WillFetch, EvalPcs
  <1>3. Expected(s) => Expected(s)'
    BY <1>1, <1>2, RoomStays DEF Expected
  <1>4. \A d \in Callers : call[d].pc \in {"fetch", "finish"}
                           => call'[d].pc \in {"fetch", "finish"}
    BY DEF EvalPcs
  <1> QED  BY <1>3, <1>4, StepTimely

\* A run turned away by a fresh row: the row was left behind, so that it is
\* stale by the deadline, which is a moment of the grid yet to come.
LEMMA TurnedAway ==
    ASSUME TypeOK, LookbackSuffices, OneInRun, Punctual, NEW s \in Sessions, Timely(s),
           NEW c \in Callers, call[c].pc = "run", lock.held, now - lock.since <= StaleAfter,
           stopAt' = stopAt, lock' = lock, now' = now, faults' = faults
    PROVE  Timely(s)'
  <1>1. \A d \in Callers : call[d].pc \notin {"fetch", "finish"}
    BY DEF OneInRun, InRun, RunPcs
  <1>2. PICK d \in Nat \ {0} : d = Every["dormant"]
    BY GridType
  <1>3. lock.since + d <= Due(s)
    BY <1>1, <1>2 DEF Timely, Unlocked
  <1>4. /\ now \in Nat /\ lock.since \in Nat /\ Due(s) \in Nat
        /\ StaleAfter \in Nat /\ StaleAfter < d
    BY <1>2, DueType, LimitAssumption DEF LookbackSuffices
  <1>5. now < Due(s)
    BY <1>3, <1>4
  <1>6. PICK q \in Nat : Due(s) = q * d
    BY <1>2, DueType
  <1>7. Roomy(s)
    BY <1>2, <1>4, <1>5, <1>6, WeekBounds DEF Roomy
  <1>8. Due(s)' = Due(s)
    BY DueType
  <1>9. Unlocked(s)'
    BY <1>2, <1>3, <1>8 DEF Unlocked
  <1> QED  BY <1>7, <1>8, <1>9, RoomStays DEF Timely, Expected

\* What is not late is in the lookback.
LEMMA InWindow ==
    ASSUME TypeOK, LookbackSuffices, Punctual, NEW s \in Sessions, Timely(s)
    PROVE  now <= stopAt[s] + Lookback
  <1>1. PICK d \in Nat \ {0} : d = Every["dormant"]
    BY GridType
  <1>2. /\ now \in Nat /\ stopAt[s] \in Nat /\ faults \in Nat
        /\ MaxFaults \in Nat /\ Lookback \in Nat
    BY LimitAssumption, DueType
  <1>3. PICK f \in Nat, k \in Nat : f = faults /\ MaxFaults = f + k
    BY <1>2, MaxFaults - faults \in Nat, MaxFaults = faults + (MaxFaults - faults)
    DEF Punctual
  <1>4. /\ f * d \in Nat /\ k * d \in Nat
        /\ ((f + k) + 1) * d = f * d + k * d + d
    OBVIOUS
  <1>5. PICK m \in Nat, n \in Nat : m = f * d /\ n = k * d /\ ((f + k) + 1) * d = m + n + d
    BY <1>4
  <1>6. Lookback >= m + n + d
    BY <1>1, <1>3, <1>5 DEF LookbackSuffices
  <1>7. Due(s) = Week(stopAt[s]) + m
    BY <1>1, <1>3, <1>5 DEF Due
  <1>8. Week(stopAt[s]) \in Nat /\ Week(stopAt[s]) <= stopAt[s] + d
    BY <1>1, <1>2, WeekBounds
  <1>9. now <= Due(s)
    BY DEF Timely
  <1> QED  BY <1>2, <1>6, <1>7, <1>8, <1>9

LEMMA HandlerTimely ==
    ASSUME TypeOK, FlagsInv, OneInRun, LookbackSuffices, Punctual,
           NEW s \in Sessions, Missed(s), Timely(s), Missed(s)', NEW c \in Callers, Handler(c)
    PROVE  Timely(s)'
  <1>0. /\ now' = now /\ up' = up /\ up
        /\ \A d \in Callers : d # c => call'[d] = call[d]
    BY HandlerMoves DEF FlagsInv
  <1>1. CASE BumpActive(c) \/ BumpLoad(c)
    <2>1. /\ call[c].pc \in {"bump", "load"} /\ call'[c].pc \in {"load", "install"}
          /\ UNCHANGED << lock, cron, faults, stopAt >>
      BY <1>1 DEF BumpActive, BumpLoad, Goto, TypeOK, Calls, world
    <2>2. WillFetch => WillFetch'
      BY <1>0, <2>1 DEF WillFetch
    <2>3. Armed(s) => Armed(s)'
      <3>1. Due(s)' = Due(s)
        BY <2>1, DueType
      <3> QED  BY <1>0, <2>1, <3>1 DEF Armed, EvalPcs
    <2>4. Expected(s) => Expected(s)'
      BY <1>0, <2>1, <2>2, <2>3, RoomStays DEF Expected
    <2>5. \A d \in Callers : call[d].pc \in {"fetch", "finish"}
                             => call'[d].pc \in {"fetch", "finish"}
      BY <1>0, <2>1
    <2> QED  BY <1>0, <2>1, <2>4, <2>5, StepTimely
  <1>2. CASE BumpInstall(c)
    BY <1>0, <1>2, StartTimely DEF BumpInstall, InRun, RunPcs, world
  <1>3. CASE \/ BumpThrows(c) \/ RunThrows(c) \/ FetchFails(c) \/ EvalThrows(c)
             \/ EvalProbeFails(c)
    BY <1>0, <1>3, FaultTimely
    DEF BumpThrows, RunThrows, FetchFails, EvalThrows, EvalProbeFails, Probed, Fault, world
  <1>4. CASE CheckLock(c) /\ lock.held /\ now - lock.since <= StaleAfter
    BY <1>0, <1>4, TurnedAway DEF CheckLock, world
  <1>5. CASE CheckLock(c) /\ ~(lock.held /\ now - lock.since <= StaleAfter)
    <2>1. ~lock'.held /\ call'[c].pc = "create" /\ UNCHANGED << faults, stopAt >>
      BY <1>5 DEF CheckLock, Goto, NoLock, TypeOK, Calls, world
    <2>2. Due(s)' = Due(s)
      BY <2>1, DueType
    <2> QED  BY <1>0, <2>1, <2>2 DEF Timely, Expected, WillFetch, Unlocked
  <1>6. CASE CreateRun(c)
    <2>1. lock'.since = now /\ call'[c].pc = "fetch" /\ UNCHANGED << faults, stopAt >>
      BY <1>6 DEF CreateRun, Goto, TypeOK, Calls, world
    <2>2. Due(s)' = Due(s)
      BY <2>1, DueType
    <2> QED  BY <1>0, <2>1, <2>2 DEF Timely, Expected, WillFetch, Unlocked
  <1>7. CASE Fetch(c)
    <2>1. now <= stopAt[s] + Lookback /\ now \in Nat /\ stopAt[s] \in Nat /\ Lookback \in Nat
      BY InWindow, DueType, LimitAssumption
    <2>2. InLookback(s)
      BY <2>1 DEF InLookback, Missed
    <2>3. s \in swept'
      BY <1>7, <2>2 DEF Fetch
    <2> QED  BY <2>3 DEF Missed
  <1>8. CASE FinishRun(c)
    <2>1. /\ call[c].pc = "finish" /\ ~lock'.held /\ UNCHANGED << faults, stopAt >>
      BY <1>8 DEF FinishRun, NoLock, world
    <2>2. ~WillFetch /\ ~Armed(s)
      BY <2>1 DEF WillFetch, Armed, OneInRun, InRun, RunPcs
    <2>3. Roomy(s)'
      BY <1>0, <2>1, <2>2, RoomStays DEF Timely, Expected
    <2>4. Due(s)' = Due(s)
      BY <2>1, DueType
    <2> QED  BY <1>0, <2>1, <2>3, <2>4 DEF Timely, Expected, Unlocked
  <1>9. CASE EvalLoad(c) \/ EvalProbe(c) \/ EvalWrite(c) \/ EvalWritePinned(c) \/ EvalArm(c)
    <2>1. call[c].pc \in EvalPcs /\ UNCHANGED << lock, faults, stopAt >>
      BY <1>9 DEF EvalLoad, EvalProbe, Probed, EvalWrite, EvalWritePinned, EvalArm, EvalPcs,
                  world
    <2> QED  BY <1>0, <2>1, EvalTimely
  <1> QED  BY <1>1, <1>2, <1>3, <1>4, <1>5, <1>6, <1>7, <1>8, <1>9 DEF Handler

\* Whoever installs a cron does so by the next moment of the grid.
LEMMA NextPunctual ==
    ASSUME TypeOK, FlagsInv, LookbackSuffices, Punctual, [Next]_vars
    PROVE  Punctual'
  <1>0. now \in Nat /\ cron.at \in Nat /\ faults \in Nat /\ MaxFaults \in Nat
    BY LimitAssumption DEF TypeOK, Crons
  <1>1. \/ faults' = faults
        \/ faults < MaxFaults /\ faults' = faults + 1
    BY DEF Next, vars, Environment, Tick, StartSession, StopSession, TagChangeAges, Pin, Unpin,
           Notify, CronFires, Handler, BumpActive, BumpLoad, BumpInstall, BumpThrows,
           CheckLock, CreateRun, RunThrows, Fetch, FetchFails, FinishRun, EvalLoad, EvalProbe,
           EvalProbeFails, Probed, EvalWrite, EvalWritePinned, EvalArm, EvalThrows, Crash,
           Boot, Fault
  <1>2. faults' <= MaxFaults
    BY <1>0, <1>1 DEF Punctual
  <1>3. now' = now \/ (now' = now + 1 /\ UNCHANGED << lock, up, cron >>)
    BY HandlerMoves
    DEF Next, vars, Environment, Tick, StartSession, StopSession, TagChangeAges, Pin, Unpin,
        Notify, CronFires, Crash, Boot, procVars
  <1>4. \/ lock' = lock \/ ~lock'.held \/ lock'.since = now
    <2>1. ASSUME NEW c \in Callers, Handler(c)
          PROVE  \/ lock' = lock \/ ~lock'.held \/ lock'.since = now
      <3>1. CASE CheckLock(c) \/ CreateRun(c) \/ FinishRun(c)
        BY <3>1 DEF CheckLock, CreateRun, FinishRun, NoLock
      <3>2. CASE ~(CheckLock(c) \/ CreateRun(c) \/ FinishRun(c))
        BY <2>1, <3>2 DEF Handler, BumpActive, BumpLoad, BumpInstall, BumpThrows, RunThrows,
           Fetch, FetchFails, EvalLoad, EvalProbe, EvalProbeFails, Probed, EvalWrite,
           EvalWritePinned, EvalArm, EvalThrows
      <3> QED  BY <3>1, <3>2
    <2>2. CASE Environment
      BY <2>2 DEF Environment, Tick, StartSession, StopSession, TagChangeAges, Pin, Unpin,
                  Notify
    <2>3. CASE CronFires \/ Crash \/ Boot \/ UNCHANGED vars
      BY <2>3 DEF CronFires, Crash, Boot, vars
    <2> QED  BY <2>1, <2>2, <2>3 DEF Next
  <1>5. lock'.held => lock'.since <= now'
    <2>1. lock.since \in Nat
      BY DEF TypeOK
    <2> QED  BY <1>0, <1>3, <1>4, <2>1 DEF Punctual
  <1>6. \/ up' = up /\ cron' = cron
        \/ ~up'
        \/ now' = now /\ \E tier \in Tiers : cron'.at = NextRun(tier)
    <2>1. ASSUME NEW c \in Callers, Handler(c)
          PROVE  \/ up' = up /\ cron' = cron
                 \/ now' = now /\ \E tier \in Tiers : cron'.at = NextRun(tier)
      <3>1. up' = up /\ now' = now /\ call[c].tier \in Tiers
        BY <2>1, HandlerMoves DEF TypeOK, Calls
      <3>2. \/ cron' = cron
            \/ cron' = [tier |-> call[c].tier, at |-> NextRun(call[c].tier)]
        BY <2>1 DEF Handler, BumpActive, BumpLoad, BumpInstall, BumpThrows,
           CheckLock, CreateRun, RunThrows, Fetch, FetchFails, FinishRun, EvalLoad, EvalProbe,
           EvalProbeFails, Probed, EvalWrite, EvalWritePinned, EvalArm, EvalThrows
      <3> QED  BY <3>1, <3>2
    <2>2. CASE CronFires
      BY <2>2 DEF CronFires, FlagsInv, TypeOK, Crons
    <2>3. CASE Boot
      BY <2>3, EffectiveTierType DEF Boot
    <2>4. CASE Environment \/ Crash \/ UNCHANGED vars
      BY <2>4 DEF vars, Environment, Tick, StartSession, StopSession, TagChangeAges, Pin,
                  Unpin, Notify, Crash, procVars
    <2> QED  BY <2>1, <2>2, <2>3, <2>4 DEF Next
  <1>7. Week(now) <= Week(now')
    <2>1. now' \in Nat /\ now <= now'
      BY <1>0, <1>3
    <2> QED  BY <1>0, <2>1, WeekMonotone
  <1>8. Week(now') = Week(now)'
    BY DEF Week
  <1>9. up' => cron'.at <= Week(now)'
    <2>1. Week(now) \in Nat /\ Week(now)' \in Nat /\ Week(now) <= Week(now)'
      <3>1. now' \in Nat
        BY <1>0, <1>3
      <3> QED  BY <1>0, <1>7, <1>8, <3>1, WeekBounds
    <2>2. CASE up' = up /\ cron' = cron
      BY <1>0, <2>1, <2>2 DEF Punctual
    <2>3. ASSUME NEW tier \in Tiers, cron'.at = NextRun(tier), now' = now
          PROVE  cron'.at <= Week(now)'
      <3>1. NextRun(tier) \in Nat /\ NextRun(tier) <= Week(now)
        BY <1>0, NextRunByWeek
      <3> QED  BY <2>1, <2>3, <3>1
    <2> QED  BY <1>6, <2>2, <2>3
  <1> QED  BY <1>2, <1>5, <1>9 DEF Punctual

\* A session that stops now has the whole next period, and whatever row was
\* left behind was left before it.
LEMMA StopTimely ==
    ASSUME TypeOK, LockInv, Punctual, NEW s \in Sessions, StopSession(s)
    PROVE  Timely(s)'
  <1>1. PICK d \in Nat \ {0} : d = Every["dormant"]
    BY GridType
  <1>2. stopAt'[s] = now /\ UNCHANGED << now, lock, faults, call >>
    BY DEF StopSession, TypeOK, procVars
  <1>4. /\ now \in Nat /\ lock.since \in Nat /\ faults \in Nat
        /\ Week(now) \in Nat /\ now < Week(now)
    BY DueType, WeekBounds
  <1>5. /\ Due(s)' = Week(now) + faults * d
        /\ Week(now)' = Week(now)
    BY <1>1, <1>2 DEF Due, Week
  <1>6. PICK m \in Nat : m = faults * d /\ (faults >= 1 => m >= d)
    <2>1. faults * d \in Nat
      BY <1>4
    <2>2. faults >= 1 => faults * d >= d
      <3> SUFFICES ASSUME faults >= 1 PROVE faults * d >= d
        OBVIOUS
      <3>1. PICK k \in Nat : faults = k + 1
        BY <1>4, faults - 1 \in Nat, faults = (faults - 1) + 1
      <3>2. k * d \in Nat /\ (k + 1) * d = k * d + d
        OBVIOUS
      <3> QED  BY <3>1, <3>2
    <2> QED  BY <2>1, <2>2
  <1>7. /\ Due(s)' \in Nat /\ Week(now) <= Due(s)' /\ now <= Due(s)'
        /\ faults >= 1 => now + d <= Due(s)'
    BY <1>4, <1>5, <1>6
  <1>8. Unlocked(s)'
    <2> SUFFICES ASSUME lock.held PROVE Unlocked(s)'
      BY <1>2 DEF Unlocked
    <2>1. lock.since <= now
      BY DEF Punctual
    <2>2. CASE faults >= 1
      <3>1. lock.since + d <= Due(s)'
        BY <1>1, <1>4, <1>7, <2>1, <2>2
      <3> QED  BY <1>1, <1>2, <3>1 DEF Unlocked
    <2>3. CASE \E c \in Callers : call[c].pc \in {"fetch", "finish"}
      <3>1. lock.since <= Due(s)'
        BY <1>4, <1>7, <2>1
      <3> QED  BY <1>2, <2>3, <3>1 DEF Unlocked
    <2> QED  BY <2>2, <2>3 DEF LockInv
  <1> QED  BY <1>2, <1>4, <1>5, <1>7, <1>8 DEF Timely, Expected, Roomy

LEMMA NextTimely ==
    ASSUME TypeOK, FlagsInv, OneInRun, LockInv, LookbackSuffices, SweptInv, [Next]_vars,
           NEW s \in Sessions, Missed(s)'
    PROVE  Timely(s)'
  <1>0. "cron" \in Callers /\ Punctual
    BY DEF Callers, SweptInv
  <1>1. CASE StopSession(s)
    BY <1>0, <1>1, StopTimely
  <1>2. CASE ~StopSession(s)
    <2>0. Missed(s) /\ stopAt'[s] = stopAt[s]
      <3>1. CASE UNCHANGED world
        <4>1. s \notin swept
          BY <3>1 DEF Missed, Next, vars, Environment, Tick, StartSession, StopSession,
             TagChangeAges, Pin, Unpin, Notify, CronFires, Handler, BumpActive, BumpLoad,
             BumpInstall, BumpThrows, CheckLock, CreateRun, RunThrows, Fetch, FetchFails,
             FinishRun, EvalLoad, EvalProbe, EvalProbeFails, Probed, EvalWrite,
             EvalWritePinned, EvalArm, EvalThrows, Crash, Boot
        <4> QED  BY <3>1, <4>1 DEF Missed, world
      <3>2. ASSUME NEW u \in Sessions, StartSession(u) \/ StopSession(u) \/ TagChangeAges
            PROVE  Missed(s) /\ stopAt'[s] = stopAt[s]
        BY <1>2, <3>2 DEF StartSession, StopSession, TagChangeAges, Missed, TypeOK
      <3>3. \/ UNCHANGED world
            \/ \E u \in Sessions : StartSession(u) \/ StopSession(u) \/ TagChangeAges
        <4>1. ASSUME NEW c \in Callers, Handler(c) PROVE UNCHANGED world
          <5>1. CASE BumpActive(c) \/ BumpLoad(c) \/ BumpInstall(c) \/ BumpThrows(c)
            BY <5>1 DEF BumpActive, BumpLoad, BumpInstall, BumpThrows, world
          <5>2. CASE \/ CheckLock(c) \/ CreateRun(c) \/ RunThrows(c)
                     \/ Fetch(c) \/ FetchFails(c) \/ FinishRun(c)
            BY <5>2 DEF CheckLock, CreateRun, RunThrows, Fetch, FetchFails, FinishRun, world
          <5>3. CASE \/ EvalLoad(c) \/ EvalProbe(c) \/ EvalProbeFails(c)
                     \/ EvalWrite(c) \/ EvalWritePinned(c) \/ EvalArm(c) \/ EvalThrows(c)
            BY <5>3 DEF EvalLoad, EvalProbe, EvalProbeFails, Probed, EvalWrite,
                        EvalWritePinned, EvalArm, EvalThrows, world
          <5> QED  BY <4>1, <5>1, <5>2, <5>3 DEF Handler
        <4>2. CASE Environment
          BY <4>2 DEF Environment, Tick, StartSession, StopSession, TagChangeAges, Pin, Unpin,
                      Notify, world
        <4>3. CASE CronFires \/ Crash \/ Boot \/ UNCHANGED vars
          BY <4>3 DEF CronFires, Crash, Boot, vars, world
        <4> QED  BY <4>1, <4>2, <4>3 DEF Next
      <3> QED  BY <3>1, <3>2, <3>3
    <2>1. Timely(s)
      BY <2>0 DEF SweptInv
    <2>2. CASE Environment
      <3>1. CASE Tick
        <4>1. /\ \A c \in Callers : call[c].pc = "none"
              /\ up /\ now < cron.at /\ cron.at <= Week(now)
          BY <1>0, <3>1, NoTierAssumption DEF Tick, Quiescent, FlagsInv, Punctual
        <4>2. now' = now + 1 /\ UNCHANGED << stopAt, lock, faults, up, cron, call >>
          BY <3>1 DEF Tick, procVars, world
        <4>3. Due(s)' = Due(s)
          BY <4>2, DueType
        <4>4. /\ now \in Nat /\ cron.at \in Nat /\ Due(s) \in Nat /\ Week(now) \in Nat
              /\ stopAt[s] \in Nat /\ stopAt[s] <= now
          BY <2>1, DueType DEF Timely
        <4>5. cron.at <= Due(s)
          BY <2>1, <4>1, <4>4 DEF Timely, Expected, WillFetch, Roomy, Armed
        <4>6. Armed(s)'
          BY <4>1, <4>2, <4>3, <4>5 DEF Armed, EvalPcs
        <4>7. stopAt'[s] <= now' /\ now' <= Due(s)'
          BY <4>1, <4>2, <4>3, <4>4, <4>5
        <4>8. Unlocked(s)'
          BY <2>1, <4>2, <4>3 DEF Timely, Unlocked
        <4> QED  BY <4>6, <4>7, <4>8 DEF Timely, Expected
      <3>2. CASE UNCHANGED << now, lock, faults, up, cron, call >>
        <4>1. Due(s)' = Due(s) /\ Week(now)' = Week(now)
          BY <2>0, <3>2 DEF Due, Week
        <4> QED  BY <2>0, <2>1, <3>2, <4>1
                 DEF Timely, Expected, WillFetch, Roomy, Armed, Unlocked
      <3>3. ASSUME NEW c \in Triggers, Notify(c) PROVE Timely(s)'
        <4>1. UNCHANGED << now, lock, faults, up, cron, stopAt >>
          BY <3>3 DEF Notify, world
        <4>2. \A d \in Callers :
                 call'[d] = call[d] \/ (call[d].pc = "none" /\ call'[d].pc = "bump")
          BY <3>3 DEF Notify, TypeOK, Calls
        <4>3. Due(s)' = Due(s) /\ Week(now)' = Week(now)
          BY <4>1, DueType DEF Week
        <4>4. Expected(s) => Expected(s)'
          BY <4>1, <4>2, <4>3 DEF Expected, WillFetch, Roomy, Armed, EvalPcs
        <4>5. \A d \in Callers : call[d].pc \in {"fetch", "finish"}
                                 => call'[d].pc \in {"fetch", "finish"}
          BY <4>2
        <4> QED  BY <2>1, <4>1, <4>4, <4>5, StepTimely
      <3> QED  BY <2>2, <3>1, <3>2, <3>3
               DEF Environment, StartSession, StopSession, TagChangeAges, Pin, Unpin, procVars
    <2>3. ASSUME NEW c \in Callers, Handler(c) PROVE Timely(s)'
      BY <1>0, <2>0, <2>1, <2>3, HandlerTimely
    <2>4. CASE CronFires
      <3>1. UNCHANGED << now, stopAt, lock, faults, up >>
        BY <2>4 DEF CronFires, world
      <3>2. CASE running
        <4>1. call' = call
          BY <2>4, <3>2 DEF CronFires
        <4>2. call["cron"].pc \in RunPcs \cup EvalPcs
          BY <3>2 DEF FlagsInv
        <4>3. Armed(s) => WillFetch
          BY <1>0, <4>2 DEF Armed, WillFetch, RunPcs
        <4>4. Expected(s) => Expected(s)'
          BY <3>1, <4>1, <4>3, RoomStays DEF Expected, WillFetch
        <4> QED  BY <2>1, <3>1, <4>1, <4>4, StepTimely
      <3>3. CASE ~running
        <4>1. StartSync("cron") /\ ~InRun("cron")
          BY <2>4, <3>3 DEF CronFires, FlagsInv, InRun
        <4> QED  BY <1>0, <2>1, <3>1, <4>1, StartTimely
      <3> QED  BY <3>2, <3>3
    <2>5. CASE Boot
      <3>1. ~up /\ UNCHANGED << now, stopAt, lock, faults >>
        BY <2>5 DEF Boot, world
      <3>2. \A c \in Callers : call[c].pc = "none"
        BY <3>1 DEF FlagsInv
      <3>3. Roomy(s)
        BY <2>1, <3>1, <3>2 DEF Timely, Expected, WillFetch, Armed
      <3>4. Expected(s)'
        BY <3>1, <3>3, RoomStays DEF Expected
      <3> QED  BY <2>1, <3>1, <3>2, <3>4, StepTimely
    <2>6. CASE Crash
      BY <2>1, <2>6, FaultTimely DEF Crash, Fault, world
    <2>7. CASE UNCHANGED vars
      <3>1. UNCHANGED << now, stopAt, lock, faults, up, cron, call >>
        BY <2>7 DEF vars
      <3>2. Expected(s) => Expected(s)'
        BY <3>1, RoomStays DEF Expected, WillFetch, Armed, Due, Week
      <3> QED  BY <2>1, <3>1, <3>2, StepTimely
    <2> QED  BY <2>2, <2>3, <2>4, <2>5, <2>6, <2>7 DEF Next
  <1> QED  BY <1>1, <1>2

LEMMA InitSwept == Init => SweptInv
  <1> SUFFICES ASSUME Init PROVE SweptInv
    OBVIOUS
  <1>1. now = 0 /\ faults = 0 /\ ~lock.held /\ cron.at = Every["idle"] /\ MaxFaults \in Nat
    BY LimitAssumption DEF Init, NoLock
  <1>2. Every["idle"] <= Every["dormant"] /\ Every["dormant"] \in Nat \ {0}
    BY PeriodAssumption DEF Tiers
  <1>3. Week(0) = Every["dormant"]
    <2>1. 0 \div Every["dormant"] = 0
      BY <1>2
    <2> QED  BY <1>2, <2>1 DEF Week
  <1>4. Punctual
    BY <1>1, <1>2, <1>3 DEF Punctual
  <1>5. \A s \in Sessions : ~Missed(s)
    BY DEF Init, Missed
  <1> QED  BY <1>4, <1>5 DEF SweptInv

\* With a lookback of a Dormant period for the session and one for each fault,
\* every completed session is fetched by a run while it is in the lookback:
\* crashes, failing queries, runs turned away, pins and tiers notwithstanding.
THEOREM SessionsAreSwept == LookbackSuffices => (Spec => []SweptInTime)
  <1> SUFFICES ASSUME LookbackSuffices PROVE Spec => []SweptInTime
    OBVIOUS
  <1> DEFINE Inv == TypeOK /\ OneInRun /\ FlagsInv /\ LockInv /\ SweptInv
  <1>1. Init => Inv
    BY InitType, InitOneInRun, InitFlags, InitSwept DEF Init, LockInv, NoLock
  <1>2. Inv /\ [Next]_vars => Inv'
    <2> SUFFICES ASSUME Inv, [Next]_vars PROVE Inv'
      OBVIOUS
    <2>1. TypeOK' /\ OneInRun' /\ FlagsInv' /\ LockInv'
      BY NextType, NextOneInRun, NextFlags, NextLock
    <2>2. Punctual'
      BY NextPunctual DEF SweptInv
    <2>3. \A s \in Sessions : Missed(s)' => Timely(s)'
      BY NextTimely
    <2>4. SweptInv'
      BY <2>2, <2>3 DEF SweptInv
    <2> QED  BY <2>1, <2>4
  <1>3. Inv => SweptInTime
    <2> SUFFICES ASSUME Inv, NEW s \in Sessions, session[s] = "stopped",
                        now > stopAt[s] + Lookback, s \notin swept
                 PROVE  FALSE
      BY DEF SweptInTime
    <2>1. Timely(s) /\ Punctual
      BY DEF SweptInv, Missed
    <2>2. now <= stopAt[s] + Lookback
      BY <2>1, InWindow
    <2> QED  BY <2>2, DueType, LimitAssumption
  <1> QED  BY <1>1, <1>2, <1>3, PTL DEF Spec
=============================================================================
