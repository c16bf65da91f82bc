------------------------ MODULE ScheduleDriverProofs ------------------------
(***************************************************************************)
(* Proofs about the scheduler: first the operator commands, then the whole *)
(* system for any calendar, any lease times, any number of fire-once       *)
(* commands, requests, crashes and lost steps.                             *)
(***************************************************************************)
EXTENDS ScheduleDriver, TLAPS

-----------------------------------------------------------------------------
(* The operator commands, any number of them at once and for any          *)
(* versions.  StopIsFinal rests on an exclusion that no lock provides:     *)
(* only the command whose insert of a version succeeded may write the      *)
(* enabled state under it.                                                 *)

\* What is stored under a version, and what each command in flight knows of it.
SpecInv ==
  /\ LifecycleTypeOK
  /\ specs[SeedVersion] # "production"
  /\ \A v \in ToVersions : specs[v] # "staged"
  /\ \A a \in Admins :
       /\ op[a].pc \in {"seedSpec", "seedState"} => op[a].version = SeedVersion
       /\ op[a].pc = "seedState" => specs[SeedVersion] = "staged"
       /\ op[a].pc \in {"enableSpec", "enableState", "disableState"} =>
            op[a].version \in ToVersions
       /\ op[a].pc \in {"enableState", "disableState"} =>
            specs[op[a].version] = "production"
  /\ schedule.state = "enabled" => specs[schedule.version] = "production"

\* The initial state satisfies the invariant of the stored specs.
LEMMA SpecInvInit == LifecycleInit => SpecInv
BY VersionAssumption
   DEF LifecycleInit, SpecInv, LifecycleTypeOK, Versions, SpecRows, Absent, Idle,
       OpSteps

\* Every statement of every command preserves it.
LEMMA SpecInvStep == SpecInv /\ [LifecycleNext]_lifecycleVars => SpecInv'
<1> SUFFICES ASSUME SpecInv, [LifecycleNext]_lifecycleVars PROVE SpecInv'
  OBVIOUS
<1> USE VersionAssumption
<1>1. CASE UNCHANGED lifecycleVars
  BY <1>1 DEF SpecInv, LifecycleTypeOK, lifecycleVars
<1>2. ASSUME NEW a \in Admins, SeedRead(a) PROVE SpecInv'
  BY <1>2 DEF SeedRead, Goto, SpecInv, LifecycleTypeOK, Versions, OpSteps
<1>3. ASSUME NEW a \in Admins, SeedSpec(a) PROVE SpecInv'
  BY <1>3 DEF SeedSpec, UpsertSpecVersion, Goto, Idle, SpecInv, LifecycleTypeOK,
              Versions, OpSteps, SpecRows
<1>4. ASSUME NEW a \in Admins, SeedState(a) PROVE SpecInv'
  BY <1>4 DEF SeedState, SetState, Idle, SpecInv, LifecycleTypeOK, Versions, OpSteps
<1>5. ASSUME NEW a \in Admins, NEW v \in ToVersions, EnableRead(a, v) PROVE SpecInv'
  BY <1>5 DEF EnableRead, Goto, SpecInv, LifecycleTypeOK, Versions, OpSteps
<1>6. ASSUME NEW a \in Admins, EnableSpec(a) PROVE SpecInv'
  BY <1>6 DEF EnableSpec, UpsertSpecVersion, Goto, Idle, SpecInv, LifecycleTypeOK,
              Versions, OpSteps, SpecRows
<1>7. ASSUME NEW a \in Admins, EnableState(a) PROVE SpecInv'
  BY <1>7 DEF EnableState, SetState, Idle, SpecInv, LifecycleTypeOK, Versions, OpSteps
<1>8. ASSUME NEW a \in Admins, DisableRead(a) PROVE SpecInv'
  BY <1>8 DEF DisableRead, Goto, SpecInv, LifecycleTypeOK, Versions, OpSteps
<1>9. ASSUME NEW a \in Admins, DisableState(a) PROVE SpecInv'
  BY <1>9 DEF DisableState, SetState, Idle, SpecInv, LifecycleTypeOK, Versions, OpSteps
<1>10. ASSUME NEW a \in Admins, Abandon(a) PROVE SpecInv'
  BY <1>10 DEF Abandon, Idle, SpecInv, LifecycleTypeOK, Versions, OpSteps
<1> QED
  BY <1>1, <1>2, <1>3, <1>4, <1>5, <1>6, <1>7, <1>8, <1>9, <1>10
     DEF LifecycleNext, Command

\* A schedule that is on runs a version enabled for production (enableCanary,
\* seedCanary and disableCanary, interleaved and abandoned in any way).
THEOREM LifecycleEnabledIsProduction == LifecycleSpec => []EnabledIsProduction
<1>1. SpecInv => EnabledIsProduction
  BY DEF SpecInv, EnabledIsProduction
<1> QED
  BY <1>1, SpecInvInit, SpecInvStep, PTL DEF LifecycleSpec
-----------------------------------------------------------------------------
\* The unlocked commands exclude each other through the insert of the spec: at most
\* one command is ever about to enable a version, and it is not yet the schedule's.
StopInv ==
  /\ SpecInv
  /\ \A a \in Admins : op[a].pc = "enableState" => schedule.version # op[a].version
  /\ \A a, b \in Admins :
       /\ op[a].pc = "enableState" /\ op[b].pc = "enableState"
            /\ op[a].version = op[b].version => a = b
       /\ op[a].pc = "enableState" /\ op[b].pc = "disableState" =>
            op[a].version # op[b].version
  /\ specs[schedule.version] # "absent" \/ schedule.version = SeedVersion

\* Version v is enabled for production, it is not running, and the command that could
\* have turned it on has done so or is gone.
Retired(v) ==
  /\ specs[v] = "production"
  /\ schedule.state = "enabled" => schedule.version # v
  /\ \A a \in Admins : op[a].pc = "enableState" => op[a].version # v

\* The initial state satisfies it.
LEMMA StopInvInit == LifecycleInit => StopInv
BY SpecInvInit DEF LifecycleInit, StopInv, Absent, Idle

\* Every statement of every command preserves it.
LEMMA StopInvStep == StopInv /\ [LifecycleNext]_lifecycleVars => StopInv'
<1> SUFFICES ASSUME StopInv, [LifecycleNext]_lifecycleVars PROVE StopInv'
  OBVIOUS
<1> USE VersionAssumption
<1>0. SpecInv /\ SpecInv'
  BY SpecInvStep DEF StopInv
<1>1. CASE UNCHANGED lifecycleVars
  BY <1>0, <1>1 DEF StopInv, lifecycleVars
<1>2. ASSUME NEW a \in Admins, SeedRead(a) PROVE StopInv'
  BY <1>0, <1>2 DEF StopInv, SeedRead, Goto, SpecInv, LifecycleTypeOK
<1>3. ASSUME NEW a \in Admins, SeedSpec(a) PROVE StopInv'
  BY <1>0, <1>3 DEF StopInv, SeedSpec, UpsertSpecVersion, Goto, Idle, SpecInv,
                    LifecycleTypeOK, Versions
<1>4. ASSUME NEW a \in Admins, SeedState(a) PROVE StopInv'
  BY <1>0, <1>4 DEF StopInv, SeedState, SetState, Idle, SpecInv, LifecycleTypeOK
<1>5. ASSUME NEW a \in Admins, NEW v \in ToVersions, EnableRead(a, v) PROVE StopInv'
  BY <1>0, <1>5 DEF StopInv, EnableRead, Goto, SpecInv, LifecycleTypeOK
<1>6. ASSUME NEW a \in Admins, EnableSpec(a) PROVE StopInv'
  <2> DEFINE v == op[a].version
  <2> USE DEF StopInv, SpecInv, LifecycleTypeOK, Versions
  <2>1. v \in ToVersions /\ schedule' = schedule
    BY <1>0, <1>6 DEF EnableSpec
  <2>2. CASE specs[v] = "absent"
    <3>1. schedule.version # v
      BY <1>0, <2>1, <2>2
    <3>2. \A b \in Admins : op[b].pc \in {"enableState", "disableState"} =>
                              op[b].version # v
      BY <1>0, <2>1, <2>2
    <3>3. /\ specs' = [specs EXCEPT ![v] = "production"]
          /\ op' = [op EXCEPT ![a] = [pc |-> "enableState", version |-> v]]
      BY <1>6, <2>2 DEF EnableSpec, UpsertSpecVersion, Goto
    <3> QED
      BY <1>0, <2>1, <3>1, <3>2, <3>3
  <2>3. CASE specs[v] # "absent"
    BY <1>0, <1>6, <2>1, <2>3 DEF EnableSpec, UpsertSpecVersion, Idle
  <2> QED
    BY <2>2, <2>3
<1>7. ASSUME NEW a \in Admins, EnableState(a) PROVE StopInv'
  BY <1>0, <1>7
     DEF StopInv, EnableState, SetState, Idle, SpecInv, LifecycleTypeOK
<1>8. ASSUME NEW a \in Admins, DisableRead(a) PROVE StopInv'
  BY <1>0, <1>8 DEF StopInv, DisableRead, Goto, SpecInv, LifecycleTypeOK
<1>9. ASSUME NEW a \in Admins, DisableState(a) PROVE StopInv'
  BY <1>0, <1>9
     DEF StopInv, DisableState, SetState, Idle, SpecInv, LifecycleTypeOK
<1>10. ASSUME NEW a \in Admins, Abandon(a) PROVE StopInv'
  BY <1>0, <1>10 DEF StopInv, Abandon, Idle, SpecInv, LifecycleTypeOK
<1> QED
  BY <1>1, <1>2, <1>3, <1>4, <1>5, <1>6, <1>7, <1>8, <1>9, <1>10
     DEF LifecycleNext, Command

\* A version that is retired stays so, whatever the commands in flight.
LEMMA RetiredStays ==
  ASSUME NEW v \in Versions
  PROVE  StopInv /\ Retired(v) /\ [LifecycleNext]_lifecycleVars => Retired(v)'
<1> SUFFICES ASSUME StopInv, Retired(v), [LifecycleNext]_lifecycleVars PROVE Retired(v)'
  OBVIOUS
<1>0. SpecInv /\ LifecycleTypeOK
  BY DEF StopInv, SpecInv
<1>1. CASE UNCHANGED lifecycleVars
  BY <1>1 DEF Retired, lifecycleVars
<1>2. ASSUME NEW a \in Admins, SeedRead(a) \/ DisableRead(a) \/ Abandon(a) PROVE Retired(v)'
  BY <1>0, <1>2 DEF Retired, SeedRead, DisableRead, Abandon, Goto, Idle, LifecycleTypeOK
<1>3. ASSUME NEW a \in Admins, NEW u \in ToVersions, EnableRead(a, u) PROVE Retired(v)'
  BY <1>0, <1>3 DEF Retired, EnableRead, Goto, LifecycleTypeOK
<1>4. ASSUME NEW a \in Admins, SeedSpec(a) \/ EnableSpec(a) PROVE Retired(v)'
  BY <1>0, <1>4 DEF Retired, SeedSpec, EnableSpec, UpsertSpecVersion, Goto, Idle,
                    LifecycleTypeOK
<1>5. ASSUME NEW a \in Admins, SeedState(a) \/ EnableState(a) \/ DisableState(a)
      PROVE Retired(v)'
  BY <1>0, <1>5 DEF Retired, SeedState, EnableState, DisableState, SetState, Idle,
                    LifecycleTypeOK
<1> QED
  BY <1>1, <1>2, <1>3, <1>4, <1>5 DEF LifecycleNext, Command

\* disable-canary is final for the version it stops: no interleaving of seed, enable
\* and disable commands, however many, however stale and for whatever versions, turns
\* on again a version that ran and was stopped.
THEOREM LifecycleStopIsFinal == LifecycleSpec => StopIsFinal
<1> SUFFICES ASSUME NEW v \in Versions
             PROVE  LifecycleSpec =>
                      []((Stopped /\ schedule.version = v)
                           => [](schedule.state = "enabled" => schedule.version # v))
  BY DEF StopIsFinal
<1>1. StopInv /\ Stopped /\ schedule.version = v => Retired(v)
  BY DEF StopInv, SpecInv, LifecycleTypeOK, Stopped, Retired
<1>2. Retired(v) => (schedule.state = "enabled" => schedule.version # v)
  BY DEF Retired
<1>3. StopInv /\ Retired(v) /\ [LifecycleNext]_lifecycleVars => Retired(v)'
  BY RetiredStays
<1> QED
  BY <1>1, <1>2, <1>3, StopInvInit, StopInvStep, PTL DEF LifecycleSpec

-----------------------------------------------------------------------------
(* The scheduler. *)

\* Every request carries two times, and a self-wake is a request.
LEMMA RequestTimes ==
  /\ \A r \in Requests \cup {<<0, 0>>} : r[1] \in Nat /\ r[2] \in Nat
  /\ \A w \in Windows : SelfWake(w) \in Requests
  /\ OperatorWakes \subseteq Requests /\ ToolWakes \subseteq Requests
BY DriverAssumption DEF Requests, SelfWake

\* The scheduler changes the schedule and its specs only through the commands.
LEMMA LifecycleStep == [Next]_vars => [LifecycleNext]_lifecycleVars
<1> SUFFICES ASSUME [Next]_vars PROVE [LifecycleNext]_lifecycleVars
  OBVIOUS
<1>1. CASE UNCHANGED vars
  BY <1>1 DEF vars
<1>2. ASSUME NEW r \in Requests, OperatorWake(r) \/ Deliver(r)
      PROVE UNCHANGED lifecycleVars
  BY <1>2 DEF OperatorWake, Deliver
<1>3. ASSUME NEW t \in Tools, NEW r \in ToolWakes, FireOnce(t, r) \/ ToolCrash(t)
      PROVE UNCHANGED lifecycleVars
  BY <1>3, RequestTimes DEF FireOnce, ToolCrash
<1>4. ASSUME NEW c \in Conts, Continue(c) PROVE UNCHANGED lifecycleVars
  BY <1>4, RequestTimes DEF Continue, GetSchedule, ClaimLease, CreateOrGetFire, Admit, BindSelect,
              BindUpdate, BindRecheck, ScheduleWake
<1>5. CASE RestateCrash
  BY <1>5, RequestTimes DEF RestateCrash
<1>6. ASSUME NEW t \in Tools, ToolCrash(t) PROVE UNCHANGED lifecycleVars
  BY <1>6 DEF ToolCrash
<1>7. OperatorWakes \subseteq Requests
  BY RequestTimes
<1> QED
  BY <1>1, <1>2, <1>3, <1>4, <1>5, <1>6, <1>7 DEF Next

\* The scheduler's behaviours, seen through the schedule and the specs, are those of
\* the operator commands: what is proved of the commands holds of the whole system.
THEOREM DriverImplementsLifecycle == Spec => LifecycleSpec
BY LifecycleStep, PTL DEF Spec, Init, LifecycleSpec

-----------------------------------------------------------------------------
(* Type correctness.                                                       *)

\* Every variable of the scheduler has its type initially.
LEMMA TypeInit == Init => DriverTypeOK
BY DriverAssumption, VersionAssumption
   DEF Init, LifecycleInit, DriverTypeOK, LifecycleTypeOK, StoreTypeOK,
       RestateTypeOK, ContTypeOK, InWindow, Conts, Owners, Keys, Requests,
       Steps, FireStates, Versions, SpecRows, Absent, Idle, OpSteps
\* Every step keeps every variable in its type.
LEMMA TypeStep == DriverTypeOK /\ LifecycleTypeOK' /\ [Next]_vars => DriverTypeOK'
<1> SUFFICES ASSUME DriverTypeOK, LifecycleTypeOK', [Next]_vars
             PROVE StoreTypeOK' /\ RestateTypeOK' /\ ContTypeOK'
  BY DEF DriverTypeOK
<1> DEFINE Goal == StoreTypeOK' /\ RestateTypeOK' /\ ContTypeOK'
<1>0. StoreTypeOK /\ RestateTypeOK /\ ContTypeOK /\ LifecycleTypeOK
  BY DEF DriverTypeOK
<1>1. CASE UNCHANGED driverVars
  BY <1>0, <1>1 DEF driverVars, storeVars, restateVars, contVars, StoreTypeOK,
                    RestateTypeOK, ContTypeOK
<1>3. ASSUME NEW r \in OperatorWakes, OperatorWake(r) PROVE Goal
  BY <1>0, <1>3, RequestTimes
     DEF OperatorWake, storeVars, contVars, StoreTypeOK, RestateTypeOK, ContTypeOK
<1>4. ASSUME NEW r \in Requests, Deliver(r) PROVE Goal
  <2> USE <1>0, <1>4 DEF Deliver
  <2>1. StoreTypeOK'
    BY RequestTimes DEF storeVars, StoreTypeOK, ContTypeOK
  <2>2. RestateTypeOK'
    BY RequestTimes DEF RestateTypeOK
  <2>3. pc' \in [Conts -> Steps]
    BY DEF ContTypeOK, Steps
  <2>4. \A d \in Conts : pc'[d] \in InWindow => win'[d] \in Windows
    BY DEF ContTypeOK, InWindow
  <2>5. /\ req' \in [Conts -> Requests \cup {<<0, 0>>}]
        /\ ver' \in [Conts -> Versions] /\ want' \in [Conts -> Versions]
        /\ epoch' \in [Conts -> Nat] /\ todo' \in [Conts -> SUBSET Windows]
        /\ win' \in [Conts -> Windows \cup {0}] /\ child' \in [Conts -> Nat]
    BY RequestTimes DEF ContTypeOK
  <2> QED
    BY <2>1, <2>2, <2>3, <2>4, <2>5 DEF ContTypeOK
<1>5. ASSUME NEW t \in Tools, NEW r \in ToolWakes, FireOnce(t, r) PROVE Goal
  <2> USE <1>0, <1>5 DEF FireOnce
  <2>1. StoreTypeOK'
    BY RequestTimes DEF storeVars, StoreTypeOK, ContTypeOK
  <2>2. RestateTypeOK'
    BY RequestTimes DEF restateVars, RestateTypeOK
  <2>3. pc' \in [Conts -> Steps]
    BY DEF ContTypeOK, Steps
  <2>4. \A d \in Conts : pc'[d] \in InWindow => win'[d] \in Windows
    BY DEF ContTypeOK, InWindow
  <2>5. /\ req' \in [Conts -> Requests \cup {<<0, 0>>}]
        /\ ver' \in [Conts -> Versions] /\ want' \in [Conts -> Versions]
        /\ epoch' \in [Conts -> Nat] /\ todo' \in [Conts -> SUBSET Windows]
        /\ win' \in [Conts -> Windows \cup {0}] /\ child' \in [Conts -> Nat]
    BY RequestTimes DEF LifecycleTypeOK, ContTypeOK
  <2> QED
    BY <2>1, <2>2, <2>3, <2>4, <2>5 DEF ContTypeOK
<1>6. ASSUME NEW c \in Conts, GetSchedule(c) PROVE Goal
  <2> USE <1>0, <1>6 DEF GetSchedule
  <2>1. StoreTypeOK'
    BY DEF storeVars, StoreTypeOK, ContTypeOK
  <2>2. RestateTypeOK'
    BY DEF restateVars, RestateTypeOK
  <2>3. pc' \in [Conts -> Steps]
    BY DEF EndPc, ContTypeOK, Steps
  <2>4. \A d \in Conts : pc'[d] \in InWindow => win'[d] \in Windows
    BY DEF EndPc, ContTypeOK, InWindow
  <2>5. /\ req' \in [Conts -> Requests \cup {<<0, 0>>}]
        /\ ver' \in [Conts -> Versions] /\ want' \in [Conts -> Versions]
        /\ epoch' \in [Conts -> Nat] /\ todo' \in [Conts -> SUBSET Windows]
        /\ win' \in [Conts -> Windows \cup {0}] /\ child' \in [Conts -> Nat]
    BY DEF LifecycleTypeOK, ContTypeOK
  <2> QED
    BY <2>1, <2>2, <2>3, <2>4, <2>5 DEF ContTypeOK
<1>7. ASSUME NEW c \in Conts, ClaimLease(c) PROVE Goal
  <2> USE <1>0, <1>7 DEF ClaimLease
  <2>1. StoreTypeOK'
    BY RequestTimes, DriverAssumption DEF NextEpoch, Owners, StoreTypeOK, ContTypeOK
  <2>2. RestateTypeOK'
    BY RequestTimes, DriverAssumption DEF Count, Outcomes, restateVars, RestateTypeOK
  <2>3. pc' \in [Conts -> Steps]
    BY DEF EndPc, ContTypeOK, Steps
  <2>4. \A d \in Conts : pc'[d] \in InWindow => win'[d] \in Windows
    BY DEF EndPc, ContTypeOK, InWindow
  <2>5. /\ req' \in [Conts -> Requests \cup {<<0, 0>>}]
        /\ ver' \in [Conts -> Versions] /\ want' \in [Conts -> Versions]
        /\ epoch' \in [Conts -> Nat] /\ todo' \in [Conts -> SUBSET Windows]
        /\ win' \in [Conts -> Windows \cup {0}] /\ child' \in [Conts -> Nat]
    BY RequestTimes, DriverAssumption DEF Due, NextEpoch, StoreTypeOK, ContTypeOK
  <2> QED
    BY <2>1, <2>2, <2>3, <2>4, <2>5 DEF ContTypeOK
<1>8. ASSUME NEW c \in Conts, CreateOrGetFire(c) PROVE Goal
  <2> USE <1>0, <1>8 DEF CreateOrGetFire
  <2>1. StoreTypeOK'
    BY DEF FireStates, Keys, StoreTypeOK, ContTypeOK
  <2>2. RestateTypeOK'
    BY DEF Count, Outcomes, restateVars, RestateTypeOK
  <2>3. pc' \in [Conts -> Steps]
    BY DEF ContTypeOK, Steps
  <2>4. \A d \in Conts : pc'[d] \in InWindow => win'[d] \in Windows
    BY DEF ContTypeOK, InWindow
  <2>5. /\ req' \in [Conts -> Requests \cup {<<0, 0>>}]
        /\ ver' \in [Conts -> Versions] /\ want' \in [Conts -> Versions]
        /\ epoch' \in [Conts -> Nat] /\ todo' \in [Conts -> SUBSET Windows]
        /\ win' \in [Conts -> Windows \cup {0}] /\ child' \in [Conts -> Nat]
    BY DEF ContTypeOK
  <2> QED
    BY <2>1, <2>2, <2>3, <2>4, <2>5 DEF ContTypeOK
<1>9. ASSUME NEW c \in Conts, Admit(c) PROVE Goal
  <2> USE <1>0, <1>9 DEF Admit
  <2>1. StoreTypeOK'
    BY DEF Key, Keys, InWindow, StoreTypeOK, ContTypeOK
  <2>2. RestateTypeOK'
    BY DEF Count, Outcomes, restateVars, RestateTypeOK
  <2>3. pc' \in [Conts -> Steps]
    BY DEF ContTypeOK, Steps
  <2>4. \A d \in Conts : pc'[d] \in InWindow => win'[d] \in Windows
    BY DEF ContTypeOK, InWindow
  <2>5. /\ req' \in [Conts -> Requests \cup {<<0, 0>>}]
        /\ ver' \in [Conts -> Versions] /\ want' \in [Conts -> Versions]
        /\ epoch' \in [Conts -> Nat] /\ todo' \in [Conts -> SUBSET Windows]
        /\ win' \in [Conts -> Windows \cup {0}] /\ child' \in [Conts -> Nat]
    BY DEF Key, Keys, InWindow, StoreTypeOK, ContTypeOK
  <2> QED
    BY <2>1, <2>2, <2>3, <2>4, <2>5 DEF ContTypeOK
<1>10. ASSUME NEW c \in Conts, BindSelect(c) PROVE Goal
  <2> USE <1>0, <1>10 DEF BindSelect
  <2>1. StoreTypeOK'
    BY DEF storeVars, StoreTypeOK, ContTypeOK
  <2>2. RestateTypeOK'
    BY DEF restateVars, RestateTypeOK
  <2>3. pc' \in [Conts -> Steps]
    BY DEF WindowDone, FencedOut, EndPc, ContTypeOK, Steps
  <2>4. \A d \in Conts : pc'[d] \in InWindow => win'[d] \in Windows
    BY DEF WindowDone, FencedOut, EndPc, ContTypeOK, InWindow
  <2>5. /\ req' \in [Conts -> Requests \cup {<<0, 0>>}]
        /\ ver' \in [Conts -> Versions] /\ want' \in [Conts -> Versions]
        /\ epoch' \in [Conts -> Nat] /\ todo' \in [Conts -> SUBSET Windows]
        /\ win' \in [Conts -> Windows \cup {0}] /\ child' \in [Conts -> Nat]
    BY DEF WindowDone, FencedOut, ContTypeOK
  <2> QED
    BY <2>1, <2>2, <2>3, <2>4, <2>5 DEF ContTypeOK
<1>11. ASSUME NEW c \in Conts, BindUpdate(c) PROVE Goal
  <2> USE <1>0, <1>11 DEF BindUpdate
  <2>1. StoreTypeOK'
    BY DEF FireStates, StoreTypeOK, ContTypeOK
  <2>2. RestateTypeOK'
    BY DEF Count, Outcomes, restateVars, RestateTypeOK
  <2>3. pc' \in [Conts -> Steps]
    BY DEF WindowDone, ContTypeOK, Steps
  <2>4. \A d \in Conts : pc'[d] \in InWindow => win'[d] \in Windows
    BY DEF WindowDone, ContTypeOK, InWindow
  <2>5. /\ req' \in [Conts -> Requests \cup {<<0, 0>>}]
        /\ ver' \in [Conts -> Versions] /\ want' \in [Conts -> Versions]
        /\ epoch' \in [Conts -> Nat] /\ todo' \in [Conts -> SUBSET Windows]
        /\ win' \in [Conts -> Windows \cup {0}] /\ child' \in [Conts -> Nat]
    BY DEF WindowDone, ContTypeOK
  <2> QED
    BY <2>1, <2>2, <2>3, <2>4, <2>5 DEF ContTypeOK
<1>12. ASSUME NEW c \in Conts, BindRecheck(c) PROVE Goal
  <2> USE <1>0, <1>12 DEF BindRecheck
  <2>1. StoreTypeOK'
    BY DEF storeVars, StoreTypeOK, ContTypeOK
  <2>2. RestateTypeOK'
    BY DEF restateVars, RestateTypeOK
  <2>3. pc' \in [Conts -> Steps]
    BY DEF WindowDone, FencedOut, EndPc, ContTypeOK, Steps
  <2>4. \A d \in Conts : pc'[d] \in InWindow => win'[d] \in Windows
    BY DEF WindowDone, FencedOut, EndPc, ContTypeOK, InWindow
  <2>5. /\ req' \in [Conts -> Requests \cup {<<0, 0>>}]
        /\ ver' \in [Conts -> Versions] /\ want' \in [Conts -> Versions]
        /\ epoch' \in [Conts -> Nat] /\ todo' \in [Conts -> SUBSET Windows]
        /\ win' \in [Conts -> Windows \cup {0}] /\ child' \in [Conts -> Nat]
    BY DEF WindowDone, FencedOut, ContTypeOK
  <2> QED
    BY <2>1, <2>2, <2>3, <2>4, <2>5 DEF ContTypeOK
<1>13. ASSUME NEW c \in Conts, ScheduleWake(c) PROVE Goal
  <2> USE <1>0, <1>13 DEF ScheduleWake
  <2>1. StoreTypeOK'
    BY RequestTimes DEF storeVars, StoreTypeOK, ContTypeOK
  <2>2. RestateTypeOK'
    BY RequestTimes DEF RestateTypeOK
  <2>3. pc' \in [Conts -> Steps]
    BY DEF EndPc, ContTypeOK, Steps
  <2>4. \A d \in Conts : pc'[d] \in InWindow => win'[d] \in Windows
    BY DEF EndPc, ContTypeOK, InWindow
  <2>5. /\ req' \in [Conts -> Requests \cup {<<0, 0>>}]
        /\ ver' \in [Conts -> Versions] /\ want' \in [Conts -> Versions]
        /\ epoch' \in [Conts -> Nat] /\ todo' \in [Conts -> SUBSET Windows]
        /\ win' \in [Conts -> Windows \cup {0}] /\ child' \in [Conts -> Nat]
    BY RequestTimes DEF ContTypeOK
  <2> QED
    BY <2>1, <2>2, <2>3, <2>4, <2>5 DEF ContTypeOK
<1>14. ASSUME NEW c \in Conts, ToolCrash(c) \/ RestateCrash PROVE Goal
  <2> USE <1>0, <1>14 DEF ToolCrash, RestateCrash
  <2>1. StoreTypeOK'
    BY DEF storeVars, StoreTypeOK, ContTypeOK
  <2>2. RestateTypeOK'
    BY DEF restateVars, RestateTypeOK
  <2>3. pc' \in [Conts -> Steps]
    BY DEF ContTypeOK, Steps
  <2>4. \A d \in Conts : pc'[d] \in InWindow => win'[d] \in Windows
    BY DEF ContTypeOK, InWindow
  <2>5. /\ req' \in [Conts -> Requests \cup {<<0, 0>>}]
        /\ ver' \in [Conts -> Versions] /\ want' \in [Conts -> Versions]
        /\ epoch' \in [Conts -> Nat] /\ todo' \in [Conts -> SUBSET Windows]
        /\ win' \in [Conts -> Windows \cup {0}] /\ child' \in [Conts -> Nat]
    BY DEF ContTypeOK
  <2> QED
    BY <2>1, <2>2, <2>3, <2>4, <2>5 DEF ContTypeOK
<1> QED
  BY <1>1, <1>3, <1>4, <1>5, <1>6, <1>7, <1>8, <1>9, <1>10, <1>11, <1>12, <1>13, <1>14
     DEF Next, Continue, Conts, vars

\* Every variable of the scheduler, and every row it stores, has its type.
THEOREM DriverTypeCorrect == Spec => []DriverTypeOK
<1>1. Init /\ [][LifecycleNext]_lifecycleVars => []SpecInv
  BY SpecInvInit, SpecInvStep, PTL DEF Init
<1>2. SpecInv => LifecycleTypeOK
  BY DEF SpecInv
<1> QED
  BY <1>1, <1>2, TypeInit, TypeStep, LifecycleStep, PTL DEF Spec
-----------------------------------------------------------------------------
(* One task per fire.                                                      *)

Binding == {"select", "update", "recheck"}

\* What a continuation carries into the bind is the task the door admitted for the
\* very fire it binds, although steps were repeated and other continuations ran.
FireInv ==
  /\ OneTaskPerFire
  /\ \A c \in Conts : pc[c] \in Binding =>
       child[c] # 0 /\ child[c] = admissions[Key(c)]

\* No fire is admitted or bound initially.
LEMMA FireInvInit == Init => FireInv
BY DEF Init, FireInv, OneTaskPerFire, Binding, Keys

\* Admitting once per identity and binding under the null check preserve it.
LEMMA FireInvStep == DriverTypeOK /\ FireInv /\ [Next]_vars => FireInv'
<1> SUFFICES ASSUME DriverTypeOK, FireInv, [Next]_vars PROVE FireInv'
  OBVIOUS
<1> USE DEF Binding
<1>0. StoreTypeOK /\ ContTypeOK
  BY DEF DriverTypeOK
<1>1. ASSUME UNCHANGED <<fires, admissions, minted>>,
             \A d \in Conts : pc'[d] \in Binding =>
               /\ pc[d] \in Binding
               /\ child'[d] = child[d] /\ ver'[d] = ver[d] /\ win'[d] = win[d]
      PROVE FireInv'
  BY <1>1 DEF FireInv, OneTaskPerFire, Key
<1>2. CASE UNCHANGED driverVars
  BY <1>1, <1>2 DEF driverVars, storeVars, contVars
<1>3. ASSUME NEW r \in Requests, OperatorWake(r) \/ Deliver(r) PROVE FireInv'
  BY <1>0, <1>1, <1>3 DEF OperatorWake, Deliver, storeVars, contVars, ContTypeOK
<1>4. ASSUME NEW t \in Tools, NEW r \in ToolWakes, FireOnce(t, r) PROVE FireInv'
  BY <1>0, <1>1, <1>4 DEF FireOnce, storeVars, ContTypeOK
<1>5. ASSUME NEW c \in Conts, GetSchedule(c) \/ ClaimLease(c) \/ ScheduleWake(c)
      PROVE FireInv'
  BY <1>0, <1>1, <1>5
     DEF GetSchedule, ClaimLease, ScheduleWake, EndPc, storeVars, ContTypeOK
<1>6. ASSUME NEW c \in Conts, BindSelect(c) \/ BindRecheck(c) PROVE FireInv'
  BY <1>0, <1>1, <1>6
     DEF BindSelect, BindRecheck, WindowDone, FencedOut, EndPc, storeVars, ContTypeOK
<1>7. ASSUME NEW c \in Conts, ToolCrash(c) \/ RestateCrash PROVE FireInv'
  BY <1>0, <1>1, <1>7 DEF ToolCrash, RestateCrash, storeVars, ContTypeOK
<1>8. ASSUME NEW c \in Conts, CreateOrGetFire(c) PROVE FireInv'
  <2>1. /\ UNCHANGED <<admissions, minted, child, ver>>
        /\ \A d \in Conts : pc'[d] \in Binding => pc[d] \in Binding /\ win'[d] = win[d]
    BY <1>0, <1>8 DEF CreateOrGetFire, ContTypeOK
  <2>2. PICK w \in Windows :
          fires' = [fires EXCEPT ![<<ver[c], w>>] =
                      IF @.state = "absent" THEN [state |-> "PLANNED", child |-> 0]
                                            ELSE @]
    BY <1>0, <1>8 DEF CreateOrGetFire, ContTypeOK
  <2>3. /\ <<ver[c], w>> \in Keys
        /\ \A k \in Keys : fires[k].state = "absent" => fires[k].child = 0
    BY <1>0 DEF Keys, ContTypeOK, FireInv, OneTaskPerFire
  <2>4. \A k \in Keys : /\ fires'[k].child = fires[k].child
                        /\ (fires'[k].state = "ADMITTED") = (fires[k].state = "ADMITTED")
    BY <1>0, <2>2, <2>3 DEF StoreTypeOK
  <2> QED
    BY <2>1, <2>4 DEF FireInv, OneTaskPerFire, Key
<1>9. ASSUME NEW c \in Conts, Admit(c) PROVE FireInv'
  <2>1. Key(c) \in Keys
    BY <1>0, <1>9 DEF Admit, Key, Keys, ContTypeOK, InWindow
  <2>2. UNCHANGED <<fires, ver, win>>
    BY <1>9 DEF Admit
  <2>3. \A d \in Conts : pc'[d] \in Binding =>
          d = c \/ (pc[d] \in Binding /\ child'[d] = child[d])
    BY <1>0, <1>9 DEF Admit, ContTypeOK
  <2>4. CASE admissions[Key(c)] = 0
    <3>1. /\ admissions' = [admissions EXCEPT ![Key(c)] = minted + 1]
          /\ minted' = minted + 1
          /\ child' = [child EXCEPT ![c] = minted + 1]
      BY <1>9, <2>4 DEF Admit
    <3>2. OneTaskPerFire'
      BY <1>0, <2>1, <2>2, <2>4, <3>1 DEF FireInv, OneTaskPerFire, StoreTypeOK
    <3>3. \A d \in Conts : pc'[d] \in Binding => child'[d] # 0 /\ child'[d] = admissions'[Key(d)]
      BY <1>0, <2>1, <2>3, <2>4, <3>1 DEF FireInv, StoreTypeOK, ContTypeOK
    <3> QED
      BY <2>2, <3>2, <3>3 DEF FireInv, Key
  <2>5. CASE admissions[Key(c)] # 0
    <3>1. /\ admissions' = admissions /\ minted' = minted
          /\ child' = [child EXCEPT ![c] = admissions[Key(c)]]
      BY <1>0, <1>9, <2>1, <2>5 DEF Admit, StoreTypeOK
    <3> QED
      BY <1>0, <2>2, <2>3, <2>5, <3>1 DEF FireInv, OneTaskPerFire, Key, ContTypeOK
  <2> QED
    BY <2>4, <2>5
<1>10. ASSUME NEW c \in Conts, BindUpdate(c) PROVE FireInv'
  <2>1. /\ UNCHANGED <<admissions, minted, child, ver, win>>
        /\ \A d \in Conts : pc'[d] \in Binding => pc[d] \in Binding
    BY <1>0, <1>10 DEF BindUpdate, WindowDone, ContTypeOK
  <2>2. child[c] # 0 /\ child[c] = admissions[Key(c)]
    BY <1>10 DEF BindUpdate, FireInv
  <2>3. fires' \in {fires, [fires EXCEPT ![Key(c)] = [state |-> "ADMITTED", child |-> child[c]]]}
    BY <1>10 DEF BindUpdate
  <2>4. OneTaskPerFire'
    <3>1. \A k \in Keys : fires'[k] \in {fires[k], [state |-> "ADMITTED", child |-> child[c]]}
                          /\ (fires'[k] # fires[k] => k = Key(c))
      BY <1>0, <2>3 DEF StoreTypeOK
    <3> QED
      BY <2>1, <2>2, <3>1 DEF FireInv, OneTaskPerFire
  <2> QED
    BY <2>1, <2>4 DEF FireInv, Key
<1> QED
  BY <1>2, <1>3, <1>4, <1>5, <1>6, <1>7, <1>8, <1>9, <1>10, RequestTimes
     DEF Next, Continue, Conts, vars

\* One canonical task per logical fire, for every calendar, every set of concurrent
\* continuations and every pattern of crashes, lost steps and lease takeovers.
THEOREM DriverOneTaskPerFire == Spec => []OneTaskPerFire
<1>1. FireInv => OneTaskPerFire
  BY DEF FireInv
<1> QED
  BY <1>1, FireInvInit, FireInvStep, DriverTypeCorrect, PTL DEF Spec

-----------------------------------------------------------------------------
(* The fence.                                                              *)

\* Epochs grow: a continuation that holds a fence holds the lease's epoch or an older
\* one, the current epoch belongs to the lease's owner, and no two hold the same.
FenceInv ==
  /\ \A c \in Conts : Holds(c) =>
       /\ lease.owner # NoOwner
       /\ epoch[c] <= lease.epoch
       /\ epoch[c] = lease.epoch => lease.owner = Owner[c]
  /\ \A c, d \in Conts : c # d /\ Holds(c) /\ Holds(d) => epoch[c] # epoch[d]

\* Nobody holds a fence initially.
LEMMA FenceInvInit == Init => FenceInv
BY DEF Init, FenceInv, Holds, InWindow

\* How a step changes the lease and the fences: a claim takes the next epoch, or its
\* result is lost; every other step leaves the lease and the fences alone.
LEMMA FenceSteps ==
  ASSUME DriverTypeOK, [Next]_vars
  PROVE  \/ /\ UNCHANGED lease
            /\ \A d \in Conts : Holds(d)' => Holds(d) /\ epoch'[d] = epoch[d]
         \/ \E c \in Conts :
              /\ lease'.owner = Owner[c] /\ lease'.epoch = NextEpoch
              /\ ~Holds(c)
              /\ \A d \in Conts : Holds(d)' =>
                   IF d = c THEN epoch'[d] = NextEpoch
                            ELSE Holds(d) /\ epoch'[d] = epoch[d]
<1> DEFINE Quiet == /\ UNCHANGED lease
                    /\ \A d \in Conts : Holds(d)' => Holds(d) /\ epoch'[d] = epoch[d]
<1> USE DEF Holds, InWindow
<1>0. ContTypeOK
  BY DEF DriverTypeOK
<1>2. CASE UNCHANGED driverVars
  BY <1>2 DEF driverVars, storeVars, contVars
<1>3. ASSUME NEW r \in Requests, OperatorWake(r) \/ Deliver(r) PROVE Quiet
  BY <1>0, <1>3 DEF OperatorWake, Deliver, storeVars, contVars, ContTypeOK
<1>4. ASSUME NEW t \in Tools, NEW r \in ToolWakes, FireOnce(t, r) PROVE Quiet
  BY <1>0, <1>4 DEF FireOnce, storeVars, ContTypeOK
<1>5. ASSUME NEW c \in Conts, GetSchedule(c) \/ ScheduleWake(c) PROVE Quiet
  BY <1>0, <1>5 DEF GetSchedule, ScheduleWake, EndPc, storeVars, ContTypeOK
<1>6. ASSUME NEW c \in Conts, BindSelect(c) \/ BindRecheck(c) PROVE Quiet
  BY <1>0, <1>6
     DEF BindSelect, BindRecheck, WindowDone, FencedOut, EndPc, storeVars, ContTypeOK
<1>7. ASSUME NEW c \in Conts, ToolCrash(c) \/ RestateCrash PROVE Quiet
  BY <1>0, <1>7 DEF ToolCrash, RestateCrash, storeVars, ContTypeOK
<1>8. ASSUME NEW c \in Conts, CreateOrGetFire(c) \/ Admit(c) PROVE Quiet
  BY <1>0, <1>8 DEF CreateOrGetFire, Admit, ContTypeOK
<1>9. ASSUME NEW c \in Conts, BindUpdate(c) PROVE Quiet
  BY <1>0, <1>9 DEF BindUpdate, WindowDone, ContTypeOK
<1>10. ASSUME NEW c \in Conts, ClaimLease(c), ~Claimable(c) PROVE Quiet
  BY <1>0, <1>10 DEF ClaimLease, EndPc, ContTypeOK
<1>11. ASSUME NEW c \in Conts, ClaimLease(c), Claimable(c)
       PROVE /\ lease'.owner = Owner[c] /\ lease'.epoch = NextEpoch
             /\ ~Holds(c)
             /\ \A d \in Conts : Holds(d)' =>
                  IF d = c THEN epoch'[d] = NextEpoch
                           ELSE Holds(d) /\ epoch'[d] = epoch[d]
  BY <1>0, <1>11 DEF ClaimLease, ContTypeOK
<1> QED
  BY <1>2, <1>3, <1>4, <1>5, <1>6, <1>7, <1>8, <1>9, <1>10, <1>11, RequestTimes
     DEF Next, Continue, Conts, vars

\* A claim's epoch is larger than every fence held.
LEMMA FenceInvStep == DriverTypeOK /\ FenceInv /\ [Next]_vars => FenceInv'
<1> SUFFICES ASSUME DriverTypeOK, FenceInv, [Next]_vars PROVE FenceInv'
  OBVIOUS
<1>0. /\ lease.epoch \in Nat /\ \A c \in Conts : epoch[c] \in Nat
      /\ \A c \in Conts : Owner[c] # NoOwner
  BY DriverAssumption DEF DriverTypeOK, StoreTypeOK, ContTypeOK, Owners
<1> QED
  BY <1>0, FenceSteps DEF FenceInv, NextEpoch

\* No two continuations ever hold the same fence.
THEOREM DriverFenceMutex == Spec => []FenceMutex
<1>1. FenceInv => FenceMutex
  BY DEF FenceInv, FenceMutex
<1> QED
  BY <1>1, FenceInvInit, FenceInvStep, DriverTypeCorrect, PTL DEF Spec

\* A stale fence never becomes current again for the continuation that holds it, so
\* treating StaleFenceError as terminal loses nothing a retry could gain.
THEOREM DriverNoFenceRevival == Spec => NoFenceRevival
<1> DEFINE Revival == \A c \in Conts :
                        Holds(c) /\ ~FenceCurrent(c) /\ Holds(c)' => ~FenceCurrent(c)'
<1>1. DriverTypeOK /\ FenceInv /\ [Next]_vars => [Revival]_vars
  <2> SUFFICES ASSUME DriverTypeOK, FenceInv, [Next]_vars,
                      NEW c \in Conts, Holds(c), ~FenceCurrent(c), Holds(c)'
               PROVE ~FenceCurrent(c)'
    OBVIOUS
  <2>0. lease.epoch \in Nat /\ epoch[c] \in Nat
    BY DEF DriverTypeOK, StoreTypeOK, ContTypeOK
  <2> QED
    BY <2>0, FenceSteps DEF FenceInv, NextEpoch, FenceCurrent
<1> QED
  BY <1>1, FenceInvInit, FenceInvStep, DriverTypeCorrect, PTL DEF Spec, NoFenceRevival

\* A fire is bound only by the continuation with the current fence.
LEMMA BindSteps ==
  ASSUME DriverTypeOK, FireInv, [Next]_vars,
         NEW k \in Keys, fires'[k].child # fires[k].child
  PROVE  \E c \in Conts : /\ Holds(c) /\ FenceCurrent(c) /\ Key(c) = k
                           /\ child[c] = fires'[k].child
<1> DEFINE Bound == \E c \in Conts : /\ Holds(c) /\ FenceCurrent(c) /\ Key(c) = k
                                      /\ child[c] = fires'[k].child
<1> USE DEF Holds, InWindow
<1>0. StoreTypeOK /\ fires' # fires
  BY DEF DriverTypeOK
<1>1. ASSUME NEW c \in Conts, BindUpdate(c) PROVE Bound
  <2>1. FenceCurrent(c) /\ Holds(c)
    BY <1>0, <1>1 DEF BindUpdate
  <2>2. fires' = [fires EXCEPT ![Key(c)] = [state |-> "ADMITTED", child |-> child[c]]]
    BY <1>0, <1>1 DEF BindUpdate
  <2>3. Key(c) = k /\ child[c] = fires'[k].child
    BY <1>0, <2>2 DEF StoreTypeOK
  <2> QED  BY <2>1, <2>3
<1>2. ASSUME NEW c \in Conts, CreateOrGetFire(c) PROVE FALSE
  <2>1. PICK j : fires' = [fires EXCEPT ![j] =
                             IF @.state = "absent" THEN [state |-> "PLANNED", child |-> 0]
                                                   ELSE @]
    BY <1>2 DEF CreateOrGetFire
  <2>2. fires[k].state = "absent" /\ fires'[k].child = 0
    BY <1>0, <2>1 DEF StoreTypeOK
  <2>3. fires[k].child = 0
    BY <2>2 DEF FireInv, OneTaskPerFire
  <2> QED  BY <2>2, <2>3
<1> QED
  BY <1>0, <1>1, <1>2
     DEF Next, Continue, vars, driverVars, storeVars, OperatorWake, Deliver, FireOnce,
         GetSchedule, ClaimLease, Admit, BindSelect, BindRecheck, ScheduleWake,
         RestateCrash, ToolCrash

\* Only the continuation that claimed the lease last binds a fire (LastClaimBinds).
THEOREM DriverLastClaimBinds == Spec => LastClaimBinds
<1> DEFINE Last == \A k \in Keys : fires'[k].child # fires[k].child =>
                     \E c \in Conts :
                       /\ Holds(c) /\ Key(c) = k /\ child[c] = fires'[k].child
                       /\ \A d \in Conts \ {c} : Holds(d) => epoch[d] < epoch[c]
<1>1. DriverTypeOK /\ FireInv /\ FenceInv /\ [Next]_vars => [Last]_vars
  <2> SUFFICES ASSUME DriverTypeOK, FireInv, FenceInv, [Next]_vars,
                      NEW k \in Keys, fires'[k].child # fires[k].child
               PROVE  \E c \in Conts :
                        /\ Holds(c) /\ Key(c) = k /\ child[c] = fires'[k].child
                        /\ \A d \in Conts \ {c} : Holds(d) => epoch[d] < epoch[c]
    OBVIOUS
  <2>1. PICK c \in Conts : /\ Holds(c) /\ FenceCurrent(c) /\ Key(c) = k
                           /\ child[c] = fires'[k].child
    BY BindSteps
  <2>2. lease.epoch \in Nat /\ \A d \in Conts : epoch[d] \in Nat
    BY DEF DriverTypeOK, StoreTypeOK, ContTypeOK
  <2>3. \A d \in Conts \ {c} : Holds(d) => epoch[d] < epoch[c]
    BY <2>1, <2>2 DEF FenceInv, FenceCurrent
  <2> QED  BY <2>1, <2>3
<1> QED
  BY <1>1, FireInvInit, FireInvStep, FenceInvInit, FenceInvStep, DriverTypeCorrect, PTL
     DEF Spec, LastClaimBinds
-----------------------------------------------------------------------------
(* The refinement of ScheduleFires.                                        *)

\* The rows of schedule_fires as ScheduleFires sees them.
BoundOf == [k \in Keys |-> fires[k].child]

\* A step either leaves admissions and bindings alone, or admits one fire that had no
\* task, or binds one unbound fire to the task admitted for it.
LEMMA FireSteps ==
  ASSUME DriverTypeOK, FireInv, [Next]_vars
  PROVE  Fires!Next \/ UNCHANGED Fires!vars
<1> DEFINE Same == UNCHANGED <<fires, admissions>>
<1>0. StoreTypeOK /\ ContTypeOK
  BY DEF DriverTypeOK
<1>1. ASSUME Same PROVE UNCHANGED Fires!vars
  BY <1>1 DEF Fires!vars
<1>2. CASE UNCHANGED driverVars
  BY <1>1, <1>2 DEF driverVars, storeVars
<1>3. ASSUME NEW r \in Requests, OperatorWake(r) \/ Deliver(r) PROVE Same
  BY <1>3 DEF OperatorWake, Deliver, storeVars
<1>4. ASSUME NEW t \in Tools, NEW r \in ToolWakes, FireOnce(t, r) PROVE Same
  BY <1>4 DEF FireOnce, storeVars
<1>5. ASSUME NEW c \in Conts, GetSchedule(c) \/ ClaimLease(c) \/ ScheduleWake(c)
      PROVE Same
  BY <1>5 DEF GetSchedule, ClaimLease, ScheduleWake, storeVars
<1>6. ASSUME NEW c \in Conts, BindSelect(c) \/ BindRecheck(c) PROVE Same
  BY <1>6 DEF BindSelect, BindRecheck, storeVars
<1>7. ASSUME NEW c \in Conts, ToolCrash(c) \/ RestateCrash PROVE Same
  BY <1>7 DEF ToolCrash, RestateCrash, storeVars
<1>8. ASSUME NEW c \in Conts, CreateOrGetFire(c) PROVE UNCHANGED Fires!vars
  <2>1. PICK w \in Windows :
          fires' = [fires EXCEPT ![<<ver[c], w>>] =
                      IF @.state = "absent" THEN [state |-> "PLANNED", child |-> 0]
                                            ELSE @]
    BY <1>0, <1>8 DEF CreateOrGetFire, ContTypeOK
  <2>2. \A k \in Keys : fires[k].state = "absent" => fires[k].child = 0
    BY <1>0 DEF FireInv, OneTaskPerFire
  <2>3. \A k \in Keys : fires'[k].child = fires[k].child
    BY <1>0, <2>1, <2>2 DEF StoreTypeOK
  <2>4. UNCHANGED admissions
    BY <1>8 DEF CreateOrGetFire
  <2> QED
    BY <2>3, <2>4 DEF Fires!vars
<1>9. ASSUME NEW c \in Conts, Admit(c) PROVE Fires!Next \/ UNCHANGED Fires!vars
  <2>1. Key(c) \in Keys
    BY <1>0, <1>9 DEF Admit, Key, Keys, ContTypeOK, InWindow
  <2>2. UNCHANGED fires
    BY <1>9 DEF Admit
  <2>3. CASE admissions[Key(c)] # 0
    BY <1>0, <1>1, <1>9, <2>1, <2>2, <2>3 DEF Admit, StoreTypeOK
  <2>4. CASE admissions[Key(c)] = 0
    <3>1. admissions' = [admissions EXCEPT ![Key(c)] = minted + 1]
      BY <1>9, <2>4 DEF Admit
    <3>2. admissions'[Key(c)] = minted + 1 /\ minted + 1 \in Nat \ {0}
      BY <1>0, <2>1, <3>1 DEF StoreTypeOK
    <3>3. \A j \in Keys : admissions[j] # minted + 1
      BY <1>0 DEF FireInv, OneTaskPerFire, StoreTypeOK
    <3>4. PICK k \in Keys : k = Key(c)
      BY <2>1
    <3>5. Fires!Admit(k)
      BY <2>2, <2>4, <3>1, <3>2, <3>3, <3>4 DEF Fires!Admit
    <3> QED
      BY <3>5 DEF Fires!Next
  <2> QED
    BY <2>3, <2>4
<1>10. ASSUME NEW c \in Conts, BindUpdate(c) PROVE Fires!Next \/ UNCHANGED Fires!vars
  <2>1. Key(c) \in Keys /\ UNCHANGED admissions
    BY <1>0, <1>10 DEF BindUpdate, Key, Keys, ContTypeOK, InWindow
  <2>2. child[c] # 0 /\ child[c] = admissions[Key(c)]
    BY <1>10 DEF BindUpdate, FireInv, Binding
  <2>3. \/ UNCHANGED fires
        \/ /\ fires[Key(c)].child = 0
           /\ fires' = [fires EXCEPT ![Key(c)] = [state |-> "ADMITTED", child |-> child[c]]]
    BY <1>10 DEF BindUpdate
  <2>4. CASE UNCHANGED fires
    BY <1>1, <2>1, <2>4
  <2>5. ASSUME fires[Key(c)].child = 0,
               fires' = [fires EXCEPT ![Key(c)] = [state |-> "ADMITTED", child |-> child[c]]]
        PROVE  Fires!Next
    <3>1. PICK k \in Keys : k = Key(c)
      BY <2>1
    <3>2. \A j \in Keys : fires'[j].child = IF j = k THEN child[c] ELSE fires[j].child
      BY <1>0, <2>1, <2>5, <3>1 DEF StoreTypeOK
    <3>3. BoundOf' = [BoundOf EXCEPT ![k] = admissions[k]]
      BY <2>1, <2>2, <3>1, <3>2 DEF BoundOf
    <3>4. Fires!Bind(k)
      BY <2>1, <2>2, <2>5, <3>1, <3>3 DEF Fires!Bind, BoundOf
    <3> QED
      BY <3>4 DEF Fires!Next
  <2> QED
    BY <2>3, <2>4, <2>5
<1> QED
  BY <1>1, <1>2, <1>3, <1>4, <1>5, <1>6, <1>7, <1>8, <1>9, <1>10, RequestTimes
     DEF Next, Continue, Conts, vars

\* The scheduler, with its leases, retries, crashes and concurrent continuations, does
\* nothing but admit each logical fire once and bind it once to the task admitted.
THEOREM DriverImplementsFires == Spec => ImplementsFires
<1>1. Init => Fires!Init
  BY DEF Init, Fires!Init
<1>2. DriverTypeOK /\ FireInv /\ [Next]_vars => [Fires!Next]_(Fires!vars)
  BY FireSteps
<1> QED
  BY <1>1, <1>2, FireInvInit, FireInvStep, DriverTypeCorrect, PTL
     DEF Spec, ImplementsFires, Fires!Spec
-----------------------------------------------------------------------------
(* The version a fire is made for.                                         *)

\* A continuation that read the schedule and may still create work.
Reading(c) == pc[c] = "claim" \/ Holds(c)

\* Every version that was fired or read by a continuation is enabled for production,
\* and stays so.
VersionInv ==
  /\ \A k \in Keys : fires[k].state # "absent" => specs[k[1]] = "production"
  /\ \A c \in Conts : Reading(c) => specs[ver[c]] = "production"

\* Nothing has been read or fired initially.
LEMMA VersionInvInit == Init => VersionInv
BY DEF Init, VersionInv, Reading, Holds, InWindow, Conts

\* upsertSpecVersion never changes a version that is stored.
LEMMA ProductionStays ==
  ASSUME SpecInv, [LifecycleNext]_lifecycleVars, NEW v \in Versions, specs[v] = "production"
  PROVE  specs'[v] = "production"
<1>1. ASSUME NEW a \in Admins, Command(a) PROVE specs'[v] = "production"
  BY <1>1 DEF Command, SeedRead, SeedSpec, SeedState, EnableRead, EnableSpec, EnableState, DisableRead,
     DisableState, Abandon, UpsertSpecVersion, SetState, SpecInv, LifecycleTypeOK
<1> QED
  BY <1>1 DEF LifecycleNext, lifecycleVars

\* What a step may make of the versions: getSchedule takes a version that may fire,
\* createOrGetFire uses the version that was read.
LEMMA VersionSteps ==
  ASSUME DriverTypeOK, [Next]_vars
  PROVE  /\ \A k \in Keys : fires'[k].state # "absent" =>
              \/ fires[k].state # "absent"
              \/ \E c \in Conts : Reading(c) /\ k[1] = ver[c]
         /\ \A c \in Conts : Reading(c)' =>
              \/ Reading(c) /\ ver'[c] = ver[c]
              \/ CanFire /\ ver'[c] = schedule.version
<1> DEFINE
      Fired == \A k \in Keys : fires'[k].state # "absent" =>
                 \/ fires[k].state # "absent"
                 \/ \E c \in Conts : Reading(c) /\ k[1] = ver[c]
      Read == \A c \in Conts : Reading(c)' =>
                \/ Reading(c) /\ ver'[c] = ver[c]
                \/ CanFire /\ ver'[c] = schedule.version
      Goal == Fired /\ Read
<1> USE DEF Reading, Holds, InWindow
<1>0. ContTypeOK /\ StoreTypeOK /\ Tools \subseteq Conts /\ Restate \in Conts /\ Restate \notin Tools
  BY DriverAssumption DEF DriverTypeOK, Conts
<1>1. CASE UNCHANGED driverVars
  BY <1>1 DEF driverVars, storeVars, contVars
<1>2. ASSUME NEW r \in Requests, OperatorWake(r) \/ Deliver(r) PROVE Goal
  BY <1>0, <1>2 DEF OperatorWake, Deliver, storeVars, contVars, ContTypeOK
<1>3. ASSUME NEW t \in Tools, NEW r \in ToolWakes, FireOnce(t, r) PROVE Goal
  BY <1>0, <1>3 DEF FireOnce, storeVars, ContTypeOK
<1>4. ASSUME NEW c \in Conts, GetSchedule(c) PROVE Goal
  BY <1>0, <1>4 DEF GetSchedule, EndPc, storeVars, ContTypeOK
<1>5. ASSUME NEW c \in Conts, ClaimLease(c) \/ ScheduleWake(c) PROVE Goal
  BY <1>0, <1>5 DEF ClaimLease, ScheduleWake, EndPc, storeVars, ContTypeOK
<1>6. ASSUME NEW c \in Conts, BindSelect(c) \/ BindRecheck(c) PROVE Goal
  BY <1>0, <1>6 DEF BindSelect, BindRecheck, WindowDone, FencedOut, EndPc, storeVars, ContTypeOK
<1>7. ASSUME NEW c \in Conts, ToolCrash(c) \/ RestateCrash PROVE Goal
  BY <1>0, <1>7 DEF ToolCrash, RestateCrash, storeVars, ContTypeOK
<1>8. ASSUME NEW c \in Conts, CreateOrGetFire(c) PROVE Goal
  <2>1. Read  BY <1>0, <1>8 DEF CreateOrGetFire, ContTypeOK
  <2>2. PICK w \in Windows :
          fires' = [fires EXCEPT ![<<ver[c], w>>] =
                      IF @.state = "absent" THEN [state |-> "PLANNED", child |-> 0]
                                            ELSE @]
    BY <1>0, <1>8 DEF CreateOrGetFire, ContTypeOK
  <2>3. \A k \in Keys : fires'[k] = fires[k] \/ k = <<ver[c], w>>
    BY <1>0, <2>2 DEF StoreTypeOK
  <2>4. Reading(c)  BY <1>8 DEF CreateOrGetFire
  <2>5. Fired  BY <2>3, <2>4
  <2> QED  BY <2>1, <2>5
<1>9. ASSUME NEW c \in Conts, Admit(c) PROVE Goal
  BY <1>0, <1>9 DEF Admit, ContTypeOK
<1>10. ASSUME NEW c \in Conts, BindUpdate(c) PROVE Goal
  <2>1. Read  BY <1>0, <1>10 DEF BindUpdate, WindowDone, ContTypeOK
  <2>2. fires' \in {fires, [fires EXCEPT ![Key(c)] = [state |-> "ADMITTED", child |-> child[c]]]}
    BY <1>10 DEF BindUpdate
  <2>3. \A k \in Keys : fires'[k] = fires[k] \/ k = <<ver[c], win[c]>>
    BY <1>0, <2>2 DEF StoreTypeOK, Key
  <2>4. Reading(c)  BY <1>10 DEF BindUpdate
  <2>5. Fired  BY <2>3, <2>4
  <2> QED  BY <2>1, <2>5
<1> QED
  BY <1>1, <1>2, <1>3, <1>4, <1>5, <1>6, <1>7, <1>8, <1>9, <1>10, RequestTimes
     DEF Next, Continue, Conts, vars

\* Every step keeps it.
LEMMA VersionInvStep ==
  DriverTypeOK /\ DriverTypeOK' /\ SpecInv /\ VersionInv /\ [Next]_vars => VersionInv'
<1> SUFFICES ASSUME DriverTypeOK, DriverTypeOK', SpecInv, VersionInv, [Next]_vars PROVE VersionInv'
  OBVIOUS
<1>0. /\ \A c \in Conts : ver[c] \in Versions /\ ver'[c] \in Versions
      /\ schedule.version \in Versions /\ Tools \subseteq Conts
  BY DEF DriverTypeOK, ContTypeOK, LifecycleTypeOK, Conts
<1>1. \A v \in Versions : specs[v] = "production" => specs'[v] = "production"
  BY ProductionStays, LifecycleStep
<1>2. CanFire => specs[schedule.version] = "production"
  BY DEF CanFire
<1>3. ASSUME NEW k \in Keys, fires'[k].state # "absent" PROVE specs'[k[1]] = "production"
  <2>1. k[1] \in Versions  BY DEF Keys
  <2>2. specs[k[1]] = "production"
    BY <1>3, VersionSteps DEF VersionInv
  <2> QED  BY <1>1, <2>1, <2>2
<1>4. ASSUME NEW c \in Conts, Reading(c)' PROVE specs'[ver'[c]] = "production"
  <2>1. specs[ver'[c]] = "production"  BY <1>2, <1>4, VersionSteps DEF VersionInv
  <2> QED  BY <1>0, <1>1, <2>1
<1> QED  BY <1>3, <1>4 DEF VersionInv

LEMMA VersionInvariant == Spec => [](DriverTypeOK /\ SpecInv /\ VersionInv)
<1>1. Init => SpecInv
  BY SpecInvInit DEF Init
<1>2. SpecInv /\ [Next]_vars => SpecInv'
  BY SpecInvStep, LifecycleStep
<1> QED
  BY <1>1, <1>2, VersionInvInit, VersionInvStep, DriverTypeCorrect, PTL DEF Spec

\* Only versions enabled for production ever create a fire, whatever versions the
\* operators ask for and however stale the schedule a continuation read.
THEOREM DriverFiresProduction ==
  Spec => [](\A k \in Keys : fires[k].state # "absent" => specs[k[1]] = "production")
<1>1. VersionInv => \A k \in Keys : fires[k].state # "absent" => specs[k[1]] = "production"
  BY DEF VersionInv
<1> QED  BY <1>1, VersionInvariant, PTL
=============================================================================
