------------------------- MODULE ScheduleLifecycle -------------------------
(***************************************************************************)
(* The operator commands that move one schedule through its life:          *)
(* seed-canary installs it, enable-canary turns it on for production under *)
(* a new spec version, disable-canary stops it.  Every command is a read   *)
(* of Postgres followed by unlocked writes (canary-seed.ts,                *)
(* canary-lifecycle.ts over pg-store.ts), so commands interleave between   *)
(* their statements, and a command may die between two of them.            *)
(***************************************************************************)
EXTENDS Naturals

CONSTANTS
  Admins,        \* concurrent runs of the operator commands
  SeedVersion,   \* the version seed-canary installs
  ToVersions     \* the versions enable-canary is asked to create

ASSUME VersionAssumption == SeedVersion \notin ToVersions

VARIABLES
  specs,         \* schedule_specs: what is stored under each version
  schedule,      \* the schedule_state row
  op             \* each command: where it is and the version it will write

lifecycleVars == <<specs, schedule, op>>

Versions == {SeedVersion} \cup ToVersions

SpecRows == {"absent", "staged", "production"}
Absent == [state |-> "absent", version |-> SeedVersion]
Idle == [pc |-> "idle", version |-> SeedVersion]
OpSteps == {"idle", "seedSpec", "seedState", "enableSpec", "enableState",
            "disableState"}

LifecycleTypeOK ==
  /\ specs \in [Versions -> SpecRows]
  /\ schedule \in [state : {"absent", "disabled", "enabled"}, version : Versions]
  /\ op \in [Admins -> [pc : OpSteps, version : Versions]]

LifecycleInit ==
  /\ specs = [v \in Versions |-> "absent"]
  /\ schedule = Absent
  /\ op = [a \in Admins |-> Idle]

-----------------------------------------------------------------------------
Goto(a, step, v) == op' = [op EXCEPT ![a] = [pc |-> step, version |-> v]]

\* Mutant: an upsert of an existing version is taken for success.
UpsertIdempotent(a, v, row, next) ==
  /\ specs' = [specs EXCEPT ![v] = IF @ = "absent" THEN row ELSE @]
  /\ Goto(a, next, v)

\* upsertSpecVersion: a version is written once; a repeat always throws, and the
\* command ends there.  (Two inserts racing past the check meet the primary key.)
UpsertSpecVersion(a, v, row, next) ==
  \/ /\ specs[v] = "absent"
     /\ specs' = [specs EXCEPT ![v] = row]
     /\ Goto(a, next, v)
  \/ /\ specs[v] # "absent"
     /\ op' = [op EXCEPT ![a] = Idle]
     /\ UNCHANGED specs

\* setState: an unconditional upsert of the one schedule_state row.
SetState(a, state) ==
  /\ schedule' = [state |-> state, version |-> op[a].version]
  /\ op' = [op EXCEPT ![a] = Idle]
  /\ UNCHANGED specs

\* seed-canary writes only when getSchedule finds nothing.
SeedRead(a) ==
  /\ op[a].pc = "idle"
  /\ schedule.state = "absent"
  /\ Goto(a, "seedSpec", SeedVersion)
  /\ UNCHANGED <<specs, schedule>>

SeedSpec(a) ==
  /\ op[a].pc = "seedSpec"
  /\ UpsertSpecVersion(a, SeedVersion, "staged", "seedState")
  /\ UNCHANGED schedule

SeedState(a) ==
  /\ op[a].pc = "seedState"
  /\ SetState(a, "disabled")

\* Mutant: the state is written before the version it names.
EnableReadStateFirst(a, v) ==
  /\ op[a].pc = "idle"
  /\ schedule.state = "disabled"
  /\ specs[schedule.version] = "staged"
  /\ Goto(a, "enableState", v)
  /\ UNCHANGED <<specs, schedule>>

\* enable-canary: the schedule must be in the state and at the version the operator
\* names, whatever they are, and that version not enabled for production; anything
\* else is refused without a write.
EnableRead(a, v) ==
  /\ op[a].pc = "idle"
  /\ schedule.state # "absent"
  /\ specs[schedule.version] = "staged"
  /\ Goto(a, "enableSpec", v)
  /\ UNCHANGED <<specs, schedule>>

EnableSpec(a) ==
  /\ op[a].pc = "enableSpec"
  /\ UpsertSpecVersion(a, op[a].version, "production", "enableState")
  /\ UNCHANGED schedule

EnableState(a) ==
  /\ op[a].pc = "enableState"
  /\ SetState(a, "enabled")

\* disable-canary keeps the version it read; already disabled is no write.
DisableRead(a) ==
  /\ op[a].pc = "idle"
  /\ schedule.state = "enabled"
  /\ Goto(a, "disableState", schedule.version)
  /\ UNCHANGED <<specs, schedule>>

DisableState(a) ==
  /\ op[a].pc = "disableState"
  /\ SetState(a, "disabled")

\* The command's process dies, or the database fails it, between two statements.
Abandon(a) ==
  /\ op[a].pc # "idle"
  /\ op' = [op EXCEPT ![a] = Idle]
  /\ UNCHANGED <<specs, schedule>>

Command(a) ==
  \/ SeedRead(a) \/ SeedSpec(a) \/ SeedState(a)
  \/ \E v \in ToVersions : EnableRead(a, v)
  \/ EnableSpec(a) \/ EnableState(a)
  \/ DisableRead(a) \/ DisableState(a)
  \/ Abandon(a)

LifecycleNext == \E a \in Admins : Command(a)

LifecycleSpec == LifecycleInit /\ [][LifecycleNext]_lifecycleVars

-----------------------------------------------------------------------------
\* policy.ts canFire in the production runtime.
CanFire == schedule.state = "enabled" /\ specs[schedule.version] = "production"

\* A schedule that is on names a stored version that a human approved for
\* production: no interleaving of half-done commands turns a staged spec on.
EnabledIsProduction ==
  schedule.state = "enabled" => specs[schedule.version] = "production"

Stopped == schedule.state = "disabled" /\ specs[schedule.version] = "production"

\* disable-canary is an emergency stop of the version it finds running: no enable or
\* seed command, however late or stale its read, turns that version on again.  (One
\* that names another version may still turn the schedule on under that one.)
StopIsFinal ==
  \A v \in Versions :
    []((Stopped /\ schedule.version = v)
         => [](schedule.state = "enabled" => schedule.version # v))
=============================================================================
