---------------------------- MODULE AlertMonitor ----------------------------
(***************************************************************************)
(* The alert monitor: a chain of Restate ticks, each of which runs one     *)
(* evaluation under a database-wide session lock, and the command line     *)
(* tool that runs the same evaluation under the same lock.  A run collects *)
(* a snapshot, evaluates it (HealthChecks), reads the alert rows, reduces  *)
(* every check against its row, commits rows and notification intents in   *)
(* one transaction, and then drains the outbox (NotificationOutbox).       *)
(*                                                                         *)
(* A run that dies has journaled nothing: Restate executes it again, and   *)
(* Postgres drops its lock with its session.  Each commit has a time of    *)
(* its own, the clock.                                                     *)
(***************************************************************************)
EXTENDS HealthChecks

CONSTANTS
    Facts,        \* the worlds, by name
    Scenarios     \* the worlds and outages a behaviour has, and its bounds:
                  \*   commits  evaluations committed, and the last tick
                  \*   deaths   runs that die or fail, and configuration changes
                  \*   manual   runs and ticks an operator starts by hand

Runners == {"tick", "cli"}

VARIABLES
    scenario,     \* the scenario of this behaviour
    alerts,       \* kernel_private.alert_state, by check
    notices,      \* intents inserted into kernel_private.notification_outbox
    sent,         \* the intents delivered
    step,         \* each runner: what it does next
    saw,          \* each runner: the world and outage its collection met
    read,         \* each runner: the alert rows it read
    clock,        \* commits so far
    observed,     \* the world and outage of the last committed run
    ticks,        \* tick messages not yet handled
    handling,     \* sequence of the tick being handled, -1 when none is
    nextSequence, \* the object's cursor
    enabled,      \* ALERT_RUNNER_ENABLED of the running deployment
    deaths,       \* deaths and configuration changes so far
    manual        \* runs and ticks started by hand so far

chainVars == <<ticks, handling, nextSequence, enabled, manual>>
storeVars == <<alerts, notices, sent, clock, observed>>
runVars == <<step, saw, read>>
monitorVars == <<scenario, chainVars, storeVars, runVars, deaths>>

\* An alert_state row.  A time of 0 is null.
AlertRow == [state : {"absent", "OPEN", "RECOVERED"}, severity : Severities \cup {"none"},
             first : Nat, notified : Nat, count : Nat]
NoAlert == [state |-> "absent", severity |-> "none", first |-> 0, notified |-> 0, count |-> 0]
Kinds == {"NEW", "ESCALATED", "DEESCALATED", "RECOVERED"}
Notice == [check : CheckIds, first : Nat, kind : Kinds, count : Nat, at : Nat]

NothingSeen == [world |-> "none", down |-> {}]

MonitorTypeOK ==
    /\ scenario \in Scenarios
    /\ alerts \in [CheckIds -> AlertRow]
    /\ notices \subseteq Notice /\ sent \subseteq notices
    /\ step \in [Runners -> {"idle", "acquire", "collect", "read", "persist", "deliver", "ran"}]
    /\ read \in [Runners -> [CheckIds -> AlertRow]]
    /\ clock \in Nat /\ deaths \in Nat /\ manual \in Nat
    /\ ticks \subseteq Nat /\ handling \in Nat \cup {-1} /\ nextSequence \in Nat
    /\ enabled \in BOOLEAN

MonitorInit ==
    /\ scenario \in Scenarios
    /\ alerts = [c \in CheckIds |-> NoAlert] /\ notices = {} /\ sent = {}
    /\ step = [r \in Runners |-> "idle"]
    /\ saw = [r \in Runners |-> NothingSeen]
    /\ read = [r \in Runners |-> alerts]
    /\ clock = 0 /\ observed = NothingSeen
    /\ ticks = {0} /\ handling = -1 /\ nextSequence = 0
    /\ enabled = TRUE /\ deaths = 0 /\ manual = 0

-----------------------------------------------------------------------------
(* The reducer.                                                            *)

\* What reduceCheck makes of a row and a status: the next row, the decision's
\* kind ("none" for no decision), and whether it notifies.
Reduced(row, kind, notify) == [row |-> row, kind |-> kind, notify |-> notify]

\* An open episode whose check no longer has a severity.
Closed(c, row) ==
    LET notify == c \notin NeverNotified /\ (c \in Selective => row.notified # 0)
    IN Reduced([row EXCEPT !.state = "RECOVERED", !.notified = IF notify THEN clock + 1 ELSE @],
               "RECOVERED", notify)

\* A first detection, or a recurrence after a recovery.
Opened(c, status, severity) ==
    LET notify == PolicyNotifies(c, status)
    IN Reduced([state |-> "OPEN", severity |-> severity, first |-> clock + 1,
                notified |-> IF notify THEN clock + 1 ELSE 0, count |-> 1],
               "NEW", notify)

\* Mutant: every occurrence is announced, not only a moved severity.
ContinuedLoudly(c, row, status, severity) ==
    LET notify == PolicyNotifies(c, status)
    IN Reduced([row EXCEPT !.severity = severity, !.count = @ + 1,
                           !.notified = IF notify THEN clock + 1 ELSE @], "none", notify)

\* Still unhealthy: one more occurrence, announced only if the severity moved.
Continued(c, row, status, severity) ==
    LET kind == IF severity = row.severity THEN "none"
                ELSE IF SeverityRank[severity] < SeverityRank[row.severity] THEN "ESCALATED"
                ELSE "DEESCALATED"
        notify == kind # "none" /\ PolicyNotifies(c, status)
    IN Reduced([row EXCEPT !.severity = severity, !.count = @ + 1,
                           !.notified = IF notify THEN clock + 1 ELSE @], kind, notify)

\* reduceCheck
ReduceCheck(c, row, status) ==
    LET severity == SeverityFor(c, status)
    IN IF severity = "none"
       THEN IF row.state = "OPEN" THEN Closed(c, row) ELSE Reduced(row, "none", FALSE)
       ELSE IF row.state = "OPEN" THEN Continued(c, row, status, severity)
       ELSE Opened(c, status, severity)

\* reduceChecks: each emitted check against its own row.  A check the report
\* does not have keeps its row.
ReduceChecks(report, rows) ==
    [c \in CheckIds |-> IF report[c] = "none" THEN Reduced(rows[c], "none", FALSE)
                        ELSE ReduceCheck(c, rows[c], report[c])]

\* intentsFromDecisions and deriveNotificationId.
IntentsOf(reduced) ==
    {[check |-> c, first |-> reduced[c].row.first, kind |-> reduced[c].kind,
      count |-> reduced[c].row.count, at |-> clock + 1] :
        c \in {d \in CheckIds : reduced[d].notify}}

SameNotification(a, b) ==
    a.check = b.check /\ a.first = b.first /\ a.kind = b.kind /\ a.count = b.count

\* insert ... on conflict (notification_id) do nothing
Inserted(intents) ==
    notices \cup {i \in intents : ~\E n \in notices : SameNotification(i, n)}

-----------------------------------------------------------------------------
(* One run.                                                                *)

Holding == {"collect", "read", "persist", "deliver"}
LockFree == \A r \in Runners : step[r] \notin Holding
Goto(r, s) == step' = [step EXCEPT ![r] = s]

\* Mutant: the lock is not taken.
AcquireAnyway(r) ==
    /\ step[r] = "acquire"
    /\ clock < scenario.commits /\ Goto(r, "collect")
    /\ UNCHANGED <<scenario, chainVars, storeVars, saw, read, deaths>>

\* pg_try_advisory_lock on the run's own session: OVERLAP_SKIPPED when another
\* run holds it.  A connection or a probe that fails is STATE_FAILED.
Acquire(r) ==
    /\ step[r] = "acquire"
    /\ \/ LockFree /\ clock < scenario.commits /\ Goto(r, "collect") /\ UNCHANGED deaths
       \/ ~LockFree /\ Goto(r, "ran") /\ UNCHANGED deaths
       \/ deaths < scenario.deaths /\ Goto(r, "ran") /\ deaths' = deaths + 1
    /\ UNCHANGED <<scenario, chainVars, storeVars, saw, read>>

\* collectHealthSnapshot and evaluateHealthSnapshot.  A database read that fails
\* after "select 1" succeeded throws: COLLECTION_FAILED, and nothing is drained.
CollectSnapshot(r) ==
    /\ step[r] = "collect"
    /\ \/ /\ \E w \in scenario.worlds, down \in scenario.outages :
                saw' = [saw EXCEPT ![r] = [world |-> w, down |-> down]]
          /\ Goto(r, "read") /\ UNCHANGED deaths
       \/ /\ deaths < scenario.deaths
          /\ Goto(r, "ran") /\ deaths' = deaths + 1 /\ UNCHANGED saw
    /\ UNCHANGED <<scenario, chainVars, storeVars, read>>

\* store.getAll
ReadAlerts(r) ==
    /\ step[r] = "read"
    /\ read' = [read EXCEPT ![r] = alerts]
    /\ Goto(r, "persist")
    /\ UNCHANGED <<scenario, chainVars, storeVars, saw, deaths>>

\* putAll: rows and intents in one transaction.
PutAll(rows, intents) == alerts' = rows /\ notices' = Inserted(intents)

\* runAlertEngine after its read.
Persist(r) ==
    /\ step[r] = "persist"
    /\ LET reduced == ReduceChecks(Evaluate(Collect(Facts[saw[r].world], saw[r].down)), read[r])
       IN PutAll([c \in CheckIds |-> reduced[c].row], IntentsOf(reduced))
    /\ clock' = clock + 1 /\ observed' = saw[r]
    /\ Goto(r, "deliver")
    /\ UNCHANGED <<scenario, chainVars, sent, saw, read, deaths>>

\* A statement on the run's session fails: rolled back, STATE_FAILED.
StateFailed(r) ==
    /\ step[r] \in {"read", "persist"} /\ deaths < scenario.deaths
    /\ Goto(r, "ran") /\ deaths' = deaths + 1
    /\ UNCHANGED <<scenario, chainVars, storeVars, saw, read>>

\* The delivery worker, here whole: everything queued, or nothing of it, is
\* sent.  The tool's --json run sends nothing.
Deliver(r) ==
    /\ step[r] = "deliver"
    /\ sent' \in {sent, notices}
    /\ Goto(r, "ran")
    /\ UNCHANGED <<scenario, chainVars, alerts, notices, clock, observed, saw, read, deaths>>

\* The process dies before the run is journaled.
Die(r) ==
    /\ step[r] \in Holding \cup {"ran"} /\ deaths < scenario.deaths
    /\ Goto(r, IF r = "tick" THEN "acquire" ELSE "idle")
    /\ deaths' = deaths + 1
    /\ UNCHANGED <<scenario, chainVars, storeVars, saw, read>>

Forgotten(r) ==
    /\ saw' = [saw EXCEPT ![r] = NothingSeen]
    /\ read' = [read EXCEPT ![r] = [c \in CheckIds |-> NoAlert]]

\* cli.ts main, and its exit.
StartCli ==
    /\ step["cli"] = "idle" /\ manual < scenario.manual
    /\ Goto("cli", "acquire") /\ manual' = manual + 1
    /\ UNCHANGED <<scenario, ticks, handling, nextSequence, enabled, storeVars, saw, read, deaths>>

ExitCli ==
    /\ step["cli"] = "ran"
    /\ Goto("cli", "idle") /\ Forgotten("cli")
    /\ UNCHANGED <<scenario, chainVars, storeVars, deaths>>

-----------------------------------------------------------------------------
(* The chain of ticks.                                                     *)

\* monitorTick on a disabled deployment, or out of order: consumed, not armed.
IgnoreTick(n) ==
    /\ n \in ticks /\ handling = -1
    /\ ~enabled \/ n # nextSequence
    /\ ticks' = ticks \ {n}
    /\ UNCHANGED <<scenario, handling, nextSequence, enabled, manual, storeVars, runVars, deaths>>

\* Mutant: the cursor is not compared.
HandleAnyTick(n) ==
    /\ n \in ticks /\ handling = -1 /\ enabled /\ n <= scenario.commits
    /\ ticks' = ticks \ {n} /\ handling' = n
    /\ Goto("tick", "acquire")
    /\ UNCHANGED <<scenario, nextSequence, enabled, manual, storeVars, saw, read, deaths>>

HandleTick(n) ==
    /\ n \in ticks /\ handling = -1 /\ enabled /\ n = nextSequence
    /\ n <= scenario.commits
    /\ ticks' = ticks \ {n} /\ handling' = n
    /\ Goto("tick", "acquire")
    /\ UNCHANGED <<scenario, nextSequence, enabled, manual, storeVars, saw, read, deaths>>

\* The run is journaled, the cursor moves and the next tick is sent.
Advance ==
    /\ step["tick"] = "ran"
    /\ nextSequence' = handling + 1 /\ ticks' = ticks \cup {handling + 1}
    /\ handling' = -1
    /\ Goto("tick", "idle") /\ Forgotten("tick")
    /\ UNCHANGED <<scenario, enabled, manual, storeVars, deaths>>

\* An operator sends a tick: the cursor that status returned, or an old one.
SendTick(n) ==
    /\ manual < scenario.manual /\ n <= nextSequence /\ n \notin ticks
    /\ ticks' = ticks \cup {n} /\ manual' = manual + 1
    /\ UNCHANGED <<scenario, handling, nextSequence, enabled, storeVars, runVars, deaths>>

\* A deployment with the switch the other way.
Redeploy ==
    /\ handling = -1 /\ deaths < scenario.deaths
    /\ enabled' = ~enabled /\ deaths' = deaths + 1
    /\ UNCHANGED <<scenario, ticks, handling, nextSequence, manual, storeVars, runVars>>

RunnerStep(r) ==
    \/ Acquire(r) \/ CollectSnapshot(r) \/ ReadAlerts(r) \/ Persist(r) \/ Deliver(r)
    \/ StateFailed(r) \/ Die(r)

MonitorNext ==
    \/ \E r \in Runners : RunnerStep(r)
    \/ StartCli \/ ExitCli \/ Advance \/ Redeploy
    \/ \E n \in 0..nextSequence : IgnoreTick(n) \/ HandleTick(n) \/ SendTick(n)

MonitorSpec == MonitorInit /\ [][MonitorNext]_monitorVars

-----------------------------------------------------------------------------
(* Properties.                                                             *)

\* The report of a run that met world o.world with the sources o.down silent.
Report(o) == Evaluate(Collect(Facts[o.world], o.down))

\* The policy gives a status of check c a severity.
Fails(c, status) == SeverityFor(c, status) # "none"

\* The last word queued about a check is what the last committed report found,
\* whoever evaluated beside it and whatever died in between: a failing check that
\* the policy notifies has an announcement that no recovery follows, and a check
\* that does not fail has a recovery after its every announcement.  A check the
\* report leaves out keeps its last word (reducer.ts, engine.ts, runner.ts:87).
VerdictsTold ==
    observed # NothingSeen =>
        LET report == Report(observed)
            Alarms(c) == {n \in notices : n.check = c /\ n.kind # "RECOVERED"}
            Recoveries(c) == {n \in notices : n.check = c /\ n.kind = "RECOVERED"}
        IN \A c \in CheckIds :
             /\ Fails(c, report[c]) /\ PolicyNotifies(c, report[c]) =>
                    \E n \in Alarms(c) : \A k \in Recoveries(c) : k.at < n.at
             /\ report[c] # "none" /\ ~Fails(c, report[c]) =>
                    \A n \in Alarms(c) : \E k \in Recoveries(c) : n.at < k.at

\* A row that says it was notified has the intent of that very commit in the
\* outbox: no death between the two can lose it.  (PgAlertStateStore.putAll.)
NotifiedIsQueued ==
    \A c \in CheckIds : alerts[c].notified # 0 =>
        \E n \in notices : n.check = c /\ n.at = alerts[c].notified

\* A recovery is only announced of an episode that was announced.
RecoveryWasAnnounced ==
    \A n \in notices : n.kind = "RECOVERED" =>
        \E m \in notices : m.kind # "RECOVERED" /\ m.check = n.check /\ m.first = n.first
                           /\ m.at < n.at

\* An episode is announced once, however runs overlap, die and are repeated: a
\* second NEW of a check comes after the recovery of the first.
AnnouncedOnce ==
    \A m, n \in notices : m.check = n.check /\ m.kind = "NEW" /\ n.kind = "NEW" /\ m.at < n.at =>
        \E k \in notices : k.check = m.check /\ k.kind = "RECOVERED" /\ k.first = m.first
                           /\ m.at < k.at /\ k.at < n.at

\* Every announcement an alert row records is queued, each episode is announced
\* once, and a recovery is announced only of an episode that was, whatever dies
\* and whoever runs beside it (runner.ts:87, runner-postgres.ts,
\* pg-state-store.ts putAll, reducer.ts).
EpisodesAnnounced == NotifiedIsQueued /\ AnnouncedOnce /\ RecoveryWasAnnounced

\* "UNKNOWN defaults to P3 (an unreachable/unconfigured *optional* source is a
\* warning, not an emergency) unless a specific check's rationale says otherwise"
\* (policy.ts:20): no recovery is announced of a check that the report could not
\* observe.
UnknownIsNoRecovery ==
    \A n \in notices : n.kind = "RECOVERED" /\ n.at = clock =>
        Report(observed)[n.check] # "UNKNOWN"

\* One chain of evaluations, however often a tick is sent again by hand, late or
\* twice, and whatever dies: no tick beyond the cursor is outstanding, the tick
\* being handled is the cursor's, and its run is the only one the chain has
\* (runner-restate.ts monitorTick).
OneChain ==
    /\ \A n \in ticks : n <= nextSequence
    /\ handling # -1 => handling = nextSequence
    /\ step["tick"] # "idle" <=> handling # -1

=============================================================================
