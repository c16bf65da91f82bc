---------------------------- MODULE HealthChecks ----------------------------
(***************************************************************************)
(* The production health model: what one collection reads of the system    *)
(* (Collect), the verdict of every check on it (one operator per domain),  *)
(* and the severity the alert policy gives each verdict.                   *)
(*                                                                         *)
(* A world is what is true of the system.  A snapshot is what a collection *)
(* read of it when some of its sources did not answer.  A check a domain   *)
(* does not emit has the status "none".  Ages are in abstract units.       *)
(***************************************************************************)
EXTENDS Integers, Sequences

CONSTANTS
    Unavailable,     \* the marker of a source that did not answer
    Configured,      \* the optional sources whose URL is set
    Expected,        \* HealthExpectations; an unset optional field is "none"
    FireGrace,       \* fireStalenessGraceMs
    PlannedGrace,    \* plannedFireGraceMs
    BootstrapGrace   \* identityBootstrapGraceMs

Sources == {"db", "restate", "door", "cognition"}

-----------------------------------------------------------------------------
(* Collection.  A source that does not answer leaves a marker or an empty  *)
(* value, never a guess.                                                   *)

Reads(down, source, value, absent) == IF source \in down THEN absent ELSE value

\* The admitted fire with the latest fire time.
LatestAdmitted(fires) ==
    {f \in fires : f.child # "none" /\ \A g \in fires : g.child # "none" => f.age <= g.age}

\* fetchAdmittedFiresMissingTasks: every admitted fire is classified by whether
\* an admission record exists, and only then by whether a task does.
MissingAdmission(w) == {f.child : f \in w.fires} \ (w.admissions \cup {"none"})
Unmaterialised(w) == {f.child : f \in w.fires} \cap (w.admissions \ w.tasks)

\* fetchIdentityCognition: why a REQUIRED latch does not verify.  A latch whose
\* call has left no evidence yet is not counted.
Unbound(latch) ==
    \/ ~latch.pinned \/ ~latch.version \/ ~latch.projection
    \/ latch.evidence = "differs"

Cognition(w) ==
    [parity |-> w.parity, multi |-> w.multi, head |-> w.head,
     required |-> w.latches # {},
     unbound |-> {l \in w.latches : Unbound(l)},
     isolation |-> w.isolation,
     observed |-> w.contract /\ w.records]

\* collectHealthSnapshot, when the sources in failing do not answer.  One that
\* is not configured does not answer either.
Collect(w, failing) ==
    LET down == failing \cup ({"restate", "door"} \ Configured)
        Db(value, absent) == Reads(down, "db", value, absent)
        latest == LatestAdmitted(w.fires)
        task == IF latest = {} THEN "none" ELSE (CHOOSE f \in latest : TRUE).child
    IN [db         |-> "db" \notin down,
        state      |-> Db(w.state, "none"),
        version    |-> w.version,
        fires      |-> Db(w.fires, {}),
        binding    |-> Db(w.binding, Unavailable),
        unadmitted |-> Db(MissingAdmission(w), {}),
        unmaterial |-> Db(Unmaterialised(w), {}),
        rejection  |-> Db(w.rejection, FALSE),
        operator   |-> Db(w.operator, FALSE),
        orphans    |-> Db(w.orphans, {}),
        bootstraps |-> Db(w.bootstraps, {}),
        cognition  |-> IF down \cap {"db", "cognition"} = {} THEN Cognition(w) ELSE Unavailable,
        task       |-> Db(task, "none"),
        evidence   |-> Db(SelectSeq(w.evidence, LAMBDA e : e.task = task), <<>>),
        wakes      |-> Reads(down, "restate", w.wakes, Unavailable),
        tight      |-> w.tight,
        services   |-> Reads(down, "restate", w.services, Unavailable),
        restate    |-> IF "restate" \in Configured THEN "restate" \notin down ELSE Unavailable,
        door       |-> Reads(down, "door", w.door, Unavailable),
        restarts   |-> w.restarts,
        release    |-> w.release,
        armNext    |-> w.armNext,
        digest     |-> w.digest,
        recipe     |-> w.recipe]

-----------------------------------------------------------------------------
(* Evaluation, one record of verdicts per domain.                          *)

Ok(condition, otherwise) == IF condition THEN "HEALTHY" ELSE otherwise
Known(reachable, verdict) == IF reachable THEN verdict ELSE "UNKNOWN"

\* nextWakeArmedAndFuture, from the wakes Restate holds scheduled.
NextWake(wakes) ==
    IF ~Expected.armNext THEN "HEALTHY"
    ELSE IF wakes = {} \/ "stuck" \in wakes THEN "CRITICAL"
    ELSE Ok("future" \in wakes, "DEGRADED")

\* The checks on schedule_state and schedule_fires.
FireChecks(s) ==
    [scheduleEnabled |-> Known(s.db, Ok(s.state = Expected.state, "CRITICAL")),
     activeVersionExpected |->
         IF Expected.version = "none" \/ (s.db /\ s.state = "none") THEN "none"
         ELSE Known(s.db, Ok(s.version = Expected.version, "CRITICAL")),
     recentFireExists |->
         Known(s.db, IF s.fires = {}
                     THEN IF s.state = "enabled" THEN "CRITICAL" ELSE "UNKNOWN"
                     ELSE Ok(\E f \in s.fires : f.age <= FireGrace, "DEGRADED")),
     noDuplicateFireWindow |->
         Known(s.db, Ok(\A f, g \in s.fires : f.window = g.window => f = g, "CRITICAL")),
     noOrphanPlannedFire |->
         Known(s.db, Ok(\A f \in s.fires : f.state = "PLANNED" /\ f.child = "none"
                                               => f.age <= PlannedGrace, "DEGRADED")),
     admittedFiresBoundConsistently |->
         Known(s.db, Ok(\A f \in s.fires : f.state = "ADMITTED" => f.child # "none",
                        "CRITICAL"))]

\* The checks on Restate's invocations of the schedule.
WakeChecks(s) ==
    [nextWakeArmedAndFuture |-> Known(s.wakes # Unavailable, NextWake(s.wakes)),
     noZeroDelayLoop |-> Known(s.wakes # Unavailable, Ok(~s.tight, "CRITICAL"))]

\* bindingProvenanceVerdict
BindingVerdict(b) ==
    IF b = Unavailable THEN "UNKNOWN"
    ELSE IF b.active = "none" THEN "UNKNOWN"
    ELSE IF b.mismatch \/ (Expected.release # "none" /\ b.active # Expected.release) THEN "CRITICAL"
    ELSE IF b.missing \/ ~b.current THEN "UNKNOWN"
    ELSE "HEALTHY"

AuthorityChecks(s) ==
    [bindingReleaseConsistent |-> Known(s.db, BindingVerdict(s.binding)),
     admittedFiresHaveCanonicalTasks |-> Known(s.db, Ok(s.unadmitted = {}, "CRITICAL")),
     admittedFiresMaterialised |-> Known(s.db, Ok(s.unmaterial = {}, "DEGRADED")),
     noReleaseMismatchIncidents |-> Known(s.db, Ok(~s.rejection, "CRITICAL"))]

AdmissionChecks(s) ==
    [doorReachable |-> IF s.door = Unavailable THEN "UNKNOWN" ELSE Ok(s.door = "ok", "CRITICAL"),
     humanOperatorPresent |-> Known(s.db, Ok(s.operator, "CRITICAL"))]

\* The registered services decide workerRegistered and, only when they were
\* read and it is expected, capabilityServiceRegistered.
ExecutionChecks(s) ==
    [workerRegistered |->
         IF s.services = Unavailable THEN "UNKNOWN"
         ELSE Ok({"KernelWorkflowV1", "TaskWorkflow"} \subseteq s.services, "CRITICAL"),
     capabilityServiceRegistered |->
         IF s.services = Unavailable \/ "CapabilityServiceV1" \notin Expected.services THEN "none"
         ELSE Ok("CapabilityServiceV1" \in s.services, "CRITICAL"),
     noWorkerRestartLoop |->
         IF s.restarts = -1 THEN "UNKNOWN"
         ELSE IF s.restarts = 0 THEN "HEALTHY"
         ELSE IF s.restarts < 3 THEN "DEGRADED" ELSE "CRITICAL"]

\* health() answers false, not Unavailable, when the admin endpoint is down.
RestateChecks(s) ==
    [restateReachable |->
         IF s.restate = Unavailable THEN "UNKNOWN" ELSE Ok(s.restate, "CRITICAL"),
     expectedServicesRegistered |->
         IF s.services = Unavailable THEN "UNKNOWN"
         ELSE Ok(Expected.services \subseteq s.services, "CRITICAL"),
     noStuckInvocation |->
         IF s.wakes = Unavailable THEN "UNKNOWN" ELSE Ok("stuck" \notin s.wakes, "CRITICAL")]

\* scheduleReadOk and taskReadOk are dbReachable itself: a failed read throws.
DatabaseChecks(s) ==
    [databaseReachable |-> Ok(s.db, "CRITICAL"),
     scheduleReadsSucceed |-> IF s.db THEN "HEALTHY" ELSE "none",
     taskReadsSucceed |-> IF s.db THEN "HEALTHY" ELSE "none"]

\* Three of the four checks exist only once a scheduled task does.
EvidenceChecks(s) ==
    LET receipts == SelectSeq(s.evidence, LAMBDA e : e.type = "TOOL_RECEIPT")
        Emitted(verdict) == IF s.db /\ s.task # "none" THEN verdict ELSE "none"
    IN [mostRecentCompletedTaskHasEvidence |->
            IF ~s.db \/ s.task = "none" THEN "UNKNOWN" ELSE Ok(s.evidence # <<>>, "CRITICAL"),
        toolReceiptPresentWhereRequired |-> Emitted(Ok(receipts # <<>>, "CRITICAL")),
        digestMatchesApproved |->
            Emitted(IF Expected.digest = "none" THEN "UNKNOWN"
                    ELSE IF receipts = <<>> THEN "CRITICAL"
                    ELSE Ok(Head(receipts).digest = Expected.digest, "CRITICAL")),
        boundToCorrectTask |-> Emitted(Ok(\A i \in DOMAIN s.evidence : s.evidence[i].task = s.task, "CRITICAL"))]

ReleaseParityChecks(s) ==
    [selfReportedReleaseKnown |-> Ok(s.release # "none", "UNKNOWN"),
     matchesExpected |->
         IF "none" \in {Expected.release, s.release} THEN "UNKNOWN"
         ELSE Ok(s.release = Expected.release, "CRITICAL"),
     recentBindingsConsistent |-> BindingVerdict(s.binding),
     noBoundReleaseRejection |-> Known(s.db, Ok(~s.rejection, "CRITICAL"))]

ProductionConfigChecks(s) ==
    [armNextExpected |->
         IF s.armNext = "none" THEN "UNKNOWN"
         ELSE Ok((s.armNext = "on") = Expected.armNext, "CRITICAL"),
     approvedDigestPresentAndValid |->
         IF s.digest = "none" THEN "UNKNOWN" ELSE Ok(s.digest = "valid", "CRITICAL"),
     scheduleIdentityMatchesCanonical |-> Ok(s.recipe \in {"none", Expected.recipe}, "CRITICAL")]

\* evaluateIdentity, then evaluateIdentityCognition.
IdentityChecks(s) ==
    LET c == s.cognition
    IN [completedTasksHaveActivation |-> Known(s.db, Ok(s.orphans = {}, "CRITICAL")),
        profilesHaveActivatedIdentity |->
            Known(s.db, Ok(\A age \in s.bootstraps : age < BootstrapGrace, "DEGRADED")),
        currentDigestParity |-> IF c = Unavailable THEN "UNKNOWN" ELSE Ok(~c.parity, "CRITICAL"),
        singleCurrentPerTenant |-> IF c = Unavailable THEN "UNKNOWN" ELSE Ok(~c.multi, "CRITICAL"),
        headEqualsCurrent |-> IF c = Unavailable THEN "UNKNOWN" ELSE Ok(~c.head, "CRITICAL"),
        analystRunsBound |->
            IF c = Unavailable THEN "UNKNOWN"
            ELSE IF ~c.required THEN "UNKNOWN" ELSE Ok(c.unbound = {}, "CRITICAL"),
        verifierIsolated |->
            IF c = Unavailable THEN "UNKNOWN"
            ELSE IF c.isolation THEN "CRITICAL" ELSE Ok(c.observed, "UNKNOWN")]

\* The Shared Brain is not wired in: always unavailable.
LegacyAuthorityChecks(s) == [b1FreezeObservable |-> "UNKNOWN"]

\* Every check id, by domain.
Domains ==
    [scheduler |-> {"scheduleEnabled", "activeVersionExpected", "recentFireExists",
                    "noDuplicateFireWindow", "noOrphanPlannedFire",
                    "admittedFiresBoundConsistently"},
     wakes |-> {"nextWakeArmedAndFuture", "noZeroDelayLoop"},
     authority |-> {"bindingReleaseConsistent", "admittedFiresHaveCanonicalTasks",
                    "admittedFiresMaterialised", "noReleaseMismatchIncidents"},
     admission |-> {"doorReachable", "humanOperatorPresent"},
     execution |-> {"workerRegistered", "capabilityServiceRegistered", "noWorkerRestartLoop"},
     restate |-> {"restateReachable", "expectedServicesRegistered", "noStuckInvocation"},
     database |-> {"databaseReachable", "scheduleReadsSucceed", "taskReadsSucceed"},
     evidence |-> {"mostRecentCompletedTaskHasEvidence", "toolReceiptPresentWhereRequired",
                   "digestMatchesApproved", "boundToCorrectTask"},
     releaseParity |-> {"selfReportedReleaseKnown", "matchesExpected",
                        "recentBindingsConsistent", "noBoundReleaseRejection"},
     productionConfig |-> {"armNextExpected", "approvedDigestPresentAndValid",
                           "scheduleIdentityMatchesCanonical"},
     identity |-> {"completedTasksHaveActivation", "profilesHaveActivatedIdentity",
                   "currentDigestParity", "singleCurrentPerTenant", "headEqualsCurrent",
                   "analystRunsBound", "verifierIsolated"},
     legacyAuthority |-> {"b1FreezeObservable"}]

CheckIds == UNION {Domains[d] : d \in DOMAIN Domains}

\* evaluateHealthSnapshot: every check of every domain.
Evaluate(s) ==
    LET domains == <<FireChecks(s), WakeChecks(s), AuthorityChecks(s), AdmissionChecks(s),
                     ExecutionChecks(s), RestateChecks(s), DatabaseChecks(s),
                     EvidenceChecks(s), ReleaseParityChecks(s), ProductionConfigChecks(s),
                     IdentityChecks(s), LegacyAuthorityChecks(s)>>
    IN [c \in CheckIds |->
          LET d == CHOOSE i \in DOMAIN domains : c \in DOMAIN domains[i] IN domains[d][c]]

-----------------------------------------------------------------------------
(* The alert policy: the severity of a status of a check.                  *)

SeverityRank == [P0 |-> 0, P1 |-> 1, P2 |-> 2, P3 |-> 3]
Severities == DOMAIN SeverityRank

\* Checks whose CRITICAL is not P1.
CriticalIsP0 ==
    {"admittedFiresHaveCanonicalTasks", "noDuplicateFireWindow",
     "admittedFiresBoundConsistently", "noZeroDelayLoop", "boundToCorrectTask",
     "b1FreezeObservable", "singleCurrentPerTenant", "analystRunsBound"}
CriticalIsP2 ==
    {"activeVersionExpected", "mostRecentCompletedTaskHasEvidence",
     "toolReceiptPresentWhereRequired"}
CriticalUnmapped == {"admittedFiresMaterialised", "noOrphanPlannedFire",
                     "selfReportedReleaseKnown", "profilesHaveActivatedIdentity"}

\* Checks whose DEGRADED is mapped, to P2.
DegradedMapped ==
    {"admittedFiresMaterialised", "recentFireExists", "noOrphanPlannedFire",
     "nextWakeArmedAndFuture", "noWorkerRestartLoop", "profilesHaveActivatedIdentity"}

\* Checks whose UNKNOWN is mapped, to P3.  Every other UNKNOWN alerts nothing.
UnknownMapped ==
    {"bindingReleaseConsistent", "doorReachable", "selfReportedReleaseKnown",
     "b1FreezeObservable"} \cup Domains.identity

\* severityFor
SeverityFor(c, status) ==
    IF status = "CRITICAL"
    THEN IF c \in CriticalIsP0 THEN "P0"
         ELSE IF c \in CriticalIsP2 THEN "P2"
         ELSE IF c \in CriticalUnmapped THEN "none" ELSE "P1"
    ELSE IF status = "DEGRADED" /\ c \in DegradedMapped THEN "P2"
    ELSE IF status = "UNKNOWN" /\ c \in UnknownMapped THEN "P3"
    ELSE "none"

\* Entries with a notifyFor of their own, and the one that never notifies.
Selective == Domains.identity
NeverNotified == {"b1FreezeObservable"}

\* policyNotifies
PolicyNotifies(c, status) == c \notin NeverNotified /\ (c \in Selective => status # "UNKNOWN")

=============================================================================
