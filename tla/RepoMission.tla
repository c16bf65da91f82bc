----------------------------- MODULE RepoMission -----------------------------
(***************************************************************************)
(* A mission of the executor workflow from TASK_STARTED on: the repository *)
(* analysis (mission/run.ts) or the morning brief (mission/run-brief.ts),  *)
(* four steps long, with the faculty pins, the cognition latch and the     *)
(* model calls they make, beside the identity changes of                   *)
(* IdentityGovernance.  A model's text is good, poor or, for a review,     *)
(* one that withholds findings; identity 0 is a prompt without identity.   *)
(***************************************************************************)
EXTENDS IdentityGovernance

VARIABLES
    place,        \* where the run is: a step of the plan and a phase of it
    journal,      \* values of the run's journaled steps
    mission,      \* status of the tasks row
    stepRows,     \* status of the task_steps rows
    proofs,       \* the evidence row of each step
    facultyOpen,  \* the faculty may be pinned and called: enabled, routed
    facultyPins,  \* roles with a faculty_pins row
    flag,         \* KJ_IDENTITY_COGNITION_ENABLED of the running worker
    latchRow,     \* identity_cognition_latches and identity_pins row
    sent,         \* requests that reached a provider
    bindings,     \* MODEL_CALLED events
    noticed       \* statuses queued in the notification outbox

missionVars == <<place, journal, mission, stepRows, proofs, facultyOpen, facultyPins,
                 flag, latchRow, sent, bindings, noticed>>

Plan == terms.mission

MissionSteps == {"gather", "analyst", "reviewer", "reconcile"}
Roles == {"analyst", "reviewer"}
Ended == {"COMPLETED", "FAILED"}

At(step, phase) == place = [step |-> step, phase |-> phase]
To(step, phase) == [step |-> step, phase |-> phase]

\* The deployed flag is on or off.
ASSUME MissionFlag == \A p \in IdentityPlans : p.mission.flag \in BOOLEAN

MissionTypeOK ==
    /\ place.step \in MissionSteps \cup {"task"}
    /\ mission \in {"none", "RUNNING", "VERIFYING"} \cup Ended
    /\ stepRows \in [MissionSteps -> {"PENDING", "RUNNING"} \cup Ended]
    /\ facultyOpen \in [Roles -> BOOLEAN] /\ facultyPins \subseteq Roles
    /\ flag \in BOOLEAN /\ noticed \subseteq Ended
    /\ \A s \in sent : s.role \in Roles /\ s.identity \in 0..Len(activations)
    /\ \A b \in bindings : b.status \in {"SUCCEEDED", "FAILED"}

MissionInit ==
    /\ place = IF Plan.recipe = "none" THEN To("task", "done") ELSE To("gather", "begin")
    /\ journal = [latch |-> None, memory |-> "none", analyst |-> "none", reviewer |-> "none", cause |-> "none"]
    /\ mission = IF Plan.recipe = "none" THEN "none" ELSE "RUNNING"
    /\ stepRows = [s \in MissionSteps |-> "PENDING"]
    /\ proofs = [s \in MissionSteps |-> None]
    /\ facultyOpen = [r \in Roles |-> TRUE] /\ facultyPins = {}
    /\ flag = Plan.flag
    /\ latchRow = None
    /\ sent = {} /\ bindings = {} /\ noticed = {}

----------------------------------------------------------------------------
(* Durable steps *)

\* ctx.run and emit, as in IdentityGovernance.
Record(next, entries) ==
    \/ place' = next /\ journal' = entries /\ UNCHANGED lost
    \/ lost < MaxLost /\ lost' = lost + 1 /\ UNCHANGED <<place, journal>>

IdentityKept == UNCHANGED <<terms, rows, frozen, flow, today>>

Faulty(why) == [journal EXCEPT !.cause = why]

\* The recipe's way from the evidence to the analyst.  Faculties and identity
\* are for repository missions only.
Pinning == Plan.recipe = "REPO" /\ Plan.faculties
Latching == Plan.recipe = "REPO" /\ Plan.identityPort
ToMemory == IF Plan.memory THEN To("analyst", "memory") ELSE To("analyst", "begin")
ToLatch == IF Latching THEN To("analyst", "latch") ELSE ToMemory
ToPins == IF Pinning THEN To("analyst", "pin") ELSE ToLatch

\* begin: STEP_STARTED.  A step begun only to be failed goes to its abort.
BeginStep ==
    /\ place.phase = "begin"
    /\ stepRows' = [stepRows EXCEPT ![place.step] = "RUNNING"]
    /\ Record(To(place.step, IF journal.cause # "none" THEN "abort"
                             ELSE IF place.step = "reconcile" THEN "complete" ELSE "work"), journal)
    /\ UNCHANGED <<mission, proofs, facultyOpen, facultyPins, flag, latchRow, sent, bindings, noticed>>
    /\ IdentityKept

\* githubRead: the capability service's facts match their digest, or the
\* mission ends.
GatherRepository ==
    /\ At("gather", "work") /\ Plan.recipe = "REPO"
    /\ \/ Record(To("gather", "complete"), journal)
       \/ Record(To("gather", "abort"), Faulty("GITHUB"))
    /\ UNCHANGED <<mission, stepRows, proofs, facultyOpen, facultyPins, flag, latchRow, sent, bindings, noticed>>
    /\ IdentityKept

\* githubActivity, then the kernel's own state: either may end the brief.
GatherActivity ==
    /\ At("gather", "work") /\ Plan.recipe = "BRIEF"
    /\ \/ Record(To("gather", "state"), journal)
       \/ Record(To("gather", "abort"), Faulty("GITHUB"))
    /\ UNCHANGED <<mission, stepRows, proofs, facultyOpen, facultyPins, flag, latchRow, sent, bindings, noticed>>
    /\ IdentityKept

ReadKernelState ==
    /\ At("gather", "state")
    /\ \/ Record(To("gather", "complete"), journal)
       \/ Record(To("gather", "abort"), Faulty("GITHUB"))
    /\ UNCHANGED <<mission, stepRows, proofs, facultyOpen, facultyPins, flag, latchRow, sent, bindings, noticed>>
    /\ IdentityKept

----------------------------------------------------------------------------
(* Faculties, identity and memory *)

\* PgFacultyRegistry.pin: a row already there is the answer.
PinFaculty(role) ==
    LET pinned == role \in facultyPins \/ facultyOpen[role]
    IN  /\ At(role, "pin")
        /\ facultyPins' = IF pinned THEN facultyPins \cup {role} ELSE facultyPins
        /\ IF pinned
           THEN Record(IF role = "analyst" THEN To("reviewer", "pin") ELSE ToLatch, journal)
           ELSE Record(To(role, "begin"), Faulty("FACULTY"))
        /\ UNCHANGED <<mission, stepRows, proofs, facultyOpen, flag, latchRow, sent, bindings, noticed>>
        /\ IdentityKept

Legacy == [id |-> "LEGACY", mode |-> "none", version |-> 0]

\* identity_current: the version most recently activated.
CurrentVersion == activations[Len(activations)].version

\* The row latch creates: the flag is read here, once, and only here.
NewLatch ==
    IF flag THEN [id |-> "latch", mode |-> "REQUIRED", version |-> CurrentVersion]
    ELSE [id |-> "latch", mode |-> "NONE", version |-> 0]

\* PgIdentityCognition.latch: a legacy task has none, a persisted latch wins.
Latch ==
    LET refused == latchRow = None /\ ("analyst" \notin facultyPins \/ (flag /\ activations = <<>>))
    IN  /\ At("analyst", "latch")
        /\ latchRow' = IF Plan.contract /\ latchRow = None /\ ~refused THEN NewLatch ELSE latchRow
        /\ IF Plan.contract /\ refused
           THEN Record(To("analyst", "begin"), Faulty("LATCH"))
           ELSE Record(ToMemory, [journal EXCEPT !.latch = IF Plan.contract THEN latchRow' ELSE Legacy])
        /\ UNCHANGED <<mission, stepRows, proofs, facultyOpen, facultyPins, flag, sent, bindings, noticed>>
        /\ IdentityKept

\* The memory context, assembled once; unavailable memory is no failure.
AssembleMemory ==
    /\ At("analyst", "memory")
    /\ \E status \in {"USED", "UNAVAILABLE"} :
         Record(To("analyst", "begin"), [journal EXCEPT !.memory = status])
    /\ UNCHANGED <<mission, stepRows, proofs, facultyOpen, facultyPins, flag, latchRow, sent, bindings, noticed>>
    /\ IdentityKept

----------------------------------------------------------------------------
(* Model calls *)

\* assembleAnalystRequest: the version whose projection the prompt carries.
Carried(role) == IF role = "analyst" /\ journal.latch # None THEN journal.latch.version ELSE 0

Guarded(role) == role \in facultyPins

\* The two authorisations on the outgoing request: the faculty is still open,
\* and the journal's latch is the database's.
Authorized(role) ==
    Guarded(role) =>
        /\ facultyOpen[role]
        /\ role = "analyst" /\ Latching =>
               journal.latch = IF Plan.contract THEN latchRow ELSE Legacy

\* What can come back from a provider that was reached.
Texts(role) == IF role = "analyst" THEN {"good", "poor"} ELSE {"good", "poor", "withhold"}
Reached == {"good", "poor", "withhold", "FAILED"}

Result(role, value) == [journal EXCEPT ![role] = value]

\* callModel's generate: one journaled call.  A port that breaks its result
\* contract ends the invocation with a terminal error and the task RUNNING.
Generate(role) ==
    /\ At(role, "work")
    /\ \/ Record(To(role, "abort"), Faulty("PROMPT_TOO_LARGE")) /\ UNCHANGED sent
       \/ /\ IF Authorized(role)
             THEN Guarded(role) /\ Record(To(role, "receipt"), Result(role, "UNAVAILABLE"))
             ELSE Record(To(role, "receipt"), Result(role, "REJECTED"))
          /\ UNCHANGED sent
       \/ /\ Authorized(role)
          /\ sent' = sent \cup {[role |-> role, identity |-> Carried(role), memory |-> journal.memory]}
          /\ \/ \E text \in Texts(role) \cup {"FAILED"} : Record(To(role, "receipt"), Result(role, text))
             \/ Record(To(role, "stuck"), journal)
    /\ UNCHANGED <<mission, stepRows, proofs, facultyOpen, facultyPins, flag, latchRow, bindings, noticed>>
    /\ IdentityKept

Binding == [mode |-> IF Carried("analyst") > 0 THEN "REQUIRED" ELSE "NONE", identity |-> Carried("analyst"),
            status |-> IF journal.analyst = "FAILED" THEN "FAILED" ELSE "SUCCEEDED"]

\* Where a received result leads.
AfterReceipt(role) ==
    IF journal[role] \in Texts(role) THEN Record(To(role, "complete"), journal)
    ELSE Record(To(role, "abort"), Faulty(journal[role]))

\* Mutant: only an answered call is bound.
ReceiptOfSuccess(role) ==
    /\ At(role, "receipt")
    /\ bindings' = IF role = "analyst" /\ journal.latch.id = "latch" /\ journal.analyst \in Texts(role)
                   THEN bindings \cup {Binding} ELSE bindings
    /\ AfterReceipt(role)
    /\ UNCHANGED <<mission, stepRows, proofs, facultyOpen, facultyPins, flag, latchRow, sent, noticed>>
    /\ IdentityKept

\* callModel's receipt: MODEL_CALLED, keyed by the call, for an analyst call
\* of a contract task whose result says that it may have run.
Receipt(role) ==
    /\ At(role, "receipt")
    /\ bindings' = IF role = "analyst" /\ journal.latch.id = "latch" /\ journal.analyst \in Reached
                   THEN bindings \cup {Binding} ELSE bindings
    /\ AfterReceipt(role)
    /\ UNCHANGED <<mission, stepRows, proofs, facultyOpen, facultyPins, flag, latchRow, sent, noticed>>
    /\ IdentityKept

----------------------------------------------------------------------------
(* Judgement and end *)

\* reconcileMission: a finding the reviewer does not confirm rejects it all.
MissionAccepts(analysis, review) == analysis = "good" /\ review = "good" /\ Plan.independent

\* reconcileBrief: a brief goes out without the items its reviewer withheld.
BriefAccepts(analysis, review) == analysis = "good" /\ review \in {"good", "withhold"} /\ Plan.independent

Accepts(analysis, review) ==
    IF Plan.recipe = "BRIEF" THEN BriefAccepts(analysis, review) ELSE MissionAccepts(analysis, review)

\* The evidence row of a completed step.
Proof(step) ==
    [id |-> step,
     text |-> CASE step \in Roles -> journal[step]
                [] step = "gather" -> "facts"
                [] step = "reconcile" -> IF Accepts(journal.analyst, journal.reviewer) THEN "ACCEPTED" ELSE "REJECTED",
     identity |-> IF step = "analyst" THEN Carried(step) ELSE 0,
     mode |-> IF step \notin Roles \/ journal.latch.id # "latch" THEN "none"
              ELSE IF step = "analyst" THEN journal.latch.mode ELSE "NONE"]

\* complete: STEP_COMPLETED with its evidence.
CompleteStep ==
    /\ place.phase = "complete"
    /\ stepRows' = [stepRows EXCEPT ![place.step] = "COMPLETED"]
    /\ proofs' = [proofs EXCEPT ![place.step] = Proof(place.step)]
    /\ Record(CASE place.step = "gather" -> ToPins
                [] place.step = "analyst" -> To("reviewer", "begin")
                [] place.step = "reviewer" -> To("reconcile", "begin")
                [] place.step = "reconcile" ->
                     IF Accepts(journal.analyst, journal.reviewer) THEN To("task", "verify") ELSE To("task", "fail"),
              journal)
    /\ UNCHANGED <<mission, facultyOpen, facultyPins, flag, latchRow, sent, bindings, noticed>>
    /\ IdentityKept

\* abort: the failed step and its reason.
AbortStep ==
    /\ place.phase = "abort"
    /\ stepRows' = [stepRows EXCEPT ![place.step] = "FAILED"]
    /\ proofs' = [proofs EXCEPT ![place.step] = [id |-> "failure", text |-> journal.cause]]
    /\ Record(To("task", "fail"), journal)
    /\ UNCHANGED <<mission, facultyOpen, facultyPins, flag, latchRow, sent, bindings, noticed>>
    /\ IdentityKept

\* TASK_VERIFYING and TASK_FAILED.
MoveTask ==
    /\ At("task", "verify") \/ At("task", "fail")
    /\ mission' = IF At("task", "verify") THEN "VERIFYING" ELSE "FAILED"
    /\ Record(To("task", IF At("task", "verify") THEN "finish" ELSE "notify"), journal)
    /\ UNCHANGED <<stepRows, proofs, facultyOpen, facultyPins, flag, latchRow, sent, bindings, noticed>>
    /\ IdentityKept

\* verifyFacultyEvidence and verifyIdentityEvidence on the persisted rows.
FacultiesProven == Pinning => facultyPins = Roles
IdentityProven ==
    IF ~Plan.contract THEN latchRow = None /\ bindings = {} /\ proofs["analyst"].mode = "none"
    ELSE /\ latchRow # None /\ proofs["analyst"].mode = latchRow.mode
         /\ proofs["analyst"].identity = latchRow.version
         /\ bindings = {[mode |-> latchRow.mode, identity |-> latchRow.version, status |-> "SUCCEEDED"]}
         /\ proofs["reviewer"].mode = "NONE"

\* What both verifiers recompute from the persisted rows.
EvidenceComplete ==
    /\ \A s \in MissionSteps : stepRows[s] = "COMPLETED" /\ proofs[s].id = s
    /\ proofs["reconcile"].text = "ACCEPTED"

\* verifyBriefCompletion and verifyMissionCompletion.
BriefVerified == EvidenceComplete /\ BriefAccepts(proofs["analyst"].text, proofs["reviewer"].text)
MissionVerified ==
    /\ EvidenceComplete /\ MissionAccepts(proofs["analyst"].text, proofs["reviewer"].text)
    /\ FacultiesProven /\ IdentityProven

Verified == IF Plan.recipe = "BRIEF" THEN BriefVerified ELSE MissionVerified

\* Ledger.finish: COMPLETED if it verifies, else FAILED; an outcome stays.
FinishMission ==
    /\ At("task", "finish")
    /\ mission' = IF mission \in Ended THEN mission ELSE IF Verified THEN "COMPLETED" ELSE "FAILED"
    /\ Record(To("task", "notify"), journal)
    /\ UNCHANGED <<stepRows, proofs, facultyOpen, facultyPins, flag, latchRow, sent, bindings, noticed>>
    /\ IdentityKept

\* enqueueMissionNotice: best effort, one row per task and status.
NotifyMission ==
    /\ At("task", "notify")
    /\ \E queued \in BOOLEAN : noticed' = IF queued THEN noticed \cup {mission} ELSE noticed
    /\ Record(To("task", "done"), journal)
    /\ UNCHANGED <<mission, stepRows, proofs, facultyOpen, facultyPins, flag, latchRow, sent, bindings>>
    /\ IdentityKept

----------------------------------------------------------------------------
(* Deployment *)

\* A worker restarts with another flag; a faculty is disabled, enabled or
\* loses its route.
Redeploy ==
    /\ mission = "RUNNING"
    /\ \/ "flag" \in Plan.redeploys /\ flag' = ~flag /\ UNCHANGED facultyOpen
       \/ \E r \in Roles \cap Plan.redeploys : facultyOpen' = [facultyOpen EXCEPT ![r] = ~@] /\ UNCHANGED flag
    /\ UNCHANGED <<place, journal, mission, stepRows, proofs, facultyPins, latchRow, sent, bindings, noticed, lost>>
    /\ IdentityKept

MissionWorker ==
    \/ BeginStep \/ GatherRepository \/ GatherActivity \/ ReadKernelState \/ Latch \/ AssembleMemory \/ CompleteStep \/ AbortStep
    \/ MoveTask \/ FinishMission \/ NotifyMission
    \/ \E r \in Roles : PinFaculty(r) \/ Generate(r) \/ Receipt(r)

CognitionInit == IdentityInit /\ MissionInit

CognitionNext ==
    \/ IdentityNext /\ UNCHANGED missionVars
    \/ MissionWorker
    \/ Redeploy

cognitionVars == <<identityVars, missionVars>>

\* Restate resumes every run until it ends, and its timers fire.
CognitionFairness ==
    /\ WF_cognitionVars(MissionWorker)
    /\ \A t \in Changes : WF_cognitionVars(Workflow(t) /\ UNCHANGED missionVars)
    /\ WF_cognitionVars(Tick /\ UNCHANGED missionVars)

CognitionSpec == CognitionInit /\ [][CognitionNext]_cognitionVars /\ CognitionFairness

----------------------------------------------------------------------------
(* Properties *)

\* The rows of the identity and of the mission are well formed: an activation
\* is of a version there is, and a request that reached a provider carries none
\* or one that was activated (identity_versions, identity_activations, tasks,
\* task_steps).
CognitionTypeOK == IdentityTypeOK /\ MissionTypeOK

\* However the flag, the faculties and the active identity move under a
\* running mission, and whichever journal entries are lost, all its analyst
\* calls carry the one version its latch pinned, its reviewer none; the call
\* whose result it kept is bound to that version before the step ends; and
\* COMPLETED, like the notice that says so, rests on exactly that evidence
\* (cognition-binding.ts, run.ts, evidence-verify.ts).
CognitionIsPinned ==
    /\ \A s \in sent : s.identity = IF s.role = "analyst" /\ latchRow # None THEN latchRow.version ELSE 0
    /\ latchRow # None /\ stepRows["analyst"] \in Ended /\ journal.analyst \in Reached =>
           \E b \in bindings : b.identity = latchRow.version /\ b.mode = latchRow.mode
    /\ \A b \in bindings : \E s \in sent : s.role = "analyst" /\ s.identity = b.identity
    /\ mission = "COMPLETED" /\ Plan.recipe = "REPO" =>
           (Plan.contract <=> \E b \in bindings : b.status = "SUCCEEDED")
    /\ noticed \subseteq {mission}

\* No zombie tasks: again and again there comes a moment at which every change
\* task that was created has ended (there are finitely many, and an ended task
\* stays ended), and so has the mission, unless its model port broke its
\* result contract (identity-workflow.ts refuse, run.ts abort).
RunsEnd ==
    []<>(/\ ChangesOver
         /\ mission \in Ended \cup {"none"} \/ place.phase = "stuck")
=============================================================================
