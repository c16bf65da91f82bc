-------------------------- MODULE RepoMissionProofs --------------------------
(***************************************************************************)
(* A mission thinks under the one identity its latch pinned, for every     *)
(* plan: however the flag, the faculties and the identity itself move      *)
(* beside it, and whichever journal entries are lost.  The latch row can   *)
(* be a step ahead of the journal, and only there: a lost journal entry    *)
(* repeats the step, which finds its row.  So what holds the argument      *)
(* together is that the row is written once, before the first model call,  *)
(* and that at every later place of the run the journal says what it says. *)
(***************************************************************************)
EXTENDS RepoMission, IdentityGovernanceProofs

-----------------------------------------------------------------------------
(* The inductive invariant, by parts. *)

Entries == {"latch", "memory", "analyst", "reviewer", "cause"}
Filed(e) == e = [x \in Entries |-> e[x]]

\* The task's own phases, and those of its steps.
TaskPhases == {"verify", "finish", "fail", "notify", "done"}
StepPhases == {"begin", "work", "state", "complete", "abort", "pin", "latch", "memory", "receipt", "stuck"}
Places == [step : MissionSteps, phase : StepPhases] \cup [step : {"task"}, phase : TaskPhases]

MissionShape ==
  /\ place \in Places
  /\ Filed(journal)
  /\ stepRows = [s \in MissionSteps |-> stepRows[s]]

\* An activation is of a version, and versions count from one.
ActivationsNumbered == \A i \in 1..Len(activations) : activations[i].version \in Nat \ {0}

\* A contract task's row, once there, says REQUIRED of a version or NONE of none.
LatchWellFormed ==
  latchRow # None =>
    /\ Plan.contract
    /\ latchRow.id = "latch" /\ latchRow.version \in Nat
    /\ latchRow.mode = IF latchRow.version > 0 THEN "REQUIRED" ELSE "NONE"

\* Places before the analyst's step is begun, and those of its call.
BeforeAt(p) ==
  \/ p.step = "gather"
  \/ p.step = "analyst" /\ p.phase \in {"pin", "latch", "memory", "begin"}
  \/ p.step = "reviewer" /\ p.phase = "pin"
ThinkingAt(p) == p.step = "analyst" /\ p.phase \in {"work", "receipt", "stuck"}
Before == BeforeAt(place)
Thinking == ThinkingAt(place)

\* The journal follows the row, except at the step that writes it.
JournalFollows ==
  /\ latchRow = None => journal.latch \in {None, Legacy}
  /\ latchRow # None /\ ~At("analyst", "latch") => journal.latch = latchRow

\* What the place of the run says of the calls it made and the rows it wrote.
CallsPlaced ==
  /\ Before => sent = {} /\ bindings = {}
  /\ Before \/ At("analyst", "work") => journal.analyst = "none"
  /\ Before \/ Thinking => stepRows["analyst"] \notin Ended
  /\ mission = "COMPLETED" => place.step = "task" /\ place.phase \in {"finish", "notify", "done"}
  /\ noticed # {} => place.step = "task" /\ place.phase \in {"notify", "done"}

\* A kept result is of a call that carried the latch's version.
CallMade ==
  journal.analyst \in Reached => \E s \in sent : s.role = "analyst" /\ s.identity = Carried("analyst")

Bound == \E b \in bindings : b.identity = latchRow.version /\ b.mode = latchRow.mode

\* Past the receipt the kept result is bound.
CallBound == ~Before /\ ~Thinking /\ latchRow # None /\ journal.analyst \in Reached => Bound

\* The parts of CognitionIsPinned.
SentPinned == \A s \in sent : s.identity = IF s.role = "analyst" /\ latchRow # None THEN latchRow.version ELSE 0
BindingsSent == \A b \in bindings : \E s \in sent : s.role = "analyst" /\ s.identity = b.identity
CompletedBound ==
  mission = "COMPLETED" /\ Plan.recipe = "REPO" => (Plan.contract <=> \E b \in bindings : b.status = "SUCCEEDED")
NoticeTrue == noticed \subseteq {mission}

PinnedInv ==
  /\ MissionShape /\ LatchWellFormed /\ JournalFollows
  /\ CallsPlaced /\ CallMade /\ CallBound
  /\ SentPinned /\ BindingsSent /\ CompletedBound /\ NoticeTrue

CognitionInv == IdentityInv /\ ActivationsNumbered /\ PinnedInv
LEMMA PinnedIsPinned == PinnedInv => CognitionIsPinned
<1> SUFFICES ASSUME PinnedInv PROVE CognitionIsPinned
  OBVIOUS
<1>1. latchRow # None /\ stepRows["analyst"] \in Ended /\ journal.analyst \in Reached => Bound
  BY DEF PinnedInv, CallsPlaced, CallBound
<1> QED BY <1>1 DEF PinnedInv, CognitionIsPinned, SentPinned, BindingsSent, CompletedBound, NoticeTrue, Bound

-----------------------------------------------------------------------------
(* What stands still. *)

LEMMA RecordCases ==
  ASSUME NEW next, NEW e, Record(next, e)
  PROVE  (place' = next /\ journal' = e) \/ (place' = place /\ journal' = journal)
BY DEF Record

LEMMA PlacesAre ==
  ASSUME NEW p \in Places
  PROVE  /\ p = [step |-> p.step, phase |-> p.phase]
         /\ \/ p.step \in MissionSteps /\ p.phase \in StepPhases
            \/ p.step = "task" /\ p.phase \in TaskPhases
BY DEF Places

LEMMA ToIsPlace ==
  ASSUME NEW s, NEW f
  PROVE  /\ To(s, f).step = s /\ To(s, f).phase = f
         /\ s \in MissionSteps /\ f \in StepPhases => To(s, f) \in Places
         /\ s = "task" /\ f \in TaskPhases => To(s, f) \in Places
BY DEF To, Places

LEMMA StandsStill ==
  ASSUME PinnedInv,
         UNCHANGED <<terms, place, journal, mission, stepRows, latchRow, sent, bindings, noticed>>
  PROVE  PinnedInv'
<1>1. MissionShape' /\ LatchWellFormed' /\ JournalFollows'
  BY DEF PinnedInv, MissionShape, Filed, LatchWellFormed, JournalFollows, At, Plan
<1>2. CallsPlaced' /\ CallMade' /\ CallBound'
  BY DEF PinnedInv, CallsPlaced, CallMade, CallBound, Before, Thinking, BeforeAt, ThinkingAt, Bound, At, Carried
<1>3. SentPinned' /\ BindingsSent' /\ CompletedBound' /\ NoticeTrue'
  BY DEF PinnedInv, SentPinned, BindingsSent, CompletedBound, NoticeTrue, Plan
<1> QED BY <1>1, <1>2, <1>3 DEF PinnedInv

-----------------------------------------------------------------------------
(* Steps of the run that call no model and write no latch. *)

LEMMA WorkKeeps ==
  ASSUME PinnedInv, place.step # "task", ~At("analyst", "latch"), ~Thinking,
         UNCHANGED <<terms, latchRow, sent, bindings, mission, noticed>>,
         NEW next \in Places, NEW e, Record(next, e),
         Filed(e), e.latch = journal.latch, e.analyst = journal.analyst,
         stepRows' = [s \in MissionSteps |-> stepRows'[s]],
         BeforeAt(next) \/ ThinkingAt(next) => Before,
         \/ stepRows'["analyst"] \notin Ended \/ stepRows'["analyst"] = stepRows["analyst"]
         \/ place.step = "analyst" /\ place.phase \in {"complete", "abort"}
  PROVE  PinnedInv'
<1>0. (place' = next /\ journal' = e) \/ (place' = place /\ journal' = journal)
  BY RecordCases
<1>1. journal'.latch = journal.latch /\ journal'.analyst = journal.analyst /\ Filed(journal')
  BY <1>0 DEF PinnedInv, MissionShape
<1>2. mission # "COMPLETED" /\ noticed = {}
  BY DEF PinnedInv, CallsPlaced
<1>3. MissionShape'
  BY <1>0, <1>1 DEF PinnedInv, MissionShape, Filed
<1>4. LatchWellFormed' /\ JournalFollows'
  BY <1>0, <1>1 DEF PinnedInv, LatchWellFormed, JournalFollows, At, Plan
<1>5. CallsPlaced'
  <2>1. Before' \/ Thinking' => Before
    BY <1>0 DEF Before, Thinking
  <2>2. At("analyst", "work")' => Thinking'
    BY DEF At, Thinking, ThinkingAt
  <2>3. Before' \/ Thinking' => stepRows'["analyst"] \notin Ended
    <3>1. CASE place.step = "analyst" /\ place.phase \in {"complete", "abort"}
      BY <2>1, <3>1 DEF Before, BeforeAt
    <3>2. CASE stepRows'["analyst"] = stepRows["analyst"]
      BY <2>1, <3>2 DEF PinnedInv, CallsPlaced
    <3> QED BY <3>1, <3>2
  <2> QED BY <1>1, <1>2, <2>1, <2>2, <2>3 DEF PinnedInv, CallsPlaced
<1>6. CallMade' /\ CallBound'
  <2>1. Carried("analyst")' = Carried("analyst")
    BY <1>1 DEF Carried
  <2>2. Before => journal.analyst = "none"
    BY DEF PinnedInv, CallsPlaced
  <2>3. Bound' = Bound
    BY DEF Bound
  <2> QED BY <1>1, <2>1, <2>2, <2>3 DEF PinnedInv, CallMade, CallBound, Reached
<1>7. SentPinned' /\ BindingsSent' /\ CompletedBound' /\ NoticeTrue'
  BY <1>2 DEF PinnedInv, SentPinned, BindingsSent, CompletedBound, NoticeTrue
<1> QED BY <1>3, <1>4, <1>5, <1>6, <1>7 DEF PinnedInv

LEMMA FaultyFiled ==
  ASSUME Filed(journal), NEW why
  PROVE  Filed(Faulty(why)) /\ Faulty(why).latch = journal.latch /\ Faulty(why).analyst = journal.analyst
BY DEF Filed, Entries, Faulty

\* The ways from the evidence to the analyst.
LEMMA WaysBefore ==
  /\ \A p \in {ToMemory, ToLatch, ToPins} : p \in Places /\ BeforeAt(p)
  /\ ~(ToMemory.step = "analyst" /\ ToMemory.phase = "latch")
<1>1. ToMemory \in {To("analyst", "memory"), To("analyst", "begin")}
  BY DEF ToMemory
<1>2. ToLatch \in {To("analyst", "latch"), ToMemory} /\ ToPins \in {To("analyst", "pin"), ToLatch}
  BY DEF ToLatch, ToPins
<1>3. \A f \in {"memory", "begin", "latch", "pin"} :
        To("analyst", f) \in Places /\ BeforeAt(To("analyst", f)) /\ To("analyst", f).phase = f
  BY ToIsPlace DEF MissionSteps, StepPhases, BeforeAt
<1> QED BY <1>1, <1>2, <1>3

LEMMA BeginKeeps ==
  ASSUME PinnedInv, BeginStep
  PROVE  PinnedInv'
<1> DEFINE f == IF journal.cause # "none" THEN "abort" ELSE IF place.step = "reconcile" THEN "complete" ELSE "work"
           next == To(place.step, f)
<1>1. place.step \in MissionSteps /\ place.phase = "begin" /\ Record(next, journal)
  BY PlacesAre DEF BeginStep, PinnedInv, MissionShape, TaskPhases
<1>2. next \in Places /\ next.step = place.step /\ next.phase = f
  BY <1>1, ToIsPlace DEF StepPhases
<1>3. f \in {"abort", "complete", "work"} /\ (place.step = "reconcile" => f # "work")
  OBVIOUS
<1> HIDE DEF next, f
<1>4. BeforeAt(next) \/ ThinkingAt(next) => Before
  BY <1>1, <1>2, <1>3 DEF BeforeAt, ThinkingAt, Before
<1>5. ~At("analyst", "latch") /\ ~Thinking /\ place.step # "task"
  BY <1>1 DEF At, Thinking, ThinkingAt, MissionSteps
<1>6. /\ stepRows' = [s \in MissionSteps |-> stepRows'[s]]
      /\ stepRows'["analyst"] \notin Ended \/ stepRows'["analyst"] = stepRows["analyst"]
  BY <1>1 DEF BeginStep, PinnedInv, MissionShape, MissionSteps, Ended
<1>7. UNCHANGED <<terms, latchRow, sent, bindings, mission, noticed>> /\ Filed(journal)
  BY DEF BeginStep, IdentityKept, PinnedInv, MissionShape
<1> QED BY <1>1, <1>2, <1>4, <1>5, <1>6, <1>7, WorkKeeps

LEMMA GatherKeeps ==
  ASSUME PinnedInv, GatherRepository \/ GatherActivity \/ ReadKernelState
  PROVE  PinnedInv'
<1>1. PICK f \in {"complete", "abort", "state"}, e \in {journal, Faulty("GITHUB")} : Record(To("gather", f), e)
  BY DEF GatherRepository, GatherActivity, ReadKernelState
<1>2. place.step = "gather"
  BY DEF GatherRepository, GatherActivity, ReadKernelState, At
<1>3. /\ UNCHANGED <<terms, latchRow, sent, bindings, mission, noticed, stepRows>>
      /\ Filed(journal) /\ stepRows = [s \in MissionSteps |-> stepRows[s]]
  BY DEF GatherRepository, GatherActivity, ReadKernelState, IdentityKept, PinnedInv, MissionShape
<1>4. Filed(e) /\ e.latch = journal.latch /\ e.analyst = journal.analyst
  BY <1>3, FaultyFiled
<1>5. To("gather", f) \in Places
  BY ToIsPlace DEF MissionSteps, StepPhases
<1>6. ~At("analyst", "latch") /\ ~Thinking /\ Before /\ place.step # "task"
  BY <1>2 DEF At, Thinking, ThinkingAt, Before, BeforeAt
<1> QED BY <1>1, <1>3, <1>4, <1>5, <1>6, WorkKeeps

LEMMA PinKeeps ==
  ASSUME PinnedInv, NEW role \in Roles, PinFaculty(role)
  PROVE  PinnedInv'
<1>1. place.step = role /\ place.phase = "pin" /\ role \in {"analyst", "reviewer"}
  BY DEF PinFaculty, At, Roles
<1>2. PICK next \in {To("reviewer", "pin"), ToLatch, To(role, "begin")}, e \in {journal, Faulty("FACULTY")} :
        Record(next, e)
  BY DEF PinFaculty
<1>3. /\ UNCHANGED <<terms, latchRow, sent, bindings, mission, noticed, stepRows>>
      /\ Filed(journal) /\ stepRows = [s \in MissionSteps |-> stepRows[s]]
  BY DEF PinFaculty, IdentityKept, PinnedInv, MissionShape
<1>4. Filed(e) /\ e.latch = journal.latch /\ e.analyst = journal.analyst
  BY <1>3, FaultyFiled
<1>5. next \in Places
  BY <1>1, ToIsPlace, WaysBefore DEF MissionSteps, StepPhases
<1>6. ~At("analyst", "latch") /\ ~Thinking /\ Before /\ place.step # "task"
  BY <1>1 DEF At, Thinking, ThinkingAt, Before, BeforeAt
<1> QED BY <1>2, <1>3, <1>4, <1>5, <1>6, WorkKeeps

LEMMA MemoryKeeps ==
  ASSUME PinnedInv, AssembleMemory
  PROVE  PinnedInv'
<1>1. PICK v \in {"USED", "UNAVAILABLE"} : Record(To("analyst", "begin"), [journal EXCEPT !.memory = v])
  BY DEF AssembleMemory
<1>2. place.step = "analyst" /\ place.phase = "memory"
  BY DEF AssembleMemory, At
<1>3. /\ UNCHANGED <<terms, latchRow, sent, bindings, mission, noticed, stepRows>>
      /\ Filed(journal) /\ stepRows = [s \in MissionSteps |-> stepRows[s]]
  BY DEF AssembleMemory, IdentityKept, PinnedInv, MissionShape
<1>4. LET e == [journal EXCEPT !.memory = v]
      IN  Filed(e) /\ e.latch = journal.latch /\ e.analyst = journal.analyst
  BY <1>3 DEF Filed, Entries
<1>5. To("analyst", "begin") \in Places
  BY ToIsPlace DEF MissionSteps, StepPhases
<1>6. ~At("analyst", "latch") /\ ~Thinking /\ Before /\ place.step # "task"
  BY <1>2 DEF At, Thinking, ThinkingAt, Before, BeforeAt
<1> QED BY <1>1, <1>3, <1>4, <1>5, <1>6, WorkKeeps

LEMMA CompleteKeeps ==
  ASSUME PinnedInv, CompleteStep
  PROVE  PinnedInv'
<1>1. place.step \in MissionSteps /\ place.phase = "complete"
  BY PlacesAre DEF CompleteStep, PinnedInv, MissionShape, TaskPhases
<1>2. PICK next : /\ Record(next, journal)
                  /\ \/ place.step = "gather" /\ next = ToPins
                     \/ next \in {To("reviewer", "begin"), To("reconcile", "begin"),
                                  To("task", "verify"), To("task", "fail")}
  BY <1>1 DEF CompleteStep, MissionSteps
<1>3. /\ UNCHANGED <<terms, latchRow, sent, bindings, mission, noticed>>
      /\ Filed(journal) /\ stepRows = [s \in MissionSteps |-> stepRows[s]]
      /\ stepRows' = [stepRows EXCEPT ![place.step] = "COMPLETED"]
  BY DEF CompleteStep, IdentityKept, PinnedInv, MissionShape
<1>4. next \in Places
  BY <1>2, ToIsPlace, WaysBefore DEF MissionSteps, StepPhases, TaskPhases
<1>5. BeforeAt(next) \/ ThinkingAt(next) => Before
  <2>1. CASE place.step = "gather"
    BY <2>1 DEF Before, BeforeAt
  <2>2. CASE next \in {To("reviewer", "begin"), To("reconcile", "begin"), To("task", "verify"), To("task", "fail")}
    BY <2>2, ToIsPlace DEF BeforeAt, ThinkingAt
  <2> QED BY <1>2, <2>1, <2>2
<1>6. ~At("analyst", "latch") /\ ~Thinking /\ place.step # "task"
  BY <1>1 DEF At, Thinking, ThinkingAt, MissionSteps
<1>7. /\ stepRows' = [s \in MissionSteps |-> stepRows'[s]]
      /\ place.step = "analyst" \/ stepRows'["analyst"] = stepRows["analyst"]
  BY <1>1, <1>3 DEF MissionSteps
<1> QED BY <1>1, <1>2, <1>3, <1>4, <1>5, <1>6, <1>7, WorkKeeps

LEMMA AbortKeeps ==
  ASSUME PinnedInv, AbortStep
  PROVE  PinnedInv'
<1>1. place.step \in MissionSteps /\ place.phase = "abort"
  BY PlacesAre DEF AbortStep, PinnedInv, MissionShape, TaskPhases
<1>2. /\ UNCHANGED <<terms, latchRow, sent, bindings, mission, noticed>>
      /\ Filed(journal) /\ stepRows = [s \in MissionSteps |-> stepRows[s]]
      /\ stepRows' = [stepRows EXCEPT ![place.step] = "FAILED"]
      /\ Record(To("task", "fail"), journal)
  BY DEF AbortStep, IdentityKept, PinnedInv, MissionShape
<1>3. To("task", "fail") \in Places /\ ~BeforeAt(To("task", "fail")) /\ ~ThinkingAt(To("task", "fail"))
  BY ToIsPlace DEF TaskPhases, BeforeAt, ThinkingAt
<1>4. ~At("analyst", "latch") /\ ~Thinking /\ place.step # "task"
  BY <1>1 DEF At, Thinking, ThinkingAt, MissionSteps
<1>5. /\ stepRows' = [s \in MissionSteps |-> stepRows'[s]]
      /\ place.step = "analyst" \/ stepRows'["analyst"] = stepRows["analyst"]
  BY <1>1, <1>2 DEF MissionSteps
<1> QED BY <1>1, <1>2, <1>3, <1>4, <1>5, WorkKeeps

-----------------------------------------------------------------------------
(* The end of the task. *)

LEMMA TaskKeeps ==
  ASSUME PinnedInv, MoveTask \/ FinishMission \/ NotifyMission
  PROVE  PinnedInv'
<1>1. /\ place.step = "task"
      /\ UNCHANGED <<terms, stepRows, latchRow, sent, bindings>>
  BY DEF MoveTask, FinishMission, NotifyMission, At, IdentityKept
<1>2. PICK f \in {"finish", "notify", "done"} : Record(To("task", f), journal)
  BY DEF MoveTask, FinishMission, NotifyMission
<1>3. journal' = journal /\ place' \in Places /\ place'.step = "task"
  BY <1>1, <1>2, RecordCases, ToIsPlace DEF TaskPhases, PinnedInv, MissionShape
<1>4. ~Before /\ ~Thinking /\ ~Before' /\ ~Thinking'
  BY <1>1, <1>3 DEF Before, Thinking, BeforeAt, ThinkingAt
<1>5. ~At("analyst", "latch") /\ ~At("analyst", "work")'
  BY <1>1, <1>3 DEF At
<1>6. MissionShape' /\ LatchWellFormed' /\ JournalFollows'
  BY <1>1, <1>3, <1>5 DEF PinnedInv, MissionShape, Filed, LatchWellFormed, JournalFollows, Plan
<1>7. CallMade' /\ CallBound' /\ SentPinned' /\ BindingsSent'
  BY <1>1, <1>3, <1>4 DEF PinnedInv, CallMade, CallBound, Bound, Carried, SentPinned, BindingsSent
<1>8. /\ mission' = "COMPLETED" => place'.phase \in {"finish", "notify", "done"}
      /\ noticed' # {} => place'.phase \in {"notify", "done"}
      /\ CompletedBound' /\ NoticeTrue'
  <2>1. CASE MoveTask
    <3>1. place.phase \in {"verify", "fail"} /\ mission' # "COMPLETED" /\ noticed' = noticed
      BY <2>1 DEF MoveTask, At
    <3>2. noticed = {}
      BY <3>1 DEF PinnedInv, CallsPlaced
    <3> QED BY <3>1, <3>2 DEF CompletedBound, NoticeTrue
  <2>2. CASE FinishMission
    <3>1. place.phase = "finish" /\ noticed' = noticed
      BY <2>2 DEF FinishMission, At
    <3>2. noticed = {}
      BY <3>1 DEF PinnedInv, CallsPlaced
    <3>3. Record(To("task", "notify"), journal)
      BY <2>2 DEF FinishMission
    <3>4. place'.phase \in {"finish", "notify"}
      BY <3>1, <3>3, RecordCases, ToIsPlace
    <3>5. CompletedBound'
      <4>1. CASE mission \in Ended
        <5>1. mission' = mission
          BY <2>2, <4>1 DEF FinishMission
        <5> QED BY <1>1, <5>1 DEF PinnedInv, CompletedBound, Plan
      <4>2. CASE mission \notin Ended
        <5> SUFFICES ASSUME mission' = "COMPLETED", Plan.recipe = "REPO"
                     PROVE  Plan.contract <=> \E b \in bindings : b.status = "SUCCEEDED"
          BY <1>1 DEF CompletedBound, Plan
        <5>1. IdentityProven
          BY <2>2, <4>2 DEF FinishMission, Verified, MissionVerified
        <5>2. CASE Plan.contract
          <6> DEFINE b == [mode |-> latchRow.mode, identity |-> latchRow.version, status |-> "SUCCEEDED"]
          <6>1. bindings = {b} /\ b.status = "SUCCEEDED"
            BY <5>1, <5>2 DEF IdentityProven
          <6> QED BY <5>2, <6>1
        <5>3. CASE ~Plan.contract
          BY <5>1, <5>3 DEF IdentityProven
        <5> QED BY <5>2, <5>3
      <4> QED BY <4>1, <4>2
    <3> QED BY <3>1, <3>2, <3>4, <3>5 DEF NoticeTrue
  <2>3. CASE NotifyMission
    <3>1. place.phase = "notify" /\ mission' = mission /\ noticed' \in {noticed, noticed \cup {mission}}
      BY <2>3 DEF NotifyMission, At
    <3>2. Record(To("task", "done"), journal)
      BY <2>3 DEF NotifyMission
    <3>3. place'.phase \in {"notify", "done"}
      BY <3>1, <3>2, RecordCases, ToIsPlace
    <3> QED BY <1>1, <3>1, <3>3 DEF PinnedInv, CompletedBound, NoticeTrue, Plan
  <2> QED BY <2>1, <2>2, <2>3
<1>9. CallsPlaced'
  BY <1>3, <1>4, <1>5, <1>8 DEF CallsPlaced
<1> QED BY <1>6, <1>7, <1>8, <1>9 DEF PinnedInv

-----------------------------------------------------------------------------
(* The latch. *)

\* The row the latch creates is of a version that was activated.
LEMMA NewLatchFits ==
  ASSUME Listed(activations), ActivationsNumbered, flag => activations # <<>>
  PROVE  /\ NewLatch # None /\ NewLatch.id = "latch" /\ NewLatch.version \in Nat
         /\ NewLatch.mode = IF NewLatch.version > 0 THEN "REQUIRED" ELSE "NONE"
<1>1. CASE flag
  <2>1. Len(activations) \in Nat /\ Len(activations) # 0
    <3>1. Len(activations) = 0 => activations = <<>>
      BY DEF Listed
    <3> QED BY <1>1, <3>1 DEF Listed
  <2>2. CurrentVersion \in Nat \ {0}
    BY <2>1 DEF CurrentVersion, ActivationsNumbered
  <2>3. NewLatch.id = "latch" /\ NewLatch.version = CurrentVersion /\ NewLatch.mode = "REQUIRED"
    BY <1>1 DEF NewLatch
  <2> QED BY <2>2, <2>3 DEF None
<1>2. CASE ~flag
  BY <1>2 DEF NewLatch, None
<1> QED BY <1>1, <1>2

LEMMA LatchKeeps ==
  ASSUME PinnedInv, Listed(activations), ActivationsNumbered, Latch
  PROVE  PinnedInv'
<1>1. place.step = "analyst" /\ place.phase = "latch" /\ Before /\ ~Thinking
  BY DEF Latch, At, Before, BeforeAt, Thinking, ThinkingAt
<1>2. /\ sent = {} /\ bindings = {} /\ journal.analyst = "none" /\ stepRows["analyst"] \notin Ended
      /\ mission # "COMPLETED" /\ noticed = {}
  BY <1>1 DEF PinnedInv, CallsPlaced
<1>3. UNCHANGED <<terms, stepRows, sent, bindings, mission, noticed>> /\ Filed(journal)
  BY DEF Latch, IdentityKept, PinnedInv, MissionShape
<1>4. latchRow' = latchRow \/ (latchRow = None /\ latchRow' = NewLatch /\ Plan.contract
                                /\ (flag => activations # <<>>))
  BY DEF Latch
<1>5. LatchWellFormed'
  BY <1>3, <1>4, NewLatchFits DEF PinnedInv, LatchWellFormed, Plan
<1>6. PICK next, e : /\ Record(next, e)
                     /\ \/ next = To("analyst", "begin") /\ e = Faulty("LATCH") /\ latchRow = None /\ latchRow' = None
                        \/ next = ToMemory /\ e = [journal EXCEPT !.latch = IF Plan.contract THEN latchRow' ELSE Legacy]
  BY DEF Latch
<1>7. next \in Places /\ BeforeAt(next) /\ ~ThinkingAt(next) /\ ~(next.step = "analyst" /\ next.phase = "latch")
  BY <1>6, WaysBefore, ToIsPlace DEF MissionSteps, StepPhases, BeforeAt, ThinkingAt
<1>8. Filed(e) /\ e.analyst = "none"
  BY <1>2, <1>3, <1>6, FaultyFiled DEF Filed, Entries
<1>9. /\ latchRow' = None => e.latch \in {None, Legacy} /\ journal.latch \in {None, Legacy}
      /\ latchRow' # None => e.latch = latchRow'
  <2>1. latchRow' = None => latchRow = None
    BY <1>4, NewLatchFits
  <2>2. latchRow = None => journal.latch \in {None, Legacy}
    BY DEF PinnedInv, JournalFollows
  <2>3. CASE e = Faulty("LATCH") /\ latchRow' = None
    BY <1>3, <2>1, <2>2, <2>3, FaultyFiled
  <2>4. CASE e = [journal EXCEPT !.latch = IF Plan.contract THEN latchRow' ELSE Legacy]
    <3>1. e.latch = IF Plan.contract THEN latchRow' ELSE Legacy
      BY <1>3, <2>4 DEF Filed, Entries
    <3>2. latchRow' # None => Plan.contract
      BY <1>3, <1>5 DEF LatchWellFormed, Plan
    <3> QED BY <2>1, <2>2, <3>1, <3>2
  <2> QED BY <1>6, <2>3, <2>4
<1>10. \/ place' = next /\ journal' = e
       \/ place' = place /\ journal' = journal
  BY <1>6, RecordCases
<1>11. MissionShape' /\ Before' /\ ~Thinking' /\ journal'.analyst = "none"
  BY <1>1, <1>2, <1>3, <1>7, <1>8, <1>10 DEF PinnedInv, MissionShape, Filed, Before, Thinking
<1>12. JournalFollows'
  BY <1>1, <1>9, <1>10 DEF JournalFollows, Latch, At
<1>13. CallsPlaced' /\ CallMade' /\ CallBound'
  BY <1>2, <1>3, <1>11 DEF CallsPlaced, CallMade, CallBound, Reached
<1>14. SentPinned' /\ BindingsSent' /\ CompletedBound' /\ NoticeTrue'
  BY <1>2, <1>3 DEF SentPinned, BindingsSent, CompletedBound, NoticeTrue
<1> QED BY <1>5, <1>11, <1>12, <1>13, <1>14 DEF PinnedInv

-----------------------------------------------------------------------------
(* The model calls. *)

\* What an analyst's prompt carries is what the row pinned.
LEMMA CarriedIsPinned ==
  ASSUME PinnedInv, ~At("analyst", "latch")
  PROVE  Carried("analyst") = IF latchRow # None THEN latchRow.version ELSE 0
<1>1. CASE latchRow = None
  <2>1. journal.latch \in {None, Legacy} /\ Legacy.version = 0
    BY <1>1 DEF PinnedInv, JournalFollows, Legacy
  <2> QED BY <1>1, <2>1 DEF Carried
<1>2. CASE latchRow # None
  BY <1>2 DEF PinnedInv, JournalFollows, Carried
<1> QED BY <1>1, <1>2

Outcomes == Reached \cup {"UNAVAILABLE", "REJECTED"}
Request(role) == [role |-> role, identity |-> Carried(role), memory |-> journal.memory]

\* A call moves to its abort or its receipt, or nowhere; a kept result that says
\* it may have run is of a request that was sent.
LEMMA GenerateMoves ==
  ASSUME NEW role \in Roles, Generate(role)
  PROVE  \E f \in {"abort", "receipt", "stuck"}, v \in Outcomes :
           /\ Record(To(role, f), IF f = "abort" THEN Faulty("PROMPT_TOO_LARGE")
                                  ELSE IF f = "receipt" THEN Result(role, v) ELSE journal)
           /\ \/ sent' = sent /\ (f = "receipt" => v \notin Reached)
              \/ sent' = sent \cup {Request(role)}
<1>1. CASE Record(To(role, "abort"), Faulty("PROMPT_TOO_LARGE")) /\ UNCHANGED sent
  BY <1>1 DEF Outcomes
<1>2. CASE \E v \in {"UNAVAILABLE", "REJECTED"} : Record(To(role, "receipt"), Result(role, v)) /\ UNCHANGED sent
  <2> PICK v \in {"UNAVAILABLE", "REJECTED"} : Record(To(role, "receipt"), Result(role, v)) /\ UNCHANGED sent
    BY <1>2
  <2>1. v \in Outcomes /\ v \notin Reached
    BY DEF Outcomes, Reached
  <2> QED BY <2>1
<1>3. CASE sent' = sent \cup {Request(role)} /\ \E v \in Texts(role) \cup {"FAILED"} : Record(To(role, "receipt"), Result(role, v))
  <2> PICK v \in Texts(role) \cup {"FAILED"} : Record(To(role, "receipt"), Result(role, v))
    BY <1>3
  <2>1. v \in Outcomes
    BY DEF Outcomes, Reached, Texts
  <2> QED BY <1>3, <2>1
<1>4. CASE sent' = sent \cup {Request(role)} /\ Record(To(role, "stuck"), journal)
  BY <1>4 DEF Outcomes
<1> QED BY <1>1, <1>2, <1>3, <1>4 DEF Generate, Request

LEMMA GenerateKeeps ==
  ASSUME PinnedInv, NEW role \in Roles, Generate(role)
  PROVE  PinnedInv'
<1>1. place.step = role /\ place.phase = "work" /\ role \in {"analyst", "reviewer"}
  BY DEF Generate, At, Roles
<1>2. UNCHANGED <<terms, stepRows, latchRow, bindings, mission, noticed>> /\ Filed(journal)
  BY DEF Generate, IdentityKept, PinnedInv, MissionShape
<1>3. PICK f \in {"abort", "receipt", "stuck"}, v \in Outcomes :
           /\ Record(To(role, f), IF f = "abort" THEN Faulty("PROMPT_TOO_LARGE")
                                  ELSE IF f = "receipt" THEN Result(role, v) ELSE journal)
           /\ \/ sent' = sent /\ (f = "receipt" => v \notin Reached)
              \/ sent' = sent \cup {Request(role)}
  BY GenerateMoves
<1> DEFINE e == IF f = "abort" THEN Faulty("PROMPT_TOO_LARGE") ELSE IF f = "receipt" THEN Result(role, v) ELSE journal
<1>4. Filed(e) /\ e.latch = journal.latch
      /\ e.analyst = IF f = "receipt" /\ role = "analyst" THEN v ELSE journal.analyst
  <2>1. /\ Filed(Result(role, v)) /\ Result(role, v).latch = journal.latch
        /\ Result(role, v).analyst = IF role = "analyst" THEN v ELSE journal.analyst
    BY <1>1, <1>2 DEF Filed, Entries, Result
  <2> QED BY <1>2, <2>1, FaultyFiled
<1>5. (place' = To(role, f) /\ journal' = e) \/ (place' = place /\ journal' = journal)
  BY <1>3, RecordCases
<1> HIDE DEF e
<1>6. To(role, f) \in Places /\ To(role, f).step = role /\ To(role, f).phase = f
  BY <1>1, ToIsPlace DEF MissionSteps, StepPhases
<1>7. MissionShape' /\ journal'.latch = journal.latch
  BY <1>2, <1>4, <1>5, <1>6 DEF PinnedInv, MissionShape, Filed
<1>8. ~At("analyst", "latch") /\ ~At("analyst", "latch")' /\ ~Before /\ ~Before'
  BY <1>1, <1>5, <1>6 DEF At, Before, BeforeAt
<1>9. LatchWellFormed' /\ JournalFollows'
  BY <1>2, <1>7, <1>8 DEF PinnedInv, LatchWellFormed, JournalFollows, Plan
<1>10. Carried("analyst")' = Carried("analyst")
  BY <1>7 DEF Carried
<1>11. role = "analyst" => journal.analyst = "none" /\ Thinking
  BY <1>1 DEF PinnedInv, CallsPlaced, Thinking, ThinkingAt, At, MissionShape, Places
<1>12. CallsPlaced'
  <2>1. At("analyst", "work")' => journal'.analyst = "none"
    BY <1>5, <1>6, <1>11, <1>1 DEF At
  <2>2. Thinking' => Thinking
    BY <1>1, <1>5, <1>6, <1>11 DEF Thinking, ThinkingAt
  <2>3. mission' # "COMPLETED" /\ noticed' = {}
    BY <1>1, <1>2 DEF PinnedInv, CallsPlaced
  <2> QED BY <1>2, <1>8, <2>1, <2>2, <2>3 DEF PinnedInv, CallsPlaced
<1>13. CallMade'
  <2>1. Request(role).role = role /\ Request(role).identity = Carried(role)
    BY DEF Request
  <2>2. CASE journal'.analyst = journal.analyst
    BY <1>3, <1>10, <2>2 DEF PinnedInv, CallMade
  <2>3. CASE role = "analyst" /\ f = "receipt" /\ journal'.analyst = v
    BY <1>3, <1>10, <2>1, <2>3 DEF CallMade
  <2> QED BY <1>4, <1>5, <2>2, <2>3
<1>14. CallBound'
  <2>1. CASE role = "reviewer"
    <3>1. journal'.analyst = journal.analyst /\ ~Thinking
      BY <1>1, <1>4, <1>5, <2>1 DEF Thinking, ThinkingAt
    <3> QED BY <1>2, <1>8, <3>1 DEF PinnedInv, CallBound, Bound
  <2>2. CASE role = "analyst"
    <3>1. ~Thinking' => journal'.analyst = "none"
      BY <1>4, <1>5, <1>6, <1>11, <2>2 DEF Thinking, ThinkingAt
    <3> QED BY <3>1 DEF CallBound, Reached
  <2> QED BY <1>1, <2>1, <2>2
<1>15. SentPinned'
  <2>1. /\ Request(role).role = role
        /\ Request(role).identity = IF role = "analyst" /\ latchRow # None THEN latchRow.version ELSE 0
    BY <1>8, CarriedIsPinned DEF Request, Carried
  <2> QED BY <1>2, <1>3, <2>1 DEF PinnedInv, SentPinned
<1>16. BindingsSent' /\ CompletedBound' /\ NoticeTrue'
  BY <1>2, <1>3 DEF PinnedInv, BindingsSent, CompletedBound, NoticeTrue, Plan
<1> QED BY <1>7, <1>9, <1>12, <1>13, <1>14, <1>15, <1>16 DEF PinnedInv

LEMMA ReceiptKeeps ==
  ASSUME PinnedInv, NEW role \in Roles, Receipt(role)
  PROVE  PinnedInv'
<1>1. place.step = role /\ place.phase = "receipt" /\ role \in {"analyst", "reviewer"}
  BY DEF Receipt, At, Roles
<1>2. UNCHANGED <<terms, stepRows, latchRow, sent, mission, noticed>> /\ Filed(journal)
  BY DEF Receipt, IdentityKept, PinnedInv, MissionShape
<1>3. PICK f \in {"complete", "abort"}, e \in {journal, Faulty(journal[role])} : Record(To(role, f), e)
  BY DEF Receipt, AfterReceipt
<1>4. Filed(e) /\ e.latch = journal.latch /\ e.analyst = journal.analyst
  BY <1>2, FaultyFiled
<1>5. (place' = To(role, f) /\ journal' = e) \/ (place' = place /\ journal' = journal)
  BY <1>3, RecordCases
<1>6. To(role, f) \in Places /\ To(role, f).step = role /\ To(role, f).phase = f
  BY <1>1, ToIsPlace DEF MissionSteps, StepPhases
<1>7. MissionShape' /\ journal'.latch = journal.latch /\ journal'.analyst = journal.analyst
  BY <1>2, <1>4, <1>5, <1>6 DEF PinnedInv, MissionShape, Filed
<1>8. /\ ~At("analyst", "latch") /\ ~At("analyst", "latch")' /\ ~Before /\ ~Before'
      /\ ~At("analyst", "work")'
  BY <1>1, <1>5, <1>6 DEF At, Before, BeforeAt
<1>9. LatchWellFormed' /\ JournalFollows'
  BY <1>2, <1>7, <1>8 DEF PinnedInv, LatchWellFormed, JournalFollows, Plan
<1>10. Thinking' => Thinking
  BY <1>1, <1>5, <1>6 DEF Thinking, ThinkingAt
<1>11. mission' # "COMPLETED" /\ noticed' = {}
  BY <1>1, <1>2 DEF PinnedInv, CallsPlaced
<1>12. CallsPlaced'
  BY <1>2, <1>8, <1>10, <1>11 DEF PinnedInv, CallsPlaced
<1>13. CallMade'
  BY <1>2, <1>7 DEF PinnedInv, CallMade, Carried
<1>14. bindings' = bindings \/ (role = "analyst" /\ journal.analyst \in Reached /\ bindings' = bindings \cup {Binding})
  BY DEF Receipt
<1>15. /\ Binding.identity = Carried("analyst")
       /\ Binding.mode = IF Carried("analyst") > 0 THEN "REQUIRED" ELSE "NONE"
  BY DEF Binding
<1>16. BindingsSent'
  BY <1>2, <1>14, <1>15 DEF PinnedInv, BindingsSent, CallMade
<1>17. CallBound'
  <2> SUFFICES ASSUME latchRow # None, journal.analyst \in Reached, ~Thinking' PROVE Bound'
    BY <1>2, <1>7 DEF CallBound
  <2>1. CASE role = "reviewer"
    <3>1. ~Thinking /\ bindings' = bindings
      BY <1>1, <1>14, <2>1 DEF Thinking, ThinkingAt
    <3> QED BY <1>2, <1>8, <3>1 DEF PinnedInv, CallBound, Bound
  <2>2. CASE role = "analyst"
    <3>1. journal.latch.id = "latch"
      BY <1>8 DEF PinnedInv, JournalFollows, LatchWellFormed
    <3>2. bindings' = bindings \cup {Binding}
      BY <2>2, <3>1 DEF Receipt
    <3>3. Binding.identity = latchRow.version /\ Binding.mode = latchRow.mode
      BY <1>8, <1>15, CarriedIsPinned DEF PinnedInv, LatchWellFormed
    <3> QED BY <1>2, <3>2, <3>3 DEF Bound
  <2> QED BY <1>1, <2>1, <2>2
<1>18. SentPinned' /\ CompletedBound' /\ NoticeTrue'
  BY <1>2, <1>11 DEF PinnedInv, SentPinned, CompletedBound, NoticeTrue
<1> QED BY <1>7, <1>9, <1>12, <1>13, <1>16, <1>17, <1>18 DEF PinnedInv

-----------------------------------------------------------------------------
(* The identity moves beside the mission. *)

LEMMA ChangesLeaveTerms ==
  ASSUME IdentityNext
  PROVE  terms' = terms
<1>1. CASE \E t \in Changes : Submit(t) \/ Workflow(t) \/ Answer(t)
  <2> PICK t \in Changes : Submit(t) \/ Workflow(t) \/ Answer(t)
    BY <1>1
  <2>1. Submit(t) \/ ReadProfile(t) \/ ReadHead(t) \/ Screen(t) \/ EnsureProfile(t) \/ EvaluatePolicy(t)
        => terms' = terms
    BY DEF Submit, ReadProfile, ReadHead, Screen, EnsureProfile, EvaluatePolicy, Reads
  <2>2. InsertProfile(t) \/ Propose(t) \/ RecordPolicy(t) \/ RejectIfHeld(t) \/ ResolveDeadline(t)
        => terms' = terms
    BY DEF InsertProfile, Propose, RecordPolicy, RejectIfHeld, ResolveDeadline
  <2>3. ApproveCandidate(t) \/ Apply(t) \/ Emit(t) \/ Answer(t) => terms' = terms
    BY DEF ApproveCandidate, Apply, Emit, Answer
  <2> QED BY <2>1, <2>2, <2>3 DEF Workflow
<1>2. CASE SetFreeze \/ Tick
  BY <1>2 DEF SetFreeze, Tick
<1> QED BY <1>1, <1>2 DEF IdentityNext

LEMMA ChangesNumber ==
  ASSUME IdentityInv, ActivationsNumbered, IdentityNext
  PROVE  ActivationsNumbered'
<1>1. CASE \E t \in Changes : Submit(t) \/ Workflow(t) \/ Answer(t)
  <2> PICK t \in Changes : Submit(t) \/ Workflow(t) \/ Answer(t)
    BY <1>1
  <2>1. CASE Activates(t)
    <3> DEFINE n == Len(activations)
    <3>1. /\ Len(versions) \in Nat /\ n \in Nat /\ Len(activations') = n + 1
          /\ \A i \in 1..n : activations'[i] = activations[i]
          /\ activations'[n + 1] = NewActivation(t)
      BY <2>1, ActivatesRows
    <3>2. NewActivation(t).version \in Nat \ {0}
      BY <3>1 DEF NewActivation, NextVersion, HeadVersion
    <3>3. \A i \in 1..n : activations[i].version \in Nat \ {0}
      BY DEF ActivationsNumbered
    <3> HIDE DEF n
    <3>4. \A i \in 1..(n + 1) : activations'[i].version \in Nat \ {0}
      BY <3>1, <3>2, <3>3
    <3> QED BY <3>1, <3>4 DEF ActivationsNumbered
  <2>2. CASE Apply(t) /\ ~Activates(t)
    <3>1. activations' = activations
      BY <2>2 DEF Apply, Activates, NewVersion, NewActivation
    <3> QED BY <3>1 DEF ActivationsNumbered
  <2>3. CASE ~Apply(t)
    <3>1. Submit(t) \/ ReadProfile(t) \/ ReadHead(t) \/ Screen(t) \/ EnsureProfile(t) \/ EvaluatePolicy(t)
          => activations' = activations
      BY DEF Submit, ReadProfile, ReadHead, Screen, EnsureProfile, EvaluatePolicy, Reads, rows
    <3>2. InsertProfile(t) \/ Propose(t) \/ RecordPolicy(t) \/ RejectIfHeld(t) \/ ResolveDeadline(t)
          => activations' = activations
      BY DEF InsertProfile, Propose, RecordPolicy, RejectIfHeld, ResolveDeadline
    <3>3. ApproveCandidate(t) \/ Emit(t) \/ Answer(t) => activations' = activations
      BY DEF ApproveCandidate, Emit, Answer
    <3>4. activations' = activations
      BY <2>3, <3>1, <3>2, <3>3 DEF Workflow
    <3> QED BY <3>4 DEF ActivationsNumbered
  <2> QED BY <2>1, <2>2, <2>3
<1>2. CASE SetFreeze \/ Tick
  BY <1>2 DEF SetFreeze, Tick, rows, ActivationsNumbered
<1> QED BY <1>1, <1>2 DEF IdentityNext

\* A step of the mission leaves every row of the identity as it is.
LEMMA MissionLeavesIdentity ==
  ASSUME MissionWorker \/ Redeploy
  PROVE  UNCHANGED <<terms, rows, frozen, flow, today>>
<1>1. BeginStep \/ GatherRepository \/ GatherActivity \/ ReadKernelState \/ Latch \/ AssembleMemory => IdentityKept
  BY DEF BeginStep, GatherRepository, GatherActivity, ReadKernelState, Latch, AssembleMemory
<1>2. CompleteStep \/ AbortStep \/ MoveTask \/ FinishMission \/ NotifyMission \/ Redeploy => IdentityKept
  BY DEF CompleteStep, AbortStep, MoveTask, FinishMission, NotifyMission, Redeploy
<1>3. \A r \in Roles : PinFaculty(r) \/ Generate(r) \/ Receipt(r) => IdentityKept
  BY DEF PinFaculty, Generate, Receipt
<1>4. IdentityKept
  BY <1>1, <1>2, <1>3 DEF MissionWorker
<1> QED BY <1>4 DEF IdentityKept

-----------------------------------------------------------------------------
(* The whole. *)

LEMMA CognitionStarts == CognitionInit => CognitionInv
<1> SUFFICES ASSUME CognitionInit PROVE CognitionInv
  OBVIOUS
<1>1. IdentityInv
  BY InvInit DEF CognitionInit
<1>2. ActivationsNumbered
  <2> DEFINE n == Len(terms.seed)
             a(v) == [version |-> v, class |-> IF v = 1 THEN "BOOTSTRAP" ELSE "A", task |-> "seed", at |-> 0]
  <2>1. activations = [v \in 1..n |-> a(v)] /\ n \in Nat
    BY IdentityAssumption DEF CognitionInit, IdentityInit
  <2>2. \A v : a(v).version = v
    OBVIOUS
  <2> HIDE DEF n, a
  <2>3. activations = [v \in 1..n |-> activations[v]]
    BY <2>1
  <2>4. Len(activations) = n
    BY <2>1, <2>3, MadeListed
  <2>5. \A v \in 1..n : activations[v].version = v
    BY <2>1, <2>2
  <2> QED BY <2>1, <2>4, <2>5 DEF ActivationsNumbered
<1>3. /\ place \in {To("task", "done"), To("gather", "begin")} /\ journal.latch = None /\ journal.analyst = "none"
      /\ Filed(journal) /\ mission # "COMPLETED" /\ latchRow = None
      /\ stepRows = [s \in MissionSteps |-> "PENDING"]
      /\ sent = {} /\ bindings = {} /\ noticed = {}
  BY DEF CognitionInit, MissionInit, Filed, Entries
<1>4. MissionShape
  BY <1>3, ToIsPlace DEF MissionShape, MissionSteps, StepPhases, TaskPhases
<1>5. LatchWellFormed /\ JournalFollows
  BY <1>3 DEF LatchWellFormed, JournalFollows
<1>6. CallsPlaced /\ CallMade /\ CallBound
  BY <1>3 DEF CallsPlaced, CallMade, CallBound, Ended, MissionSteps, Reached
<1>7. SentPinned /\ BindingsSent /\ CompletedBound /\ NoticeTrue
  BY <1>3 DEF SentPinned, BindingsSent, CompletedBound, NoticeTrue
<1> QED BY <1>1, <1>2, <1>4, <1>5, <1>6, <1>7 DEF CognitionInv, PinnedInv

LEMMA CognitionSteps == CognitionInv /\ [CognitionNext]_cognitionVars => CognitionInv'
<1> SUFFICES ASSUME CognitionInv, [CognitionNext]_cognitionVars PROVE CognitionInv'
  OBVIOUS
<1>0. IdentityInv /\ ActivationsNumbered /\ PinnedInv /\ Listed(activations) /\ today \in Nat
  BY DEF CognitionInv, IdentityInv, IdentityShape
<1>1. CASE IdentityNext /\ UNCHANGED missionVars
  <2>1. IdentityInv' /\ ActivationsNumbered'
    BY <1>0, <1>1, InvStep, ChangesNumber
  <2>2. PinnedInv'
    BY <1>0, <1>1, ChangesLeaveTerms, StandsStill DEF missionVars
  <2> QED BY <2>1, <2>2 DEF CognitionInv
<1>2. CASE MissionWorker \/ Redeploy
  <2>1. UNCHANGED <<terms, versions, activations, candidates, change, consent, flow, today>>
    BY <1>2, MissionLeavesIdentity DEF rows
  <2>2. IdentityInv'
    BY <1>0, <2>1, RowsKept
  <2>3. ActivationsNumbered'
    BY <1>0, <2>1 DEF ActivationsNumbered
  <2>4. PinnedInv'
    <3>1. CASE Redeploy
      BY <1>0, <2>1, <3>1, StandsStill DEF Redeploy
    <3>2. CASE MissionWorker
      <4>1. ASSUME NEW r \in Roles, PinFaculty(r) \/ Generate(r) \/ Receipt(r) PROVE PinnedInv'
        BY <1>0, <4>1, PinKeeps, GenerateKeeps, ReceiptKeeps
      <4> QED BY <1>0, <3>2, <4>1, BeginKeeps, GatherKeeps, LatchKeeps, MemoryKeeps, CompleteKeeps,
                 AbortKeeps, TaskKeeps DEF MissionWorker
    <3> QED BY <1>2, <3>1, <3>2
  <2> QED BY <2>2, <2>3, <2>4 DEF CognitionInv
<1>3. CASE UNCHANGED cognitionVars
  <2>1. IdentityInv'
    BY <1>0, <1>3, RowsKept DEF cognitionVars, identityVars
  <2>2. PinnedInv'
    BY <1>0, <1>3, StandsStill DEF cognitionVars, identityVars, missionVars
  <2> QED BY <1>0, <1>3, <2>1, <2>2 DEF CognitionInv, ActivationsNumbered, cognitionVars, identityVars
<1> QED BY <1>1, <1>2, <1>3 DEF CognitionNext

\* For every plan of identity changes and of the mission, with any number of
\* lost journal entries, redeployments and identity changes under it: all the
\* mission's analyst calls carry the version its latch pinned, its reviewer none,
\* a kept call is bound to that version before its step ends, no binding speaks
\* of a call that was not sent, COMPLETED rests on exactly such a binding, and a
\* queued notice says what the task says (cognition-binding.ts, run.ts,
\* evidence-verify.ts).
THEOREM MissionCognitionIsPinned == CognitionSpec => []CognitionIsPinned
<1>1. CognitionInv => CognitionIsPinned
  BY PinnedIsPinned DEF CognitionInv
<1> QED BY <1>1, CognitionStarts, CognitionSteps, PTL DEF CognitionSpec

\* The identity stays governed beside a mission that reads it: the mission's
\* steps, and the journal entries they lose, leave its history alone.
THEOREM CognitionStaysGoverned == CognitionSpec => []IdentityGoverned
<1>1. CognitionInv => IdentityGoverned
  BY InvGoverns DEF CognitionInv
<1> QED BY <1>1, CognitionStarts, CognitionSteps, PTL DEF CognitionSpec

-----------------------------------------------------------------------------
(* The types of the mission's rows.  A prompt's identity is of a version that *)
(* was activated, because the latch it follows pinned one; a notice is of an  *)
(* end, because the run comes to its notice only with one.                    *)

MissionStatuses == {"none", "RUNNING", "VERIFYING"} \cup Ended
StepStatuses == {"PENDING", "RUNNING"} \cup Ended

LatchKnown == latchRow # None => latchRow.version \in 0..Len(activations)
NotifiesEnd == At("task", "notify") => mission \in Ended

RunTyped ==
  /\ mission \in MissionStatuses /\ NotifiesEnd /\ noticed \subseteq Ended
  /\ stepRows \in [MissionSteps -> StepStatuses]
CallsTyped ==
  /\ facultyPins \subseteq Roles
  /\ \A s \in sent : s.role \in Roles
  /\ \A b \in bindings : b.status \in {"SUCCEEDED", "FAILED"}
DeploymentTyped == facultyOpen \in [Roles -> BOOLEAN] /\ flag \in BOOLEAN

CognitionTypeInv == IdentityTypeInv /\ LatchKnown /\ RunTyped /\ CallsTyped /\ DeploymentTyped

LEMMA CognitionTyped == CognitionInv /\ CognitionTypeInv => CognitionTypeOK
<1> SUFFICES ASSUME CognitionInv, CognitionTypeInv PROVE CognitionTypeOK
  OBVIOUS
<1>1. IdentityTypeOK
  BY InvTyped DEF CognitionTypeInv
<1>2. place.step \in MissionSteps \cup {"task"}
  BY PlacesAre DEF CognitionInv, PinnedInv, MissionShape
<1>3. \A s \in sent : s.role \in Roles /\ s.identity \in 0..Len(activations)
  <2>1. Len(activations) \in Nat
    BY DEF CognitionInv, IdentityInv, IdentityShape, Listed
  <2>2. SentPinned /\ LatchKnown /\ \A s \in sent : s.role \in Roles
    BY DEF CognitionInv, PinnedInv, CognitionTypeInv, CallsTyped
  <2> QED BY <2>1, <2>2 DEF SentPinned, LatchKnown
<1>4. MissionTypeOK
  BY <1>2, <1>3, Zenon DEF MissionTypeOK, CognitionTypeInv, RunTyped, CallsTyped, DeploymentTyped, MissionStatuses, StepStatuses
<1> QED BY <1>1, <1>4 DEF CognitionTypeOK

\* The history of activations only grows.
LEMMA ActivationsGrow ==
  ASSUME IdentityInv, IdentityNext
  PROVE  Len(activations) \in Nat /\ Len(activations') \in Nat /\ Len(activations) <= Len(activations')
<1>0. Len(activations) \in Nat
  BY DEF IdentityInv, IdentityShape, Listed
<1>1. CASE \E t \in Changes : Submit(t) \/ Workflow(t) \/ Answer(t)
  <2> PICK t \in Changes : Submit(t) \/ Workflow(t) \/ Answer(t)
    BY <1>1
  <2>1. CASE Activates(t)
    BY <1>0, <2>1, ActivatesRows
  <2>2. Submit(t) \/ ReadProfile(t) \/ ReadHead(t) \/ Screen(t) \/ EnsureProfile(t) \/ EvaluatePolicy(t)
        => activations' = activations
    BY DEF Submit, ReadProfile, ReadHead, Screen, EnsureProfile, EvaluatePolicy, Reads, rows
  <2>3. InsertProfile(t) \/ Propose(t) \/ RecordPolicy(t) \/ RejectIfHeld(t) \/ ResolveDeadline(t)
        => activations' = activations
    BY DEF InsertProfile, Propose, RecordPolicy, RejectIfHeld, ResolveDeadline
  <2>4. ApproveCandidate(t) \/ Emit(t) \/ Answer(t) => activations' = activations
    BY DEF ApproveCandidate, Emit, Answer
  <2>5. Apply(t) => Activates(t) \/ activations' = activations
    BY DEF Apply, Activates, NewVersion, NewActivation
  <2> QED BY <1>0, <2>1, <2>2, <2>3, <2>4, <2>5 DEF Workflow
<1>2. CASE SetFreeze \/ Tick
  BY <1>0, <1>2 DEF SetFreeze, Tick, rows
<1> QED BY <1>1, <1>2 DEF IdentityNext

LEMMA LatchStaysKnown ==
  ASSUME CognitionInv, IdentityTypeInv, LatchKnown, MissionWorker
  PROVE  LatchKnown'
<1>1. activations' = activations
  BY MissionLeavesIdentity DEF rows
<1>2. CASE UNCHANGED latchRow
  BY <1>1, <1>2 DEF LatchKnown
<1>3. CASE Latch /\ latchRow' # latchRow
  <2>1. latchRow' = NewLatch /\ (flag => activations # <<>>)
    BY <1>3 DEF Latch
  <2>2. /\ Listed(activations) /\ Len(versions) = Len(activations)
        /\ \A i \in 1..Len(activations) : activations[i].version \in 1..Len(versions)
    BY DEF CognitionInv, IdentityInv, IdentityShape, IdentityTypeInv, HistoryTyped, HeadVersion
  <2>3. CASE flag
    <3>1. Len(activations) \in Nat /\ Len(activations) # 0
      <4>1. Len(activations) = 0 => activations = <<>>
        BY <2>2 DEF Listed
      <4> QED BY <2>1, <2>2, <2>3, <4>1 DEF Listed
    <3>2. CurrentVersion \in 0..Len(activations)
      BY <2>2, <3>1 DEF CurrentVersion
    <3>3. NewLatch.version = CurrentVersion
      BY <2>3 DEF NewLatch
    <3> QED BY <1>1, <2>1, <3>2, <3>3 DEF LatchKnown
  <2>4. CASE ~flag
    <3>1. NewLatch.version = 0 /\ Len(activations) \in Nat
      BY <2>2, <2>4 DEF NewLatch, Listed
    <3> QED BY <1>1, <2>1, <3>1 DEF LatchKnown
  <2> QED BY <2>3, <2>4
<1>4. latchRow' = latchRow \/ Latch
  <2>1. BeginStep \/ GatherRepository \/ GatherActivity \/ ReadKernelState \/ AssembleMemory => latchRow' = latchRow
    BY DEF BeginStep, GatherRepository, GatherActivity, ReadKernelState, AssembleMemory
  <2>2. CompleteStep \/ AbortStep \/ MoveTask \/ FinishMission \/ NotifyMission => latchRow' = latchRow
    BY DEF CompleteStep, AbortStep, MoveTask, FinishMission, NotifyMission
  <2>3. \A r \in Roles : PinFaculty(r) \/ Generate(r) \/ Receipt(r) => latchRow' = latchRow
    BY DEF PinFaculty, Generate, Receipt
  <2> QED BY <2>1, <2>2, <2>3 DEF MissionWorker
<1> QED BY <1>2, <1>3, <1>4

\* Only the two steps that decide the task bring the run to its notice.
LEMMA NoticeFollowsEnd ==
  ASSUME place \in Places, MissionWorker, ~MoveTask, ~FinishMission
  PROVE  UNCHANGED mission /\ (place' = place \/ place'.phase # "notify")
<1>1. \A s, f : To(s, f).phase = f
  BY DEF To
<1>2. ToPins.phase # "notify" /\ ToLatch.phase # "notify" /\ ToMemory.phase # "notify"
  BY <1>1 DEF ToPins, ToLatch, ToMemory
<1>3. ASSUME NEW n, NEW e, Record(n, e), n.phase # "notify" PROVE place' = place \/ place'.phase # "notify"
  BY <1>3, RecordCases
<1>4. CASE BeginStep
  <2>1. PICK f \in {"abort", "complete", "work"} : Record(To(place.step, f), journal)
    BY <1>4 DEF BeginStep
  <2> QED BY <1>1, <1>3, <1>4, <2>1 DEF BeginStep
<1>5. CASE GatherRepository \/ GatherActivity \/ ReadKernelState
  BY <1>1, <1>3, <1>5 DEF GatherRepository, GatherActivity, ReadKernelState
<1>6. CASE Latch \/ AssembleMemory
  BY <1>1, <1>2, <1>3, <1>6 DEF Latch, AssembleMemory
<1>7. CASE AbortStep \/ NotifyMission
  BY <1>1, <1>3, <1>7 DEF AbortStep, NotifyMission
<1>8. CASE CompleteStep
  <2>1. PICK n : Record(n, journal) /\ n = (CASE place.step = "gather" -> ToPins
                [] place.step = "analyst" -> To("reviewer", "begin")
                [] place.step = "reviewer" -> To("reconcile", "begin")
                [] place.step = "reconcile" ->
                     IF Accepts(journal.analyst, journal.reviewer) THEN To("task", "verify") ELSE To("task", "fail"))
    BY <1>8 DEF CompleteStep
  <2>2. place.step \in {"gather", "analyst", "reviewer", "reconcile"}
    BY <1>8, PlacesAre DEF CompleteStep, TaskPhases, MissionSteps
  <2>3. n.phase # "notify"
    BY <1>1, <1>2, <2>1, <2>2
  <2> QED BY <1>3, <1>8, <2>1, <2>3 DEF CompleteStep
<1>9. ASSUME NEW r \in Roles, PinFaculty(r) \/ Generate(r) \/ Receipt(r)
      PROVE  UNCHANGED mission /\ (place' = place \/ place'.phase # "notify")
  <2>1. CASE PinFaculty(r)
    BY <1>1, <1>2, <1>3, <2>1 DEF PinFaculty
  <2>2. CASE Generate(r)
    BY <1>1, <1>3, <2>2 DEF Generate
  <2>3. CASE Receipt(r)
    BY <1>1, <1>3, <2>3 DEF Receipt, AfterReceipt
  <2> QED BY <1>9, <2>1, <2>2, <2>3
<1> QED BY <1>4, <1>5, <1>6, <1>7, <1>8, <1>9 DEF MissionWorker

LEMMA RunStaysTyped ==
  ASSUME place \in Places, RunTyped, MissionWorker
  PROVE  RunTyped'
<1>1. mission' \in MissionStatuses /\ NotifiesEnd'
  <2>1. CASE MoveTask
    <3>1. mission' \in {"VERIFYING", "FAILED"} /\ (At("task", "fail") => mission' = "FAILED")
      BY <2>1 DEF MoveTask, At
    <3>2. At("task", "notify")' => At("task", "fail")
      BY <2>1 DEF MoveTask, Record, At, To
    <3> QED BY <3>1, <3>2 DEF MissionStatuses, NotifiesEnd, Ended
  <2>2. CASE FinishMission
    <3>1. mission' \in Ended
      BY <2>2 DEF FinishMission, Ended
    <3> QED BY <3>1 DEF MissionStatuses, NotifiesEnd
  <2>3. CASE ~MoveTask /\ ~FinishMission
    <3>1. UNCHANGED mission /\ (place' = place \/ place'.phase # "notify")
      BY <2>3, NoticeFollowsEnd
    <3> QED BY <3>1 DEF RunTyped, NotifiesEnd, At
  <2> QED BY <2>1, <2>2, <2>3
<1>2. stepRows' \in [MissionSteps -> StepStatuses]
  <2>1. \A x, v : v \in StepStatuses => [stepRows EXCEPT ![x] = v] \in [MissionSteps -> StepStatuses]
    BY DEF RunTyped
  <2>2. "RUNNING" \in StepStatuses /\ "COMPLETED" \in StepStatuses /\ "FAILED" \in StepStatuses
    BY DEF StepStatuses, Ended
  <2>3. CASE BeginStep \/ CompleteStep \/ AbortStep
    BY <2>1, <2>2, <2>3 DEF BeginStep, CompleteStep, AbortStep
  <2>4. GatherRepository \/ GatherActivity \/ ReadKernelState \/ Latch \/ AssembleMemory => stepRows' = stepRows
    BY DEF GatherRepository, GatherActivity, ReadKernelState, Latch, AssembleMemory
  <2>5. MoveTask \/ FinishMission \/ NotifyMission => stepRows' = stepRows
    BY DEF MoveTask, FinishMission, NotifyMission
  <2>6. \A r \in Roles : PinFaculty(r) \/ Generate(r) \/ Receipt(r) => stepRows' = stepRows
    BY DEF PinFaculty, Generate, Receipt
  <2> QED BY <2>3, <2>4, <2>5, <2>6 DEF MissionWorker, RunTyped
<1>3. noticed' \subseteq Ended
  <2>1. CASE NotifyMission
    <3>1. mission \in Ended
      BY <2>1 DEF NotifyMission, RunTyped, NotifiesEnd
    <3>2. noticed' = noticed \/ noticed' = noticed \cup {mission}
      BY <2>1, Zenon DEF NotifyMission
    <3> QED BY <3>1, <3>2 DEF RunTyped
  <2>2. BeginStep \/ GatherRepository \/ GatherActivity \/ ReadKernelState \/ Latch \/ AssembleMemory => noticed' = noticed
    BY DEF BeginStep, GatherRepository, GatherActivity, ReadKernelState, Latch, AssembleMemory
  <2>3. CompleteStep \/ AbortStep \/ MoveTask \/ FinishMission => noticed' = noticed
    BY DEF CompleteStep, AbortStep, MoveTask, FinishMission
  <2>4. \A r \in Roles : PinFaculty(r) \/ Generate(r) \/ Receipt(r) => noticed' = noticed
    BY DEF PinFaculty, Generate, Receipt
  <2> QED BY <2>1, <2>2, <2>3, <2>4 DEF MissionWorker, RunTyped
<1> QED BY <1>1, <1>2, <1>3 DEF RunTyped

LEMMA CallsStayTyped ==
  ASSUME CallsTyped, MissionWorker
  PROVE  CallsTyped'
<1>1. CASE UNCHANGED <<facultyPins, sent, bindings>>
  BY <1>1 DEF CallsTyped
<1>2. ASSUME NEW r \in Roles, PinFaculty(r) PROVE CallsTyped'
  <2>1. facultyPins' \subseteq facultyPins \cup {r} /\ UNCHANGED <<sent, bindings>>
    BY <1>2 DEF PinFaculty
  <2> QED BY <2>1 DEF CallsTyped
<1>3. ASSUME NEW r \in Roles, Generate(r) PROVE CallsTyped'
  <2>1. UNCHANGED <<facultyPins, bindings>>
    BY <1>3 DEF Generate
  <2>2. PICK q : q.role = r /\ sent' \subseteq sent \cup {q}
    <3> DEFINE q == [role |-> r, identity |-> Carried(r), memory |-> journal.memory]
    <3>1. q.role = r
      OBVIOUS
    <3>2. sent' \subseteq sent \cup {q}
      BY <1>3 DEF Generate
    <3> QED BY <3>1, <3>2
  <2> QED BY <2>1, <2>2 DEF CallsTyped
<1>4. ASSUME NEW r \in Roles, Receipt(r) PROVE CallsTyped'
  <2>1. bindings' \subseteq bindings \cup {Binding} /\ UNCHANGED <<facultyPins, sent>>
    BY <1>4 DEF Receipt
  <2>2. Binding.status \in {"SUCCEEDED", "FAILED"}
    BY DEF Binding
  <2> QED BY <2>1, <2>2 DEF CallsTyped
<1>5. BeginStep \/ GatherRepository \/ GatherActivity \/ ReadKernelState \/ Latch \/ AssembleMemory
      => UNCHANGED <<facultyPins, sent, bindings>>
  BY DEF BeginStep, GatherRepository, GatherActivity, ReadKernelState, Latch, AssembleMemory
<1>6. CompleteStep \/ AbortStep \/ MoveTask \/ FinishMission \/ NotifyMission => UNCHANGED <<facultyPins, sent, bindings>>
  BY DEF CompleteStep, AbortStep, MoveTask, FinishMission, NotifyMission
<1> QED BY <1>1, <1>2, <1>3, <1>4, <1>5, <1>6 DEF MissionWorker

\* A run neither changes its deployment nor forgets a lost journal entry.
LEMMA WorkerLeavesDeployment ==
  ASSUME MissionWorker, lost \in 0..MaxLost
  PROVE  UNCHANGED <<facultyOpen, flag>> /\ lost' \in 0..MaxLost
<1>0. ASSUME NEW n, NEW e, Record(n, e) PROVE lost' \in 0..MaxLost
  BY <1>0, IdentityAssumption DEF Record
<1>1. BeginStep \/ GatherRepository \/ GatherActivity \/ ReadKernelState \/ Latch \/ AssembleMemory
      => UNCHANGED <<facultyOpen, flag>> /\ \E n, e : Record(n, e)
  BY DEF BeginStep, GatherRepository, GatherActivity, ReadKernelState, Latch, AssembleMemory
<1>2. CompleteStep \/ AbortStep \/ MoveTask \/ FinishMission \/ NotifyMission
      => UNCHANGED <<facultyOpen, flag>> /\ \E n, e : Record(n, e)
  BY DEF CompleteStep, AbortStep, MoveTask, FinishMission, NotifyMission
<1>3. \A r \in Roles : PinFaculty(r) \/ Generate(r) \/ Receipt(r)
      => UNCHANGED <<facultyOpen, flag>> /\ \E n, e : Record(n, e)
  BY DEF PinFaculty, Generate, Receipt, AfterReceipt
<1> QED BY <1>0, <1>1, <1>2, <1>3 DEF MissionWorker

LEMMA CognitionTypesStart == CognitionInit => CognitionTypeInv
<1> SUFFICES ASSUME CognitionInit PROVE CognitionTypeInv
  OBVIOUS
<1>1. IdentityTypeInv /\ terms \in IdentityPlans
  BY TypedInit DEF CognitionInit, IdentityInit
<1>2. RunTyped
  <2>1. mission \in {"none", "RUNNING"} /\ noticed = {} /\ place.phase # "notify"
    BY DEF CognitionInit, MissionInit, To
  <2>2. stepRows \in [MissionSteps -> StepStatuses]
    BY DEF CognitionInit, MissionInit, StepStatuses
  <2> QED BY <2>1, <2>2 DEF RunTyped, MissionStatuses, NotifiesEnd, At
<1>3. LatchKnown /\ CallsTyped
  BY DEF CognitionInit, MissionInit, LatchKnown, CallsTyped
<1>4. DeploymentTyped
  <2>1. flag \in BOOLEAN
    BY <1>1, MissionFlag, Zenon DEF CognitionInit, MissionInit, Plan
  <2>2. facultyOpen \in [Roles -> BOOLEAN]
    BY DEF CognitionInit, MissionInit
  <2> QED BY <2>1, <2>2 DEF DeploymentTyped
<1> QED BY <1>1, <1>2, <1>3, <1>4 DEF CognitionTypeInv

LEMMA CognitionTypesStep ==
  ASSUME CognitionInv, CognitionTypeInv, [CognitionNext]_cognitionVars
  PROVE  CognitionTypeInv'
<1>0. /\ IdentityInv /\ IdentityTypeInv /\ LatchKnown /\ RunTyped /\ CallsTyped /\ DeploymentTyped
      /\ frozen \in BOOLEAN /\ today \in Nat /\ lost \in 0..MaxLost
  BY Zenon DEF CognitionInv, CognitionTypeInv, IdentityTypeInv
<1>6. place \in Places
  BY DEF CognitionInv, PinnedInv, MissionShape
<1>1. ASSUME UNCHANGED missionVars PROVE RunTyped' /\ CallsTyped' /\ DeploymentTyped' /\ UNCHANGED latchRow
  <2>1. UNCHANGED <<place, mission, stepRows, facultyOpen, facultyPins, flag, latchRow, sent, bindings, noticed>>
    BY <1>1 DEF missionVars
  <2> QED BY <1>0, <2>1, Zenon DEF RunTyped, NotifiesEnd, At, CallsTyped, DeploymentTyped
<1>2. CASE IdentityNext /\ UNCHANGED missionVars
  <2>1. IdentityTypeInv'
    BY <1>0, <1>2, TypedStep
  <2>2. LatchKnown'
    BY <1>0, <1>1, <1>2, ActivationsGrow DEF LatchKnown
  <2> QED BY <1>1, <1>2, <2>1, <2>2 DEF CognitionTypeInv
<1>3. CASE MissionWorker
  <2>1. UNCHANGED <<terms, rows, frozen, today>>
    BY <1>3, MissionLeavesIdentity
  <2>2. UNCHANGED <<facultyOpen, flag>> /\ lost' \in 0..MaxLost
    BY <1>0, <1>3, WorkerLeavesDeployment
  <2>3. IdentityTypeInv'
    BY <1>0, <2>1, <2>2, RowsTyped
  <2>4. DeploymentTyped'
    BY <1>0, <2>2, Zenon DEF DeploymentTyped
  <2> QED BY <1>0, <1>6, <1>3, <2>3, <2>4, LatchStaysKnown, RunStaysTyped, CallsStayTyped DEF CognitionTypeInv
<1>4. CASE Redeploy
  <2>1. UNCHANGED <<terms, rows, frozen, today, lost, place, mission, stepRows, facultyPins, latchRow, sent, bindings, noticed>>
    BY <1>4, MissionLeavesIdentity DEF Redeploy
  <2>2. IdentityTypeInv'
    BY <1>0, <2>1, RowsTyped
  <2>3. LatchKnown' /\ RunTyped' /\ CallsTyped'
    BY <1>0, <2>1, Zenon DEF rows, LatchKnown, RunTyped, NotifiesEnd, At, CallsTyped
  <2>4. DeploymentTyped'
    <3>1. CASE flag' = ~flag /\ UNCHANGED facultyOpen
      BY <1>0, <3>1, Zenon DEF DeploymentTyped
    <3>2. CASE UNCHANGED flag /\ \E r \in Roles : facultyOpen' = [facultyOpen EXCEPT ![r] = ~@]
      <4>1. PICK r \in Roles : facultyOpen' = [facultyOpen EXCEPT ![r] = ~facultyOpen[r]]
        BY <3>2
      <4>2. PICK b \in BOOLEAN : b = ~facultyOpen[r]
        OBVIOUS
      <4>3. facultyOpen' \in [Roles -> BOOLEAN]
        BY <1>0, <4>1, <4>2 DEF DeploymentTyped
      <4> QED BY <1>0, <3>2, <4>3, Zenon DEF DeploymentTyped
    <3> QED BY <1>4, <3>1, <3>2 DEF Redeploy
  <2> QED BY <2>2, <2>3, <2>4 DEF CognitionTypeInv
<1>5. CASE UNCHANGED cognitionVars
  <2>1. UNCHANGED identityVars /\ UNCHANGED missionVars
    BY <1>5 DEF cognitionVars
  <2>2. IdentityTypeInv'
    BY <1>0, <2>1, TypedStep
  <2>3. LatchKnown'
    BY <1>0, <1>1, <2>1 DEF LatchKnown, identityVars
  <2> QED BY <1>1, <2>1, <2>2, <2>3 DEF CognitionTypeInv
<1> QED BY <1>2, <1>3, <1>4, <1>5 DEF CognitionNext

\* The rows of the identity and of the mission are well formed in every
\* behaviour: each version is activated once and under its own number, a prompt
\* names a version that was activated, and a notice is of a task that has ended.
THEOREM CognitionTypes == CognitionSpec => []CognitionTypeOK
<1>1. CognitionInit => CognitionInv /\ CognitionTypeInv
  BY CognitionStarts, CognitionTypesStart
<1>2. CognitionInv /\ CognitionTypeInv /\ [CognitionNext]_cognitionVars => CognitionInv' /\ CognitionTypeInv'
  BY CognitionSteps, CognitionTypesStep
<1> QED BY <1>1, <1>2, CognitionTyped, PTL DEF CognitionSpec
=============================================================================
